----------------------------- MODULE MCStrings -----------------------------
(* Texts of one letter each, so that bytes of an earlier text are told from *)
(* those of the last, of every length up to MaxLen.                         *)
EXTENDS Strings, TLC

CONSTANTS MaxLen, n1, n2

MCWord == Verbs \cup {"k", "v"}
MCVerbOf == [w \in MCWord |-> IF w \in Verbs THEN w ELSE NoVerb]

MCInputs == {[i \in 1 .. l |-> w] : l \in 1 .. MaxLen, w \in {"k", "v"}}
MCNeedles ==
    {<<"k">>, <<"v">>, <<"k", "k">>, <<"k", "v">>, <<"v", "v", "k">>, <<"v", "v", "v", "v">>}
MCName == {n1, n2}
Symmetry == Permutations(MCName)
=============================================================================
