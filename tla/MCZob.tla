------------------------------- MODULE MCZob -------------------------------
(* Two clients, and a choice of the texts they may send.                   *)
EXTENDS ZobRefinement, TLC

CONSTANTS Keys, Values, Broken, c1, c2

MCWord == Verbs \cup {"k", "j", "v", "w"}
MCVerbOf == [w \in MCWord |-> IF w \in Verbs THEN w ELSE NoVerb]

Written(verb, values) == [verb : {verb}, key : Keys, payload : values]
Named(verb) == [verb : {verb}, key : Keys, payload : {<<>>}]

\* Values that differ in whether an answer shows them whole, and in whether they
\* fit the buffer they are read in.
V1 == <<"v">>
W2 == <<"w", SP, "w">>
X4 == <<"v", "v", "v", "v">>
OneKey == {<<"k">>}
TwoKeys == {<<"k">>, <<"j">>}
Short == {V1, W2}
All == {V1, W2, X4}
Few == {V1}
Whole == {<<"w", SP, "w">>}

MCCommands ==
    Written("new", Values) \cup Written("update", Values)
        \cup Named("read") \cup Named("delete")
        \cup {[verb |-> "stop", key |-> <<>>, payload |-> <<>>]}

\* Texts that are no command: refused, asserted on, faulty, undecided, without effect.
BrokenTexts ==
    {<<"k", SP, "v", LF>>, <<"new", SP, "k", SP, "v">>, <<"delete", SP, LF>>,
     <<"read">>, <<"read", SP, "k">>, <<"clone", SP, "k", LF>>, <<>>}
NoTexts == {}

MCInputs == {Render(m) : m \in MCCommands} \cup Broken

MCClient == {c1, c2}
Symmetry == Permutations(MCClient)
=============================================================================
