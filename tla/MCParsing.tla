----------------------------- MODULE MCParsing -----------------------------
(* Every text of up to ShortLen tokens, and those of up to LongLen tokens   *)
(* that start with a word and go on with one word and the separators.      *)
EXTENDS Parsing, FiniteSets

CONSTANTS ShortLen, LongLen

MCWord == Verbs \cup {"newest", "k", "v"}
MCVerbOf == [w \in MCWord |-> IF w \in Verbs THEN w ELSE IF w = "newest" THEN "new" ELSE NoVerb]

SeqsUpTo(S, n) == UNION {[1 .. l -> S] : l \in 0 .. n}

MCTexts ==
    SeqsUpTo(MCWord \cup {SP, LF}, ShortLen)
        \cup {<<w>> \o t : w \in MCWord \ {"clone", "v"},
                          t \in SeqsUpTo({"k", SP, LF}, LongLen - 1)}

MCNames == {<<"k">>, <<"k", "k">>}
MCLines == {<<"k">>, <<"k", SP, "k">>, <<"k", "k">>}

MCSamples ==
    [verb : {"new", "update"}, key : MCNames, payload : MCLines]
        \cup [verb : {"read", "delete"}, key : MCLines, payload : {<<>>}]
        \cup [verb : {"stop"}, key : {<<>>}, payload : {<<>>}]
=============================================================================
