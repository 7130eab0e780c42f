--------------------------- MODULE ZobRefinement ---------------------------
(***************************************************************************)
(* ZobSystem implements KVService: the map is what the open store shows,   *)
(* or the file while no server runs, and a restart would start from the    *)
(* file; a call is read off the text a client has sent, the session it has *)
(* been read in, and the answer on its way back.                           *)
(***************************************************************************)
EXTENDS ZobSystem

Nothing == EmptyMessage

\* The command a text starts with, read by its rendering and not by the parser.
Starts(t, m) == LET line == Render(m) IN Len(line) <= Len(t) /\ SubSeq(t, 1, Len(line)) = line
Meaning(t) ==
    IF \E m \in Commands : Starts(t, m) THEN CHOOSE m \in Commands : Starts(t, m) ELSE Nothing

\* A text that ends the process, is never decided, is refused, or asks for nothing.
NotPerformed(t) ==
    LET r == Pass(Write(NewBuilder, t))
    IN  t = <<>> \/ r.fault # "none" \/ ~LoopEnds(r) \/ r.bad \/ r.request.verb = NoVerb

\* What the refinement is about: texts that keep their last token in the buffer, of which
\* those that start with no command are not performed as one; and no verb but the two that
\* are synced is durable, nor these where a sync may fail unnoticed.
ASSUME RefinementAssumption ==
    /\ \A t \in Inputs : ~OnBoundary(t) /\ (Meaning(t) = Nothing => NotPerformed(t))
    /\ Durable \subseteq {"new", "update"}
    /\ IoMayFail => Durable = {}

InSession(c, where) == c = session /\ pc \in where

CallOf(c) ==
    IF outbox[c] # NoAnswer
    THEN [phase |-> "told", ans |-> outbox[c]]
    ELSE IF InSession(c, {"sync", "answer"})
    THEN [phase |-> "done", req |-> Meaning(rb.buf), ans |-> answer]
    ELSE IF InSession(c, {"parse", "process"})
    THEN [phase |-> "asked", req |-> Meaning(rb.buf)]
    ELSE IF inbox[c] # <<>>
    THEN [phase |-> "asked", req |-> Meaning(inbox[c])]
    ELSE [phase |-> "idle"]

Service ==
    INSTANCE KVService WITH
        Request <- Commands \cup {Nothing},
        MayRefuse <- IoMayFail,
        kv <- IF open THEN cache ELSE disk,
        lasting <- disk,
        call <- [c \in Client |-> CallOf(c)]

\* Every command takes effect at most once, on the map its predecessors left, for
\* the client that asked it, and is answered accordingly; a restart falls back on
\* a map that holds every answered command of a durable verb.
Implements == Service!Spec
=============================================================================
