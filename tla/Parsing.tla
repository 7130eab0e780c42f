------------------------------ MODULE Parsing ------------------------------
(***************************************************************************)
(* One call of zob_request_builder_parse as the server makes it, on a new  *)
(* builder: the loop over Pass, and the three ways out of it (a message, a *)
(* bad request, the end of the process).                                   *)
(***************************************************************************)
EXTENDS RequestBuilder

CONSTANTS
    Texts,      \* the texts that may be read from a client
    Samples     \* messages whose rendering Texts is searched for

ASSUME ParsingAssumption ==
    /\ Texts \subseteq Text
    /\ Samples \subseteq {m \in Message : IsCommand(m)}

VARIABLES
    text,       \* the argument p_text
    rb,         \* the builder
    phase       \* in the loop, returned, or the process is gone

vars == <<text, rb, phase>>

TypeOK ==
    /\ text \in Text
    /\ rb \in Builder
    /\ phase \in {"loop", "returned", "dead"}

Entered(r) == IF r.fault # "none" THEN "dead" ELSE "loop"

\* The call: the text is written in a new builder's buffer.
Init ==
    /\ text \in Texts
    /\ rb = Write(NewBuilder, text)
    /\ phase = Entered(rb)

\* One pass.  When no verb can be told yet the pass changes nothing.
Iterate ==
    /\ phase = "loop"
    /\ rb' = Pass(rb)
    /\ phase' = IF LoopEnds(rb') /\ rb'.fault = "none" THEN "returned" ELSE Entered(rb')
    /\ UNCHANGED text

Next == Iterate

Spec == Init /\ [][Next]_vars

\* The parse loop is straight-line code: it runs as long as it has not ended.
FairSpec == Spec /\ WF_vars(Iterate)
-----------------------------------------------------------------------------
Accepted == phase = "returned" /\ ~rb.bad

\* Some rendering of a sample starts the text.
StartsWith(m) ==
    LET line == Render(m)
    IN  Len(line) <= Len(text) /\ SubSeq(text, 1, Len(line)) = line

\* The message of a text whose first line is a README command is that command,
\* whatever follows on later lines, unless the text hits the chunk boundary
\* (find_verb and the handlers search the whole text, not the first line).
FirstLineDecides ==
    \A m \in Samples :
        StartsWith(m) /\ ~OnBoundary(text) /\ phase # "loop" =>
            Accepted /\ rb.request = m

\* What new and update accept is a key that read and delete can name, and a
\* value of one line: an accepted write parses back from its rendering
\* (parse_new looks for its space and its line feed independently).
WritesAreNameable ==
    Accepted /\ rb.verb \in {"new", "update"} => IsCommand(rb.request)

\* A call that returns a request returns it complete: the server's read loop
\* never asks a client for more text (need_moar of zob_request_builder_parse).
NeverAsksForMore == Accepted => ~rb.needMoar

\* The process ends in the parser only on an empty text, on a text cut before
\* its line feed, on a reversed or empty field, or at the chunk boundary: a
\* complete line of separated non-empty words never ends it.
CleanLine(t) ==
    /\ t # <<>> /\ t[1] \in Word /\ t[Len(t)] = LF
    /\ \E i \in DOMAIN t : t[i] = SP
    /\ \A i \in 1 .. Len(t) - 1 :
        /\ t[i] \in Word \cup {SP}
        /\ t[i] = SP => t[i + 1] \in Word
CleanLinesAreSafe == CleanLine(text) /\ ~OnBoundary(text) => phase # "dead"

HasSeparator == \E p \in 0 .. Len(rb.buf) : At(rb.buf, p) \in {SP, LF}

\* Where a handler searches, the bounds are in order and inside of the text: the loops
\* of buffer.c stop at the last position only if they start before it (buffer.c:241).
SearchesAreBounded ==
    phase = "loop" => LET s == Sought(rb) IN s.first <= s.last /\ s.last <= Len(s.buf)

\* A command cut before its line feed, as a read that returns a first part delivers it,
\* is never performed on the part of its key or value that has come: nothing without a
\* line feed is accepted but a stop, and a read that names neither verb nor key.
CutTextsDoNothing ==
    Accepted /\ (\A i \in DOMAIN text : text[i] # LF) =>
        rb.request \in {EmptyMessage, [EmptyMessage EXCEPT !.verb = "stop"]}

\* A text with a space or a line feed is decided: the loop ends.
SeparatedTextsReturn == phase = "loop" /\ HasSeparator ~> phase # "loop"

\* request-builder.c says of a text without separator that there is not enough
\* data to decide; the call would have to return for more data to come.
EveryCallReturns == phase = "loop" ~> phase # "loop"
=============================================================================
