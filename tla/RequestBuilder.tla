--------------------------- MODULE RequestBuilder ---------------------------
(***************************************************************************)
(* The request parser, src/src/request-builder.c: the object the server    *)
(* creates for every session, fills with the text it has read and asks for *)
(* a message (verb, key, payload).                                         *)
(*                                                                         *)
(* A text is a sequence of tokens: words, spaces and line feeds.  Adjacent *)
(* words make one longer word, which starts with the first of them.  Every *)
(* token counts one in lengths.  Positions are the C ones, from 0.         *)
(***************************************************************************)
EXTENDS Integers, Sequences

CONSTANTS
    Word,       \* the words texts are made of, the verbs among them
    SP, LF,     \* the two separators
    NUL,        \* what the buffer holds past the text
    VerbOf,     \* the verb a word starts with, or NoVerb
    Chunk       \* chunk_size of the buffer that holds the text

NoVerb == ""

\* gpc_verbs, in the order they are tried; no verb is a prefix of another.
Verbs == {"new", "clone", "read", "delete", "update", "stop"}

ASSUME RbAssumption ==
    /\ Verbs \subseteq Word
    /\ {SP, LF, NUL} \cap Word = {}
    /\ SP # LF /\ SP # NUL /\ LF # NUL
    /\ VerbOf \in [Word -> Verbs \cup {NoVerb}]
    /\ \A v \in Verbs : VerbOf[v] = v
    /\ Chunk \in Nat \ {0}

Token == Word \cup {SP, LF, NUL}
Text == Seq(Word \cup {SP, LF})

\* How the program may leave a call: not at all, by a failed assert, by the
\* "Empty write" error of zob_buffer_write, which exits.
Faults == {"none", "abort", "exit"}

Message == [verb : Verbs \cup {NoVerb}, key : Seq(Token), payload : Seq(Token)]

Builder ==
    [buf : Seq(Token), verb : Verbs \cup {NoVerb}, hasVerb : BOOLEAN,
     bad : BOOLEAN, headerParsed : BOOLEAN, needMoar : BOOLEAN,
     first : Nat, last : Nat, current : Nat,
     request : Message, fault : Faults]

EmptyMessage == [verb |-> NoVerb, key |-> <<>>, payload |-> <<>>]

NewBuilder ==
    [buf |-> <<>>, verb |-> NoVerb, hasVerb |-> FALSE,
     bad |-> FALSE, headerParsed |-> FALSE, needMoar |-> TRUE,
     first |-> 0, last |-> 0, current |-> 0,
     request |-> EmptyMessage, fault |-> "none"]

-----------------------------------------------------------------------------
(* The text in its buffer.                                                 *)

\* zob_string_write on a fresh string: growing the buffer by one more chunk to
\* place the final NUL carries over whole chunks counted from the second
\* element, so that a text one longer than whole chunks loses its last token.
OnBoundary(text) == Len(text) > 1 /\ (Len(text) - 1) % Chunk = 0

\* Mutant: the chunks gained by growing are not cleared.
KeptUncleared(text) == IF OnBoundary(text) THEN [text EXCEPT ![Len(text)] = ""] ELSE text

Kept(text) == IF OnBoundary(text) THEN [text EXCEPT ![Len(text)] = NUL] ELSE text

\* The write of the text by zob_request_builder_parse; writing nothing is an error.
Write(r, text) ==
    IF text = <<>>
    THEN [r EXCEPT !.fault = "exit"]
    ELSE [r EXCEPT !.buf = Kept(text), !.last = Len(text)]

At(buf, p) == IF p < Len(buf) THEN buf[p + 1] ELSE NUL

Hits(r, needle) == {p \in r.first .. r.last : At(r.buf, p) = needle}
Finds(r, needle) == Hits(r, needle) # {}
Least(S) == CHOOSE p \in S : \A q \in S : p <= q
Position(r, needle) == Least(Hits(r, needle))

\* Mutant: an empty slice is no error.
IsSliceOrEmpty(from, to) == from <= to

\* Mutant: a slice of one is taken for an empty one.
IsLongSlice(from, to) == from + 1 < to

\* zob_string_slice_get of [from, to): an empty or reversed slice is an error.
IsSlice(from, to) == from < to

\* Mutant: the slice stops one short.
ShortSlice(buf, from, to) == SubSeq(buf, from + 1, to - 1)

Slice(buf, from, to) == SubSeq(buf, from + 1, to)

-----------------------------------------------------------------------------
(* One pass of the parse loop: look for a verb, then run its handler.      *)

VerbAt(buf) == IF Len(buf) > 0 /\ buf[1] \in Word THEN VerbOf[buf[1]] ELSE NoVerb

\* The first space anywhere in the text ends the verb, or else the first line feed.
Separator(r) == IF Finds(r, SP) THEN Position(r, SP) ELSE Position(r, LF)

\* Mutant: the handlers start one byte late.
FindVerbLate(r) ==
    IF ~Finds(r, SP) /\ ~Finds(r, LF)
    THEN r
    ELSE LET cut == Separator(r) + 1
             v == VerbAt(r.buf)
         IN  IF v = NoVerb
             THEN [r EXCEPT !.current = cut, !.bad = TRUE, !.needMoar = FALSE]
             ELSE [r EXCEPT !.current = cut, !.first = cut + 1, !.verb = v, !.hasVerb = TRUE]

FindVerb(r) ==
    IF ~Finds(r, SP) /\ ~Finds(r, LF)
    THEN r
    ELSE LET cut == Separator(r) + 1
             v == VerbAt(r.buf)
         IN  IF v = NoVerb
             THEN [r EXCEPT !.current = cut, !.bad = TRUE, !.needMoar = FALSE]
             ELSE [r EXCEPT !.current = cut, !.first = cut, !.verb = v, !.hasVerb = TRUE]

ParseHeader(r) ==
    IF r.headerParsed
    THEN r
    ELSE IF r.verb = "stop"
    THEN [r EXCEPT !.current = 0, !.request.verb = r.verb]
    ELSE IF ~Finds(r, LF)
    THEN [r EXCEPT !.current = 0]
    ELSE LET lf == Position(r, LF)
         IN  IF ~IsSlice(r.first, lf)
             THEN [r EXCEPT !.current = 0, !.request.verb = r.verb, !.fault = "exit"]
             ELSE [r EXCEPT !.current = 0, !.request.verb = r.verb,
                            !.request.key = Slice(r.buf, r.first, lf),
                            !.first = 1, !.headerParsed = TRUE]

ParseNew(r) ==
    IF ~Finds(r, LF)
    THEN [r EXCEPT !.fault = "abort"]
    ELSE IF ~Finds(r, SP)
    THEN [r EXCEPT !.needMoar = FALSE, !.bad = TRUE]
    ELSE LET lf == Position(r, LF)
             sp == Position(r, SP)
         IN  IF ~IsSlice(r.first, sp) \/ ~IsSlice(sp + 1, lf)
             THEN [r EXCEPT !.request.verb = r.verb, !.fault = "exit"]
             ELSE [r EXCEPT !.request = [verb |-> r.verb,
                                         key |-> Slice(r.buf, r.first, sp),
                                         payload |-> Slice(r.buf, sp + 1, lf)],
                            !.needMoar = FALSE]

ParseUpdate(r) == ParseNew(r)

ParseClone(r) == [r EXCEPT !.bad = TRUE]

\* Mutant: need_moar is left set.
ParseReadOpen(r) == ParseHeader(r)

ParseRead(r) == [ParseHeader(r) EXCEPT !.needMoar = FALSE]

\* Mutant: without the assertion the key runs to the end of the text.
ParseDeleteUnasserted(r) ==
    LET to == IF Finds(r, LF) THEN Position(r, LF) ELSE r.last
    IN  IF ~IsSlice(r.first, to)
        THEN [r EXCEPT !.fault = "exit"]
        ELSE [r EXCEPT !.request.verb = r.verb,
                       !.request.key = Slice(r.buf, r.first, to),
                       !.bad = FALSE, !.needMoar = FALSE]

ParseDelete(r) ==
    IF ~Finds(r, LF)
    THEN [r EXCEPT !.fault = "abort"]
    ELSE LET lf == Position(r, LF)
         IN  IF ~IsSlice(r.first, lf)
             THEN [r EXCEPT !.fault = "exit"]
             ELSE [r EXCEPT !.request.verb = r.verb,
                            !.request.key = Slice(r.buf, r.first, lf),
                            !.bad = FALSE, !.needMoar = FALSE]

ParseStop(r) == [ParseHeader(r) EXCEPT !.bad = FALSE, !.needMoar = FALSE]

Handle(r) ==
    CASE r.verb = "new" -> ParseNew(r)
      [] r.verb = "update" -> ParseUpdate(r)
      [] r.verb = "clone" -> ParseClone(r)
      [] r.verb = "read" -> ParseRead(r)
      [] r.verb = "delete" -> ParseDelete(r)
      [] r.verb = "stop" -> ParseStop(r)

Sought(r) == IF r.hasVerb THEN r ELSE FindVerb(r)

Pass(r) == LET s == Sought(r) IN IF s.hasVerb THEN Handle(s) ELSE s

\* The loop ends on a bad request, on a complete one, or with the text used up.
\* Mutant: the end of the text is compared the wrong way.
LoopEndsEarly(r) == r.bad \/ ~r.needMoar \/ r.last >= r.current

LoopEnds(r) == r.bad \/ ~r.needMoar \/ r.last = r.current

-----------------------------------------------------------------------------
(* The requests the README writes on a command line, and their texts.      *)

Line(tokens) == tokens \o <<LF>>

Render(m) ==
    CASE m.verb \in {"new", "update"} -> Line(<<m.verb, SP>> \o m.key \o <<SP>> \o m.payload)
      [] m.verb \in {"read", "delete"} -> Line(<<m.verb, SP>> \o m.key)
      [] m.verb = "stop" -> Line(<<m.verb>>)

IsName(s) == s # <<>> /\ \A i \in DOMAIN s : s[i] \in Word
IsOneLine(s) == s # <<>> /\ \A i \in DOMAIN s : s[i] \in Word \cup {SP}

\* A key is a word and a value a line; a key read or deleted may hold spaces.
IsCommand(m) ==
    \/ m.verb \in {"new", "update"} /\ IsName(m.key) /\ IsOneLine(m.payload)
    \/ m.verb \in {"read", "delete"} /\ IsOneLine(m.key) /\ m.payload = <<>>
    \/ m.verb = "stop" /\ m.key = <<>> /\ m.payload = <<>>
=============================================================================
