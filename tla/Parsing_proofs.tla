--------------------------- MODULE Parsing_proofs ---------------------------
(***************************************************************************)
(* The parser on every text over every set of words.                       *)
(***************************************************************************)
EXTENDS Parsing, RequestBuilder_proofs

\* A pass that does not end the loop changes nothing: a call is its first pass.
ParseInv ==
    /\ text \in Text
    /\ phase \in {"loop", "returned", "dead"}
    /\ rb \in Builder /\ Settled(rb)
    /\ phase = "loop" => text # <<>> /\ rb = Entry(text)
    /\ phase = "returned" => text # <<>> /\ rb = Pass(Entry(text)) /\ LoopEnds(rb)
    /\ phase # "dead" => rb.fault = "none"
    /\ phase = "dead" => text = <<>> \/ Pass(Entry(text)).fault # "none"

LEMMA ParseInit == Init => ParseInv
<1> SUFFICES ASSUME Init PROVE ParseInv
  OBVIOUS
<1>1. text \in Text /\ rb = Entry(text) /\ phase = Entered(rb)
  BY ParsingAssumption DEF Init, Entry
<1>2. text = <<>> => rb.fault = "exit"
  BY <1>1 DEF Entry, Write, NewBuilder
<1> QED
  BY <1>1, <1>2, EntryType DEF ParseInv, Entered

LEMMA ParseNext == ParseInv /\ [Next]_vars => ParseInv'
<1> SUFFICES ASSUME ParseInv, [Next]_vars PROVE ParseInv'
  OBVIOUS
<1>1. CASE UNCHANGED vars
  BY <1>1 DEF ParseInv, vars
<1>2. CASE Iterate
  <2>1. /\ text \in Text /\ text # <<>> /\ text' = text
        /\ rb' = Pass(Entry(text)) /\ rb' \in Builder /\ Settled(rb')
    BY <1>2, PassType DEF Iterate, ParseInv
  <2>2. CASE rb'.fault # "none"
    BY <1>2, <2>1, <2>2 DEF Iterate, Entered, ParseInv
  <2>3. CASE rb'.fault = "none" /\ LoopEnds(rb')
    BY <1>2, <2>1, <2>3 DEF Iterate, ParseInv
  <2>4. CASE rb'.fault = "none" /\ ~LoopEnds(rb')
    BY <1>2, <2>1, <2>4, PassEnds DEF Iterate, Entered, ParseInv
  <2> QED
    BY <2>2, <2>3, <2>4
<1> QED
  BY <1>1, <1>2 DEF Next

\* The fields of the builder keep their types, whatever the text.
THEOREM ParserTypes == Spec => []TypeOK
<1>1. ParseInv => TypeOK
  BY DEF ParseInv, TypeOK
<1> QED
  BY <1>1, ParseInit, ParseNext, PTL DEF Spec

\* A call never returns to ask for more text without refusing the request.
THEOREM ParserNeverAsksForMore == Spec => []NeverAsksForMore
<1>1. ParseInv => NeverAsksForMore
  BY PassEnds, EntryType DEF ParseInv, NeverAsksForMore, Accepted, LoopEnds
<1> QED
  BY <1>1, ParseInit, ParseNext, PTL DEF Spec

\* What new and update accept is a key of words and a value of one line, whatever
\* the text they were found in: read and delete can name every key there is.
THEOREM ParserWritesAreNameable == Spec => []WritesAreNameable
<1>1. ParseInv => WritesAreNameable
  BY AcceptedWrite DEF ParseInv, WritesAreNameable, Accepted
<1> QED
  BY <1>1, ParseInit, ParseNext, PTL DEF Spec

\* A text whose first line is a README command is parsed as that command, whatever
\* follows it, unless the text hits the chunk boundary: parsing inverts rendering.
THEOREM ParserFirstLineDecides == Spec => []FirstLineDecides
<1>1. ParseInv => FirstLineDecides
  <2> SUFFICES ASSUME ParseInv, NEW m \in Samples,
                      StartsWith(m), ~OnBoundary(text), phase # "loop"
               PROVE  Accepted /\ rb.request = m
    BY DEF FirstLineDecides
  <2>1. /\ m \in Message /\ IsCommand(m) /\ text \in Text
        /\ Len(Render(m)) <= Len(text) /\ SubSeq(text, 1, Len(Render(m))) = Render(m)
    BY ParsingAssumption DEF StartsWith, ParseInv
  <2> QED
    BY <2>1, LineDecides DEF ParseInv, Accepted
<1> QED
  BY <1>1, ParseInit, ParseNext, PTL DEF Spec

\* Where a handler searches for its separators, in a text of any length, the search starts
\* no later than it ends, and ends with the text (buffer.c:241 stops at equality only).
THEOREM ParserSearchesAreBounded == Spec => []SearchesAreBounded
<1>1. ParseInv => SearchesAreBounded
  <2> SUFFICES ASSUME ParseInv, phase = "loop"
               PROVE  Sought(rb).first <= Sought(rb).last /\ Sought(rb).last <= Len(Sought(rb).buf)
    BY DEF SearchesAreBounded
  <2>1. text \in Text /\ text # <<>> /\ rb = Entry(text)
    BY DEF ParseInv
  <2>2. Len(text) \in Nat /\ Len(Kept(text)) = Len(text)
    BY <2>1, KeptType DEF Text
  <2> QED
    BY <2>1, <2>2, SoughtEntry
<1> QED
  BY <1>1, ParseInit, ParseNext, PTL DEF Spec

-----------------------------------------------------------------------------
(* Lines that are complete, and texts that are cut.                        *)

\* The tokens of a clean line are where the handlers look for them.
LEMMA CleanTokens ==
    ASSUME NEW t \in Text, CleanLine(t), ~OnBoundary(t)
    PROVE  LET n == Len(t)
           IN  /\ n \in Nat /\ n > 1 /\ Kept(t) = t
               /\ At(t, n - 1) = LF
               /\ \A p \in 0 .. n - 2 : At(t, p) \in Word \cup {SP}
               /\ \A p \in 0 .. n - 2 : At(t, p) = SP => p + 1 < n - 1 /\ At(t, p + 1) \in Word
<1> DEFINE n == Len(t)
<1>1. n \in Nat /\ n > 0 /\ Kept(t) = t /\ t[n] = LF /\ t[1] \in Word
  BY EmptySeq DEF CleanLine, Kept, Text
<1>2. n > 1
  BY <1>1, RbAssumption
<1>3. \A p \in 0 .. n - 2 : At(t, p) = t[p + 1] /\ p + 1 \in 1 .. n - 1
  BY <1>1 DEF At
<1>4. At(t, n - 1) = LF
  BY <1>1, <1>2 DEF At
<1>5. ASSUME NEW p \in 0 .. n - 2
      PROVE  At(t, p) \in Word \cup {SP} /\ (At(t, p) = SP => t[p + 2] \in Word)
  <2>1. p + 1 \in 1 .. n - 1 /\ At(t, p) = t[p + 1] /\ p + 1 + 1 = p + 2
    BY <1>1, <1>3
  <2> QED
    BY <2>1 DEF CleanLine
<1>6. ASSUME NEW p \in 0 .. n - 2, At(t, p) = SP
      PROVE  p + 1 < n - 1 /\ At(t, p + 1) \in Word
  <2>1. t[p + 2] \in Word
    BY <1>5, <1>6
  <2>2. p + 2 # n
    BY <1>1, <2>1, RbAssumption
  <2> QED
    BY <1>1, <2>1, <2>2 DEF At
<1> HIDE DEF n
<1> QED
  BY <1>1, <1>2, <1>4, <1>5, <1>6 DEF n

\* No handler ends the process on a clean line: the line feed is the last token, the
\* space that ends the verb is followed by a word, and so is the one that ends the key.
LEMMA CleanIsSafe ==
    ASSUME NEW t \in Text, CleanLine(t), ~OnBoundary(t)
    PROVE  Pass(Entry(t)).fault = "none"
<1> DEFINE e == Entry(t)
           s == Sought(e)
           n == Len(t)
<1>1. /\ n \in Nat /\ n > 1 /\ Kept(t) = t /\ At(t, n - 1) = LF
      /\ \A p \in 0 .. n - 2 : At(t, p) \in Word \cup {SP}
      /\ \A p \in 0 .. n - 2 : At(t, p) = SP => p + 1 < n - 1 /\ At(t, p + 1) \in Word
  BY CleanTokens
<1>2. t # <<>>
  BY DEF CleanLine
<1>3. /\ e \in Builder /\ e.buf = t /\ e.last = n /\ e.first = 0 /\ e.fault = "none"
  BY <1>1, <1>2, EntryType
<1>4. /\ s \in Builder /\ s.buf = t /\ s.last = n /\ s.fault = "none" /\ ~s.headerParsed
      /\ s.hasVerb => s.first = Separator(e) + 1 /\ s.verb \in Verbs /\ ~s.bad
  BY <1>1, <1>2, SoughtEntry
<1>5. Pass(e) = IF s.hasVerb THEN Handle(s) ELSE s
  BY DEF Pass
<1> HIDE DEF s, n
<1>6. PICK i \in DOMAIN t : t[i] = SP
  BY DEF CleanLine
<1>7. i \in 1 .. n /\ i - 1 \in 0 .. n /\ At(t, i - 1) = SP
  BY <1>1, <1>6 DEF n, At, Text
<1>8. Finds(e, SP) /\ Separator(e) = Position(e, SP)
  <2>1. i - 1 \in Hits(e, SP)
    BY <1>3, <1>7 DEF Hits
  <2> QED
    BY <2>1 DEF Finds, Separator
<1> DEFINE sp == Position(e, SP)
<1>9. sp \in 0 .. n - 2 /\ At(t, sp) = SP
  <2>1. sp \in Nat /\ sp < n /\ t[sp + 1] = SP
    BY <1>3, <1>8, FirstHit, RbAssumption DEF n
  <2>2. At(t, sp) = SP
    BY <1>1, <2>1 DEF At, n
  <2>3. sp # n - 1
    BY <1>1, <2>2, RbAssumption
  <2> QED
    BY <1>1, <2>1, <2>2, <2>3
<1>10. sp + 1 < n - 1 /\ At(t, sp + 1) \in Word
  BY <1>1, <1>9
<1> HIDE DEF e
<1>11. CASE ~s.hasVerb
  BY <1>4, <1>5, <1>11 DEF e
<1>12. CASE s.hasVerb
  <2> DEFINE lf == Position(s, LF)
  <2>1. s.first = sp + 1 /\ s.verb \in Verbs /\ s.first \in Nat /\ s.first < n - 1
    BY <1>1, <1>4, <1>8, <1>9, <1>10, <1>12 DEF e
  <2>2. Finds(s, LF) /\ lf = n - 1
    <3>1. n - 1 \in s.first .. s.last /\ At(s.buf, n - 1) = LF
      BY <1>1, <1>4, <2>1
    <3>2. \A q \in s.first .. (n - 1) - 1 : q \in 0 .. n - 2
      BY <1>1, <2>1
    <3>3. \A q \in s.first .. (n - 1) - 1 : At(s.buf, q) # LF
      BY <1>1, <1>4, <3>2, RbAssumption
    <3> QED
      BY <1>4, <3>1, <3>3, FoundAt
  <2>3. IsSlice(s.first, lf)
    BY <2>1, <2>2 DEF IsSlice
  <2> HIDE DEF lf
  <2>4. ParseNew(s).fault = "none"
    <3>1. CASE ~Finds(s, SP)
      BY <1>4, <2>2, <3>1 DEF ParseNew, Builder
    <3>2. CASE Finds(s, SP)
      <4> DEFINE p == Position(s, SP)
      <4>1. p \in Nat /\ s.first <= p /\ p < n /\ t[p + 1] = SP
        BY <1>4, <3>2, FirstHit, RbAssumption DEF n
      <4>2. At(t, p) = SP
        BY <4>1 DEF At, n
      <4>3. p # n - 1 /\ p # s.first
        BY <1>1, <1>10, <2>1, <4>2, RbAssumption
      <4>4. p \in 0 .. n - 2
        BY <1>1, <4>1, <4>3
      <4>5. s.first < p /\ p + 1 < n - 1
        BY <1>1, <2>1, <4>1, <4>2, <4>3, <4>4
      <4>6. IsSlice(s.first, p) /\ IsSlice(p + 1, lf)
        BY <2>2, <4>5 DEF IsSlice, lf
      <4> QED
        BY <1>4, <2>2, <3>2, <4>6 DEF ParseNew, Builder, lf
    <3> QED
      BY <3>1, <3>2
  <2>5. ParseHeader(s) \in Builder /\ ParseHeader(s).fault = "none"
    BY <1>4, <2>2, <2>3, HeaderType DEF ParseHeader, Builder, lf
  <2>6. ParseDelete(s).fault = "none"
    BY <1>4, <2>2, <2>3 DEF ParseDelete, Builder, lf
  <2>7. ParseRead(s).fault = "none" /\ ParseStop(s).fault = "none" /\ ParseClone(s).fault = "none"
    BY <1>4, <2>5 DEF ParseRead, ParseStop, ParseClone, Builder
  <2>8. Handle(s).fault = "none"
    BY <2>1, <2>4, <2>6, <2>7 DEF Handle, ParseUpdate, Verbs
  <2> QED
    BY <1>5, <1>12, <2>8 DEF e
<1> QED
  BY <1>11, <1>12

\* A complete line of separated words never ends the process, whatever its verb is.
THEOREM ParserCleanLinesAreSafe == Spec => []CleanLinesAreSafe
<1>1. ParseInv => CleanLinesAreSafe
  BY CleanIsSafe DEF ParseInv, CleanLinesAreSafe, CleanLine
<1> QED
  BY <1>1, ParseInit, ParseNext, PTL DEF Spec

\* Without a line feed every handler but that of stop refuses, asserts, or leaves the
\* request as it was.
LEMMA CutDoesNothing ==
    ASSUME NEW t \in Text, t # <<>>, \A i \in DOMAIN t : t[i] # LF,
           Pass(Entry(t)).fault = "none", ~Pass(Entry(t)).bad, LoopEnds(Pass(Entry(t)))
    PROVE  Pass(Entry(t)).request \in {EmptyMessage, [EmptyMessage EXCEPT !.verb = "stop"]}
<1> DEFINE s == Sought(Entry(t))
           r == Pass(Entry(t))
<1>1. /\ s \in Builder /\ s.hasVerb /\ s.verb \in Verbs /\ r = Handle(s) /\ s.buf = Kept(t)
      /\ s.fault = "none" /\ ~s.bad
  BY AcceptedByHandler
<1>2. s.last = Len(t) /\ ~s.headerParsed /\ s.request = EmptyMessage
  BY SoughtEntry
<1>3. r.fault = "none" /\ ~r.bad
  OBVIOUS
<1> HIDE DEF s, r
<1>4. ~Finds(s, LF)
  <2> SUFFICES ASSUME Finds(s, LF) PROVE FALSE
    OBVIOUS
  <2> DEFINE p == Position(s, LF)
  <2>1. p \in Nat /\ p < Len(s.buf) /\ s.buf[p + 1] = LF
    BY <1>1, FirstHit, RbAssumption
  <2> HIDE DEF p
  <2>2. /\ Len(s.buf) = Len(t) /\ Len(t) \in Nat /\ DOMAIN t = 1 .. Len(t)
        /\ p + 1 \in 1 .. Len(t)
    BY <1>1, <2>1, KeptType DEF Text
  <2>3. s.buf = t \/ s.buf = [t EXCEPT ![Len(t)] = NUL]
    BY <1>1 DEF Kept
  <2>4. s.buf[p + 1] \in {t[p + 1], NUL}
    BY <2>2, <2>3 DEF Text
  <2> QED
    BY <2>1, <2>2, <2>4, RbAssumption
<1>5. s.verb \notin {"new", "update", "delete", "clone"}
  BY <1>1, <1>3, <1>4 DEF Handle, ParseUpdate, ParseNew, ParseDelete, ParseClone, Builder
<1>6. CASE s.verb = "read"
  <2>1. ParseHeader(s) = [s EXCEPT !.current = 0]
    BY <1>2, <1>4, <1>6 DEF ParseHeader
  <2>2. r.request = s.request
    BY <1>1, <1>6, <2>1 DEF Handle, ParseRead, Builder
  <2> QED
    BY <1>2, <2>2 DEF r
<1>7. CASE s.verb = "stop"
  <2>1. ParseHeader(s) = [s EXCEPT !.current = 0, !.request.verb = s.verb]
    BY <1>2, <1>7 DEF ParseHeader
  <2>2. r.request = [s.request EXCEPT !.verb = "stop"]
    BY <1>1, <1>7, <2>1 DEF Handle, ParseStop, Builder
  <2> QED
    BY <1>2, <2>2 DEF r
<1> QED
  BY <1>1, <1>5, <1>6, <1>7 DEF Verbs

\* A command of which a first part has come, without its line feed, is never performed
\* on the part of its key or value that is there.
THEOREM ParserCutTextsDoNothing == Spec => []CutTextsDoNothing
<1>1. ParseInv => CutTextsDoNothing
  BY CutDoesNothing DEF ParseInv, CutTextsDoNothing, Accepted
<1> QED
  BY <1>1, ParseInit, ParseNext, PTL DEF Spec
=============================================================================
