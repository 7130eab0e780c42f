----------------------- MODULE RequestBuilder_proofs -----------------------
(***************************************************************************)
(* Facts about the operators of the parser: searches return the first      *)
(* position, slices are made of tokens, handlers return builders.          *)
(***************************************************************************)
EXTENDS RequestBuilder, SequenceTheorems, WellFoundedInduction, TLAPS

\* A set of naturals that is not empty has a least element.
LEMMA LeastOf ==
    ASSUME NEW S \in SUBSET Nat, S # {}
    PROVE  Least(S) \in S /\ \A q \in S : Least(S) <= q
<1> DEFINE R == {ss \in Nat \X Nat : ss[1] < ss[2]}
<1>1. IsWellFoundedOn(R, Nat)
  BY NatLessThanWellFounded, Zenon DEF OpToRel
<1>2. \A x, y \in S : y < x => <<y, x>> \in R
  OBVIOUS
<1> HIDE DEF R
<1>3. PICK x \in S : \A y \in S : ~(<<y, x>> \in R)
  BY <1>1, WFMin
<1>4. \A y \in S : ~(y < x)
  BY <1>2, <1>3
<1>5. \A y \in S : x <= y
  BY <1>4
<1> QED
  BY <1>5 DEF Least

\* A search that succeeds returns the first hit, which lies inside the text.
LEMMA FirstHit ==
    ASSUME NEW r \in Builder, NEW needle, needle # NUL, Finds(r, needle)
    PROVE  /\ Position(r, needle) \in Nat
           /\ r.first <= Position(r, needle) /\ Position(r, needle) <= r.last
           /\ Position(r, needle) < Len(r.buf)
           /\ r.buf[Position(r, needle) + 1] = needle
           /\ \A q \in Nat : r.first <= q /\ q < Position(r, needle) => At(r.buf, q) # needle
<1> DEFINE p == Position(r, needle)
<1>1. Hits(r, needle) \in SUBSET Nat /\ Hits(r, needle) # {}
  BY DEF Hits, Finds, Builder
<1>2. p \in Hits(r, needle) /\ \A q \in Hits(r, needle) : p <= q
  BY <1>1, LeastOf DEF Position
<1>3. r.first \in Nat /\ r.last \in Nat /\ Len(r.buf) \in Nat
  BY DEF Builder
<1>4. p \in r.first .. r.last /\ At(r.buf, p) = needle
  BY <1>2 DEF Hits
<1>5. p < Len(r.buf) /\ r.buf[p + 1] = needle
  BY <1>3, <1>4 DEF At
<1>6. ASSUME NEW q \in Nat, r.first <= q, q < p PROVE At(r.buf, q) # needle
  <2>1. q \notin Hits(r, needle)
    BY <1>2, <1>3, <1>4, <1>6
  <2> QED
    BY <1>3, <1>4, <1>6, <2>1 DEF Hits
<1> QED
  BY <1>3, <1>4, <1>5, <1>6

\* The first place where a needle stands is where a search finds it.
LEMMA FoundAt ==
    ASSUME NEW r \in Builder, NEW needle, NEW p \in r.first .. r.last,
           At(r.buf, p) = needle,
           \A q \in r.first .. p - 1 : At(r.buf, q) # needle
    PROVE  Finds(r, needle) /\ Position(r, needle) = p
<1>1. Hits(r, needle) \in SUBSET Nat /\ p \in Hits(r, needle)
  BY DEF Hits, Builder
<1>2. \A q \in Hits(r, needle) : p <= q
  BY DEF Hits, Builder
<1>3. Position(r, needle) \in Hits(r, needle) /\ \A q \in Hits(r, needle) : Position(r, needle) <= q
  BY <1>1, LeastOf DEF Position
<1>4. Position(r, needle) <= p /\ p <= Position(r, needle)
  BY <1>1, <1>2, <1>3
<1> QED
  BY <1>1, <1>3, <1>4 DEF Finds

LEMMA SliceOf ==
    ASSUME NEW S, NEW buf \in Seq(S), NEW from \in Nat, NEW to \in Nat, to <= Len(buf)
    PROVE  /\ Slice(buf, from, to) \in Seq(S)
           /\ Len(Slice(buf, from, to)) = IF from < to THEN to - from ELSE 0
           /\ \A i \in 1 .. to - from : Slice(buf, from, to)[i] = buf[from + i]
<1>1. \A i \in from + 1 .. to : buf[i] \in S
  BY ElementOfSeq
<1>2. /\ SubSeq(buf, from + 1, to) \in Seq(S)
      /\ Len(SubSeq(buf, from + 1, to)) = IF from + 1 <= to THEN to - (from + 1) + 1 ELSE 0
      /\ \A i \in 1 .. to - (from + 1) + 1 : SubSeq(buf, from + 1, to)[i] = buf[from + 1 + i - 1]
  BY <1>1, SubSeqProperties
<1> QED
  BY <1>2 DEF Slice

LEMMA NewBuilderType == NewBuilder \in Builder
BY DEF NewBuilder, Builder, EmptyMessage, Message, NoVerb, Faults

LEMMA KeptType ==
    ASSUME NEW text \in Text
    PROVE  /\ Kept(text) \in Seq(Token)
           /\ Len(Kept(text)) = Len(text)
           /\ \A i \in 1 .. Len(text) - 1 : Kept(text)[i] = text[i]
<1>1. text \in Seq(Token)
  BY SeqMonotonic DEF Text, Token
<1>2. CASE OnBoundary(text)
  <2>1. Len(text) \in 1 .. Len(text) /\ NUL \in Token
    BY <1>1, <1>2 DEF OnBoundary, Token
  <2> QED
    BY <1>1, <1>2, <2>1, ExceptSeq DEF Kept
<1>3. CASE ~OnBoundary(text)
  BY <1>1, <1>3 DEF Kept
<1> QED
  BY <1>2, <1>3

LEMMA WriteType ==
    ASSUME NEW r \in Builder, NEW text \in Text
    PROVE  Write(r, text) \in Builder
<1>1. Len(text) \in Nat
  BY DEF Text
<1> QED
  BY <1>1, KeptType DEF Write, Builder, Faults

-----------------------------------------------------------------------------
LEMMA FindVerbType == ASSUME NEW r \in Builder PROVE FindVerb(r) \in Builder
<1>1. CASE ~Finds(r, SP) /\ ~Finds(r, LF)
  BY <1>1 DEF FindVerb
<1>2. CASE Finds(r, SP) \/ Finds(r, LF)
  <2>1. Separator(r) + 1 \in Nat
    BY <1>2, FirstHit, RbAssumption DEF Separator
  <2>2. VerbAt(r.buf) \in Verbs \cup {NoVerb}
    BY RbAssumption DEF VerbAt
  <2> QED
    BY <1>2, <2>1, <2>2 DEF FindVerb, Builder
<1> QED
  BY <1>1, <1>2

LEMMA HeaderType == ASSUME NEW r \in Builder PROVE ParseHeader(r) \in Builder
<1>1. CASE r.headerParsed \/ r.verb = "stop" \/ ~Finds(r, LF)
  BY <1>1 DEF ParseHeader, Builder, Message
<1>2. CASE ~r.headerParsed /\ r.verb # "stop" /\ Finds(r, LF)
  <2>1. Slice(r.buf, r.first, Position(r, LF)) \in Seq(Token)
    BY <1>2, FirstHit, SliceOf, RbAssumption DEF Builder
  <2> QED
    BY <1>2, <2>1 DEF ParseHeader, Builder, Message, Faults
<1> QED
  BY <1>1, <1>2

LEMMA NewType == ASSUME NEW r \in Builder PROVE ParseNew(r) \in Builder
<1>1. CASE ~Finds(r, LF) \/ ~Finds(r, SP)
  BY <1>1 DEF ParseNew, Builder, Faults
<1>2. CASE Finds(r, LF) /\ Finds(r, SP)
  <2>1. /\ Slice(r.buf, r.first, Position(r, SP)) \in Seq(Token)
        /\ Slice(r.buf, Position(r, SP) + 1, Position(r, LF)) \in Seq(Token)
    BY <1>2, FirstHit, SliceOf, RbAssumption DEF Builder
  <2> QED
    BY <1>2, <2>1 DEF ParseNew, Builder, Message, Faults
<1> QED
  BY <1>1, <1>2

LEMMA DeleteType == ASSUME NEW r \in Builder PROVE ParseDelete(r) \in Builder
<1>1. CASE ~Finds(r, LF)
  BY <1>1 DEF ParseDelete, Builder, Faults
<1>2. CASE Finds(r, LF)
  <2>1. Slice(r.buf, r.first, Position(r, LF)) \in Seq(Token)
    BY <1>2, FirstHit, SliceOf, RbAssumption DEF Builder
  <2> QED
    BY <1>2, <2>1 DEF ParseDelete, Builder, Message, Faults
<1> QED
  BY <1>1, <1>2

\* hasVerb is only ever set together with a verb of the table.
Settled(r) == r.hasVerb => r.verb \in Verbs

LEMMA SoughtType ==
    ASSUME NEW r \in Builder, Settled(r)
    PROVE  Sought(r) \in Builder /\ Settled(Sought(r))
<1>1. Sought(r) \in Builder
  BY FindVerbType DEF Sought
<1>2. CASE r.hasVerb \/ (~Finds(r, SP) /\ ~Finds(r, LF))
  BY <1>1, <1>2 DEF Sought, FindVerb
<1>3. CASE ~r.hasVerb /\ (Finds(r, SP) \/ Finds(r, LF))
  <2>1. VerbAt(r.buf) \in Verbs \cup {NoVerb}
    BY RbAssumption DEF VerbAt
  <2>2. CASE VerbAt(r.buf) = NoVerb
    <3>1. ~Sought(r).hasVerb
      BY <1>3, <2>2 DEF Sought, FindVerb, Builder
    <3> QED
      BY <1>1, <3>1 DEF Settled
  <2>3. CASE VerbAt(r.buf) # NoVerb
    <3>1. Sought(r).verb = VerbAt(r.buf)
      BY <1>3, <2>3 DEF Sought, FindVerb, Builder
    <3> QED
      BY <1>1, <2>1, <2>3, <3>1 DEF Settled
  <2> QED
    BY <2>2, <2>3
<1> QED
  BY <1>1, <1>2, <1>3

\* No handler changes the verb that has been found.
LEMMA HandleType ==
    ASSUME NEW s \in Builder, s.verb \in Verbs
    PROVE  Handle(s) \in Builder /\ Handle(s).verb = s.verb
<1>1. CASE s.verb \in {"new", "update"}
  <2>1. Handle(s) = ParseNew(s)
    BY <1>1 DEF Handle, ParseUpdate
  <2>2. ParseNew(s).verb = s.verb
    BY DEF ParseNew, Builder
  <2> QED
    BY <2>1, <2>2, NewType
<1>2. CASE s.verb = "clone"
  BY <1>2 DEF Handle, ParseClone, Builder
<1>3. CASE s.verb = "read"
  <2>1. ParseHeader(s) \in Builder /\ ParseHeader(s).verb = s.verb
    BY HeaderType DEF ParseHeader, Builder
  <2> QED
    BY <1>3, <2>1 DEF Handle, ParseRead, Builder
<1>4. CASE s.verb = "delete"
  <2>1. ParseDelete(s).verb = s.verb
    BY DEF ParseDelete, Builder
  <2> QED
    BY <1>4, <2>1, DeleteType DEF Handle
<1>5. CASE s.verb = "stop"
  <2>1. ParseHeader(s) \in Builder /\ ParseHeader(s).verb = s.verb
    BY HeaderType DEF ParseHeader, Builder
  <2> QED
    BY <1>5, <2>1 DEF Handle, ParseStop, Builder
<1> QED
  BY <1>1, <1>2, <1>3, <1>4, <1>5 DEF Verbs

\* One pass of the loop turns a builder into a builder.
LEMMA PassType ==
    ASSUME NEW r \in Builder, Settled(r)
    PROVE  Pass(r) \in Builder /\ Settled(Pass(r))
BY SoughtType, HandleType DEF Pass, Settled

-----------------------------------------------------------------------------
(* A call on a new builder.                                                *)

\* The builder of a call before its first pass.
Entry(t) == Write(NewBuilder, t)

LEMMA EntryType ==
    ASSUME NEW t \in Text
    PROVE  /\ Entry(t) \in Builder /\ Settled(Entry(t))
           /\ t # <<>> => /\ Entry(t).buf = Kept(t) /\ Entry(t).last = Len(t)
                          /\ Entry(t).first = 0 /\ Entry(t).current = 0
                          /\ ~Entry(t).hasVerb /\ ~Entry(t).bad /\ Entry(t).needMoar
                          /\ Entry(t).verb = NoVerb /\ Entry(t).fault = "none"
                          /\ ~Entry(t).headerParsed
                          /\ Entry(t).request = EmptyMessage
                          /\ Len(t) \in Nat \ {0}
<1>1. Entry(t) \in Builder
  BY NewBuilderType, WriteType DEF Entry
<1>2. Settled(Entry(t))
  BY DEF Entry, Write, NewBuilder, Settled
<1> QED
  BY <1>1, <1>2, EmptySeq DEF Entry, Write, NewBuilder, Text

\* What one pass makes of the entry builder.
LEMMA PassEnds ==
    ASSUME NEW t \in Text, t # <<>>
    PROVE  \/ Pass(Entry(t)) = Entry(t) /\ ~LoopEnds(Entry(t))
           \/ Pass(Entry(t)).fault # "none"
           \/ LoopEnds(Pass(Entry(t))) /\ (Pass(Entry(t)).bad \/ ~Pass(Entry(t)).needMoar)
<1> DEFINE e == Entry(t)
           s == Sought(e)
<1>1. e \in Builder /\ ~e.hasVerb /\ ~e.bad /\ e.needMoar /\ e.last # e.current
  BY EntryType
<1>2. s \in Builder /\ Settled(s)
  BY EntryType, SoughtType
<1> HIDE DEF e
<1>3. CASE ~s.hasVerb
  <2>1. Pass(e) = FindVerb(e) /\ s = FindVerb(e)
    BY <1>1, <1>3 DEF Pass, Sought
  <2>2. CASE ~Finds(e, SP) /\ ~Finds(e, LF)
    BY <1>1, <2>1, <2>2 DEF FindVerb, LoopEnds, e
  <2>3. CASE Finds(e, SP) \/ Finds(e, LF)
    <3>1. VerbAt(e.buf) = NoVerb
      BY <1>1, <1>3, <2>1, <2>3 DEF FindVerb, Builder
    <3>2. FindVerb(e).bad
      BY <1>1, <2>3, <3>1 DEF FindVerb, Builder
    <3> QED
      BY <2>1, <3>2 DEF LoopEnds, e
  <2> QED
    BY <2>2, <2>3
<1> HIDE DEF s
<1>4. CASE s.hasVerb
  <2>1. Pass(e) = Handle(s) /\ s.verb \in Verbs
    BY <1>2, <1>4 DEF Pass, Settled, s
  <2>2. CASE s.verb \in {"new", "update"}
    <3>1. Handle(s) = ParseNew(s)
      BY <2>2 DEF Handle, ParseUpdate
    <3>2. ParseNew(s).fault # "none" \/ ~ParseNew(s).needMoar
      BY <1>2 DEF ParseNew, Builder
    <3> QED
      BY <2>1, <3>1, <3>2 DEF LoopEnds, e
  <2>3. CASE s.verb = "clone"
    BY <1>2, <2>1, <2>3 DEF Handle, ParseClone, LoopEnds, Builder, e
  <2>4. CASE s.verb = "read"
    <3>1. ParseHeader(s) \in Builder
      BY <1>2, HeaderType
    <3> QED
      BY <2>1, <2>4, <3>1 DEF Handle, ParseRead, LoopEnds, Builder, e
  <2>5. CASE s.verb = "delete"
    <3>1. ParseDelete(s).fault # "none" \/ ~ParseDelete(s).needMoar
      BY <1>2 DEF ParseDelete, Builder
    <3> QED
      BY <2>1, <2>5, <3>1 DEF Handle, LoopEnds, e
  <2>6. CASE s.verb = "stop"
    <3>1. ParseHeader(s) \in Builder
      BY <1>2, HeaderType
    <3> QED
      BY <2>1, <2>6, <3>1 DEF Handle, ParseStop, LoopEnds, Builder, e
  <2> QED
    BY <2>1, <2>2, <2>3, <2>4, <2>5, <2>6 DEF Verbs
<1> QED
  BY <1>3, <1>4

\* A request accepted with a verb was made by the handler of that verb.
LEMMA AcceptedByHandler ==
    ASSUME NEW t \in Text, t # <<>>,
           Pass(Entry(t)).fault = "none", ~Pass(Entry(t)).bad, LoopEnds(Pass(Entry(t)))
    PROVE  LET s == Sought(Entry(t))
           IN  /\ s.hasVerb /\ s.verb \in Verbs /\ Pass(Entry(t)) = Handle(s)
               /\ s \in Builder /\ s.buf = Kept(t) /\ s.fault = "none" /\ ~s.bad
<1> DEFINE e == Entry(t)
           s == Sought(e)
<1>1. /\ e \in Builder /\ ~e.hasVerb /\ ~e.bad /\ e.buf = Kept(t)
      /\ e.needMoar /\ e.fault = "none" /\ e.last # e.current
  BY EntryType
<1>2. s \in Builder /\ Settled(s)
  BY EntryType, SoughtType
<1> HIDE DEF e
<1>3. s = FindVerb(e)
  BY <1>1 DEF Sought
<1>4. s.hasVerb
  <2> SUFFICES ASSUME ~s.hasVerb PROVE FALSE
    OBVIOUS
  <2>1. Pass(e) = FindVerb(e)
    BY <1>3 DEF Pass
  <2>2. CASE ~Finds(e, SP) /\ ~Finds(e, LF)
    BY <1>1, <2>1, <2>2 DEF FindVerb, LoopEnds, e
  <2>3. CASE Finds(e, SP) \/ Finds(e, LF)
    <3>1. VerbAt(e.buf) = NoVerb
      BY <1>1, <1>3, <2>3 DEF FindVerb, Builder
    <3>2. FindVerb(e).bad
      BY <1>1, <2>3, <3>1 DEF FindVerb, Builder
    <3> QED
      BY <2>1, <3>2 DEF e
  <2> QED
    BY <2>2, <2>3
<1>5. s.verb \in Verbs /\ Pass(e) = Handle(s)
  BY <1>2, <1>4 DEF Pass, Settled
<1>6. s.buf = Kept(t) /\ s.fault = "none" /\ ~s.bad
  <2>1. VerbAt(e.buf) # NoVerb \/ ~s.hasVerb \/ s = e
    BY <1>1, <1>3 DEF FindVerb, Builder
  <2> QED
    BY <1>1, <1>3, <1>4, <2>1 DEF FindVerb, Builder
<1> QED
  BY <1>2, <1>4, <1>5, <1>6 DEF e

\* Before a line feed that is in the buffer there is no NUL.
LEMMA NoNulBefore ==
    ASSUME NEW t \in Text, NEW j \in Nat, j + 1 \in 1 .. Len(t) - 1
    PROVE  At(Kept(t), j) = t[j + 1] /\ t[j + 1] \in Word \cup {SP, LF}
<1>1. Len(t) \in Nat /\ t[j + 1] \in Word \cup {SP, LF}
  BY ElementOfSeq DEF Text
<1> QED
  BY <1>1, KeptType DEF At

LEMMA AcceptedWrite ==
    ASSUME NEW t \in Text, t # <<>>,
           Pass(Entry(t)).fault = "none", ~Pass(Entry(t)).bad, LoopEnds(Pass(Entry(t))),
           Pass(Entry(t)).verb \in {"new", "update"}
    PROVE  IsCommand(Pass(Entry(t)).request)
<1> DEFINE r == Pass(Entry(t))
           s == Sought(Entry(t))
<1>1. /\ s.verb \in Verbs /\ r = Handle(s) /\ s \in Builder /\ s.buf = Kept(t)
      /\ s.fault = "none" /\ ~s.bad
  BY AcceptedByHandler
<1>2. r.fault = "none" /\ ~r.bad /\ r.verb \in {"new", "update"}
  OBVIOUS
<1> HIDE DEF r, s
<1>3. s.verb \in {"new", "update"} /\ r = ParseNew(s)
  BY <1>1, <1>2, HandleType DEF Handle, ParseUpdate
<1>4. Finds(s, LF) /\ Finds(s, SP)
  BY <1>1, <1>2, <1>3 DEF ParseNew, Builder
<1> DEFINE sp == Position(s, SP)
           lf == Position(s, LF)
<1>5. /\ sp \in Nat /\ lf \in Nat /\ s.first \in Nat /\ Len(t) \in Nat
      /\ s.first <= sp /\ lf < Len(t) /\ sp < Len(t)
      /\ \A q \in Nat : s.first <= q /\ q < sp => At(s.buf, q) # SP
      /\ \A q \in Nat : s.first <= q /\ q < lf => At(s.buf, q) # LF
  <2>1. Len(s.buf) = Len(t) /\ Len(t) \in Nat
    BY <1>1, KeptType DEF Text
  <2> QED
    BY <1>1, <1>4, <2>1, FirstHit, RbAssumption DEF Builder
<1> HIDE DEF sp, lf
<1>4a. s.buf \in Seq(Token) /\ Len(s.buf) = Len(t)
  BY <1>1, KeptType
<1>6. s.first < sp /\ sp + 1 < lf
  BY <1>1, <1>2, <1>3, <1>4 DEF ParseNew, Builder, IsSlice, sp, lf
<1>7. r.request = [verb |-> s.verb, key |-> Slice(s.buf, s.first, sp),
                   payload |-> Slice(s.buf, sp + 1, lf)]
  BY <1>1, <1>3, <1>4, <1>6 DEF ParseNew, Builder, IsSlice, sp, lf
<1>8. \A q \in Nat : s.first <= q /\ q < lf =>
          s.buf[q + 1] \in Word \cup {SP} /\ (q < sp => s.buf[q + 1] \in Word)
  <2> SUFFICES ASSUME NEW q \in Nat, s.first <= q, q < lf
               PROVE  s.buf[q + 1] \in Word \cup {SP} /\ (q < sp => s.buf[q + 1] \in Word)
    OBVIOUS
  <2>1. At(s.buf, q) \in Word \cup {SP, LF} /\ At(s.buf, q) = s.buf[q + 1]
    <3>1. q + 1 \in 1 .. Len(t) - 1 /\ Len(s.buf) = Len(t)
      BY <1>1, <1>5, KeptType
    <3> QED
      BY <1>1, <1>5, <3>1, NoNulBefore DEF At
  <2> QED
    BY <1>5, <2>1
<1>9. IsName(r.request.key)
  <2>1. /\ Len(Slice(s.buf, s.first, sp)) = sp - s.first
        /\ \A i \in 1 .. sp - s.first : Slice(s.buf, s.first, sp)[i] = s.buf[s.first + i]
        /\ Slice(s.buf, s.first, sp) \in Seq(Token)
    <3>1. s.first \in Nat /\ sp \in Nat /\ sp <= Len(s.buf) /\ s.first < sp
      BY <1>5, <1>6, <1>4a
    <3> QED
      BY <1>4a, <3>1, SliceOf
  <2>2. \A i \in 1 .. sp - s.first : s.buf[s.first + i] \in Word
    <3> SUFFICES ASSUME NEW i \in 1 .. sp - s.first PROVE s.buf[s.first + i] \in Word
      OBVIOUS
    <3>1. s.first + i - 1 \in Nat /\ s.first + i - 1 < sp /\ s.first <= s.first + i - 1
      BY <1>5
    <3>2. s.first + i - 1 < lf /\ s.first + i - 1 + 1 = s.first + i
      BY <1>5, <1>6, <3>1
    <3> QED
      BY <1>8, <3>1, <3>2
  <2> QED
    BY <1>5, <1>6, <1>7, <2>1, <2>2, EmptySeq DEF IsName
<1>10. IsOneLine(r.request.payload)
  <2>1. /\ Len(Slice(s.buf, sp + 1, lf)) = lf - (sp + 1)
        /\ \A i \in 1 .. lf - (sp + 1) : Slice(s.buf, sp + 1, lf)[i] = s.buf[sp + 1 + i]
        /\ Slice(s.buf, sp + 1, lf) \in Seq(Token)
    <3>1. sp + 1 \in Nat /\ lf \in Nat /\ lf <= Len(s.buf) /\ sp + 1 < lf
      BY <1>5, <1>6, <1>4a
    <3> QED
      BY <1>4a, <3>1, SliceOf
  <2>2. \A i \in 1 .. lf - (sp + 1) : s.buf[sp + 1 + i] \in Word \cup {SP}
    <3> SUFFICES ASSUME NEW i \in 1 .. lf - (sp + 1) PROVE s.buf[sp + 1 + i] \in Word \cup {SP}
      OBVIOUS
    <3>1. sp + i \in Nat /\ sp + i < lf /\ s.first <= sp + i /\ sp + i + 1 = sp + 1 + i
      BY <1>5, <1>6
    <3> QED
      BY <1>8, <3>1
  <2>3. r.request.payload = Slice(s.buf, sp + 1, lf)
    BY <1>7
  <2>4. Slice(s.buf, sp + 1, lf) # <<>> /\ DOMAIN Slice(s.buf, sp + 1, lf) = 1 .. lf - (sp + 1)
    BY <1>5, <1>6, <2>1, EmptySeq, LenProperties
  <2> QED
    BY <2>1, <2>2, <2>3, <2>4 DEF IsOneLine
<1> QED
  BY <1>3, <1>7, <1>9, <1>10 DEF IsCommand, r

-----------------------------------------------------------------------------
(* Parsing inverts rendering.                                              *)

LEMMA CommandParts ==
    ASSUME NEW m \in Message, IsCommand(m)
    PROVE  /\ m.verb \in Verbs /\ m.verb \in Word /\ m.verb \in Token
           /\ SP \in Token /\ LF \in Token
           /\ m.key \in Seq(Token) /\ m.payload \in Seq(Token)
           /\ m = [verb |-> m.verb, key |-> m.key, payload |-> m.payload]
BY RbAssumption DEF IsCommand, Message, Verbs, Token

LEMMA Joined ==
    ASSUME NEW a \in Seq(Token), NEW b \in Seq(Token)
    PROVE  /\ a \o b \in Seq(Token)
           /\ Len(a \o b) = Len(a) + Len(b)
           /\ \A i \in 1 .. Len(a) : (a \o b)[i] = a[i]
           /\ \A i \in 1 .. Len(b) : (a \o b)[i + Len(a)] = b[i]
<1>1. /\ a \o b \in Seq(Token)
      /\ Len(a \o b) = Len(a) + Len(b)
      /\ \A i \in 1 .. Len(a) + Len(b) :
            (a \o b)[i] = IF i <= Len(a) THEN a[i] ELSE b[i - Len(a)]
  BY ConcatProperties, Zenon
<1> DEFINE c == a \o b
           m == Len(a)
           n == Len(b)
<1>2. m \in Nat /\ n \in Nat
  OBVIOUS
<1>3. \A i \in 1 .. m + n : c[i] = IF i <= m THEN a[i] ELSE b[i - m]
  BY <1>1
<1> HIDE DEF c, m, n
<1>4. \A i \in 1 .. m : c[i] = a[i]
  BY <1>2, <1>3
<1>5. \A i \in 1 .. n : c[i + m] = b[i]
  <2> SUFFICES ASSUME NEW i \in 1 .. n PROVE c[i + m] = b[i]
    OBVIOUS
  <2>1. i + m \in 1 .. m + n /\ ~(i + m <= m) /\ i + m - m = i
    BY <1>2
  <2> QED
    BY <1>2, <1>3, <2>1
<1> QED
  BY <1>1, <1>4, <1>5 DEF c, m, n

\* Where the tokens of a rendering stand.
LEMMA NamedLine ==
    ASSUME NEW m \in Message, IsCommand(m), m.verb \in {"read", "delete"},
           NEW k \in Nat, Len(m.key) = k
    PROVE  /\ Len(Render(m)) = k + 3 /\ Render(m) \in Seq(Token)
           /\ Render(m)[1] = m.verb /\ Render(m)[2] = SP
           /\ \A i \in 1 .. k : Render(m)[i + 2] = m.key[i]
           /\ Render(m)[k + 3] = LF
<1> DEFINE h == <<m.verb, SP>>
           l == <<LF>>
           x == h \o m.key
           y == x \o l
<1>1. /\ h \in Seq(Token) /\ Len(h) = 2 /\ h[1] = m.verb /\ h[2] = SP
      /\ l \in Seq(Token) /\ Len(l) = 1 /\ l[1] = LF
      /\ m.key \in Seq(Token)
  BY CommandParts
<1>2. Render(m) = y
  BY DEF Render, Line
<1> HIDE DEF h, l, x, y
<1>3. /\ x \in Seq(Token) /\ Len(x) = 2 + k
      /\ \A i \in 1 .. 2 : x[i] = h[i]
      /\ \A i \in 1 .. k : x[i + 2] = m.key[i]
  <2>1. /\ x \in Seq(Token) /\ Len(x) = Len(h) + Len(m.key)
        /\ \A i \in 1 .. Len(h) : x[i] = h[i]
        /\ \A i \in 1 .. Len(m.key) : x[i + Len(h)] = m.key[i]
    BY <1>1, Joined, Zenon DEF x
  <2> QED
    BY <1>1, <2>1
<1>4. /\ y \in Seq(Token) /\ Len(y) = 2 + k + 1
      /\ \A i \in 1 .. 2 + k : y[i] = x[i]
      /\ \A i \in 1 .. 1 : y[i + (2 + k)] = l[i]
  <2>1. /\ y \in Seq(Token) /\ Len(y) = Len(x) + Len(l)
        /\ \A i \in 1 .. Len(x) : y[i] = x[i]
        /\ \A i \in 1 .. Len(l) : y[i + Len(x)] = l[i]
    BY <1>1, <1>3, Joined, Zenon DEF y
  <2> QED
    BY <1>1, <1>3, <2>1
<1>5. y[1] = m.verb /\ y[2] = SP /\ y[k + 3] = LF
  <2>1. y[1] = x[1] /\ y[2] = x[2] /\ y[1 + (2 + k)] = l[1] /\ x[1] = h[1] /\ x[2] = h[2]
    BY <1>3, <1>4
  <2> QED
    BY <1>1, <2>1
<1>6. \A i \in 1 .. k : y[i + 2] = m.key[i]
  <2> SUFFICES ASSUME NEW i \in 1 .. k PROVE y[i + 2] = m.key[i]
    OBVIOUS
  <2>1. i + 2 \in 1 .. 2 + k
    OBVIOUS
  <2> QED
    BY <1>3, <1>4, <2>1
<1> QED
  BY <1>2, <1>4, <1>5, <1>6

LEMMA WrittenLine ==
    ASSUME NEW m \in Message, IsCommand(m), m.verb \in {"new", "update"},
           NEW k \in Nat, Len(m.key) = k, NEW n \in Nat, Len(m.payload) = n
    PROVE  /\ Len(Render(m)) = k + n + 4 /\ Render(m) \in Seq(Token)
           /\ Render(m)[1] = m.verb /\ Render(m)[2] = SP
           /\ \A i \in 1 .. k : Render(m)[i + 2] = m.key[i]
           /\ Render(m)[k + 3] = SP
           /\ \A i \in 1 .. n : Render(m)[i + (k + 3)] = m.payload[i]
           /\ Render(m)[k + n + 4] = LF
<1> DEFINE h == <<m.verb, SP>>
           b == <<SP>>
           l == <<LF>>
           x == h \o m.key
           y == x \o b
           z == y \o m.payload
           w == z \o l
<1>1. /\ h \in Seq(Token) /\ Len(h) = 2 /\ h[1] = m.verb /\ h[2] = SP
      /\ l \in Seq(Token) /\ Len(l) = 1 /\ l[1] = LF
      /\ b \in Seq(Token) /\ Len(b) = 1 /\ b[1] = SP
      /\ m.key \in Seq(Token) /\ m.payload \in Seq(Token)
  BY CommandParts
<1>2. Render(m) = w
  BY DEF Render, Line
<1> HIDE DEF h, b, l, x, y, z, w
<1>3. /\ x \in Seq(Token) /\ Len(x) = 2 + k
      /\ \A i \in 1 .. 2 : x[i] = h[i]
      /\ \A i \in 1 .. k : x[i + 2] = m.key[i]
  <2>1. /\ x \in Seq(Token) /\ Len(x) = Len(h) + Len(m.key)
        /\ \A i \in 1 .. Len(h) : x[i] = h[i]
        /\ \A i \in 1 .. Len(m.key) : x[i + Len(h)] = m.key[i]
    BY <1>1, Joined, Zenon DEF x
  <2> QED
    BY <1>1, <2>1
<1>4. /\ y \in Seq(Token) /\ Len(y) = 2 + k + 1
      /\ \A i \in 1 .. 2 + k : y[i] = x[i]
      /\ \A i \in 1 .. 1 : y[i + (2 + k)] = b[i]
  <2>1. /\ y \in Seq(Token) /\ Len(y) = Len(x) + Len(b)
        /\ \A i \in 1 .. Len(x) : y[i] = x[i]
        /\ \A i \in 1 .. Len(b) : y[i + Len(x)] = b[i]
    BY <1>1, <1>3, Joined, Zenon DEF y
  <2> QED
    BY <1>1, <1>3, <2>1
<1>5. /\ z \in Seq(Token) /\ Len(z) = k + 3 + n
      /\ \A i \in 1 .. k + 3 : z[i] = y[i]
      /\ \A i \in 1 .. n : z[i + (k + 3)] = m.payload[i]
  <2>1. /\ z \in Seq(Token) /\ Len(z) = Len(y) + Len(m.payload)
        /\ \A i \in 1 .. Len(y) : z[i] = y[i]
        /\ \A i \in 1 .. Len(m.payload) : z[i + Len(y)] = m.payload[i]
    BY <1>1, <1>4, Joined, Zenon DEF z
  <2> QED
    <3>1. Len(y) = k + 3 /\ Len(m.payload) = n
      BY <1>4
    <3> QED
      BY <1>1, <2>1, <3>1
<1>6. /\ w \in Seq(Token) /\ Len(w) = k + 3 + n + 1
      /\ \A i \in 1 .. k + 3 + n : w[i] = z[i]
      /\ \A i \in 1 .. 1 : w[i + (k + 3 + n)] = l[i]
  <2>1. /\ w \in Seq(Token) /\ Len(w) = Len(z) + Len(l)
        /\ \A i \in 1 .. Len(z) : w[i] = z[i]
        /\ \A i \in 1 .. Len(l) : w[i + Len(z)] = l[i]
    BY <1>1, <1>5, Joined, Zenon DEF w
  <2> QED
    BY <1>1, <1>5, <2>1
<1>7. \A i \in 1 .. k + 3 : w[i] = y[i]
  <2> SUFFICES ASSUME NEW i \in 1 .. k + 3 PROVE w[i] = y[i]
    OBVIOUS
  <2>1. i \in 1 .. k + 3 + n
    BY <1>1
  <2> QED
    BY <1>5, <1>6, <2>1
<1>8. w[1] = m.verb /\ w[2] = SP /\ w[k + 3] = SP /\ w[k + n + 4] = LF
  <2>1. w[1] = y[1] /\ w[2] = y[2] /\ w[k + 3] = y[k + 3]
    BY <1>7
  <2>2. y[1] = x[1] /\ y[2] = x[2] /\ y[1 + (2 + k)] = b[1] /\ x[1] = h[1] /\ x[2] = h[2]
    BY <1>3, <1>4
  <2>3. w[1 + (k + 3 + n)] = l[1]
    BY <1>1, <1>6
  <2>4. 1 + (k + 3 + n) = k + n + 4 /\ 1 + (2 + k) = k + 3
    BY <1>1
  <2> QED
    BY <1>1, <2>1, <2>2, <2>3, <2>4
<1>9. \A i \in 1 .. k : w[i + 2] = m.key[i]
  <2> SUFFICES ASSUME NEW i \in 1 .. k PROVE w[i + 2] = m.key[i]
    OBVIOUS
  <2>1. i + 2 \in 1 .. 2 + k /\ i + 2 \in 1 .. k + 3
    OBVIOUS
  <2>2. w[i + 2] = y[i + 2]
    BY <1>7, <2>1
  <2>3. y[i + 2] = x[i + 2]
    BY <1>4, <2>1
  <2> QED
    BY <1>3, <2>2, <2>3
<1>10. \A i \in 1 .. n : w[i + (k + 3)] = m.payload[i]
  <2> SUFFICES ASSUME NEW i \in 1 .. n PROVE w[i + (k + 3)] = m.payload[i]
    OBVIOUS
  <2>1. i + (k + 3) \in 1 .. k + 3 + n
    BY <1>1
  <2>2. w[i + (k + 3)] = z[i + (k + 3)]
    BY <1>6, <2>1
  <2> QED
    BY <1>5, <2>2
<1>11. Len(w) = k + n + 4
  BY <1>1, <1>6
<1> QED
  BY <1>2, <1>6, <1>8, <1>9, <1>10, <1>11

LEMMA VerbAtStart ==
    ASSUME NEW t \in Seq(Token), Len(t) > 0, t[1] \in Verbs
    PROVE  VerbAt(t) = t[1] /\ t[1] # NoVerb
<1>1. t[1] \in Word /\ VerbOf[t[1]] = t[1]
  BY RbAssumption
<1>2. VerbAt(t) = t[1]
  BY <1>1 DEF VerbAt
<1>3. t[1] # NoVerb
  BY DEF Verbs, NoVerb
<1> QED
  BY <1>2, <1>3

\* A text that starts with a verb and a space: the verb is found, and the space ends it.
LEMMA SoughtSpaced ==
    ASSUME NEW t \in Text, ~OnBoundary(t), Len(t) >= 2, t[1] \in Verbs, t[2] = SP
    PROVE  LET s == Sought(Entry(t))
           IN  /\ s \in Builder /\ s.hasVerb /\ s.verb = t[1] /\ s.first = 2
               /\ s.buf = t /\ s.last = Len(t) /\ s.fault = "none" /\ ~s.bad
               /\ ~s.headerParsed /\ s.request = EmptyMessage
<1> DEFINE e == Entry(t)
<1>1. /\ e \in Builder /\ Settled(e) /\ e.buf = t /\ e.last = Len(t) /\ e.first = 0
      /\ ~e.hasVerb /\ ~e.bad /\ e.fault = "none" /\ ~e.headerParsed
      /\ e.request = EmptyMessage /\ Len(t) \in Nat \ {0}
  <2>1. t # <<>>
    BY EmptySeq DEF Text
  <2> QED
    BY <2>1, EntryType DEF Kept
<1> HIDE DEF e
<1>2. At(t, 0) = t[1] /\ At(t, 1) = t[2] /\ t[1] # SP /\ t[1] \in Word
  BY <1>1, RbAssumption DEF At
<1>3. Finds(e, SP) /\ Position(e, SP) = 1
  <2>1. 1 \in e.first .. e.last /\ \A q \in e.first .. 1 - 1 : q = 0
    BY <1>1
  <2> QED
    BY <1>1, <1>2, <2>1, FoundAt
<1>4. VerbAt(t) = t[1] /\ t[1] # NoVerb
  <2>1. t \in Seq(Token) /\ Len(t) > 0
    BY <1>1 DEF Builder
  <2> QED
    BY <2>1, VerbAtStart
<1>5. Sought(e) = [e EXCEPT !.current = 2, !.first = 2, !.verb = t[1], !.hasVerb = TRUE]
  BY <1>1, <1>3, <1>4 DEF Sought, FindVerb, Separator
<1>6. Sought(e) \in Builder
  BY <1>1, SoughtType
<1> QED
  BY <1>1, <1>5, <1>6 DEF Builder, e

LEMMA PrefixAt ==
    ASSUME NEW t \in Text, NEW line \in Seq(Token), Len(line) <= Len(t),
           SubSeq(t, 1, Len(line)) = line
    PROVE  \A i \in 1 .. Len(line) : t[i] = line[i]
<1>1. Len(line) \in Nat /\ Len(t) \in Nat
  BY DEF Text
<1>2. \A i \in 1 .. Len(line) : t[i] \in Word \cup {SP, LF}
  BY <1>1, ElementOfSeq DEF Text
<1>3. \A i \in 1 .. Len(line) - 1 + 1 : SubSeq(t, 1, Len(line))[i] = t[1 + i - 1]
  BY <1>1, <1>2, SubSeqProperties
<1> QED
  BY <1>1, <1>3

LEMMA SliceIs ==
    ASSUME NEW buf \in Seq(Token), NEW from \in Nat, NEW to \in Nat,
           from < to, to <= Len(buf)
    PROVE  \A s \in Seq(Token) :
               Len(s) = to - from /\ (\A i \in 1 .. Len(s) : buf[i + from] = s[i])
                   => Slice(buf, from, to) = s
<1>1. /\ Slice(buf, from, to) \in Seq(Token)
      /\ Len(Slice(buf, from, to)) = to - from
      /\ \A i \in 1 .. to - from : Slice(buf, from, to)[i] = buf[from + i]
  BY SliceOf
<1>2. \A i \in 1 .. to - from : buf[i + from] = buf[from + i]
  OBVIOUS
<1> SUFFICES ASSUME NEW s \in Seq(Token), Len(s) = to - from,
                    \A i \in 1 .. Len(s) : buf[i + from] = s[i]
             PROVE  Slice(buf, from, to) = s
  OBVIOUS
<1>3. \A i \in 1 .. Len(Slice(buf, from, to)) : Slice(buf, from, to)[i] = s[i]
  BY <1>1, <1>2
<1> QED
  BY <1>1, <1>3, SeqEqual

LEMMA Filled ==
    ASSUME NEW r \in Builder, NEW v, NEW k
    PROVE  [r EXCEPT !.request.verb = v, !.request.key = k].request
               = [verb |-> v, key |-> k, payload |-> r.request.payload]
BY DEF Builder, Message

\* A line of read or delete is the request it renders.
LEMMA NamedDecides ==
    ASSUME NEW t \in Text, ~OnBoundary(t), NEW m \in Message, IsCommand(m),
           m.verb \in {"read", "delete"},
           Len(Render(m)) <= Len(t), SubSeq(t, 1, Len(Render(m))) = Render(m)
    PROVE  LET r == Pass(Entry(t))
           IN  r.fault = "none" /\ ~r.bad /\ r.request = m
<1> DEFINE s == Sought(Entry(t))
           k == Len(m.key)
<1>1. /\ k \in Nat /\ k > 0 /\ m.key \in Seq(Token)
      /\ \A i \in 1 .. k : m.key[i] \in Word \cup {SP}
      /\ m = [verb |-> m.verb, key |-> m.key, payload |-> <<>>]
  <2>1. IsOneLine(m.key) /\ m.payload = <<>>
    BY DEF IsCommand
  <2>2. m.key \in Seq(Token) /\ m.key # <<>>
    BY <2>1, CommandParts DEF IsOneLine
  <2>3. k \in Nat /\ k > 0
    BY <2>2, EmptySeq
  <2> QED
    BY <2>1, <2>2, <2>3, CommandParts DEF IsOneLine
<1> HIDE DEF k
<1>2. /\ k + 3 <= Len(t) /\ Len(t) \in Nat
      /\ t[1] = m.verb /\ t[2] = SP
      /\ \A i \in 1 .. k : t[i + 2] = m.key[i]
      /\ t[k + 3] = LF
  <2> DEFINE line == Render(m)
  <2>1. /\ Len(line) = k + 3 /\ line \in Seq(Token)
        /\ line[1] = m.verb /\ line[2] = SP
        /\ \A i \in 1 .. k : line[i + 2] = m.key[i]
        /\ line[k + 3] = LF
    BY <1>1, NamedLine DEF k
  <2> HIDE DEF line
  <2>2. \A i \in 1 .. k + 3 : t[i] = line[i]
    BY <2>1, PrefixAt DEF line
  <2>3. \A i \in 1 .. k : t[i + 2] = line[i + 2]
    <3> SUFFICES ASSUME NEW i \in 1 .. k PROVE t[i + 2] = line[i + 2]
      OBVIOUS
    <3>1. i + 2 \in 1 .. k + 3
      BY <1>1
    <3> QED
      BY <2>2, <3>1
  <2>4. t[1] = line[1] /\ t[2] = line[2] /\ t[k + 3] = line[k + 3]
    BY <1>1, <2>2
  <2>5. k + 3 <= Len(t) /\ Len(t) \in Nat
    BY <2>1 DEF line, Text
  <2> QED
    BY <2>1, <2>3, <2>4, <2>5
<1>3. /\ s \in Builder /\ s.hasVerb /\ s.verb = m.verb /\ s.first = 2
      /\ s.buf = t /\ s.last = Len(t) /\ s.fault = "none" /\ ~s.bad
      /\ ~s.headerParsed /\ s.request = EmptyMessage /\ t \in Seq(Token)
  <2>1. Len(t) >= 2 /\ t[1] \in Verbs
    BY <1>1, <1>2, CommandParts
  <2> QED
    BY <1>2, <2>1, SoughtSpaced DEF Builder
<1> HIDE DEF s
<1>4. Finds(s, LF) /\ Position(s, LF) = k + 2
  <2>1. k + 2 \in s.first .. s.last /\ At(s.buf, k + 2) = LF
    BY <1>1, <1>2, <1>3 DEF At
  <2>2. ASSUME NEW q \in s.first .. (k + 2) - 1 PROVE At(s.buf, q) # LF
    <3> DEFINE i == q - 1
    <3>1. q \in 2 .. k + 1
      BY <1>1, <1>3, <2>2
    <3>2. i \in 1 .. k /\ q < Len(t) /\ i + 2 = q + 1
      BY <1>1, <1>2, <3>1
    <3>3. t[q + 1] = m.key[i]
      BY <1>2, <3>2
    <3> QED
      BY <1>1, <1>3, <3>1, <3>2, <3>3, RbAssumption DEF At
  <2> QED
    BY <1>3, <2>1, <2>2, FoundAt
<1>5. Slice(s.buf, 2, k + 2) = m.key
  <2>1. /\ 2 \in Nat /\ k + 2 \in Nat /\ 2 < k + 2 /\ k + 2 <= Len(s.buf)
        /\ Len(m.key) = (k + 2) - 2
        /\ \A i \in 1 .. Len(m.key) : s.buf[i + 2] = m.key[i]
    BY <1>1, <1>2, <1>3 DEF k
  <2>2. s.buf \in Seq(Token) /\ m.key \in Seq(Token)
    BY <1>1, <1>3
  <2> QED
    BY <2>1, <2>2, SliceIs, Zenon
<1>6. IsSlice(s.first, Position(s, LF))
  BY <1>1, <1>3, <1>4 DEF IsSlice
<1>7. Pass(Entry(t)) = Handle(s)
  BY <1>3 DEF Pass, s
<1>8. CASE m.verb = "read"
  <2>1. ParseHeader(s) = [s EXCEPT !.current = 0, !.request.verb = s.verb,
                                   !.request.key = Slice(s.buf, s.first, Position(s, LF)),
                                   !.first = 1, !.headerParsed = TRUE]
    BY <1>3, <1>4, <1>6, <1>8 DEF ParseHeader
  <2>2. /\ ParseHeader(s) \in Builder
        /\ ParseHeader(s).request = [verb |-> m.verb, key |-> m.key, payload |-> <<>>]
        /\ ParseHeader(s).fault = "none" /\ ~ParseHeader(s).bad
    <3>1. ParseHeader(s) \in Builder
      BY <1>3, HeaderType
    <3>2. Slice(s.buf, s.first, Position(s, LF)) = m.key
      BY <1>3, <1>4, <1>5
    <3> QED
      <4> DEFINE filled == [s EXCEPT !.request.verb = s.verb, !.request.key = m.key]
      <4>1. filled.request = [verb |-> s.verb, key |-> m.key, payload |-> s.request.payload]
        BY <1>3, Filled
      <4>2. s.request.payload = <<>>
        BY <1>3 DEF EmptyMessage
      <4>3. ParseHeader(s) = [filled EXCEPT !.current = 0, !.first = 1, !.headerParsed = TRUE]
        BY <1>3, <2>1, <3>2 DEF Builder
      <4>4. ParseHeader(s).request = filled.request
        BY <1>3, <4>3 DEF Builder
      <4>5. ParseHeader(s).fault = s.fault /\ ParseHeader(s).bad = s.bad
        BY <1>3, <2>1 DEF Builder
      <4> QED
        BY <1>3, <3>1, <4>1, <4>2, <4>4, <4>5
  <2>3. Handle(s) = [ParseHeader(s) EXCEPT !.needMoar = FALSE]
    BY <1>3, <1>8 DEF Handle, ParseRead
  <2> QED
    BY <1>1, <1>7, <2>2, <2>3 DEF Builder
<1>9. CASE m.verb = "delete"
  <2>1. Handle(s) = [s EXCEPT !.request.verb = s.verb,
                              !.request.key = Slice(s.buf, s.first, Position(s, LF)),
                              !.bad = FALSE, !.needMoar = FALSE]
    BY <1>3, <1>4, <1>6, <1>9 DEF Handle, ParseDelete
  <2> QED
    <3>1. Slice(s.buf, s.first, Position(s, LF)) = m.key
      BY <1>3, <1>4, <1>5
    <3> QED
      <4> DEFINE filled == [s EXCEPT !.request.verb = s.verb, !.request.key = m.key]
      <4>1. filled.request = [verb |-> s.verb, key |-> m.key, payload |-> s.request.payload]
        BY <1>3, Filled
      <4>2. s.request.payload = <<>>
        BY <1>3 DEF EmptyMessage
      <4>3. Handle(s) = [filled EXCEPT !.bad = FALSE, !.needMoar = FALSE]
        BY <1>3, <2>1, <3>1 DEF Builder
      <4>4. Handle(s).request = filled.request
        BY <1>3, <4>3 DEF Builder
      <4>5. Handle(s).fault = s.fault /\ ~Handle(s).bad
        BY <1>3, <2>1 DEF Builder
      <4> QED
        BY <1>1, <1>3, <1>7, <4>1, <4>2, <4>4, <4>5
<1> QED
  BY <1>8, <1>9

\* A line of new or update is the request it renders.
LEMMA WrittenDecides ==
    ASSUME NEW t \in Text, ~OnBoundary(t), NEW m \in Message, IsCommand(m),
           m.verb \in {"new", "update"},
           Len(Render(m)) <= Len(t), SubSeq(t, 1, Len(Render(m))) = Render(m)
    PROVE  LET r == Pass(Entry(t))
           IN  r.fault = "none" /\ ~r.bad /\ r.request = m
<1> DEFINE s == Sought(Entry(t))
           k == Len(m.key)
           n == Len(m.payload)
<1>1. /\ k \in Nat /\ k > 0 /\ m.key \in Seq(Token)
      /\ n \in Nat /\ n > 0 /\ m.payload \in Seq(Token)
      /\ \A i \in 1 .. k : m.key[i] \in Word
      /\ \A i \in 1 .. n : m.payload[i] \in Word \cup {SP}
  <2>1. IsName(m.key) /\ IsOneLine(m.payload)
    BY DEF IsCommand
  <2>2. m.key \in Seq(Token) /\ m.key # <<>> /\ m.payload \in Seq(Token) /\ m.payload # <<>>
    BY <2>1, CommandParts DEF IsOneLine, IsName
  <2>3. k \in Nat /\ k > 0 /\ n \in Nat /\ n > 0
    BY <2>2, EmptySeq
  <2> QED
    BY <2>1, <2>2, <2>3 DEF IsOneLine, IsName
<1> HIDE DEF k, n
<1>2. /\ k + n + 4 <= Len(t) /\ Len(t) \in Nat
      /\ t[1] = m.verb /\ t[2] = SP
      /\ \A i \in 1 .. k : t[i + 2] = m.key[i]
      /\ t[k + 3] = SP
      /\ \A i \in 1 .. n : t[i + (k + 3)] = m.payload[i]
      /\ t[k + n + 4] = LF
  <2> DEFINE line == Render(m)
  <2>1. /\ Len(line) = k + n + 4 /\ line \in Seq(Token)
        /\ line[1] = m.verb /\ line[2] = SP
        /\ \A i \in 1 .. k : line[i + 2] = m.key[i]
        /\ line[k + 3] = SP
        /\ \A i \in 1 .. n : line[i + (k + 3)] = m.payload[i]
        /\ line[k + n + 4] = LF
    BY <1>1, WrittenLine DEF k, n
  <2> HIDE DEF line
  <2>2. \A i \in 1 .. k + n + 4 : t[i] = line[i]
    BY <2>1, PrefixAt DEF line
  <2>3. ASSUME NEW i \in 1 .. k PROVE t[i + 2] = m.key[i]
    <3>1. i + 2 \in 1 .. k + n + 4
      BY <1>1
    <3> QED
      BY <2>1, <2>2, <3>1
  <2>4. ASSUME NEW i \in 1 .. n PROVE t[i + (k + 3)] = m.payload[i]
    <3>1. i + (k + 3) \in 1 .. k + n + 4
      BY <1>1
    <3> QED
      BY <2>1, <2>2, <3>1
  <2>5. /\ t[1] = line[1] /\ t[2] = line[2] /\ t[k + 3] = line[k + 3]
        /\ t[k + n + 4] = line[k + n + 4]
    <3>1. {1, 2, k + 3, k + n + 4} \subseteq 1 .. k + n + 4
      BY <1>1
    <3> QED
      BY <2>2, <3>1
  <2>6. k + n + 4 <= Len(t) /\ Len(t) \in Nat
    BY <2>1 DEF line, Text
  <2> QED
    BY <2>1, <2>3, <2>4, <2>5, <2>6
<1>3. /\ s \in Builder /\ s.hasVerb /\ s.verb = m.verb /\ s.first = 2
      /\ s.buf = t /\ s.last = Len(t) /\ s.fault = "none" /\ ~s.bad /\ t \in Seq(Token)
  <2>1. Len(t) >= 2 /\ t[1] \in Verbs
    BY <1>1, <1>2, CommandParts
  <2> QED
    BY <1>2, <2>1, SoughtSpaced DEF Builder
<1> HIDE DEF s
<1>4. ASSUME NEW q \in 2 .. k + 1
      PROVE  At(s.buf, q) # SP /\ At(s.buf, q) # LF
  <2> DEFINE i == q - 1
  <2>1. i \in 1 .. k /\ q < Len(t) /\ i + 2 = q + 1
    BY <1>1, <1>2
  <2>2. t[q + 1] = m.key[i]
    BY <1>2, <2>1
  <2> QED
    BY <1>1, <1>3, <2>1, <2>2, RbAssumption DEF At
<1>5. Finds(s, SP) /\ Position(s, SP) = k + 2
  <2>1. k + 2 \in s.first .. s.last /\ At(s.buf, k + 2) = SP
    BY <1>1, <1>2, <1>3 DEF At
  <2>2. \A q \in s.first .. (k + 2) - 1 : At(s.buf, q) # SP
    BY <1>1, <1>3, <1>4
  <2> QED
    BY <1>3, <2>1, <2>2, FoundAt
<1>6. Finds(s, LF) /\ Position(s, LF) = k + n + 3
  <2>1. k + n + 3 \in s.first .. s.last /\ At(s.buf, k + n + 3) = LF
    BY <1>1, <1>2, <1>3 DEF At
  <2>2. ASSUME NEW q \in k + 3 .. k + n + 2 PROVE At(s.buf, q) # LF
    <3> DEFINE i == q - (k + 2)
    <3>1. i \in 1 .. n /\ q < Len(t) /\ i + (k + 3) = q + 1
      BY <1>1, <1>2
    <3>2. t[q + 1] = m.payload[i]
      BY <1>2, <3>1
    <3> QED
      BY <1>1, <1>3, <3>1, <3>2, RbAssumption DEF At
  <2>3. At(s.buf, k + 2) # LF
    BY <1>1, <1>2, <1>3, RbAssumption DEF At
  <2>4. \A q \in s.first .. (k + n + 3) - 1 :
            q \in 2 .. k + 1 \/ q = k + 2 \/ q \in k + 3 .. k + n + 2
    BY <1>1, <1>3
  <2>5. \A q \in s.first .. (k + n + 3) - 1 : At(s.buf, q) # LF
    BY <1>4, <2>2, <2>3, <2>4
  <2> QED
    BY <1>3, <2>1, <2>5, FoundAt
<1>7. Slice(s.buf, 2, k + 2) = m.key
  <2>1. /\ 2 \in Nat /\ k + 2 \in Nat /\ 2 < k + 2 /\ k + 2 <= Len(s.buf)
        /\ Len(m.key) = (k + 2) - 2
        /\ \A i \in 1 .. Len(m.key) : s.buf[i + 2] = m.key[i]
    BY <1>1, <1>2, <1>3 DEF k
  <2>2. s.buf \in Seq(Token) /\ m.key \in Seq(Token)
    BY <1>1, <1>3
  <2> QED
    BY <2>1, <2>2, SliceIs, Zenon
<1>8. Slice(s.buf, k + 3, k + n + 3) = m.payload
  <2>1. /\ k + 3 \in Nat /\ k + n + 3 \in Nat /\ k + 3 < k + n + 3 /\ k + n + 3 <= Len(s.buf)
        /\ Len(m.payload) = (k + n + 3) - (k + 3)
        /\ \A i \in 1 .. Len(m.payload) : s.buf[i + (k + 3)] = m.payload[i]
    BY <1>1, <1>2, <1>3 DEF n
  <2>2. s.buf \in Seq(Token) /\ m.payload \in Seq(Token)
    BY <1>1, <1>3
  <2> QED
    BY <2>1, <2>2, SliceIs, Zenon
<1>9. IsSlice(s.first, Position(s, SP)) /\ IsSlice(Position(s, SP) + 1, Position(s, LF))
  BY <1>1, <1>3, <1>5, <1>6 DEF IsSlice
<1>10. Pass(Entry(t)) = Handle(s) /\ Handle(s) = ParseNew(s)
  BY <1>3 DEF Pass, Handle, ParseUpdate, s
<1>11. Position(s, SP) + 1 = k + 3
  BY <1>1, <1>5
<1>12. ParseNew(s) = [s EXCEPT !.request = [verb |-> m.verb, key |-> m.key, payload |-> m.payload],
                               !.needMoar = FALSE]
  BY <1>3, <1>5, <1>6, <1>7, <1>8, <1>9, <1>11 DEF ParseNew
<1> QED
  BY <1>3, <1>10, <1>12, CommandParts DEF Builder

\* The line of stop is the request it renders.
LEMMA StopDecides ==
    ASSUME NEW t \in Text, ~OnBoundary(t), NEW m \in Message, IsCommand(m),
           m.verb = "stop",
           Len(Render(m)) <= Len(t), SubSeq(t, 1, Len(Render(m))) = Render(m)
    PROVE  LET r == Pass(Entry(t))
           IN  r.fault = "none" /\ ~r.bad /\ r.request = m
<1> DEFINE e == Entry(t)
           s == Sought(e)
<1>1. m = [verb |-> "stop", key |-> <<>>, payload |-> <<>>]
  BY CommandParts DEF IsCommand
<1> DEFINE v == <<m.verb>>
           l == <<LF>>
           line == v \o l
<1>2. Render(m) = line
  BY DEF Render, Line
<1>3. line \in Seq(Token) /\ Len(line) = 2 /\ line[1] = "stop" /\ line[2] = LF
  <2>1. /\ v \in Seq(Token) /\ Len(v) = 1 /\ v[1] = "stop"
        /\ l \in Seq(Token) /\ Len(l) = 1 /\ l[1] = LF
    BY CommandParts
  <2> HIDE DEF v, l
  <2>2. /\ line \in Seq(Token) /\ Len(line) = Len(v) + Len(l)
        /\ \A i \in 1 .. Len(v) : line[i] = v[i]
        /\ \A i \in 1 .. Len(l) : line[i + Len(v)] = l[i]
    BY <2>1, Joined, Zenon
  <2> HIDE DEF line
  <2>3. line[1] = v[1] /\ line[1 + 1] = l[1]
    BY <2>1, <2>2
  <2> QED
    BY <2>1, <2>2, <2>3
<1> HIDE DEF line
<1>4. t[1] = "stop" /\ t[2] = LF /\ 2 <= Len(t) /\ Len(t) \in Nat /\ t \in Seq(Token)
  <2>1. \A i \in 1 .. Len(line) : t[i] = line[i]
    BY <1>2, <1>3, PrefixAt
  <2>2. t \in Seq(Token) /\ Len(t) \in Nat
    BY SeqMonotonic DEF Text, Token
  <2> QED
    BY <1>2, <1>3, <2>1, <2>2
<1>5. /\ e \in Builder /\ e.buf = t /\ e.last = Len(t) /\ e.first = 0
      /\ ~e.hasVerb /\ ~e.bad /\ e.fault = "none" /\ ~e.headerParsed
      /\ e.request = EmptyMessage
  <2>1. t # <<>>
    BY <1>4, EmptySeq
  <2> QED
    BY <2>1, EntryType DEF Kept
<1> HIDE DEF e
<1>6. Finds(e, LF)
  <2>1. 1 \in e.first .. e.last /\ At(e.buf, 1) = LF
    BY <1>4, <1>5 DEF At
  <2> QED
    BY <2>1 DEF Finds, Hits
<1>7. VerbAt(t) = "stop" /\ VerbAt(t) # NoVerb
  <2>1. t[1] \in Verbs
    BY <1>4 DEF Verbs
  <2> QED
    BY <1>4, <2>1, VerbAtStart
<1>8. /\ s \in Builder /\ s.hasVerb /\ s.verb = "stop" /\ s.fault = "none"
      /\ ~s.headerParsed /\ s.request = EmptyMessage
  <2>1. s = [e EXCEPT !.current = Separator(e) + 1, !.first = Separator(e) + 1,
                      !.verb = "stop", !.hasVerb = TRUE]
    BY <1>5, <1>6, <1>7 DEF Sought, FindVerb
  <2>2. s \in Builder
    BY <1>5, EntryType, SoughtType DEF e
  <2> QED
    BY <1>5, <2>1, <2>2 DEF Builder
<1>9. Pass(e) = ParseStop(s)
  BY <1>8 DEF Pass, Handle
<1> HIDE DEF s
<1>10. ParseStop(s) = [s EXCEPT !.current = 0, !.request.verb = "stop",
                                !.bad = FALSE, !.needMoar = FALSE]
  BY <1>8 DEF ParseStop, ParseHeader, Builder
<1>11. ParseStop(s).fault = "none" /\ ~ParseStop(s).bad
       /\ ParseStop(s).request = [EmptyMessage EXCEPT !.verb = "stop"]
  BY <1>8, <1>10 DEF Builder
<1> QED
  BY <1>1, <1>9, <1>11 DEF e, EmptyMessage

LEMMA RenderedLine ==
    ASSUME NEW m \in Message, IsCommand(m)
    PROVE  Len(Render(m)) \in Nat /\ Len(Render(m)) > 0
<1>1. /\ m.key \in Seq(Token) /\ m.payload \in Seq(Token)
      /\ Len(m.key) \in Nat /\ Len(m.payload) \in Nat
  BY CommandParts
<1>2. CASE m.verb \in {"read", "delete"}
  BY <1>1, <1>2, NamedLine
<1>3. CASE m.verb \in {"new", "update"}
  BY <1>1, <1>3, WrittenLine
<1>4. CASE m.verb = "stop"
  BY <1>4 DEF Render, Line
<1> QED
  BY <1>2, <1>3, <1>4 DEF IsCommand

\* A text that starts with the line of a command is that command.
LEMMA LineDecides ==
    ASSUME NEW t \in Text, ~OnBoundary(t), NEW m \in Message, IsCommand(m),
           Len(Render(m)) <= Len(t), SubSeq(t, 1, Len(Render(m))) = Render(m)
    PROVE  LET r == Pass(Entry(t))
           IN  t # <<>> /\ r.fault = "none" /\ ~r.bad /\ r.request = m
<1>1. m.verb \in {"read", "delete"} \/ m.verb \in {"new", "update"} \/ m.verb = "stop"
  BY DEF IsCommand
<1>2. t # <<>>
  BY RenderedLine, EmptySeq
<1> QED
  BY <1>1, <1>2, NamedDecides, WrittenDecides, StopDecides

-----------------------------------------------------------------------------
(* What is left of a new builder when its verb has been sought.            *)

\* The handlers start behind a separator, which is in the text.
LEMMA SoughtEntry ==
    ASSUME NEW t \in Text, t # <<>>
    PROVE  LET e == Entry(t)
               s == Sought(e)
           IN  /\ s \in Builder /\ s.buf = Kept(t) /\ s.last = Len(t)
               /\ s.fault = "none" /\ ~s.headerParsed /\ s.request = EmptyMessage
               /\ s.hasVerb => /\ Finds(e, SP) \/ Finds(e, LF)
                               /\ s.first = Separator(e) + 1
                               /\ s.verb \in Verbs /\ ~s.bad
               /\ ~s.hasVerb => s.first = 0
               /\ s.first \in 0 .. Len(t)
<1> DEFINE e == Entry(t)
           s == Sought(e)
<1>1. /\ e \in Builder /\ Settled(e) /\ e.buf = Kept(t) /\ e.last = Len(t) /\ e.first = 0
      /\ ~e.hasVerb /\ ~e.bad /\ e.fault = "none" /\ ~e.headerParsed
      /\ e.request = EmptyMessage /\ Len(t) \in Nat /\ Len(e.buf) = Len(t)
  BY EntryType, KeptType
<1> HIDE DEF e
<1>2. s = FindVerb(e) /\ s \in Builder /\ Settled(s)
  BY <1>1, SoughtType DEF Sought
<1>3. CASE ~Finds(e, SP) /\ ~Finds(e, LF)
  BY <1>1, <1>2, <1>3 DEF FindVerb, e
<1>4. CASE Finds(e, SP) \/ Finds(e, LF)
  <2> DEFINE cut == Separator(e) + 1
  <2>1. cut \in 0 .. Len(t)
    BY <1>1, <1>4, FirstHit, RbAssumption DEF Separator
  <2> HIDE DEF cut
  <2>2. \/ s = [e EXCEPT !.current = cut, !.bad = TRUE, !.needMoar = FALSE]
        \/ s = [e EXCEPT !.current = cut, !.first = cut, !.verb = VerbAt(e.buf), !.hasVerb = TRUE]
    BY <1>2, <1>4 DEF FindVerb, cut
  <2>3. s.hasVerb => s.first = cut /\ ~s.bad
    BY <1>1, <2>2 DEF Builder
  <2>4. ~s.hasVerb => s.first = 0
    BY <1>1, <2>2 DEF Builder
  <2>5. /\ s.buf = e.buf /\ s.last = e.last /\ s.fault = e.fault
        /\ s.headerParsed = e.headerParsed /\ s.request = e.request
    BY <1>1, <2>2 DEF Builder
  <2> QED
    BY <1>1, <1>2, <1>4, <2>1, <2>3, <2>4, <2>5 DEF Settled, cut, e
<1> QED
  BY <1>3, <1>4

\* A pass changes neither the text nor where it ends.
LEMMA PassKeepsText ==
    ASSUME NEW t \in Text, t # <<>>
    PROVE  Pass(Entry(t)).buf = Kept(t)
<1> DEFINE s == Sought(Entry(t))
<1>1. s \in Builder /\ s.buf = Kept(t) /\ (s.hasVerb => s.verb \in Verbs)
  BY SoughtEntry
<1>2. Pass(Entry(t)) = IF s.hasVerb THEN Handle(s) ELSE s
  BY DEF Pass
<1> HIDE DEF s
<1>3. ParseHeader(s) \in Builder /\ ParseHeader(s).buf = s.buf
  BY <1>1, HeaderType DEF ParseHeader, Builder
<1>4. ParseNew(s).buf = s.buf
  BY <1>1 DEF ParseNew, Builder
<1>5. ParseDelete(s).buf = s.buf
  BY <1>1 DEF ParseDelete, Builder
<1>6. ParseClone(s).buf = s.buf /\ ParseRead(s).buf = s.buf /\ ParseStop(s).buf = s.buf
  BY <1>1, <1>3 DEF ParseClone, ParseRead, ParseStop, Builder
<1>7. s.verb \in Verbs => Handle(s).buf = s.buf
  BY <1>4, <1>5, <1>6 DEF Handle, ParseUpdate, Verbs
<1> QED
  BY <1>1, <1>2, <1>7
=============================================================================
