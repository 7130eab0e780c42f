--------------------------- MODULE Library_proofs ---------------------------
(***************************************************************************)
(* What the observable and the reporting of errors keep, for any places,   *)
(* callbacks and sizes.                                                    *)
(***************************************************************************)
EXTENDS Library, SequenceTheorems, TLAPS

Lesser(a, b) == IF a < b THEN a ELSE b

\* The places hold what was asked for first, in that order, then nothing.
PlacesFollow ==
    \A i \in 1 .. Slots : slots[i] = IF i <= Len(asked) THEN asked[i] ELSE None

\* A notification has called what the places before its cursor hold.
CalledFollow ==
    cursor # 0 =>
        /\ Len(called) = Lesser(cursor - 1, Len(asked))
        /\ \A i \in 1 .. Len(called) : called[i] = asked[i]

\* A line is only printed once it fits, and a report that goes on has printed nothing.
LineFits ==
    /\ pc = "print" => length < size
    /\ pc \in {"write", "grow", "print"} => printed = -1

ObserverInv == O!TypeOK /\ PlacesFollow /\ CalledFollow
ReportInv == E!TypeOK /\ LineFits /\ PrintedWhole
LibInv == ObserverInv /\ ReportInv

LEMMA LibInit == Init => LibInv
<1> SUFFICES ASSUME Init PROVE LibInv
  OBVIOUS
<1>1. ObserverInv
  <2>1. <<>> \in Seq(Listener) /\ Len(<<>>) = 0
    BY EmptySeq
  <2> QED
    BY <2>1, LibraryAssumption
       DEF Init, O!Init, O!Empty, ObserverInv, O!TypeOK, PlacesFollow, CalledFollow
<1>2. ReportInv
  BY LibraryAssumption DEF Init, E!Init, ReportInv, E!TypeOK, LineFits, PrintedWhole
<1> QED
  BY <1>1, <1>2 DEF LibInv

\* Where a callback is registered is the place after the last one registered.
LEMMA PlacedFollows ==
    ASSUME ObserverInv, NEW l \in Listener, O!Placed(l), asked' = Append(asked, l)
    PROVE  /\ slots' \in [1 .. Slots -> Listener \cup {None}]
           /\ asked' \in Seq(Listener) /\ Len(asked') = Len(asked) + 1
           /\ \A i \in 1 .. Len(asked) : asked'[i] = asked[i]
           /\ PlacesFollow'
<1> USE DEF ObserverInv, O!TypeOK
<1>1. /\ asked' \in Seq(Listener) /\ Len(asked') = Len(asked) + 1
      /\ \A i \in 1 .. Len(asked) : asked'[i] = asked[i]
      /\ asked'[Len(asked) + 1] = l
  BY AppendProperties
<1>2. Len(asked) \in Nat /\ Slots \in Nat /\ None \notin Listener
  BY LenProperties, LibraryAssumption
<1>3. \A i \in 1 .. Len(asked) : asked[i] \in Listener
  BY ElementOfSeq
<1>4. O!Free = {i \in 1 .. Slots : i > Len(asked)}
  <2>1. ASSUME NEW i \in 1 .. Slots
        PROVE  slots[i] = None <=> i > Len(asked)
    BY <1>2, <1>3 DEF PlacesFollow
  <2> QED
    BY <2>1 DEF O!Free
<1>5. CASE Len(asked) >= Slots
  <2>1. O!Free = {}
    BY <1>2, <1>4, <1>5
  <2>2. slots' = slots
    BY <2>1 DEF O!Placed
  <2> QED
    BY <1>1, <1>2, <1>5, <2>2 DEF PlacesFollow
<1>6. CASE Len(asked) < Slots
  <2> DEFINE f == Len(asked) + 1
  <2>1. f \in O!Free /\ \A j \in O!Free : f <= j
    BY <1>2, <1>4, <1>6
  <2>2. O!FirstFree \in O!Free /\ \A j \in O!Free : O!FirstFree <= j
    BY <2>1 DEF O!FirstFree
  <2>3. O!FirstFree = f
    BY <1>2, <1>4, <2>1, <2>2
  <2>4. slots' = [slots EXCEPT ![f] = l] /\ f \in 1 .. Slots
    BY <1>4, <2>1, <2>3 DEF O!Placed
  <2> QED
    BY <1>1, <1>2, <2>4 DEF PlacesFollow
<1> QED
  BY <1>2, <1>5, <1>6

\* One turn of a notification, whether its callback registers another or not.
LEMMA VisitFollows ==
    ASSUME ObserverInv, O!Visit
    PROVE  /\ ObserverInv'
           /\ cursor' = 0 => called' = First(asked', Slots)
<1> USE DEF ObserverInv, O!TypeOK
<1>1. /\ cursor \in 1 .. Slots /\ Slots \in Nat \ {0} /\ None \notin Listener
      /\ object' = object
      /\ cursor' = IF cursor < Slots THEN cursor + 1 ELSE 0
  BY LibraryAssumption DEF O!Visit, O!After
<1>2. Len(asked) \in Nat /\ Len(called) \in Nat
  BY LenProperties
<1>3. \A i \in 1 .. Len(asked) : asked[i] \in Listener
  BY ElementOfSeq
<1>4. /\ slots' \in [1 .. Slots -> Listener \cup {None}] /\ asked' \in Seq(Listener)
      /\ PlacesFollow' /\ Len(asked') \in Nat
      /\ called' \in Seq(Listener) /\ Len(called') = Lesser(cursor, Len(asked'))
      /\ \A i \in 1 .. Len(called') : called'[i] = asked'[i]
  <2>1. CASE slots[cursor] = None
    <3>1. UNCHANGED <<slots, asked, called>>
      BY <2>1 DEF O!Visit
    <3>2. Len(asked) < cursor
      BY <1>1, <1>2, <1>3, <2>1 DEF PlacesFollow
    <3> QED
      BY <1>1, <1>2, <3>1, <3>2 DEF PlacesFollow, CalledFollow, Lesser
  <2>2. CASE slots[cursor] # None
    <3>1. cursor <= Len(asked) /\ slots[cursor] = asked[cursor]
      BY <1>1, <1>2, <2>2 DEF PlacesFollow
    <3>2. Len(called) = cursor - 1
      BY <1>1, <1>2, <3>1 DEF CalledFollow, Lesser
    <3>3. called' = Append(called, asked[cursor]) /\ asked[cursor] \in Listener
      BY <1>1, <1>2, <1>3, <2>2, <3>1 DEF O!Visit
    <3>4. /\ called' \in Seq(Listener) /\ Len(called') = cursor
          /\ \A i \in 1 .. cursor - 1 : called'[i] = called[i]
          /\ called'[cursor] = asked[cursor]
      BY <1>1, <3>2, <3>3, AppendProperties
    <3>5. \A i \in 1 .. cursor : called'[i] = asked[i]
      BY <1>1, <3>2, <3>4 DEF CalledFollow
    <3>6. CASE UNCHANGED <<slots, asked>>
      BY <1>1, <1>2, <3>1, <3>4, <3>5, <3>6 DEF PlacesFollow, Lesser
    <3>7. ASSUME NEW l \in Listener, O!Placed(l), asked' = Append(asked, l)
          PROVE  <1>4!:
      <4>1. /\ slots' \in [1 .. Slots -> Listener \cup {None}]
            /\ asked' \in Seq(Listener) /\ Len(asked') = Len(asked) + 1
            /\ \A i \in 1 .. Len(asked) : asked'[i] = asked[i]
            /\ PlacesFollow'
        BY <3>7, PlacedFollows
      <4>2. Len(called') = Lesser(cursor, Len(asked')) /\ Len(asked') \in Nat
        BY <1>1, <1>2, <3>1, <3>4, <4>1 DEF Lesser
      <4>3. \A i \in 1 .. Len(called') : called'[i] = asked'[i]
        BY <1>1, <1>2, <3>1, <3>4, <3>5, <4>1
      <4> QED
        BY <3>4, <4>1, <4>2, <4>3
    <3> QED
      BY <2>2, <3>6, <3>7 DEF O!Visit, O!Asks
  <2> QED
    BY <2>1, <2>2
<1>5. ObserverInv'
  BY <1>1, <1>4 DEF CalledFollow
<1>6. ASSUME cursor' = 0
      PROVE  called' = First(asked', Slots)
  <2> DEFINE n == Lesser(Slots, Len(asked'))
  <2>1. n \in Nat /\ n <= Len(asked') /\ First(asked', Slots) = SubSeq(asked', 1, n)
    BY <1>1, <1>4 DEF First, Lesser
  <2>2. cursor = Slots
    BY <1>1, <1>6
  <2>3. Len(called') = n /\ \A i \in 1 .. n : called'[i] = asked'[i]
    BY <1>4, <2>2
  <2> HIDE DEF n
  <2>4. \A i \in 1 .. n : asked'[i] \in Listener
    BY <1>4, <2>1, ElementOfSeq
  <2>5. /\ SubSeq(asked', 1, n) \in Seq(Listener) /\ Len(SubSeq(asked', 1, n)) = n
        /\ \A i \in 1 .. n : SubSeq(asked', 1, n)[i] = asked'[i]
    BY <1>4, <2>1, <2>4, SubSeqProperties
  <2> QED
    BY <1>4, <2>1, <2>3, <2>5, SeqEqual
<1> QED
  BY <1>5, <1>6

LEMMA ObserverNext == ASSUME ObserverInv, O!Next PROVE ObserverInv'
<1> USE DEF ObserverInv, O!TypeOK
<1>1. CASE O!Create
  BY <1>1 DEF O!Create, PlacesFollow, CalledFollow
<1>2. CASE \E l \in Listener : O!Listen(l)
  <2>1. PICK l \in Listener : O!Listen(l)
    BY <1>2
  <2>2. O!Placed(l) /\ asked' = Append(asked, l) /\ UNCHANGED <<object, cursor, called>>
        /\ cursor = 0
    BY <2>1 DEF O!Listen, O!Asks
  <2> QED
    BY <2>2, PlacedFollows DEF CalledFollow
<1>3. CASE O!Notify
  <2>1. Slots \in Nat \ {0} /\ <<>> \in Seq(Listener) /\ Len(<<>>) = 0 /\ Len(asked) \in Nat
    BY LibraryAssumption, EmptySeq, LenProperties
  <2> QED
    BY <1>3, <2>1 DEF O!Notify, PlacesFollow, CalledFollow, Lesser
<1>4. CASE O!Visit
  BY <1>4, VisitFollows
<1>5. CASE O!Dispose
  BY <1>5 DEF O!Dispose, PlacesFollow, CalledFollow
<1> QED
  BY <1>1, <1>2, <1>3, <1>4, <1>5 DEF O!Next

LEMMA ReportNext == ASSUME ReportInv, E!Next PROVE ReportInv'
<1> USE LibraryAssumption DEF ReportInv, E!TypeOK, LineFits, PrintedWhole
<1>1. CASE E!Alloc \/ E!ErrorInit \/ \E f \in {"yes", "no"} : E!SetFatal(f)
  BY <1>1 DEF E!Alloc, E!ErrorInit, E!SetFatal
<1>2. CASE \E l \in 0 .. MaxLength : E!Printf(l)
  BY <1>2 DEF E!Printf
<1>3. CASE E!WriteFormat
  BY <1>3 DEF E!WriteFormat, E!Fits, E!Grown
<1>4. CASE E!Grow
  BY <1>4 DEF E!Grow
<1>5. CASE E!Emit
  BY <1>5 DEF E!Emit, E!Exits
<1>6. CASE E!Fail
  BY <1>6 DEF E!Fail
<1> QED
  BY <1>1, <1>2, <1>3, <1>4, <1>5, <1>6 DEF E!Next, E!Reporting

LEMMA LibNext == ASSUME LibInv, [Next]_vars PROVE LibInv'
<1>1. UNCHANGED observable => (ObserverInv => ObserverInv')
  BY DEF observable, ObserverInv, O!TypeOK, PlacesFollow, CalledFollow
<1>2. UNCHANGED report => (ReportInv => ReportInv')
  BY DEF report, ReportInv, E!TypeOK, LineFits, PrintedWhole
<1> QED
  BY <1>1, <1>2, ObserverNext, ReportNext DEF LibInv, Next, Observes, Reports, vars

\* The observable, its places and the reporting keep their types (a cursor that leaves
\* the places would be a call through memory that is not theirs, observable.c:49).
THEOREM LibraryTypes == Spec => []TypeOK
<1>1. LibInv => TypeOK
  BY DEF LibInv, ObserverInv, ReportInv, TypeOK
<1> QED
  BY <1>1, LibInit, LibNext, PTL DEF Spec

\* However long the line and whatever the first size of its block, it is printed whole
\* (the loop of _zob_error_make_format).
THEOREM LinesAreWhole == Spec => []PrintedWhole
<1>1. LibInv => PrintedWhole
  BY DEF LibInv, ReportInv
<1> QED
  BY <1>1, LibInit, LibNext, PTL DEF Spec

\* For any number of places and of callbacks a notification that comes to its end has
\* called everyone who has a place, those registered in its course included
\* (zob_observable_listen and zob_observable_notify).
THEOREM NotificationsCallEveryone == Spec => EveryoneIsCalled
<1>1. ASSUME LibInv, [Next]_vars
      PROVE  [cursor # 0 /\ cursor' = 0 => called' = First(asked', Slots)]_vars
  <2> SUFFICES ASSUME cursor # 0, cursor' = 0
               PROVE  called' = First(asked', Slots)
    OBVIOUS
  <2>1. O!Next
    BY <1>1 DEF Next, Observes, Reports, vars, observable
  <2>2. O!Visit
    BY <2>1 DEF O!Next, O!Create, O!Listen, O!Notify, O!Dispose
  <2> QED
    BY <1>1, <2>2, VisitFollows DEF LibInv
<1> QED
  BY <1>1, LibInit, LibNext, PTL DEF Spec, EveryoneIsCalled
=============================================================================
