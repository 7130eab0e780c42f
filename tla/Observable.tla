----------------------------- MODULE Observable -----------------------------
(***************************************************************************)
(* The observer of src/src/observable.c: ten places for callbacks, which a *)
(* notification calls one after the other.  A callback may register        *)
(* another while it is called.                                             *)
(***************************************************************************)
EXTENDS Integers, Sequences

CONSTANTS
    Listener,   \* the callbacks
    None,       \* an empty place
    Slots       \* the places, 10

VARIABLES
    object,     \* where the observable is in its life
    slots,      \* its places
    cursor,     \* the place a notification is at, 0 while there is none
    asked,      \* the callbacks that were to be registered, in that order
    called      \* those the last notification has called

vars == <<object, slots, cursor, asked, called>>

TypeOK ==
    /\ object \in {"absent", "live", "aborted", "wild"}
    /\ slots \in [1 .. Slots -> Listener \cup {None}]
    /\ cursor \in 0 .. Slots
    /\ asked \in Seq(Listener) /\ called \in Seq(Listener)

Empty == [i \in 1 .. Slots |-> None]

Init ==
    /\ object = "absent" /\ slots = Empty /\ cursor = 0
    /\ asked = <<>> /\ called = <<>>

\* The structure is not cleared before it is looked at: what malloc may have left in it is
\* taken for places that are there already, and what follows then is left open.
Create ==
    /\ object = "absent"
    /\ object' \in {"live", "wild"}
    /\ UNCHANGED <<slots, cursor, asked, called>>

Free == {i \in 1 .. Slots : slots[i] = None}

\* Mutant: the last place that is free.
LastFree == CHOOSE i \in Free : \A j \in Free : j <= i

FirstFree == CHOOSE i \in Free : \A j \in Free : i <= j

\* Without a free place nothing happens, and the caller is not told.
Placed(l) == slots' = IF Free = {} THEN slots ELSE [slots EXCEPT ![FirstFree] = l]

\* Bound: one callback more than there are places.
Asks(l) == Len(asked) <= Slots /\ asked' = Append(asked, l)

Listen(l) ==
    /\ object = "live" /\ cursor = 0
    /\ Placed(l) /\ Asks(l)
    /\ UNCHANGED <<object, cursor, called>>

Notify ==
    /\ object = "live" /\ cursor = 0
    /\ cursor' = 1 /\ called' = <<>>
    /\ UNCHANGED <<object, slots, asked>>

\* Mutant: the loop visits the place behind the last one.
AfterPast(c) == IF c <= Slots THEN c + 1 ELSE 0

\* Mutant: the loop does not advance.
AfterStuck(c) == c

After(c) == IF c < Slots THEN c + 1 ELSE 0

\* One turn of the loop; the callback may register another one.
Visit ==
    /\ cursor # 0 /\ cursor' = After(cursor) /\ UNCHANGED object
    /\ IF slots[cursor] = None
       THEN UNCHANGED <<slots, asked, called>>
       ELSE /\ called' = Append(called, slots[cursor])
            /\ \/ UNCHANGED <<slots, asked>>
               \/ \E l \in Listener : Placed(l) /\ Asks(l)

\* The cleaning releases the places and leaves the field as it is; the allocator then
\* releases what the first field points to, the places again: the C library ends the
\* process.
Dispose ==
    /\ object = "live" /\ cursor = 0
    /\ object' = "aborted"
    /\ UNCHANGED <<slots, cursor, asked, called>>

Next == Create \/ (\E l \in Listener : Listen(l)) \/ Notify \/ Visit \/ Dispose
=============================================================================
