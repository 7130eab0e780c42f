------------------------------- MODULE Library -------------------------------
(***************************************************************************)
(* Two parts of the library that only the unit tests and the error paths   *)
(* use, in one process: an observable whose callbacks may report errors    *)
(* while they are called, and the reporting, which may end the process.    *)
(***************************************************************************)
EXTENDS Integers, Sequences

CONSTANTS Listener, None, Slots, FmtSize, MaxLength

ASSUME LibraryAssumption ==
    /\ None \notin Listener /\ Slots \in Nat \ {0}
    /\ FmtSize \in Nat \ {0} /\ MaxLength \in Nat

VARIABLES object, slots, cursor, asked, called, fatal, length, size, pc, printed

observable == <<object, slots, cursor, asked, called>>
report == <<fatal, length, size, pc, printed>>
vars == <<observable, report>>

O == INSTANCE Observable
E == INSTANCE ErrorReport

TypeOK == O!TypeOK /\ E!TypeOK

Init == O!Init /\ E!Init

Ended == pc = "exited" \/ object \in {"wild", "aborted"}

\* A notification is at an empty place: there is no callback that runs.
Skips == cursor # 0 /\ slots[cursor] = None

Observes == ~Ended /\ pc = "idle" /\ O!Next /\ UNCHANGED report

Reports == ~Ended /\ ~Skips /\ E!Next /\ UNCHANGED observable

Next == Observes \/ Reports

Spec == Init /\ [][Next]_vars

\* The callback whose turn it is returns, however many errors it reports before, and the
\* loop goes on.
Turns == ~Ended /\ pc = "idle" /\ O!Visit /\ UNCHANGED report

Returns == ~Ended /\ ~Skips /\ E!Reporting /\ UNCHANGED observable

FairSpec == Spec /\ SF_vars(Turns) /\ WF_vars(Returns)
-----------------------------------------------------------------------------
First(s, n) == SubSeq(s, 1, IF Len(s) < n THEN Len(s) ELSE n)

\* When a notification is over everyone registered has been called, in that order and
\* as often as registered, those a callback has added in its course among them; only
\* what was registered beyond the places is left out.
EveryoneIsCalled == 
    [][cursor # 0 /\ cursor' = 0 => called' = First(asked', Slots)]_vars

\* A notification comes to its end although its callbacks may add others and report
\* errors, or one of these errors ends the process.
NotificationsEnd == cursor # 0 ~> cursor = 0 \/ Ended

\* A line is printed whole, however long, before the process ends or goes on.
PrintedWhole == pc \in {"idle", "exited"} /\ printed >= 0 => printed = length

\* Every report comes to its end: the second block is large enough.
ReportsEnd == pc \notin {"idle", "exited"} ~> pc \in {"idle", "exited"}
=============================================================================
