------------------------------ MODULE KVService ------------------------------
(***************************************************************************)
(* What ZobDB promises its clients: a map, each command of which takes     *)
(* effect once, between the moment it is asked and the moment it is        *)
(* answered; and a restart falls back on what is lasting, which holds the  *)
(* effect of every answered command whose verb is in Durable.              *)
(***************************************************************************)
EXTENDS Integers, Sequences

CONSTANTS
    Client,
    Request,    \* records with a verb, a key and a payload
    AnswerRoom, \* how much of a value a read shows
    Durable,    \* the verbs whose Ok outlives a crash
    MayRefuse   \* TRUE if a command may be answered Ko for no reason of its own

VARIABLES
    kv,         \* the map
    lasting,    \* the map a restart would start from
    call        \* what each client has asked and has been told

vars == <<kv, lasting, call>>

NoAnswer == [kind |-> "none", value |-> <<>>]
Ok == [kind |-> "Ok", value |-> <<>>]
Ko == [kind |-> "Ko", value |-> <<>>]
NotFound == [kind |-> "NotFound", value |-> <<>>]
ParseError == [kind |-> "ParseError", value |-> <<>>]
Shown(v) == [kind |-> "Ok", value |-> IF Len(v) > AnswerRoom THEN SubSeq(v, 1, AnswerRoom) ELSE v]

Idle == [phase |-> "idle"]
Asked(req) == [phase |-> "asked", req |-> req]
Done(req, ans) == [phase |-> "done", req |-> req, ans |-> ans]
Told(ans) == [phase |-> "told", ans |-> ans]

Without(f, k) == [x \in DOMAIN f \ {k} |-> f[x]]
With(f, k, v) == [x \in DOMAIN f \cup {k} |-> IF x = k THEN v ELSE f[x]]

Init == kv = lasting /\ DOMAIN kv = {} /\ call = [c \in Client |-> Idle]

Ask(c) ==
    /\ call[c] = Idle
    /\ \E req \in Request : call' = [call EXCEPT ![c] = Asked(req)]
    /\ UNCHANGED <<kv, lasting>>

\* How a command may be answered, and the map it leaves.
Effect(req, ans, after) ==
    \/ /\ req.verb = "new" /\ req.key \notin DOMAIN kv
       /\ ans = Ok /\ after = With(kv, req.key, req.payload)
    \/ /\ req.verb = "new" /\ req.key \in DOMAIN kv
       /\ ans = Ko /\ after = kv
    \/ /\ req.verb = "update"
       /\ ans = Ok /\ after = With(kv, req.key, req.payload)
    \/ /\ req.verb = "delete" /\ req.key \in DOMAIN kv
       /\ ans = Ok /\ after = Without(kv, req.key)
    \/ /\ req.verb = "delete" /\ req.key \notin DOMAIN kv
       /\ ans = Ko /\ after = kv
    \/ /\ req.verb = "read" /\ req.key \in DOMAIN kv
       /\ ans = Shown(kv[req.key]) /\ after = kv
    \/ /\ req.verb = "read" /\ req.key \notin DOMAIN kv
       /\ ans = NotFound /\ after = kv
    \/ req.verb = "stop" /\ ans = Ok /\ after = kv
    \/ /\ MayRefuse /\ req.verb \in {"new", "update", "delete"}
       /\ ans = Ko /\ after = kv
    \/ req.verb = "" /\ ans \in {Ko, ParseError} /\ after = kv

Perform(c) ==
    /\ call[c].phase = "asked"
    /\ call'[c].phase = "done" /\ call'[c].req = call[c].req
    /\ call' = [call EXCEPT ![c] = Done(call[c].req, call'[c].ans)]
    /\ Effect(call[c].req, call'[c].ans, kv')
    /\ UNCHANGED lasting

SameAt(f, g, k) ==
    /\ k \in DOMAIN f <=> k \in DOMAIN g
    /\ k \in DOMAIN f => f[k] = g[k]

\* A durable Ok is only told once its effect is lasting.
Tell(c) ==
    /\ call[c].phase = "done"
    /\ call[c].req.verb \in Durable /\ call[c].ans.kind = "Ok" =>
            SameAt(kv, lasting, call[c].req.key)
    /\ call' = [call EXCEPT ![c] = Told(call[c].ans)]
    /\ UNCHANGED <<kv, lasting>>

Forget(c) ==
    /\ call[c].phase = "told"
    /\ call' = [call EXCEPT ![c] = Idle]
    /\ UNCHANGED <<kv, lasting>>

\* The effects on some keys become lasting.
Persist ==
    /\ \A k \in DOMAIN kv \cup DOMAIN lasting \cup DOMAIN lasting' :
        SameAt(lasting', kv, k) \/ SameAt(lasting', lasting, k)
    /\ UNCHANGED <<kv, call>>

\* The service stops or fails: the calls not yet answered are given up.
Restart ==
    /\ kv' = lasting'
    /\ lasting' \in {lasting, kv}
    /\ call' = [c \in Client |-> IF call[c].phase = "told" THEN call[c] ELSE Idle]

Next ==
    \/ \E c \in Client : Ask(c) \/ Perform(c) \/ Tell(c) \/ Forget(c)
    \/ Persist
    \/ Restart

Spec == Init /\ [][Next]_vars
=============================================================================
