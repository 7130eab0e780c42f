------------------------ MODULE ZobRefinement_proofs ------------------------
(***************************************************************************)
(* ZobSystem implements KVService, for any clients, texts and sizes: each  *)
(* step of the server, of a client, of the library or of the operator is   *)
(* one step of the service, or none.  And what keeps the server running.   *)
(***************************************************************************)
EXTENDS ZobRefinement, ZobSystem_proofs

\* Without an open handle there is nothing in the cache, and it is the system that has
\* refused to open one.
HandleInv ==
    /\ pc = "down" => ~open
    /\ ~open => cache = Empty /\ (pc # "down" => IoMayFail)

\* The one client in the queue is neither the one being served nor an idle one, and has
\* not been answered yet.
QueueInv ==
    /\ Len(pending) <= 1
    /\ \A i \in DOMAIN pending :
        /\ client[pending[i]] # "idle"
        /\ outbox[pending[i]] = NoAnswer
        /\ pending[i] # session
    /\ session # NoClient => pc \in InSessionPcs /\ client[session] # "idle"

\* An answer is on its way only when the session is over, and a text only until it has
\* been read.
BoxInv ==
    \A c \in Client :
        /\ inbox[c] \in Inputs \cup {<<>>}
        /\ inbox[c] # <<>> => Attached(c)
        /\ client[c] \in {"idle", "connected"} => inbox[c] = <<>> /\ outbox[c] = NoAnswer
        /\ outbox[c] # NoAnswer => inbox[c] = <<>>
        /\ c = session /\ pc # "end" => outbox[c] = NoAnswer
        /\ c = session /\ pc # "read" => inbox[c] = <<>> /\ client[c] # "connected"

\* The builder of a session is what the parser makes of the text its client has sent.
TextInv ==
    /\ pc = "read" => rb = NewBuilder
    /\ pc = "parse" => \E t \in Inputs \ {<<>>} : rb = Entry(t)
    /\ pc \in {"process", "sync", "answer"} =>
        /\ \E t \in Inputs \ {<<>>} : rb = Pass(Entry(t))
        /\ rb.fault = "none" /\ LoopEnds(rb)
    /\ pc \in {"process", "sync"} => ~rb.bad
    /\ pc \in {"sync", "answer"} => answer # NoAnswer

RefInv == HandleInv /\ QueueInv /\ BoxInv /\ TextInv

LEMMA RefInit == Init => RefInv
<1> SUFFICES ASSUME Init PROVE RefInv
  OBVIOUS
<1>1. HandleInv /\ TextInv
  BY DEF Init, StoreInit, HandleInv, TextInv
<1>2. QueueInv
  BY EmptySeq DEF Init, QueueInv
<1>3. BoxInv
  BY SystemAssumption DEF Init, BoxInv
<1> QED
  BY <1>1, <1>2, <1>3 DEF RefInv

-----------------------------------------------------------------------------
(* What the parser makes of a text and what the service takes it for.      *)

LEMMA Understood ==
    ASSUME NEW t \in Inputs \ {<<>>},
           Pass(Entry(t)).fault = "none", LoopEnds(Pass(Entry(t)))
    PROVE  LET r == Pass(Entry(t))
           IN  /\ r.bad => Meaning(t) = Nothing
               /\ ~r.bad => /\ ~r.needMoar
                            /\ r.request.verb # NoVerb => Meaning(t) = r.request
                            /\ r.request.verb = NoVerb => Meaning(t) = Nothing
<1> DEFINE r == Pass(Entry(t))
<1>1. t \in Text /\ t # <<>> /\ ~OnBoundary(t) /\ (Meaning(t) = Nothing => NotPerformed(t))
  BY SystemAssumption, RefinementAssumption
<1>2. ~r.bad => ~r.needMoar
  BY <1>1, PassEnds
<1>3. CASE \E m \in Commands : Starts(t, m)
  <2>1. PICK m \in Commands : Meaning(t) = m /\ Starts(t, m)
    BY <1>3 DEF Meaning
  <2>2. m \in Message /\ IsCommand(m)
    BY SystemAssumption
  <2>3. ~r.bad /\ r.request = m
    BY <1>1, <2>1, <2>2, LineDecides DEF Starts
  <2>4. m.verb # NoVerb
    BY <2>2 DEF IsCommand, NoVerb
  <2> QED
    BY <1>2, <2>1, <2>3, <2>4
<1>4. CASE ~\E m \in Commands : Starts(t, m)
  <2>1. Meaning(t) = Nothing
    BY <1>4 DEF Meaning
  <2>2. r.bad \/ r.request.verb = NoVerb
    BY <1>1, <2>1 DEF NotPerformed, Entry
  <2> QED
    BY <1>2, <2>1, <2>2
<1> QED
  BY <1>3, <1>4

\* A text that is read is in the builder as it was sent, and stays there.
LEMMA TextsStay ==
    ASSUME NEW t \in Inputs \ {<<>>}
    PROVE  Entry(t).buf = t /\ Pass(Entry(t)).buf = t
<1>1. t \in Text /\ t # <<>> /\ Kept(t) = t
  BY SystemAssumption, RefinementAssumption DEF Kept
<1> QED
  BY <1>1, EntryType, PassKeepsText

\* What a pass of the loop leads to.
LEMMA Parsed ==
    ASSUME NEW t \in Inputs \ {<<>>}, Pass(Entry(t)).fault = "none"
    PROVE  \/ Pass(Entry(t)) = Entry(t) /\ ~LoopEnds(Entry(t))
           \/ LoopEnds(Pass(Entry(t)))
<1>1. t \in Text /\ t # <<>>
  BY SystemAssumption
<1> QED
  BY <1>1, PassEnds

-----------------------------------------------------------------------------
(* The invariant the mapping needs.                                        *)

LEMMA GoneKeeps ==
    ASSUME RefInv, NEW status, Gone(status), open' = FALSE, cache' = Empty
    PROVE  RefInv'
<1>1. HandleInv' /\ TextInv'
  BY DEF Gone, HandleInv, TextInv
<1>2. QueueInv'
  BY EmptySeq DEF Gone, QueueInv
<1>3. BoxInv'
  BY SystemAssumption DEF Gone, RefInv, BoxInv
<1> QED
  BY <1>1, <1>2, <1>3 DEF RefInv

LEMMA DeathKeeps == ASSUME RefInv, NEW status, Die(status) PROVE RefInv'
BY GoneKeeps DEF Die, StoreLost

\* A step inside a session that leaves the links and the clients alone.
LEMMA WithinKeeps ==
    ASSUME TypeInv, RefInv, UNCHANGED <<linkVars, client>>,
           pc \in InSessionPcs \ {"read", "end"}, pc' \in InSessionPcs \ {"read", "end"},
           HandleInv', TextInv'
    PROVE  RefInv'
<1>1. QueueInv'
  BY DEF RefInv, QueueInv, linkVars
<1>2. BoxInv'
  BY DEF RefInv, BoxInv, linkVars, Attached, InSessionPcs
<1> QED
  BY <1>1, <1>2 DEF RefInv

LEMMA ListenKeeps == ASSUME TypeInv, RefInv, Listen PROVE RefInv'
<1>1. CASE sockFile
  BY <1>1, DeathKeeps DEF Listen
<1>2. CASE ~sockFile
  <2>1. HandleInv' /\ TextInv'
    BY <1>2 DEF Listen, RefInv, HandleInv, TextInv, storeVars
  <2>2. QueueInv'
    BY <1>2 DEF Listen, RefInv, QueueInv, InSessionPcs
  <2>3. BoxInv'
    BY <1>2 DEF Listen, RefInv, QueueInv, BoxInv, Attached, InSessionPcs
  <2> QED
    BY <2>1, <2>2, <2>3 DEF RefInv
<1> QED
  BY <1>1, <1>2

LEMMA BeginKeeps == ASSUME TypeInv, RefInv, SessionBegin PROVE RefInv'
<1> DEFINE c == pending[1]
<1>1. /\ pending \in Seq(Client) /\ pending # <<>> /\ Len(pending) = 1 /\ DOMAIN pending = {1}
      /\ c \in Client /\ session' = c /\ pending' = <<>>
  <2>1. /\ pending \in Seq(Client) /\ pending # <<>> /\ Len(pending) <= 1
    BY DEF SessionBegin, TypeInv, LinkTypes, RefInv, QueueInv
  <2>2. Len(pending) = 1
    BY <2>1, EmptySeq
  <2>3. Tail(pending) \in Seq(Client) /\ Len(Tail(pending)) = 0 /\ Head(pending) = c
    BY <2>1, <2>2, HeadTailProperties
  <2> QED
    BY <2>1, <2>2, <2>3, EmptySeq DEF SessionBegin
<1> HIDE DEF c
<1>2. /\ client[c] # "idle" /\ outbox[c] = NoAnswer
      /\ pc = "accept" /\ pc' = "read" /\ rb' = NewBuilder
      /\ UNCHANGED <<answer, inbox, outbox, client, cache, open>>
  BY <1>1 DEF SessionBegin, RefInv, QueueInv, storeVars, c
<1>3. session = NoClient
  BY <1>2 DEF RefInv, QueueInv, InSessionPcs
<1>4. HandleInv' /\ TextInv'
  BY <1>2 DEF RefInv, HandleInv, TextInv
<1>5. QueueInv'
  BY <1>1, <1>2, EmptySeq DEF QueueInv, InSessionPcs
<1>6. BoxInv'
  <2> SUFFICES ASSUME NEW d \in Client
               PROVE  /\ inbox[d] \in Inputs \cup {<<>>}
                      /\ inbox[d] # <<>> => Attached(d)'
                      /\ client[d] \in {"idle", "connected"} => inbox[d] = <<>> /\ outbox[d] = NoAnswer
                      /\ outbox[d] # NoAnswer => inbox[d] = <<>>
                      /\ d = c => outbox[d] = NoAnswer
    BY <1>1, <1>2 DEF BoxInv
  <2>1. Attached(d) => d = c
    BY <1>1, <1>3, SystemAssumption DEF Attached, c
  <2>2. d = c => Attached(d)'
    BY <1>1 DEF Attached
  <2> QED
    BY <1>2, <2>1, <2>2 DEF RefInv, BoxInv
<1> QED
  BY <1>4, <1>5, <1>6 DEF RefInv

LEMMA ReadKeeps == ASSUME TypeInv, RefInv, Read PROVE RefInv'
<1> DEFINE t == inbox[session]
           r == Write(rb, t)
<1>1. session \in Client /\ t \in Inputs \cup {<<>>} /\ r = Entry(t)
  BY DEF Read, TypeInv, LinkTypes, InSessionPcs, RefInv, BoxInv, TextInv, Entry
<1>2. CASE r.fault # "none"
  BY <1>2, DeathKeeps DEF Read
<1>3. CASE r.fault = "none"
  <2>1. t # <<>>
    BY <1>1, <1>3 DEF Entry, Write, NewBuilder
  <2>2. /\ pc = "read" /\ pc' = "parse" /\ rb' = Entry(t)
        /\ inbox' = [inbox EXCEPT ![session] = <<>>]
        /\ UNCHANGED <<answer, pending, session, outbox, client, cache, open>>
    BY <1>1, <1>3 DEF Read, storeVars
  <2>3. HandleInv' /\ TextInv'
    BY <1>1, <2>1, <2>2 DEF RefInv, HandleInv, TextInv
  <2>4. QueueInv'
    BY <2>2 DEF RefInv, QueueInv, InSessionPcs
  <2>5. BoxInv'
    <3> SUFFICES ASSUME NEW d \in Client
                 PROVE  /\ inbox'[d] \in Inputs \cup {<<>>}
                        /\ inbox'[d] # <<>> => Attached(d)
                        /\ client[d] \in {"idle", "connected"} =>
                               inbox'[d] = <<>> /\ outbox[d] = NoAnswer
                        /\ outbox[d] # NoAnswer => inbox'[d] = <<>>
                        /\ d = session => outbox[d] = NoAnswer
                        /\ d = session => inbox'[d] = <<>> /\ client[d] # "connected"
      BY <2>2 DEF BoxInv, Attached
    <3>1. inbox'[d] = IF d = session THEN <<>> ELSE inbox[d]
      BY <1>1, <2>2 DEF TypeInv, LinkTypes
    <3>2. client[session] # "connected"
      BY <1>1, <2>1 DEF RefInv, BoxInv
    <3> QED
      BY <1>1, <2>2, <3>1, <3>2 DEF RefInv, BoxInv
  <2> QED
    BY <2>3, <2>4, <2>5 DEF RefInv
<1> QED
  BY <1>2, <1>3

LEMMA ParseKeeps == ASSUME TypeInv, RefInv, Parse PROVE RefInv'
<1>1. PICK t \in Inputs \ {<<>>} : rb = Entry(t)
  BY DEF Parse, RefInv, TextInv
<1> DEFINE r == Pass(Entry(t))
<1>2. CASE r.fault # "none"
  BY <1>1, <1>2, DeathKeeps DEF Parse
<1>3. CASE r.fault = "none"
  <2>1. /\ pc = "parse" /\ rb' = r
        /\ pc' = IF ~LoopEnds(r) THEN "parse"
                 ELSE IF r.bad THEN "answer"
                 ELSE IF r.needMoar THEN "read" ELSE "process"
        /\ answer' = IF LoopEnds(r) /\ r.bad THEN Plain("ParseError") ELSE answer
        /\ UNCHANGED <<linkVars, client, cache, open>>
    BY <1>1, <1>3 DEF Parse, storeVars
  <2>2. CASE LoopEnds(r)
    <3>1. pc' = IF r.bad THEN "answer" ELSE "process"
      BY <1>3, <2>1, <2>2, Understood
    <3>2. Plain("ParseError") # NoAnswer
      BY DEF Plain, NoAnswer
    <3>3. TextInv'
      BY <1>3, <2>1, <2>2, <3>1, <3>2 DEF TextInv
    <3>4. HandleInv'
      BY <2>1, <3>1 DEF RefInv, HandleInv
    <3> QED
      BY <2>1, <3>1, <3>3, <3>4, WithinKeeps DEF InSessionPcs
  <2>3. CASE ~LoopEnds(r)
    <3>1. r = Entry(t)
      BY <1>3, <2>3, Parsed
    <3>2. TextInv' /\ HandleInv'
      BY <2>1, <2>3, <3>1 DEF TextInv, RefInv, HandleInv
    <3> QED
      BY <2>1, <2>3, <3>2, WithinKeeps DEF InSessionPcs
  <2> QED
    BY <2>2, <2>3
<1> QED
  BY <1>2, <1>3

LEMMA ProcessKeeps == ASSUME TypeInv, RefInv, Process PROVE RefInv'
<1>1. CASE \E status : Die(status)
  BY <1>1, DeathKeeps
<1>2. CASE ~\E status : Die(status)
  <2>1. /\ pc = "process" /\ pc' \in {"sync", "answer"}
        /\ UNCHANGED <<linkVars, client, rb>>
        /\ open' = open /\ (~open => cache' = cache)
        /\ answer'.kind \in {"Ok", "Ko", "NotFound"}
    <3>1. CASE ProcessRead
      BY <1>2, <3>1 DEF ProcessRead, Performs, Answers, storeVars, Shown, Plain
    <3>2. ASSUME NEW verb, NEW overwrite, ProcessWrite(verb, overwrite)
          PROVE  <2>1!1 /\ <2>1!2 /\ <2>1!3 /\ <2>1!4
      BY <3>2 DEF ProcessWrite, Performs, Answers, storeVars, Plain, StorePut, StoreRefuses
    <3>3. CASE ProcessDelete
      BY <3>3 DEF ProcessDelete, Performs, Answers, storeVars, Plain, StoreDelete, StoreRefuses
    <3>4. CASE ProcessStop \/ ProcessNothing
      BY <3>4 DEF ProcessStop, ProcessNothing, Performs, Answers, storeVars, Plain
    <3> QED
      BY <3>1, <3>2, <3>3, <3>4 DEF Process, ProcessUpdate, ProcessNew
  <2>2. answer' # NoAnswer
    BY <2>1 DEF NoAnswer, Plain
  <2>3. HandleInv' /\ TextInv'
    BY <2>1, <2>2 DEF RefInv, HandleInv, TextInv
  <2> QED
    BY <2>1, <2>3, WithinKeeps DEF InSessionPcs
<1> QED
  BY <1>1, <1>2

\* Steps of the server that change neither the clients nor the queue, and at the most
\* end the session.
LEMMA OutsideKeeps ==
    ASSUME TypeInv, RefInv, UNCHANGED <<pending, inbox, outbox, client>>,
           \/ session' = session /\ pc' = pc
           \/ session' = session /\ pc \notin InSessionPcs /\ pc' \notin InSessionPcs
           \/ session' = NoClient /\ pc = "end" /\ pc' \notin InSessionPcs,
           HandleInv', TextInv'
    PROVE  RefInv'
<1>1. session \notin Client => session = NoClient
  BY DEF TypeInv, LinkTypes
<1>2. QueueInv'
  <2>1. \A i \in DOMAIN pending : pending[i] # NoClient
    BY ElementOfSeq, SystemAssumption DEF TypeInv, LinkTypes
  <2> QED
    BY <1>1, <2>1 DEF RefInv, QueueInv
<1>3. BoxInv'
  <2> SUFFICES ASSUME NEW d \in Client
               PROVE  /\ inbox[d] # <<>> => Attached(d)'
                      /\ d = session' /\ pc' # "end" => outbox[d] = NoAnswer
                      /\ d = session' /\ pc' # "read" => inbox[d] = <<>> /\ client[d] # "connected"
    BY DEF RefInv, BoxInv
  <2>1. d # NoClient
    BY SystemAssumption
  <2>2. inbox[d] # <<>> => Attached(d) /\ (d = session => pc = "read")
    BY DEF RefInv, BoxInv
  <2> QED
    BY <2>1, <2>2 DEF RefInv, BoxInv, QueueInv, Attached, InSessionPcs
<1> QED
  BY <1>2, <1>3 DEF RefInv

LEMMA SyncKeeps == ASSUME TypeInv, RefInv, Sync PROVE RefInv'
<1>1. /\ pc = "sync" /\ pc' = "answer"
      /\ UNCHANGED <<rb, answer, linkVars, client, cache, open>>
  BY DEF Sync, StoreSync, StoreRefuses, storeVars
<1>2. HandleInv' /\ TextInv'
  BY <1>1 DEF RefInv, HandleInv, TextInv
<1> QED
  BY <1>1, <1>2, WithinKeeps DEF InSessionPcs

LEMMA SendAnswerKeeps == ASSUME TypeInv, RefInv, SendAnswer PROVE RefInv'
<1>1. CASE ~Alive(session)
  BY <1>1, DeathKeeps DEF SendAnswer
<1>2. CASE Alive(session)
  <2>1. /\ pc = "answer" /\ pc' = "end"
        /\ outbox' = [outbox EXCEPT ![session] = answer]
        /\ UNCHANGED <<rb, answer, pending, session, inbox, client, cache, open>>
    BY <1>2 DEF SendAnswer, storeVars
  <2>2. HandleInv' /\ TextInv'
    BY <2>1 DEF RefInv, HandleInv, TextInv
  <2>3. session \in Client /\ client[session] \in {"connected", "waiting"}
    BY <1>2, <2>1 DEF TypeInv, LinkTypes, InSessionPcs, Alive
  <2>4. \A d \in Client : outbox'[d] = IF d = session THEN answer ELSE outbox[d]
    BY <2>1 DEF TypeInv, LinkTypes
  <2>5. QueueInv'
    <3>1. \A i \in DOMAIN pending : pending[i] \in Client
      BY ElementOfSeq DEF TypeInv, LinkTypes
    <3> QED
      BY <2>1, <2>4, <3>1 DEF RefInv, QueueInv, InSessionPcs
  <2>6. BoxInv'
    BY <2>1, <2>3, <2>4 DEF RefInv, BoxInv, Attached
  <2> QED
    BY <2>2, <2>5, <2>6 DEF RefInv
<1> QED
  BY <1>1, <1>2

LEMMA ServerKeeps == ASSUME TypeInv, RefInv, ServerStep PROVE RefInv'
<1>1. CASE SessionEnd
  <2>1. /\ pc = "end" /\ pc' \in {"accept", "close"} /\ session' = NoClient
        /\ UNCHANGED <<pending, inbox, outbox, client, cache, open>>
    BY <1>1 DEF SessionEnd, storeVars
  <2>2. HandleInv' /\ TextInv'
    BY <2>1 DEF RefInv, HandleInv, TextInv
  <2> QED
    BY <2>1, <2>2, OutsideKeeps DEF InSessionPcs
<1>2. CASE Close
  BY <1>2, GoneKeeps DEF Close, StoreClose
<1> QED
  BY <1>1, <1>2, ListenKeeps, BeginKeeps, ReadKeeps, ParseKeeps, ProcessKeeps, SyncKeeps,
     SendAnswerKeeps DEF ServerStep

LEMMA OperatorKeeps ==
    ASSUME TypeInv, RefInv, Launch \/ Evict \/ Crash \/ RemoveSocket
    PROVE  RefInv'
<1>1. CASE Launch
  <2>1. /\ pc = "down" /\ pc' = "listen"
        /\ UNCHANGED <<rb, answer, linkVars, client>>
        /\ open' = TRUE \/ (IoMayFail /\ open' = open /\ cache' = cache)
    BY <1>1 DEF Launch, StoreConnect
  <2>2. HandleInv' /\ TextInv'
    BY <2>1 DEF RefInv, HandleInv, TextInv
  <2> QED
    BY <2>1, <2>2, OutsideKeeps DEF InSessionPcs, linkVars
<1>2. CASE Evict \/ RemoveSocket
  <2>1. UNCHANGED <<pc, rb, answer, pending, session, inbox, outbox, client, cache, open>>
    BY <1>2 DEF Evict, WriteBack, RemoveSocket, serverVars, linkVars, storeVars
  <2>2. HandleInv' /\ TextInv'
    BY <2>1 DEF RefInv, HandleInv, TextInv
  <2> QED
    BY <2>1, <2>2, OutsideKeeps
<1>3. CASE Crash
  BY <1>3, DeathKeeps DEF Crash
<1> QED
  BY <1>1, <1>2, <1>3

\* One client does its step: the others, the server and the store stay as they are.
LEMMA ClientKeeps ==
    ASSUME TypeInv, RefInv, NEW c \in Client, ClientStep(c) \/ HangUp(c)
    PROVE  RefInv'
<1>1. UNCHANGED <<pc, rb, answer, session, cache, open>>
  BY DEF ClientStep, Connect, Send, Receive, Again, HangUp, serverVars, linkVars, storeVars
<1>2. HandleInv' /\ TextInv'
  BY <1>1 DEF RefInv, HandleInv, TextInv
<1>3. \A d \in Client : client'[d] = IF d = c THEN client'[c] ELSE client[d]
  BY DEF ClientStep, Connect, Send, Receive, Again, HangUp, Becomes, TypeInv, ClientTypes
<1>4. /\ \A i \in DOMAIN pending : pending[i] \in Client
      /\ session # NoClient <=> session \in Client
  BY ElementOfSeq, SystemAssumption DEF TypeInv, LinkTypes
<1>5. CASE Connect(c)
  <2>1. /\ client[c] = "idle" /\ client'[c] # "idle"
        /\ client'[c] = "connected" \/ client'[c] = "failed"
        /\ UNCHANGED <<inbox, outbox>>
    BY <1>5 DEF Connect, Becomes, TypeInv, ClientTypes
  <2>2. inbox[c] = <<>> /\ outbox[c] = NoAnswer /\ c # session
    BY <1>4, <2>1 DEF RefInv, BoxInv, QueueInv
  <2>3. pending' = pending \/ pending' = <<c>>
    <3>1. pending \in Seq(Client) /\ (pending' # pending => Len(pending) = 0)
      BY <1>5 DEF Connect, Backlog, TypeInv, LinkTypes
    <3>2. Append(<<>>, c) = <<c>>
      OBVIOUS
    <3> QED
      BY <1>5, <3>1, <3>2, EmptySeq DEF Connect
  <2>4. QueueInv'
    <3>1. CASE pending' = pending
      BY <1>1, <1>3, <1>4, <2>1, <2>2, <3>1 DEF RefInv, QueueInv
    <3>2. CASE pending' = <<c>>
      BY <1>1, <1>3, <1>4, <2>1, <2>2, <3>2 DEF RefInv, QueueInv
    <3> QED
      BY <2>3, <3>1, <3>2
  <2>5. BoxInv'
    <3>1. \A d \in Client : Attached(d) => Attached(d)' \/ d = c
      <4>1. CASE pending' = pending
        BY <1>1, <4>1 DEF Attached
      <4>2. CASE pending = <<>>
        BY <1>1, <4>2 DEF Attached
      <4>3. pending' # pending => pending = <<>>
        <5>1. pending \in Seq(Client) /\ (pending' # pending => Len(pending) = 0)
          BY <1>5 DEF Connect, Backlog, TypeInv, LinkTypes
        <5> QED
          BY <5>1, EmptySeq
      <4> QED
        BY <4>1, <4>2, <4>3
    <3> QED
      BY <1>1, <1>3, <2>1, <2>2, <3>1 DEF RefInv, BoxInv
  <2> QED
    BY <1>2, <2>4, <2>5 DEF RefInv
<1>6. CASE Send(c)
  <2>1. /\ client[c] = "connected" /\ UNCHANGED <<pending, outbox>>
        /\ client'[c] \in {"waiting", "failed"}
    BY <1>6 DEF Send, Becomes, TypeInv, ClientTypes
  <2>2. /\ \A d \in Client : d # c => inbox'[d] = inbox[d]
        /\ inbox'[c] \in Inputs \cup {<<>>}
        /\ inbox'[c] # <<>> => Attached(c)
    <3>1. CASE Attached(c)
      BY <1>6, <3>1 DEF Send, TypeInv, LinkTypes
    <3>2. CASE ~Attached(c)
      BY <1>6, <3>2 DEF Send, RefInv, BoxInv
    <3> QED
      BY <3>1, <3>2
  <2>3. /\ outbox[c] = NoAnswer
        /\ c = session => pc = "read"
    BY <2>1 DEF RefInv, BoxInv
  <2>4. QueueInv'
    BY <1>1, <1>3, <1>4, <2>1 DEF RefInv, QueueInv
  <2>5. BoxInv'
    <3>1. \A d \in Client : Attached(d)' <=> Attached(d)
      BY <1>1, <2>1 DEF Attached
    <3> SUFFICES ASSUME NEW d \in Client
                 PROVE  /\ inbox'[d] \in Inputs \cup {<<>>}
                        /\ inbox'[d] # <<>> => Attached(d)
                        /\ client'[d] \in {"idle", "connected"} =>
                               inbox'[d] = <<>> /\ outbox[d] = NoAnswer
                        /\ outbox[d] # NoAnswer => inbox'[d] = <<>>
                        /\ d = session /\ pc # "end" => outbox[d] = NoAnswer
                        /\ d = session /\ pc # "read" => inbox'[d] = <<>> /\ client'[d] # "connected"
      BY <1>1, <2>1, <3>1 DEF BoxInv
    <3>2. CASE d = c
      BY <2>1, <2>2, <2>3, <3>2
    <3>3. CASE d # c
      BY <1>3, <2>2, <3>3 DEF RefInv, BoxInv
    <3> QED
      BY <3>2, <3>3
  <2> QED
    BY <1>2, <2>4, <2>5 DEF RefInv
<1>7. CASE Receive(c) \/ Again(c) \/ HangUp(c)
  <2>1. /\ UNCHANGED <<pending, inbox>>
        /\ client'[c] \in {"ok", "failed", "killed", "idle"}
        /\ client'[c] = "idle" => ~Attached(c) /\ outbox'[c] = NoAnswer
        /\ client[c] \notin {"idle"}
    BY <1>7 DEF Receive, Again, HangUp, Alive, Becomes, linkVars, TypeInv, ClientTypes, LinkTypes
  <2>2. /\ \A d \in Client : d # c => outbox'[d] = outbox[d]
        /\ outbox'[c] \in {outbox[c], NoAnswer}
    BY <1>7 DEF Receive, Again, HangUp, linkVars, TypeInv, LinkTypes
  <2>3. QueueInv'
    BY <1>1, <1>3, <1>4, <2>1, <2>2 DEF RefInv, QueueInv, Attached
  <2>4. BoxInv'
    <3>1. \A d \in Client : Attached(d)' <=> Attached(d)
      BY <1>1, <2>1 DEF Attached
    <3>2. client'[c] = "idle" => inbox[c] = <<>>
      BY <2>1 DEF RefInv, BoxInv
    <3> QED
      BY <1>1, <1>3, <2>1, <2>2, <3>1, <3>2 DEF RefInv, BoxInv
  <2> QED
    BY <1>2, <2>3, <2>4 DEF RefInv
<1> QED
  BY <1>5, <1>6, <1>7 DEF ClientStep

LEMMA RefNext == ASSUME TypeInv, RefInv, [Next]_vars PROVE RefInv'
<1>1. CASE UNCHANGED vars
  <2>1. UNCHANGED <<pc, rb, answer, pending, session, inbox, outbox, client, cache, open>>
    BY <1>1 DEF vars, serverVars, linkVars, storeVars
  <2>2. HandleInv' /\ TextInv'
    BY <2>1 DEF RefInv, HandleInv, TextInv
  <2> QED
    BY <2>1, <2>2, OutsideKeeps
<1> QED
  BY <1>1, ServerKeeps, OperatorKeeps, ClientKeeps DEF Next

-----------------------------------------------------------------------------
(* Each step is one of the service, or none.                               *)

Kv == IF open THEN cache ELSE disk

Calls == [c \in Client |-> CallOf(c)]

\* What a call is depends on where its client's texts are and on the session it is in.
LEMMA SameCall ==
    ASSUME NEW c \in Client, outbox'[c] = outbox[c], inbox'[c] = inbox[c],
           \/ c # session /\ c # session'
           \/ UNCHANGED <<session, pc, rb, answer>>
    PROVE  CallOf(c)' = CallOf(c)
BY DEF CallOf, InSession

LEMMA Stutters ==
    ASSUME Kv' = Kv, disk' = disk, \A c \in Client : CallOf(c)' = CallOf(c)
    PROVE  UNCHANGED Service!vars
<1>1. Calls' = Calls
  BY DEF Calls
<1> QED
  BY <1>1 DEF Calls, Kv, Service!vars

\* A step on one call leaves the others as they are.
LEMMA OneCall ==
    ASSUME NEW c \in Client, \A d \in Client \ {c} : CallOf(d)' = CallOf(d)
    PROVE  Calls' = [Calls EXCEPT ![c] = CallOf(c)']
BY DEF Calls

\* However the process ends, the calls it has not answered are given up.
LEMMA GoneRestarts ==
    ASSUME NEW status, Gone(status), open' = FALSE, disk' \in {disk, Kv}
    PROVE  Service!Restart
<1>1. ASSUME NEW c \in Client
      PROVE  CallOf(c)' = IF CallOf(c).phase = "told" THEN CallOf(c) ELSE Service!Idle
  <2>1. outbox' = outbox /\ inbox'[c] = <<>> /\ pc' = "down"
    BY DEF Gone
  <2>2. CallOf(c).phase = "told" <=> outbox[c] # NoAnswer
    BY DEF CallOf
  <2> QED
    BY <2>1, <2>2 DEF CallOf, InSession, Service!Idle
<1>2. Calls' = [c \in Client |-> IF Calls[c].phase = "told" THEN Calls[c] ELSE Service!Idle]
  BY <1>1 DEF Calls
<1>3. Kv' = disk'
  BY DEF Kv
<1> QED
  BY <1>2, <1>3 DEF Service!Restart, Calls, Kv

LEMMA DeathRestarts == ASSUME NEW status, Die(status) PROVE Service!Restart
BY GoneRestarts DEF Die, StoreLost

LEMMA CloseRestarts == ASSUME TypeInv, Close PROVE Service!Restart
<1>1. Gone("success") /\ open' = FALSE
  BY DEF Close, StoreClose
<1>2. disk' \in {disk, Kv}
  BY DEF Close, StoreClose, Kv
<1> QED
  BY <1>1, <1>2, GoneRestarts

LEMMA LaunchMaps == ASSUME TypeInv, RefInv, Launch PROVE UNCHANGED Service!vars
<1>1. /\ pc = "down" /\ pc' = "listen" /\ UNCHANGED <<rb, answer, linkVars, disk>>
      /\ ~open
      /\ (open' = TRUE /\ cache' = disk) \/ open' = open
  BY DEF Launch, StoreConnect
<1>2. ASSUME NEW c \in Client PROVE CallOf(c)' = CallOf(c)
  <2>1. c # session
    BY <1>1, SystemAssumption DEF RefInv, QueueInv, InSessionPcs
  <2> QED
    BY <1>1, <2>1, SameCall DEF linkVars
<1>3. Kv' = Kv
  BY <1>1 DEF Kv
<1> QED
  BY <1>1, <1>2, <1>3, Stutters

LEMMA ListenMaps == ASSUME TypeInv, RefInv, Listen PROVE Service!Restart \/ UNCHANGED Service!vars
<1>1. CASE sockFile
  BY <1>1, DeathRestarts DEF Listen
<1>2. CASE ~sockFile
  <2>1. /\ pc = "listen"
        /\ UNCHANGED <<rb, answer, session, inbox, outbox, cache, disk, open>>
    BY <1>2 DEF Listen, storeVars
  <2>2. ASSUME NEW c \in Client PROVE CallOf(c)' = CallOf(c)
    <3>1. c # session
      BY <2>1, SystemAssumption DEF RefInv, QueueInv, InSessionPcs
    <3> QED
      BY <2>1, <3>1, SameCall
  <2>3. Kv' = Kv
    BY <2>1 DEF Kv
  <2> QED
    BY <2>1, <2>2, <2>3, Stutters
<1> QED
  BY <1>1, <1>2

LEMMA BeginMaps == ASSUME TypeInv, RefInv, SessionBegin PROVE UNCHANGED Service!vars
<1>1. /\ pc = "accept" /\ pc' = "read"
      /\ UNCHANGED <<inbox, outbox, cache, disk, open>>
  BY DEF SessionBegin, storeVars
<1>2. ASSUME NEW c \in Client PROVE CallOf(c)' = CallOf(c)
  BY <1>1 DEF CallOf, InSession
<1>3. Kv' = Kv
  BY <1>1 DEF Kv
<1> QED
  BY <1>1, <1>2, <1>3, Stutters

LEMMA ReadMaps == ASSUME TypeInv, RefInv, Read PROVE Service!Restart \/ UNCHANGED Service!vars
<1> DEFINE t == inbox[session]
           r == Write(rb, t)
<1>1. session \in Client /\ t \in Inputs \cup {<<>>} /\ r = Entry(t) /\ pc = "read"
  BY DEF Read, TypeInv, LinkTypes, InSessionPcs, RefInv, BoxInv, TextInv, Entry
<1>2. CASE r.fault # "none"
  BY <1>2, DeathRestarts DEF Read
<1>3. CASE r.fault = "none"
  <2>1. t # <<>>
    BY <1>1, <1>3 DEF Entry, Write, NewBuilder
  <2>2. /\ pc' = "parse" /\ rb' = Entry(t) /\ rb'.buf = t
        /\ \A d \in Client : inbox'[d] = IF d = session THEN <<>> ELSE inbox[d]
        /\ UNCHANGED <<session, outbox, cache, disk, open>>
    BY <1>1, <1>3, <2>1, TextsStay DEF Read, storeVars, TypeInv, LinkTypes
  <2>3. CallOf(session)' = CallOf(session)
    BY <1>1, <2>1, <2>2 DEF CallOf, InSession
  <2>4. ASSUME NEW c \in Client, c # session PROVE CallOf(c)' = CallOf(c)
    BY <2>2, <2>4, SameCall
  <2>5. Kv' = Kv
    BY <2>2 DEF Kv
  <2> QED
    BY <2>2, <2>3, <2>4, <2>5, Stutters
<1> QED
  BY <1>2, <1>3

LEMMA Performed ==
    ASSUME NEW s \in Client, NEW req, NEW ans,
           CallOf(s) = Service!Asked(req), CallOf(s)' = Service!Done(req, ans),
           \A c \in Client \ {s} : CallOf(c)' = CallOf(c),
           Service!Effect(req, ans, Kv'), disk' = disk
    PROVE  Service!Perform(s)
<1>1. Calls' = [Calls EXCEPT ![s] = Service!Done(req, ans)]
  BY OneCall
<1>2. Calls[s] = Service!Asked(req) /\ Calls'[s] = Service!Done(req, ans)
  BY <1>1 DEF Calls
<1>3. /\ Calls[s].phase = "asked" /\ Calls[s].req = req
      /\ Calls'[s].phase = "done" /\ Calls'[s].req = req /\ Calls'[s].ans = ans
  BY <1>2 DEF Service!Asked, Service!Done
<1>4. Service!Effect(Calls[s].req, Calls'[s].ans, Kv')
  BY <1>3
<1> QED
  BY <1>1, <1>3, <1>4 DEF Service!Perform, Calls, Kv

\* A text that is refused is a command that asks for nothing.
LEMMA ParseMaps ==
    ASSUME TypeInv, RefInv, Parse
    PROVE  \/ Service!Restart
           \/ UNCHANGED Service!vars
           \/ \E c \in Client : Service!Perform(c)
<1>1. PICK t \in Inputs \ {<<>>} : rb = Entry(t)
  BY DEF Parse, RefInv, TextInv
<1> DEFINE r == Pass(Entry(t))
<1>2. CASE r.fault # "none"
  BY <1>1, <1>2, DeathRestarts DEF Parse
<1>3. CASE r.fault = "none"
  <2>1. /\ pc = "parse" /\ rb' = r /\ rb.buf = t /\ rb'.buf = t
        /\ pc' = IF ~LoopEnds(r) THEN "parse"
                 ELSE IF r.bad THEN "answer"
                 ELSE IF r.needMoar THEN "read" ELSE "process"
        /\ answer' = IF LoopEnds(r) /\ r.bad THEN Plain("ParseError") ELSE answer
        /\ UNCHANGED <<session, inbox, outbox, cache, disk, open>>
    BY <1>1, <1>3, TextsStay DEF Parse, storeVars, linkVars
  <2>2. PICK s \in Client : s = session /\ outbox[s] = NoAnswer
    BY <2>1 DEF TypeInv, LinkTypes, InSessionPcs, RefInv, BoxInv
  <2>3. ASSUME NEW c \in Client, c # s PROVE CallOf(c)' = CallOf(c)
    BY <2>1, <2>2, <2>3, SameCall
  <2>4. Kv' = Kv
    BY <2>1 DEF Kv
  <2>5. CallOf(s) = Service!Asked(Meaning(t))
    BY <2>1, <2>2 DEF CallOf, InSession, Service!Asked
  <2>6. CASE LoopEnds(r) /\ r.bad
    <3>1. Meaning(t) = Nothing
      BY <1>3, <2>6, Understood
    <3>2. CallOf(s)' = Service!Done(Nothing, Service!ParseError)
      BY <2>1, <2>2, <2>6, <3>1 DEF CallOf, InSession, Plain, Service!Done, Service!ParseError
    <3>3. Service!Effect(Nothing, Service!ParseError, Kv')
      BY <2>4 DEF Service!Effect, Nothing, EmptyMessage, NoVerb, Kv
    <3> QED
      BY <2>1, <2>3, <2>5, <3>1, <3>2, <3>3, Performed
  <2>7. CASE ~(LoopEnds(r) /\ r.bad)
    <3>1. pc' \in {"parse", "process"}
      BY <1>3, <2>1, <2>7, Understood
    <3>2. CallOf(s)' = Service!Asked(Meaning(t))
      BY <2>1, <2>2, <3>1 DEF CallOf, InSession, Service!Asked
    <3> QED
      BY <2>1, <2>3, <2>4, <2>5, <3>2, Stutters
  <2> QED
    BY <2>6, <2>7
<1> QED
  BY <1>2, <1>3

\* The request the server performs is the command its client has sent.
LEMMA RequestIsMeant ==
    ASSUME TypeInv, RefInv, pc = "process"
    PROVE  /\ session \in Client /\ outbox[session] = NoAnswer
           /\ rb.request.verb # NoVerb => Meaning(rb.buf) = rb.request
           /\ rb.request.verb = NoVerb => Meaning(rb.buf) = Nothing
           /\ ~open => IoMayFail /\ cache = Empty
<1>1. PICK t \in Inputs \ {<<>>} : rb = Pass(Entry(t)) /\ rb.fault = "none" /\ LoopEnds(rb)
  BY DEF RefInv, TextInv
<1>2. rb.buf = t /\ ~rb.bad
  BY <1>1, TextsStay DEF RefInv, TextInv
<1>3. /\ rb.request.verb # NoVerb => Meaning(rb.buf) = rb.request
      /\ rb.request.verb = NoVerb => Meaning(rb.buf) = Nothing
  BY <1>1, <1>2, Understood
<1>4. session \in Client /\ outbox[session] = NoAnswer
  BY DEF TypeInv, LinkTypes, InSessionPcs, RefInv, BoxInv
<1>5. ~open => IoMayFail /\ cache = Empty
  BY DEF RefInv, HandleInv
<1> QED
  BY <1>3, <1>4, <1>5

\* What the service must allow for the server to have answered the session so.
LEMMA Answered ==
    ASSUME NEW s \in Client, s = session, outbox[s] = NoAnswer,
           NEW m, m = Meaning(rb.buf), NEW a, a = answer',
           pc = "process", pc' \in {"sync", "answer"}, UNCHANGED <<rb, linkVars, disk>>,
           Service!Effect(m, a, Kv')
    PROVE  Service!Perform(s)
<1>1. CallOf(s) = Service!Asked(m)
  BY DEF CallOf, InSession, Service!Asked
<1>2. CallOf(s)' = Service!Done(m, a)
  BY DEF CallOf, InSession, Service!Done, linkVars
<1>3. \A c \in Client \ {s} : CallOf(c)' = CallOf(c)
  BY SameCall DEF linkVars
<1> QED
  BY <1>1, <1>2, <1>3, Performed

LEMMA ProcessMaps ==
    ASSUME TypeInv, RefInv, Process
    PROVE  Service!Restart \/ \E c \in Client : Service!Perform(c)
<1>1. CASE \E status : Die(status)
  BY <1>1, DeathRestarts
<1>2. CASE ~\E status : Die(status)
  <2>1. pc = "process"
    BY DEF Process, ProcessRead, ProcessUpdate, ProcessNew, ProcessWrite, ProcessDelete,
           ProcessStop, ProcessNothing, Performs
  <2>2. PICK s \in Client : s = session /\ outbox[s] = NoAnswer
    BY <2>1, RequestIsMeant
  <2>3. PICK m : m = Meaning(rb.buf)
    OBVIOUS
  <2>4. PICK a : a = answer'
    OBVIOUS
  <2> DEFINE k == rb.request.key
  <2>5. /\ rb.request.verb # NoVerb => m = rb.request
        /\ ~open => IoMayFail /\ cache = Empty
    BY <2>1, <2>3, RequestIsMeant
  <2>6. k \in DOMAIN cache => open
    BY <2>5 DEF Empty
  <2> SUFFICES /\ pc' \in {"sync", "answer"}
               /\ UNCHANGED <<rb, linkVars, disk>>
               /\ Service!Effect(m, a, Kv')
    BY <2>1, <2>2, <2>3, <2>4, Answered
  <2>7. CASE ProcessRead
    <3>1. /\ open /\ m.verb = "read" /\ m.key = k
          /\ a = IF k \in DOMAIN cache THEN Shown(cache[k]) ELSE Plain("NotFound")
          /\ pc' = "answer" /\ UNCHANGED <<rb, linkVars, cache, disk, open>>
      BY <1>2, <2>4, <2>5, <2>7 DEF ProcessRead, Performs, Answers, storeVars, NoVerb
    <3>2. Service!Effect(m, a, Kv')
      BY <3>1 DEF Service!Effect, Kv, Shown, Truncated, Plain, Service!Shown, Service!NotFound
    <3> QED
      BY <3>1, <3>2
  <2>8. ASSUME NEW verb \in {"new", "update"}, ProcessWrite(verb, verb = "update")
        PROVE  /\ pc' \in {"sync", "answer"}
               /\ UNCHANGED <<rb, linkVars, disk>>
               /\ Service!Effect(m, a, Kv')
    <3>1. m = rb.request /\ m.verb = verb /\ m.key = k
      BY <2>5, <2>8 DEF ProcessWrite, Performs, NoVerb
    <3>2. pc' \in {"sync", "answer"} /\ UNCHANGED <<rb, linkVars, disk>>
      BY <2>8 DEF ProcessWrite, Answers, StorePut, StoreRefuses, storeVars
    <3>3. CASE KeyExists(k, verb = "update") /\ answer' = Plain("Ko") /\ UNCHANGED storeVars
      <4>1. verb = "new" /\ open /\ k \in DOMAIN cache /\ Kv' = Kv /\ a = Service!Ko
        BY <2>4, <2>6, <3>3 DEF KeyExists, storeVars, Kv, Plain, Service!Ko
      <4>2. Service!Effect(m, a, Kv')
        BY <3>1, <4>1 DEF Service!Effect, Kv
      <4> QED
        BY <3>2, <4>2
    <3>4. CASE /\ ~KeyExists(k, verb = "update") /\ answer' = Plain("Ok")
               /\ StorePut(k, rb.request.payload)
      <4>1. /\ verb = "new" => k \notin DOMAIN cache
            /\ open /\ a = Service!Ok
            /\ Kv' = Service!With(cache, k, m.payload)
        BY <2>4, <3>1, <3>4 DEF KeyExists, StorePut, Kv, Plain, Service!Ok, Service!With, Bind
      <4>2. Service!Effect(m, a, Kv')
        BY <3>1, <4>1 DEF Service!Effect, Kv
      <4> QED
        BY <3>2, <4>2
    <3>5. CASE StoreRefuses /\ answer' = Plain("Ko")
      <4>1. IoMayFail /\ a = Service!Ko /\ Kv' = Kv
        BY <2>4, <2>5, <3>5 DEF StoreRefuses, storeVars, Kv, Plain, Service!Ko
      <4>2. Service!Effect(m, a, Kv')
        BY <3>1, <4>1 DEF Service!Effect, Kv
      <4> QED
        BY <3>2, <4>2
    <3> QED
      BY <2>8, <3>3, <3>4, <3>5 DEF ProcessWrite, Answers
  <2>9. CASE ProcessDelete
    <3>1. m = rb.request /\ m.verb = "delete" /\ m.key = k
      BY <2>5, <2>9 DEF ProcessDelete, Performs, NoVerb
    <3>2. pc' = "answer" /\ UNCHANGED <<rb, linkVars, disk>>
      BY <2>9 DEF ProcessDelete, Answers, StoreDelete, StoreRefuses, storeVars
    <3>3. CASE k \in DOMAIN cache /\ answer' = Plain("Ok") /\ StoreDelete(k)
      <4>1. open /\ a = Service!Ok /\ Kv' = Service!Without(cache, k)
        BY <2>4, <3>3 DEF StoreDelete, Kv, Plain, Service!Ok, Service!Without, Unbind
      <4> QED
        BY <3>1, <3>2, <3>3, <4>1 DEF Service!Effect, Kv
    <3>4. CASE open /\ k \notin DOMAIN cache /\ answer' = Plain("Ko") /\ UNCHANGED storeVars
      <4>1. a = Service!Ko /\ Kv' = Kv
        BY <2>4, <3>4 DEF storeVars, Kv, Plain, Service!Ko
      <4> QED
        BY <3>1, <3>2, <3>4, <4>1 DEF Service!Effect, Kv
    <3>5. CASE StoreRefuses /\ answer' = Plain("Ko")
      <4>1. IoMayFail /\ a = Service!Ko /\ Kv' = Kv
        BY <2>4, <2>5, <3>5 DEF StoreRefuses, storeVars, Kv, Plain, Service!Ko
      <4> QED
        BY <3>1, <3>2, <4>1 DEF Service!Effect, Kv
    <3> QED
      BY <2>9, <3>3, <3>4, <3>5 DEF ProcessDelete, Answers
  <2>10. CASE ProcessStop \/ ProcessNothing
    <3>1. pc' = "answer" /\ UNCHANGED <<rb, linkVars, disk>> /\ Kv' = Kv
      BY <2>10 DEF ProcessStop, ProcessNothing, Answers, storeVars, Kv
    <3>2. CASE ProcessStop
      BY <2>4, <2>5, <3>1, <3>2
         DEF ProcessStop, Performs, Answers, NoVerb, Plain, Service!Ok, Service!Effect, Kv
    <3>3. CASE ProcessNothing
      <4>1. m.verb = ""
        <5>1. rb.request.verb = NoVerb
          BY <3>3 DEF ProcessNothing, Performs
        <5>2. m = Nothing
          BY <2>1, <2>3, <5>1, RequestIsMeant
        <5> QED
          BY <5>2 DEF NoVerb, Nothing, EmptyMessage
      <4> QED
        BY <2>4, <3>1, <3>3, <4>1
           DEF ProcessNothing, Answers, Plain, Service!Ko, Service!Effect, Kv
    <3> QED
      BY <2>10, <3>2, <3>3
  <2> QED
    BY <2>7, <2>8, <2>9, <2>10 DEF Process, ProcessUpdate, ProcessNew
<1> QED
  BY <1>1, <1>2

\* Whatever the library copies to the file, it copies from the map.
LEMMA PersistMaps ==
    ASSUME \A c \in Client : CallOf(c)' = CallOf(c), open, UNCHANGED <<cache, open>>,
           disk' = cache \/ \E k \in DOMAIN cache \cup DOMAIN disk : disk' = CopyKey(disk, cache, k)
    PROVE  Service!Persist
<1>1. Calls' = Calls /\ Kv = cache /\ Kv' = cache
  BY DEF Calls, Kv
<1>2. \A x : Service!SameAt(disk', cache, x) \/ Service!SameAt(disk', disk, x)
  <2>1. CASE disk' = cache
    BY <2>1 DEF Service!SameAt
  <2>2. CASE disk' # cache
    <3>1. PICK k : disk' = CopyKey(disk, cache, k)
      BY <2>2
    <3>2. CASE k \in DOMAIN cache
      BY <3>1, <3>2 DEF CopyKey, Bind, Service!SameAt
    <3>3. CASE k \notin DOMAIN cache
      BY <3>1, <3>3 DEF CopyKey, Unbind, Service!SameAt
    <3> QED
      BY <3>2, <3>3
  <2> QED
    BY <2>1, <2>2
<1> QED
  BY <1>1, <1>2 DEF Service!Persist, Calls, Kv

LEMMA SyncMaps ==
    ASSUME TypeInv, RefInv, Sync
    PROVE  Service!Persist \/ UNCHANGED Service!vars
<1>1. /\ pc = "sync" /\ pc' = "answer" /\ UNCHANGED <<rb, answer, linkVars>>
  BY DEF Sync
<1>2. ASSUME NEW c \in Client PROVE CallOf(c)' = CallOf(c)
  BY <1>1 DEF CallOf, InSession, linkVars
<1>3. CASE open /\ disk' = cache /\ UNCHANGED <<cache, open>>
  BY <1>2, <1>3, PersistMaps
<1>4. CASE UNCHANGED storeVars
  <2>1. Kv' = Kv /\ disk' = disk
    BY <1>4 DEF Kv, storeVars
  <2> QED
    BY <1>2, <2>1, Stutters
<1> QED
  BY <1>3, <1>4 DEF Sync, StoreSync, StoreRefuses

LEMMA EvictMaps == ASSUME Evict PROVE Service!Persist
<1>1. ASSUME NEW c \in Client PROVE CallOf(c)' = CallOf(c)
  BY SameCall DEF Evict, serverVars, linkVars
<1> QED
  BY <1>1, PersistMaps DEF Evict, WriteBack

\* The answer to a write is only sent with the value in the file, where nothing fails.
LEMMA SendAnswerMaps ==
    ASSUME TypeInv, RefInv, ~IoMayFail => DurInv, SendAnswer
    PROVE  Service!Restart \/ \E c \in Client : Service!Tell(c)
<1>1. CASE ~Alive(session)
  BY <1>1, DeathRestarts DEF SendAnswer
<1>2. CASE Alive(session)
  <2>1. /\ pc = "answer" /\ pc' = "end" /\ outbox' = [outbox EXCEPT ![session] = answer]
        /\ UNCHANGED <<rb, answer, session, inbox, cache, disk, open>>
    BY <1>2 DEF SendAnswer, storeVars
  <2>2. PICK s \in Client : s = session /\ outbox[s] = NoAnswer
    BY <2>1 DEF TypeInv, LinkTypes, InSessionPcs, RefInv, BoxInv
  <2>3. PICK a : a = answer
    OBVIOUS
  <2>4. PICK m : m = Meaning(rb.buf)
    OBVIOUS
  <2>5. a # NoAnswer
    BY <2>1, <2>3 DEF RefInv, TextInv
  <2>6. CallOf(s) = Service!Done(m, a)
    BY <2>1, <2>2, <2>3, <2>4 DEF CallOf, InSession, Service!Done
  <2>7. \A d \in Client : outbox'[d] = IF d = s THEN a ELSE outbox[d]
    BY <2>1, <2>2, <2>3 DEF TypeInv, LinkTypes
  <2>8. CallOf(s)' = Service!Told(a)
    BY <2>5, <2>7 DEF CallOf, Service!Told
  <2>9. \A d \in Client \ {s} : CallOf(d)' = CallOf(d)
    BY <2>1, <2>2, <2>7, SameCall
  <2>10. Calls' = [Calls EXCEPT ![s] = Service!Told(a)]
    BY <2>8, <2>9, OneCall
  <2>11. m.verb \in Durable /\ a.kind = "Ok" => Service!SameAt(Kv, disk, m.key)
    <3> SUFFICES ASSUME m.verb \in {"new", "update"}, ~IoMayFail, a.kind = "Ok"
                 PROVE  Service!SameAt(Kv, disk, m.key)
      BY RefinementAssumption
    <3>1. PICK t \in Inputs \ {<<>>} : rb = Pass(Entry(t)) /\ rb.fault = "none" /\ LoopEnds(rb)
      BY <2>1 DEF RefInv, TextInv
    <3>2. rb.buf = t
      BY <3>1, TextsStay
    <3>3. m # Nothing
      <4>1. Nothing.verb = ""
        BY DEF Nothing, EmptyMessage, NoVerb
      <4> QED
        BY <4>1
    <3>4. m = rb.request
      BY <2>4, <3>1, <3>2, <3>3, Understood
    <3>5. open /\ CacheShows
      BY <2>1, <2>3, <3>4 DEF DurInv, OpenWhileUp, AckedWriteShows
    <3>6. disk[m.key] = cache[m.key] /\ m.key \in DOMAIN disk
      BY <2>1, <3>4, <3>5 DEF DurInv, DiskLagsOnlyByDeletes, DiskHolds, LaggingKey, CacheShows
    <3> QED
      BY <3>4, <3>5, <3>6 DEF Service!SameAt, Kv, CacheShows
  <2>12. Calls[s] = Service!Done(m, a) /\ Kv' = Kv
    BY <2>1, <2>6 DEF Calls, Kv
  <2>13. Calls[s].phase = "done" /\ Calls[s].req = m /\ Calls[s].ans = a
    BY <2>12 DEF Service!Done
  <2>14. Service!Tell(s)
    BY <2>1, <2>10, <2>11, <2>12, <2>13 DEF Service!Tell, Calls, Kv
  <2> QED
    BY <2>14
<1> QED
  BY <1>1, <1>2

LEMMA SessionEndMaps == ASSUME TypeInv, RefInv, SessionEnd PROVE UNCHANGED Service!vars
<1>1. /\ pc = "end" /\ pc' \in {"accept", "close"}
      /\ UNCHANGED <<inbox, outbox, cache, disk, open>>
  BY DEF SessionEnd, storeVars
<1>2. ASSUME NEW c \in Client PROVE CallOf(c)' = CallOf(c)
  BY <1>1 DEF CallOf, InSession
<1>3. Kv' = Kv
  BY <1>1 DEF Kv
<1> QED
  BY <1>1, <1>2, <1>3, Stutters

\* A client asks by sending a text, and forgets by taking its answer or by leaving it.
LEMMA ClientMaps ==
    ASSUME TypeInv, RefInv, NEW c \in Client, ClientStep(c) \/ HangUp(c)
    PROVE  Service!Ask(c) \/ Service!Forget(c) \/ UNCHANGED Service!vars
<1>1. UNCHANGED <<pc, rb, answer, session, cache, disk, open>>
  BY DEF ClientStep, Connect, Send, Receive, Again, HangUp, serverVars, linkVars, storeVars
<1>2. Kv' = Kv
  BY <1>1 DEF Kv
<1>3. \A d \in Client \ {c} : inbox'[d] = inbox[d] /\ outbox'[d] = outbox[d]
  BY DEF ClientStep, Connect, Send, Receive, Again, HangUp, linkVars, TypeInv, LinkTypes
<1>4. \A d \in Client \ {c} : CallOf(d)' = CallOf(d)
  BY <1>1, <1>3, SameCall
<1>5. CASE inbox'[c] = inbox[c] /\ outbox'[c] = outbox[c]
  <2>1. CallOf(c)' = CallOf(c)
    BY <1>1, <1>5, SameCall
  <2> QED
    BY <1>1, <1>2, <1>4, <2>1, Stutters
<1>6. CASE inbox'[c] # inbox[c]
  <2>1. PICK input \in Inputs : inbox'[c] = input
    BY <1>6 DEF ClientStep, Connect, Send, Receive, Again, HangUp, linkVars, TypeInv, LinkTypes
  <2>2. client[c] = "connected" /\ outbox'[c] = outbox[c]
    BY <1>6 DEF ClientStep, Connect, Send, Receive, Again, HangUp, linkVars
  <2>3. inbox[c] = <<>> /\ outbox[c] = NoAnswer /\ (c = session => pc = "read")
    BY <2>2 DEF RefInv, BoxInv
  <2>4. CallOf(c) = Service!Idle
    BY <2>3 DEF CallOf, InSession, Service!Idle
  <2>5. CallOf(c)' = Service!Asked(Meaning(input))
    BY <1>1, <1>6, <2>1, <2>2, <2>3 DEF CallOf, InSession, Service!Asked
  <2>6. Meaning(input) \in Commands \cup {Nothing}
    BY DEF Meaning
  <2>7. Calls' = [Calls EXCEPT ![c] = Service!Asked(Meaning(input))]
    BY <1>4, <2>5, OneCall
  <2>8. Calls[c] = Service!Idle
    BY <2>4 DEF Calls
  <2> QED
    BY <1>1, <1>2, <2>6, <2>7, <2>8 DEF Service!Ask, Calls, Kv
<1>7. CASE inbox'[c] = inbox[c] /\ outbox'[c] # outbox[c]
  <2>1. outbox'[c] = NoAnswer
    BY <1>7 DEF ClientStep, Connect, Send, Receive, Again, HangUp, linkVars, TypeInv, LinkTypes
  <2>2. /\ outbox[c] # NoAnswer /\ inbox[c] = <<>>
        /\ c = session => pc = "end"
    BY <1>7, <2>1 DEF RefInv, BoxInv
  <2>3. CallOf(c) = Service!Told(outbox[c])
    BY <2>2 DEF CallOf, Service!Told
  <2>4. CallOf(c)' = Service!Idle
    BY <1>1, <1>7, <2>1, <2>2 DEF CallOf, InSession, Service!Idle
  <2>5. Calls' = [Calls EXCEPT ![c] = Service!Idle]
    BY <1>4, <2>4, OneCall
  <2>6. Calls[c].phase = "told"
    BY <2>3 DEF Calls, Service!Told
  <2> QED
    BY <1>1, <1>2, <2>5, <2>6 DEF Service!Forget, Calls, Kv
<1> QED
  BY <1>5, <1>6, <1>7

LEMMA InitMaps == Init => Service!Init
<1> SUFFICES ASSUME Init PROVE Service!Init
  OBVIOUS
<1>1. Kv = disk /\ DOMAIN Kv = {}
  BY DEF Init, StoreInit, Kv, Empty
<1>2. ASSUME NEW c \in Client PROVE CallOf(c) = Service!Idle
  BY DEF Init, CallOf, InSession, Service!Idle
<1>3. Calls = [c \in Client |-> Service!Idle]
  BY <1>2 DEF Calls
<1> QED
  BY <1>1, <1>3 DEF Service!Init, Calls, Kv

LEMMA StepMaps ==
    ASSUME TypeInv, RefInv, ~IoMayFail => DurInv, [Next]_vars
    PROVE  [Service!Next]_(Service!vars)
<1>1. CASE UNCHANGED vars
  <2>1. ASSUME NEW c \in Client PROVE CallOf(c)' = CallOf(c)
    BY <1>1 DEF CallOf, InSession, vars, serverVars, linkVars
  <2>2. Kv' = Kv /\ disk' = disk
    BY <1>1 DEF Kv, vars, storeVars
  <2> QED
    BY <2>1, <2>2, Stutters
<1>2. CASE RemoveSocket
  <2>1. ASSUME NEW c \in Client PROVE CallOf(c)' = CallOf(c)
    BY <1>2 DEF CallOf, InSession, RemoveSocket, serverVars
  <2>2. Kv' = Kv /\ disk' = disk
    BY <1>2 DEF Kv, RemoveSocket, storeVars
  <2> QED
    BY <2>1, <2>2, Stutters
<1>3. CASE ServerStep
  BY <1>3, ListenMaps, BeginMaps, ReadMaps, ParseMaps, ProcessMaps, SyncMaps, SendAnswerMaps,
     SessionEndMaps, CloseRestarts DEF ServerStep, Service!Next
<1>4. CASE Launch \/ Evict \/ Crash
  BY <1>4, LaunchMaps, EvictMaps, DeathRestarts DEF Crash, Service!Next
<1>5. CASE \E c \in Client : ClientStep(c) \/ HangUp(c)
  BY <1>5, ClientMaps DEF Service!Next
<1> QED
  BY <1>1, <1>2, <1>3, <1>4, <1>5 DEF Next

\* What the clients see of the server, through crashes, restarts and hang-ups, is the
\* service: zobd performs every command once, on the map its predecessors left, answers
\* whoever asked it, and restarts from a file that holds all it has acknowledged.
THEOREM ZobImplements == Spec => Implements
<1>1. Init => TypeInv /\ RefInv /\ (~IoMayFail => DurInv)
  BY TypeInit, RefInit, DurInit
<1>2. TypeInv /\ RefInv /\ (~IoMayFail => DurInv) /\ [Next]_vars
          => (TypeInv /\ RefInv /\ (~IoMayFail => DurInv))'
  BY TypeNext, RefNext, DurNext
<1>3. TypeInv /\ RefInv /\ (~IoMayFail => DurInv) /\ [Next]_vars
          => [Service!Next]_(Service!vars)
  BY StepMaps
<1>4. Init => Service!Init
  BY InitMaps
<1> QED
  BY <1>1, <1>2, <1>3, <1>4, PTL DEF Spec, Implements, Service!Spec

-----------------------------------------------------------------------------
(* What keeps the server running, for any clients and any complete         *)
(* commands: no order of them ends it.                                     *)

\* Complete commands, whose values fit the buffer of a read, from clients that stay, to
\* a server whose file does not fail.
Served ==
    /\ ~IoMayFail /\ ~CanHangUp
    /\ \A t \in Inputs : \E m \in Commands : t = Render(m)
    /\ \A m \in Commands : Len(m.payload) <= ReadRoom

\* Whoever waits for the server is there, until it has been answered.
ClientsStay ==
    /\ session # NoClient /\ pc # "end" => Alive(session)
    /\ \A i \in DOMAIN pending : Alive(pending[i])

ValuesFit(f) == \A k \in DOMAIN f : Len(f[k]) <= ReadRoom

ServeInv ==
    /\ ClientsStay
    /\ ValuesFit(cache) /\ ValuesFit(disk)
    /\ pc = "close" => ~running

LEMMA ServeInit == Init => ServeInv
<1> SUFFICES ASSUME Init PROVE ServeInv
  OBVIOUS
<1>1. ClientsStay
  BY EmptySeq DEF Init, ClientsStay
<1> QED
  BY <1>1 DEF Init, StoreInit, ServeInv, ValuesFit, Empty

LEMMA ServeGone ==
    ASSUME ServeInv, NEW status, Gone(status), cache' = Empty, disk' \in {cache, disk}
    PROVE  ServeInv'
<1>1. ClientsStay'
  BY EmptySeq DEF Gone, ClientsStay
<1>2. ValuesFit(cache)' /\ ValuesFit(disk)' /\ pc' = "down"
  BY DEF Gone, ServeInv, ValuesFit, Empty
<1> QED
  BY <1>1, <1>2 DEF ServeInv

LEMMA ServeDeath == ASSUME ServeInv, NEW status, Die(status) PROVE ServeInv'
BY ServeGone DEF Die, StoreLost

\* A step that leaves the clients and the queue alone.
LEMMA ServeMoves ==
    ASSUME ServeInv, UNCHANGED <<pending, client>>,
           session' \in {session, NoClient}, pc = "end" => session' = NoClient \/ pc' = "end",
           ValuesFit(cache'), ValuesFit(disk'), pc' = "close" => ~running'
    PROVE  ServeInv'
BY DEF ServeInv, ClientsStay, Alive, ValuesFit

-----------------------------------------------------------------------------
(* The texts of the commands have no way to end the server.                *)

LEMMA CommandsParse ==
    ASSUME Served, NEW t \in Inputs
    PROVE  t # <<>> /\ Pass(Entry(t)).fault = "none"
<1>1. PICK m \in Commands : t = Render(m)
  BY DEF Served
<1>2. m \in Message /\ IsCommand(m) /\ t \in Text /\ ~OnBoundary(t)
  BY SystemAssumption, RefinementAssumption
<1>3. SubSeq(t, 1, Len(t)) = t /\ Len(t) \in Nat
  BY <1>2, SubSeqFull DEF Text
<1> QED
  BY <1>1, <1>2, <1>3, LineDecides

LEMMA SessionsAlive ==
    ASSUME TypeInv, ServeInv, pc \in InSessionPcs \ {"end"}
    PROVE  session \in Client /\ Alive(session)
BY SystemAssumption DEF TypeInv, LinkTypes, ServeInv, ClientsStay

LEMMA ReadsText ==
    ASSUME Served, TypeInv, RefInv, ServeInv, Read
    PROVE  Write(rb, inbox[session]).fault = "none"
<1>1. session \in Client /\ Alive(session)
  BY SessionsAlive DEF Read, InSessionPcs
<1>2. inbox[session] # <<>> /\ rb = NewBuilder
  BY <1>1 DEF Read, RefInv, TextInv
<1> QED
  BY <1>2 DEF Write, NewBuilder

LEMMA ParsesText ==
    ASSUME Served, RefInv, Parse
    PROVE  Pass(rb).fault = "none"
BY CommandsParse DEF Parse, RefInv, TextInv

\* What is read back has been written by a command, so it fits.
LEMMA ReadsFit ==
    ASSUME Served, TypeInv, RefInv, DurInv, ServeInv, Process
    PROVE  ~\E status : Die(status)
<1>1. pc = "process" /\ open
  BY DEF Process, ProcessRead, ProcessUpdate, ProcessNew, ProcessWrite, ProcessDelete,
         ProcessStop, ProcessNothing, Performs, DurInv, OpenWhileUp
<1>2. SUFFICES ASSUME NEW status, Die(status) PROVE FALSE
  OBVIOUS
<1>3. pc' = "down"
  BY <1>2 DEF Die, Gone
<1>4. PICK k : k \in DOMAIN cache /\ ~FitsRead(k)
  BY <1>1, <1>3
     DEF Served, Process, ProcessRead, ProcessUpdate, ProcessNew, ProcessWrite, ProcessDelete,
         ProcessStop, ProcessNothing, Answers
<1> QED
  BY <1>4 DEF FitsRead, ServeInv, ValuesFit

LEMMA ServeProcess ==
    ASSUME Served, TypeInv, RefInv, DurInv, ServeInv, Process
    PROVE  ServeInv'
<1>1. ~\E status : Die(status)
  BY ReadsFit
<1>2. pc = "process" /\ pc' \in {"sync", "answer"} /\ UNCHANGED <<linkVars, client, disk>>
  BY <1>1 DEF Process, ProcessRead, ProcessUpdate, ProcessNew, ProcessWrite, ProcessDelete,
              ProcessStop, ProcessNothing, Performs, Answers, StorePut, StoreDelete,
              StoreRefuses, storeVars
<1>3. ValuesFit(cache')
  <2> DEFINE m == rb.request
  <2>1. \/ cache' = cache
        \/ cache' = Unbind(cache, m.key)
        \/ m.verb \in {"new", "update"} /\ cache' = Bind(cache, m.key, m.payload)
    BY <1>1 DEF Process, ProcessRead, ProcessUpdate, ProcessNew, ProcessWrite, ProcessDelete,
                ProcessStop, ProcessNothing, Performs, Answers, StorePut, StoreDelete,
                StoreRefuses, storeVars
  <2>2. CASE cache' = cache \/ cache' = Unbind(cache, m.key)
    BY <2>2 DEF ServeInv, ValuesFit, Unbind
  <2>3. CASE m.verb \in {"new", "update"} /\ cache' = Bind(cache, m.key, m.payload)
    <3>1. m.verb # NoVerb
      BY <2>3 DEF NoVerb
    <3>2. Meaning(rb.buf) = m
      BY <1>2, <3>1, RequestIsMeant
    <3>3. m # Nothing
      <4>1. Nothing.verb = NoVerb
        BY DEF Nothing, EmptyMessage
      <4> QED
        BY <3>1, <4>1
    <3>4. m \in Commands
      BY <3>2, <3>3 DEF Meaning
    <3> QED
      BY <2>3, <3>4 DEF Served, ServeInv, ValuesFit, Bind
  <2> QED
    BY <2>1, <2>2, <2>3
<1>4. ValuesFit(disk')
  BY <1>2 DEF ServeInv
<1> QED
  BY <1>2, <1>3, <1>4, ServeMoves DEF linkVars

LEMMA ServeServer ==
    ASSUME Served, TypeInv, RefInv, DurInv, ServeInv, ServerStep
    PROVE  ServeInv'
<1>1. CASE Listen \/ Read \/ Parse
  <2>1. CASE \E status : Die(status)
    BY <2>1, ServeDeath
  <2>2. CASE ~\E status : Die(status)
    <3>1. /\ UNCHANGED <<pending, client, session, cache, disk>>
          /\ pc # "end" /\ pc' # "close"
      BY <1>1, <2>2 DEF Listen, Read, Parse, linkVars, storeVars
    <3> QED
      BY <3>1, ServeMoves DEF ServeInv
  <2> QED
    BY <2>1, <2>2
<1>2. CASE SessionBegin
  <2>1. /\ pending \in Seq(Client) /\ pending # <<>> /\ Len(pending) = 1
        /\ session' = pending[1] /\ pending' = Tail(pending)
        /\ pc' = "read" /\ UNCHANGED <<client, cache, disk>>
    <3>1. pending \in Seq(Client) /\ pending # <<>> /\ Len(pending) <= 1
      BY <1>2 DEF SessionBegin, TypeInv, LinkTypes, RefInv, QueueInv
    <3> QED
      BY <1>2, <3>1, EmptySeq, HeadTailProperties DEF SessionBegin, storeVars
  <2>2. pending' = <<>> /\ DOMAIN pending = {1}
    BY <2>1, EmptySeq, HeadTailProperties
  <2>3. ClientsStay'
    BY <2>1, <2>2, EmptySeq DEF ServeInv, ClientsStay, Alive
  <2> QED
    BY <2>1, <2>3 DEF ServeInv, ValuesFit
<1>3. CASE Sync
  <2>1. /\ UNCHANGED <<pending, client, session, cache>> /\ disk' \in {disk, cache}
        /\ pc = "sync" /\ pc' = "answer"
    BY <1>3 DEF Sync, StoreSync, StoreRefuses, linkVars, storeVars
  <2> QED
    BY <2>1, ServeMoves DEF ServeInv
<1>4. CASE SendAnswer
  <2>1. /\ UNCHANGED <<pending, client, session, cache, disk>>
        /\ pc = "answer" /\ pc' = "end"
    BY <1>4, SessionsAlive DEF SendAnswer, storeVars, InSessionPcs
  <2> QED
    BY <2>1, ServeMoves DEF ServeInv
<1>5. CASE SessionEnd
  <2>1. /\ UNCHANGED <<pending, client, cache, disk, running>> /\ session' = NoClient
        /\ pc' = "close" => ~running
    BY <1>5 DEF SessionEnd, storeVars
  <2> QED
    BY <2>1, ServeMoves DEF ServeInv
<1>6. CASE Close
  BY <1>6, ServeGone DEF Close, StoreClose
<1> QED
  BY <1>1, <1>2, <1>3, <1>4, <1>5, <1>6, ServeProcess DEF ServerStep

LEMMA ServeClient ==
    ASSUME Served, TypeInv, RefInv, ServeInv, NEW c \in Client, ClientStep(c) \/ HangUp(c)
    PROVE  ServeInv'
<1>1. UNCHANGED <<pc, running, session, cache, disk>> /\ ~HangUp(c)
  BY DEF Served, ClientStep, Connect, Send, Receive, Again, HangUp, serverVars, linkVars, storeVars
<1>2. \A d \in Client : client'[d] = IF d = c THEN client'[c] ELSE client[d]
  BY <1>1 DEF ClientStep, Connect, Send, Receive, Again, Becomes, TypeInv, ClientTypes
<1>3. /\ \A i \in DOMAIN pending : pending[i] \in Client
      /\ session # NoClient => session \in Client
  BY ElementOfSeq DEF TypeInv, LinkTypes
<1>4. CASE Connect(c)
  <2>1. client[c] = "idle"
    BY <1>4 DEF Connect
  <2>2. CASE pending' = pending
    <3>1. \A i \in DOMAIN pending : pending[i] # c
      BY <2>1 DEF RefInv, QueueInv
    <3>2. c # session
      BY <2>1, SystemAssumption DEF RefInv, QueueInv
    <3>3. ClientsStay'
      BY <1>1, <1>2, <1>3, <2>2, <3>1, <3>2 DEF ServeInv, ClientsStay, Alive
    <3> QED
      BY <1>1, <3>3 DEF ServeInv, ValuesFit
  <2>3. CASE pending' # pending
    <3>1. Append(<<>>, c) = <<c>>
      OBVIOUS
    <3>2. pending \in Seq(Client) /\ Len(pending) = 0
      BY <1>4, <2>3 DEF Connect, Backlog, TypeInv, LinkTypes
    <3>3. pending' = <<c>> /\ client'[c] = "connected"
      BY <1>4, <2>3, <3>1, <3>2, EmptySeq DEF Connect, Becomes, TypeInv, ClientTypes
    <3>4. ClientsStay'
      BY <1>1, <1>2, <1>3, <3>3 DEF ServeInv, ClientsStay, Alive
    <3> QED
      BY <1>1, <3>4 DEF ServeInv, ValuesFit
  <2> QED
    BY <2>2, <2>3
<1>5. CASE Send(c)
  <2>1. pending' = pending /\ (Attached(c) => client'[c] = "waiting")
    BY <1>5 DEF Send, Becomes, TypeInv, ClientTypes
  <2>2. ClientsStay'
    BY <1>1, <1>2, <1>3, <2>1 DEF ServeInv, ClientsStay, Alive, Attached
  <2> QED
    BY <1>1, <2>2 DEF ServeInv, ValuesFit
<1>6. CASE Receive(c) \/ Again(c)
  <2>1. pending' = pending /\ (outbox[c] # NoAnswer \/ ~Attached(c))
    BY <1>6 DEF Receive, Again
  <2>2. /\ c = session => pc = "end"
        /\ \A i \in DOMAIN pending : pending[i] # c
    BY <2>1 DEF RefInv, BoxInv, QueueInv, Attached
  <2>3. ClientsStay'
    BY <1>1, <1>2, <1>3, <2>1, <2>2 DEF ServeInv, ClientsStay, Alive
  <2> QED
    BY <1>1, <2>3 DEF ServeInv, ValuesFit
<1> QED
  BY <1>1, <1>4, <1>5, <1>6 DEF ClientStep

LEMMA ServeNext ==
    ASSUME Served, TypeInv, RefInv, DurInv, ServeInv, [Next]_vars
    PROVE  ServeInv'
<1>1. CASE UNCHANGED vars
  <2>1. UNCHANGED <<pc, running, pending, client, session, cache, disk>>
    BY <1>1 DEF vars, serverVars, linkVars, storeVars
  <2> QED
    BY <2>1 DEF ServeInv, ClientsStay, Alive, ValuesFit
<1>2. CASE Launch
  <2>1. /\ UNCHANGED <<pending, client, session, disk>> /\ cache' \in {cache, disk}
        /\ pc = "down" /\ pc' = "listen"
    BY <1>2 DEF Launch, StoreConnect, linkVars
  <2> QED
    BY <2>1, ServeMoves DEF ServeInv
<1>3. CASE Evict
  <2>1. PICK k : disk' = CopyKey(disk, cache, k)
    BY <1>3 DEF Evict, WriteBack
  <2>2. UNCHANGED <<pc, running, pending, client, session, cache>>
    BY <1>3 DEF Evict, WriteBack, serverVars, linkVars
  <2>3. ValuesFit(disk')
    BY <2>1 DEF ServeInv, ValuesFit, CopyKey, Bind, Unbind
  <2> QED
    BY <2>2, <2>3, ServeMoves DEF ServeInv
<1>4. CASE Crash
  BY <1>4, ServeDeath DEF Crash
<1>5. CASE RemoveSocket
  <2>1. UNCHANGED <<pc, running, pending, client, session, cache, disk>>
    BY <1>5 DEF RemoveSocket, serverVars, storeVars
  <2> QED
    BY <2>1 DEF ServeInv, ClientsStay, Alive, ValuesFit
<1> QED
  BY <1>1, <1>2, <1>3, <1>4, <1>5, ServeServer, ServeClient DEF Next

\* Of the steps that end the process, only the kill and the close are left.
LEMMA ServeStep ==
    ASSUME Served, TypeInv, RefInv, DurInv, ServeInv, Next,
           pc \in Serving \cup {"close"}, pc' = "down"
    PROVE  exit' = "killed" \/ (exit' = "success" /\ ~running)
<1>1. CASE Crash
  BY <1>1 DEF Crash, Die, Gone
<1>2. CASE Close
  BY <1>2 DEF Close, Gone, ServeInv
<1>3. ~Listen /\ ~Launch /\ ~RemoveSocket
  BY DEF Listen, Launch, RemoveSocket, Serving
<1>4. ~SessionBegin /\ ~Sync /\ ~SessionEnd
  BY DEF SessionBegin, Sync, SessionEnd
<1>5. ~Read
  BY ReadsText DEF Read
<1>6. ~Parse
  BY ParsesText DEF Parse
<1>7. ~Process
  <2>1. Process => pc' \in {"sync", "answer"}
    BY ReadsFit DEF Process, ProcessRead, ProcessUpdate, ProcessNew, ProcessWrite,
                    ProcessDelete, ProcessStop, ProcessNothing, Answers
  <2> QED
    BY <2>1
<1>8. ~SendAnswer
  BY SessionsAlive DEF SendAnswer, InSessionPcs
<1>9. ~Evict /\ ~\E c \in Client : ClientStep(c) \/ HangUp(c)
  <2>1. pc # "down"
    BY DEF Serving
  <2> QED
    BY <2>1 DEF Evict, ClientStep, Connect, Send, Receive, Again, HangUp, serverVars
<1> QED
  BY <1>1, <1>2, <1>3, <1>4, <1>5, <1>6, <1>7, <1>8, <1>9 DEF Next, ServerStep

\* A server that has begun to serve goes on until it is killed or told to stop, whatever
\* complete commands its clients send and in whatever order (no text the parser accepts
\* is faulty, every value it stores can be read back, every client waits for its answer).
THEOREM OnlyStopEnds == Served => (Spec => OnlyStopEndsServing)
<1> SUFFICES ASSUME Served PROVE Spec => OnlyStopEndsServing
  OBVIOUS
<1> DEFINE Inv == TypeInv /\ RefInv /\ DurInv /\ ServeInv
<1>1. Init => Inv
  BY TypeInit, RefInit, DurInit, ServeInit
<1>2. Inv /\ [Next]_vars => Inv'
  BY TypeNext, RefNext, DurNext, ServeNext DEF Served
<1>3. Inv /\ [Next]_vars =>
          [pc' = "down" /\ pc \in Serving \cup {"close"} =>
               exit' = "killed" \/ (exit' = "success" /\ ~running)]_vars
  BY ServeStep
<1> QED
  BY <1>1, <1>2, <1>3, PTL DEF Spec, OnlyStopEndsServing
=============================================================================
