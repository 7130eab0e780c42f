-------------------------- MODULE ZobSystem_proofs --------------------------
(***************************************************************************)
(* The invariants of the system, for any clients, texts and sizes: the     *)
(* types of its state, and what a crash cannot take away.                  *)
(***************************************************************************)
EXTENDS ZobSystem, RequestBuilder_proofs

InSessionPcs == {"read", "parse", "process", "sync", "answer", "end"}

ServerTypes ==
    /\ pc \in Serving \cup {"down", "listen", "close"}
    /\ running \in BOOLEAN
    /\ rb \in Builder /\ Settled(rb)
    /\ answer \in Answer
    /\ exit \in {"none", "success", "failure", "signal", "killed"}

LinkTypes ==
    /\ sockFile \in BOOLEAN
    /\ pending \in Seq(Client)
    /\ session \in Client \cup {NoClient}
    /\ pc \in InSessionPcs => session \in Client
    /\ inbox \in [Client -> Text]
    /\ outbox \in [Client -> Answer]

ClientTypes ==
    client \in [Client -> {"idle", "connected", "waiting", "ok", "failed", "killed"}]

StoreTypes == StoreTypeOK(Seq(Token), Seq(Token))

TypeInv == ServerTypes /\ LinkTypes /\ ClientTypes /\ StoreTypes

LEMMA AnswerTypes ==
    /\ NoAnswer \in Answer
    /\ \A kind \in {"none", "Ok", "Ko", "NotFound", "ParseError"} : Plain(kind) \in Answer
    /\ \A v \in Seq(Token) : Shown(v) \in Answer
<1>1. \A v \in Seq(Token) : Truncated(v) \in Seq(Token)
  <2> SUFFICES ASSUME NEW v \in Seq(Token), Len(v) > AnswerRoom
               PROVE  SubSeq(v, 1, AnswerRoom) \in Seq(Token)
    BY DEF Truncated
  <2>1. AnswerRoom \in Nat /\ \A i \in 1 .. AnswerRoom : v[i] \in Token
    BY SystemAssumption, ElementOfSeq
  <2> QED
    BY <2>1, SubSeqProperties
<1> QED
  BY <1>1 DEF Answer, NoAnswer, Plain, Shown

\* What the store may be changed to keeps the types of its maps.
LEMMA BindType ==
    ASSUME NEW K, NEW V, NEW f, IsMap(f, K, V), NEW k \in K, NEW v \in V
    PROVE  IsMap(Bind(f, k, v), K, V)
BY DEF IsMap, Bind

LEMMA UnbindType ==
    ASSUME NEW K, NEW V, NEW f, IsMap(f, K, V), NEW k
    PROVE  IsMap(Unbind(f, k), K, V)
BY DEF IsMap, Unbind

LEMMA CopyKeyType ==
    ASSUME NEW K, NEW V, NEW f, NEW g, IsMap(f, K, V), IsMap(g, K, V), NEW k \in K
    PROVE  IsMap(CopyKey(f, g, k), K, V)
<1>1. CASE k \in DOMAIN g
  <2>1. g[k] \in V
    BY <1>1 DEF IsMap
  <2> QED
    BY <1>1, <2>1, BindType DEF CopyKey
<1>2. CASE k \notin DOMAIN g
  BY <1>2, UnbindType DEF CopyKey
<1> QED
  BY <1>1, <1>2

LEMMA EmptyType == ASSUME NEW K, NEW V PROVE IsMap(Empty, K, V)
BY DEF IsMap, Empty

LEMMA NewBuilderSettled == NewBuilder \in Builder /\ Settled(NewBuilder)
BY NewBuilderType DEF NewBuilder, Settled

LEMMA TypeInit == Init => TypeInv
<1> SUFFICES ASSUME Init PROVE TypeInv
  OBVIOUS
<1>1. ServerTypes
  BY NewBuilderSettled, AnswerTypes DEF Init, ServerTypes
<1>2. LinkTypes
  <2>1. <<>> \in Text /\ <<>> \in Seq(Client)
    BY EmptySeq DEF Text
  <2> QED
    BY <2>1, AnswerTypes DEF Init, LinkTypes, InSessionPcs
<1>3. ClientTypes
  BY DEF Init, ClientTypes
<1>4. StoreTypes
  BY EmptyType DEF Init, StoreInit, StoreTypes, StoreTypeOK
<1> QED
  BY <1>1, <1>2, <1>3, <1>4 DEF TypeInv

LEMMA GoneTypes ==
    ASSUME TypeInv, NEW status \in {"success", "failure", "signal", "killed"}, Gone(status)
    PROVE  ServerTypes' /\ LinkTypes' /\ ClientTypes'
<1>1. <<>> \in Text /\ <<>> \in Seq(Client)
  BY EmptySeq DEF Text
<1> QED
  BY <1>1, NewBuilderSettled, AnswerTypes
     DEF Gone, TypeInv, ServerTypes, LinkTypes, ClientTypes, InSessionPcs

LEMMA DieTypes ==
    ASSUME TypeInv, NEW status \in {"success", "failure", "signal", "killed"}, Die(status)
    PROVE  TypeInv'
<1>1. StoreTypes'
  BY EmptyType DEF Die, StoreLost, TypeInv, StoreTypes, StoreTypeOK
<1> QED
  BY <1>1, GoneTypes DEF Die, TypeInv

LEMMA StatusTypes == \A fault : StatusOf(fault) \in {"success", "failure", "signal", "killed"}
BY DEF StatusOf

\* A step inside a session that only moves the server on.
LEMMA MovesOn ==
    ASSUME TypeInv, UNCHANGED <<linkVars, client, exit>>,
           pc \in InSessionPcs, pc' \in InSessionPcs,
           running' \in BOOLEAN, rb' \in Builder, Settled(rb'), answer' \in Answer,
           StoreTypes'
    PROVE  TypeInv'
BY DEF TypeInv, ServerTypes, LinkTypes, ClientTypes, linkVars, InSessionPcs, Serving

LEMMA ServerStepTypes == ASSUME TypeInv, ServerStep PROVE TypeInv'
<1> USE DEF TypeInv
<1>1. CASE Listen
  <2>1. CASE sockFile
    BY <1>1, <2>1, DieTypes DEF Listen
  <2>2. CASE ~sockFile
    BY <1>1, <2>2 DEF Listen, ServerTypes, LinkTypes, ClientTypes, StoreTypes, StoreTypeOK,
                      storeVars, Serving, InSessionPcs
  <2> QED
    BY <2>1, <2>2
<1>2. CASE SessionBegin
  <2>1. Head(pending) \in Client /\ Tail(pending) \in Seq(Client)
    BY <1>2, HeadTailProperties DEF SessionBegin, LinkTypes
  <2> QED
    BY <1>2, <2>1, NewBuilderSettled
       DEF SessionBegin, ServerTypes, LinkTypes, ClientTypes, StoreTypes, StoreTypeOK,
           storeVars, Serving, InSessionPcs
<1>3. CASE Read
  <2> DEFINE r == Write(rb, inbox[session])
  <2>1. session \in Client /\ inbox[session] \in Text
    BY <1>3 DEF Read, LinkTypes, InSessionPcs
  <2>2. r \in Builder /\ Settled(r)
    BY <2>1, WriteType DEF ServerTypes, Settled, Write, Builder
  <2> HIDE DEF r
  <2>3. CASE r.fault # "none"
    BY <1>3, <2>3, DieTypes, StatusTypes DEF Read, r
  <2>4. CASE r.fault = "none"
    <3>1. <<>> \in Text
      BY EmptySeq DEF Text
    <3> QED
      BY <1>3, <2>1, <2>2, <2>4, <3>1
         DEF Read, r, ServerTypes, LinkTypes, ClientTypes, StoreTypes, StoreTypeOK,
             storeVars, Serving, InSessionPcs
  <2> QED
    BY <2>3, <2>4
<1>4. CASE Parse
  <2> DEFINE r == Pass(rb)
  <2>1. r \in Builder /\ Settled(r)
    BY PassType DEF ServerTypes
  <2> HIDE DEF r
  <2>2. CASE r.fault # "none"
    BY <1>4, <2>2, DieTypes, StatusTypes DEF Parse, r
  <2>3. CASE r.fault = "none"
    BY <1>4, <2>1, <2>3, MovesOn, AnswerTypes
       DEF Parse, r, ServerTypes, StoreTypes, StoreTypeOK, storeVars, InSessionPcs
  <2> QED
    BY <2>2, <2>3
<1>5. CASE ProcessRead
  <2> DEFINE k == rb.request.key
  <2>1. CASE Die("failure")
    BY <2>1, DieTypes
  <2>2. CASE ~Die("failure")
    <3>1. k \in DOMAIN cache => cache[k] \in Seq(Token)
      BY DEF StoreTypes, StoreTypeOK, IsMap
    <3>2. answer' \in Answer
      BY <1>5, <2>2, <3>1, AnswerTypes DEF ProcessRead, Answers
    <3> QED
      BY <1>5, <2>2, <3>2, MovesOn
         DEF ProcessRead, Performs, Answers, ServerTypes, StoreTypes, StoreTypeOK,
             storeVars, InSessionPcs
  <2> QED
    BY <2>1, <2>2
<1>6. ASSUME NEW verb, NEW overwrite, ProcessWrite(verb, overwrite)
      PROVE  TypeInv'
  <2>1. StoreTypes'
    <3>1. rb.request.key \in Seq(Token) /\ rb.request.payload \in Seq(Token)
      BY DEF ServerTypes, Builder, Message
    <3>2. CASE StorePut(rb.request.key, rb.request.payload)
      BY <3>1, <3>2, BindType DEF StorePut, StoreTypes, StoreTypeOK
    <3>3. CASE UNCHANGED storeVars
      BY <3>3 DEF storeVars, StoreTypes, StoreTypeOK
    <3> QED
      BY <1>6, <3>2, <3>3 DEF ProcessWrite, StoreRefuses
  <2>2. /\ UNCHANGED <<linkVars, client, exit, running, rb>>
        /\ pc = "process" /\ pc' \in {"sync", "answer"}
        /\ answer' \in {Plain("Ok"), Plain("Ko")}
    BY <1>6 DEF ProcessWrite, Performs, Answers
  <2> QED
    BY <2>1, <2>2, MovesOn, AnswerTypes DEF ServerTypes, InSessionPcs
<1>7. CASE ProcessDelete
  <2>1. StoreTypes'
    BY <1>7, UnbindType
       DEF ProcessDelete, StoreDelete, StoreRefuses, StoreTypes, StoreTypeOK, storeVars
  <2> QED
    BY <1>7, <2>1, MovesOn, AnswerTypes
       DEF ProcessDelete, Performs, Answers, ServerTypes, InSessionPcs
<1>8. CASE ProcessStop \/ ProcessNothing
  BY <1>8, MovesOn, AnswerTypes
     DEF ProcessStop, ProcessNothing, Performs, Answers, ServerTypes, StoreTypes, StoreTypeOK,
         storeVars, InSessionPcs
<1>9. CASE Sync
  BY <1>9, MovesOn
     DEF Sync, StoreSync, StoreRefuses, storeVars, ServerTypes, StoreTypes, StoreTypeOK, InSessionPcs
<1>10. CASE SendAnswer
  <2>1. CASE Alive(session)
    BY <1>10, <2>1
       DEF SendAnswer, ServerTypes, LinkTypes, ClientTypes, StoreTypes, StoreTypeOK,
           storeVars, Serving, InSessionPcs
  <2>2. CASE ~Alive(session)
    BY <1>10, <2>2, DieTypes DEF SendAnswer
  <2> QED
    BY <2>1, <2>2
<1>11. CASE SessionEnd
  BY <1>11, NewBuilderSettled, AnswerTypes
     DEF SessionEnd, ServerTypes, LinkTypes, ClientTypes, StoreTypes, StoreTypeOK,
         storeVars, Serving, InSessionPcs
<1>12. CASE Close
  <2>1. StoreTypes'
    BY <1>12, EmptyType DEF Close, StoreClose, StoreTypes, StoreTypeOK
  <2> QED
    BY <1>12, <2>1, GoneTypes DEF Close
<1> QED
  BY <1>1, <1>2, <1>3, <1>4, <1>5, <1>6, <1>7, <1>8, <1>9, <1>10, <1>11, <1>12
     DEF ServerStep, Process, ProcessUpdate, ProcessNew

LEMMA ClientStepTypes ==
    ASSUME TypeInv, NEW c \in Client, ClientStep(c) \/ HangUp(c)
    PROVE  TypeInv'
<1>1. UNCHANGED <<pc, running, rb, answer, exit, sockFile, session, storeVars>>
  BY DEF ClientStep, Connect, Send, Receive, Again, HangUp, serverVars, linkVars
<1>2. ServerTypes' /\ StoreTypes'
  BY <1>1 DEF TypeInv, ServerTypes, StoreTypes, StoreTypeOK, storeVars
<1>3. ClientTypes'
  BY DEF TypeInv, ClientTypes, ClientStep, Connect, Send, Receive, Again, HangUp, Becomes
<1>4. pending' \in Seq(Client)
  <2>1. Append(pending, c) \in Seq(Client)
    BY AppendProperties DEF TypeInv, LinkTypes
  <2> QED
    BY <2>1 DEF TypeInv, LinkTypes, ClientStep, Connect, Send, Receive, Again, HangUp, linkVars
<1>5. inbox' \in [Client -> Text]
  <2>1. CASE Send(c)
    <3>1. inbox' = inbox \/ \E input \in Inputs : inbox' = [inbox EXCEPT ![c] = input]
      BY <2>1 DEF Send
    <3> QED
      BY <3>1, SystemAssumption DEF TypeInv, LinkTypes
  <2>2. CASE ~Send(c)
    BY <2>2 DEF TypeInv, LinkTypes, ClientStep, Connect, Receive, Again, HangUp, linkVars
  <2> QED
    BY <2>1, <2>2
<1>6. outbox' \in [Client -> Answer]
  BY AnswerTypes
     DEF TypeInv, LinkTypes, ClientStep, Connect, Send, Receive, Again, HangUp, linkVars
<1> QED
  BY <1>1, <1>2, <1>3, <1>4, <1>5, <1>6 DEF TypeInv, LinkTypes

LEMMA TypeNext == ASSUME TypeInv, [Next]_vars PROVE TypeInv'
<1>1. CASE UNCHANGED vars
  BY <1>1
     DEF vars, serverVars, linkVars, storeVars, TypeInv, ServerTypes, LinkTypes, ClientTypes,
         StoreTypes, StoreTypeOK
<1>2. CASE Launch
  BY <1>2
     DEF Launch, StoreConnect, linkVars, TypeInv, ServerTypes, LinkTypes, ClientTypes,
         StoreTypes, StoreTypeOK, InSessionPcs
<1>3. CASE Evict
  <2>1. StoreTypes'
    <3>1. PICK k \in DOMAIN cache \cup DOMAIN disk : disk' = CopyKey(disk, cache, k)
      BY <1>3 DEF Evict, WriteBack
    <3>2. k \in Seq(Token)
      BY DEF TypeInv, StoreTypes, StoreTypeOK, IsMap
    <3> QED
      BY <1>3, <3>1, <3>2, CopyKeyType
         DEF Evict, WriteBack, TypeInv, StoreTypes, StoreTypeOK
  <2> QED
    BY <1>3, <2>1
       DEF Evict, serverVars, linkVars, TypeInv, ServerTypes, LinkTypes, ClientTypes
<1>4. CASE Crash
  BY <1>4, DieTypes DEF Crash
<1>5. CASE RemoveSocket
  BY <1>5
     DEF RemoveSocket, serverVars, storeVars, TypeInv, ServerTypes, LinkTypes, ClientTypes,
         StoreTypes, StoreTypeOK
<1> QED
  BY <1>1, <1>2, <1>3, <1>4, <1>5, ServerStepTypes, ClientStepTypes DEF Next

\* The state of the server, of the clients and of the links between them keeps its
\* types, whatever is sent (every C field the model has stands for one of these).
THEOREM SystemTypes == Spec => []TypeOK
<1>1. TypeInv => TypeOK
  BY DEF TypeInv, ServerTypes, LinkTypes, ClientTypes, StoreTypes, TypeOK
<1> QED
  BY <1>1, TypeInit, TypeNext, PTL DEF Spec

-----------------------------------------------------------------------------
(* What a crash cannot take away, as long as writing to the file does not  *)
(* fail.                                                                   *)

\* The handle is open exactly while a server process runs.
OpenWhileUp == open <=> pc # "down"

\* The cache shows the write the server is about to sync or to acknowledge.
CacheShows ==
    /\ rb.request.key \in DOMAIN cache
    /\ cache[rb.request.key] = rb.request.payload
PendingWriteShows == pc = "sync" => CacheShows
AckedWriteShows ==
    pc = "answer" /\ rb.request.verb \in {"new", "update"} /\ answer.kind = "Ok" => CacheShows

DurInv ==
    /\ OpenWhileUp
    /\ PendingWriteShows
    /\ AckedWriteShows
    /\ DiskLagsOnlyByDeletes

LEMMA DurInit == Init => DurInv
BY DEF Init, StoreInit, DurInv, OpenWhileUp, PendingWriteShows, AckedWriteShows,
       DiskLagsOnlyByDeletes

\* The end of the process leaves nothing to show.
LEMMA DieKeeps == ASSUME NEW status, Die(status) PROVE DurInv'
BY DEF Die, Gone, StoreLost, DurInv, OpenWhileUp, PendingWriteShows, AckedWriteShows,
       DiskLagsOnlyByDeletes

\* Steps that leave the store and the session's message alone, and do not enter
\* a state the invariant speaks of.
LEMMA QuietKeeps ==
    ASSUME DurInv, UNCHANGED storeVars,
           open <=> pc' # "down",
           pc # "sync", pc' # "sync",
           pc' # "answer" \/ answer'.kind # "Ok" \/ rb'.request.verb \notin {"new", "update"}
    PROVE  DurInv'
BY DEF DurInv, storeVars, OpenWhileUp, PendingWriteShows, AckedWriteShows,
       DiskLagsOnlyByDeletes, DiskHolds, LaggingKey

LEMMA StillKeeps ==
    ASSUME DurInv, UNCHANGED <<serverVars, storeVars>>
    PROVE  DurInv'
BY DEF DurInv, storeVars, serverVars, OpenWhileUp, PendingWriteShows, AckedWriteShows,
       CacheShows, DiskLagsOnlyByDeletes, DiskHolds, LaggingKey

LEMMA DurNext == ASSUME ~IoMayFail, DurInv, [Next]_vars PROVE DurInv'
<1>1. CASE UNCHANGED vars
  BY <1>1, StillKeeps DEF vars
<1>2. CASE Crash \/ \E c \in Client : HangUp(c)
  BY <1>2, StillKeeps, DieKeeps DEF Crash, HangUp
<1>3. CASE RemoveSocket \/ \E c \in Client : ClientStep(c)
  BY <1>3, StillKeeps DEF RemoveSocket, ClientStep, Connect, Send, Receive, Again
<1>4. CASE Launch
  <2>1. cache' = disk /\ disk' = disk /\ open' /\ pc' = "listen"
    BY <1>4 DEF Launch, StoreConnect
  <2> QED
    BY <2>1 DEF DurInv, OpenWhileUp, PendingWriteShows, AckedWriteShows,
                DiskLagsOnlyByDeletes, DiskHolds, LaggingKey
<1>5. CASE Evict
  <2>1. PICK k \in DOMAIN cache \cup DOMAIN disk : disk' = CopyKey(disk, cache, k)
    BY <1>5 DEF Evict, WriteBack
  <2>2. UNCHANGED <<cache, open, pc, rb, answer>> /\ open
    BY <1>5 DEF Evict, WriteBack, serverVars
  <2>3. ASSUME NEW x \in DOMAIN cache, x \notin LaggingKey
        PROVE  x \in DOMAIN disk' /\ disk'[x] = cache[x]
    <3>1. x \in DOMAIN disk /\ disk[x] = cache[x]
      BY <2>2, <2>3 DEF DurInv, DiskLagsOnlyByDeletes, DiskHolds
    <3> QED
      BY <2>1, <3>1 DEF CopyKey, Bind, Unbind
  <2> QED
    BY <2>2, <2>3 DEF DurInv, OpenWhileUp, PendingWriteShows, AckedWriteShows, CacheShows,
                      DiskLagsOnlyByDeletes, DiskHolds, LaggingKey
<1>6. CASE Listen \/ SessionBegin \/ Read \/ SessionEnd
  BY <1>6, DieKeeps, QuietKeeps
     DEF Listen, SessionBegin, Read, SessionEnd, DurInv, OpenWhileUp
<1>7. CASE Parse
  <2>1. CASE Pass(rb).fault # "none"
    BY <1>7, <2>1, DieKeeps DEF Parse
  <2>2. CASE Pass(rb).fault = "none"
    <3>1. /\ UNCHANGED storeVars
          /\ pc = "parse" /\ pc' \in {"parse", "answer", "read", "process"}
          /\ pc' = "answer" => answer' = Plain("ParseError")
      BY <1>7, <2>2 DEF Parse
    <3> QED
      BY <3>1, QuietKeeps DEF Plain, DurInv, OpenWhileUp
  <2> QED
    BY <2>1, <2>2
<1>8. CASE ProcessRead \/ ProcessStop \/ ProcessNothing
  BY <1>8, DieKeeps, QuietKeeps
     DEF ProcessRead, ProcessStop, ProcessNothing, Performs, Answers, NoVerb, DurInv, OpenWhileUp
<1>9. ASSUME NEW verb, NEW overwrite, ProcessWrite(verb, overwrite)
      PROVE  DurInv'
  <2>0. ~StoreRefuses
    BY <1>9 DEF ProcessWrite, Performs, StoreRefuses, DurInv, OpenWhileUp
  <2>1. CASE KeyExists(rb.request.key, overwrite)
    BY <1>9, <2>0, <2>1, QuietKeeps
       DEF ProcessWrite, Performs, Answers, Plain, DurInv, OpenWhileUp
  <2>2. CASE ~KeyExists(rb.request.key, overwrite)
    <3>1. /\ open /\ open' /\ pc = "process" /\ pc' = "sync"
          /\ cache' = Bind(cache, rb.request.key, rb.request.payload)
          /\ disk' = disk /\ rb' = rb
      BY <1>9, <2>0, <2>2 DEF ProcessWrite, Performs, StorePut
    <3>2. DiskHolds({rb.request.key})'
      BY <3>1 DEF DurInv, DiskLagsOnlyByDeletes, DiskHolds, LaggingKey, Bind
    <3> QED
      BY <3>1, <3>2 DEF DurInv, OpenWhileUp, PendingWriteShows, AckedWriteShows, CacheShows,
                        DiskLagsOnlyByDeletes, LaggingKey, Bind
  <2> QED
    BY <2>1, <2>2
<1>10. CASE ProcessDelete
  <2>1. CASE StoreDelete(rb.request.key)
    <3>1. /\ open /\ open' /\ pc = "process" /\ pc' = "answer"
          /\ cache' = Unbind(cache, rb.request.key)
          /\ disk' = disk /\ rb' = rb /\ rb.request.verb = "delete"
      BY <1>10, <2>1 DEF ProcessDelete, Performs, Answers, StoreDelete
    <3> QED
      BY <3>1 DEF DurInv, OpenWhileUp, PendingWriteShows, AckedWriteShows,
                  DiskLagsOnlyByDeletes, DiskHolds, LaggingKey, Unbind
  <2>2. CASE UNCHANGED storeVars
    BY <1>10, <2>2, QuietKeeps DEF ProcessDelete, Performs, Answers, DurInv, OpenWhileUp
  <2> QED
    BY <1>10, <2>1, <2>2 DEF ProcessDelete, StoreRefuses
<1>11. CASE Sync
  <2>1. /\ open /\ open' /\ pc = "sync" /\ pc' = "answer"
        /\ disk' = cache /\ cache' = cache /\ rb' = rb
    BY <1>11 DEF Sync, StoreSync, StoreRefuses, DurInv, OpenWhileUp
  <2> QED
    BY <2>1 DEF DurInv, OpenWhileUp, PendingWriteShows, AckedWriteShows, CacheShows,
                DiskLagsOnlyByDeletes, DiskHolds, LaggingKey
<1>12. CASE SendAnswer
  BY <1>12, DieKeeps, QuietKeeps DEF SendAnswer, DurInv, OpenWhileUp
<1>13. CASE Close
  BY <1>13 DEF Close, Gone, StoreClose, DurInv, OpenWhileUp, PendingWriteShows, AckedWriteShows,
               DiskLagsOnlyByDeletes
<1> QED
  BY <1>1, <1>2, <1>3, <1>4, <1>5, <1>6, <1>7, <1>8, <1>9, <1>10, <1>11, <1>12, <1>13
     DEF Next, ServerStep, Process, ProcessUpdate, ProcessNew

\* Whatever the clients ask, the file holds all the process shows, but for the write
\* in progress (zob_store_write syncs before it returns; nothing else adds entries).
THEOREM DiskLags == ~IoMayFail => (Spec => []DiskLagsOnlyByDeletes)
<1> SUFFICES ASSUME ~IoMayFail PROVE Spec => []DiskLagsOnlyByDeletes
  OBVIOUS
<1>1. Init => DurInv
  BY DurInit
<1>2. DurInv /\ [Next]_vars => DurInv'
  BY DurNext
<1>3. DurInv => DiskLagsOnlyByDeletes
  BY DEF DurInv
<1> QED
  BY <1>1, <1>2, <1>3, PTL DEF Spec

\* An Ok to new or update is only sent with the value in the file.
THEOREM AckedWritesLast == ~IoMayFail => (Spec => []AckedWritesAreOnDisk)
<1> SUFFICES ASSUME ~IoMayFail PROVE Spec => []AckedWritesAreOnDisk
  OBVIOUS
<1>1. Init => DurInv
  BY DurInit
<1>2. DurInv /\ [Next]_vars => DurInv'
  BY DurNext
<1>3. DurInv => AckedWritesAreOnDisk
  BY DEF DurInv, OpenWhileUp, AckedWriteShows, CacheShows, AckedWritesAreOnDisk,
         DiskLagsOnlyByDeletes, DiskHolds, LaggingKey
<1> QED
  BY <1>1, <1>2, <1>3, PTL DEF Spec
=============================================================================
