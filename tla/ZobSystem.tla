----------------------------- MODULE ZobSystem -----------------------------
(***************************************************************************)
(* zobd and its clients: src/src/server.c and src/src/client.c over a      *)
(* UNIX stream socket, with the parser and the store they are built on.    *)
(* The server is one thread that serves one connection at a time, reads    *)
(* one text from it, parses, performs and answers it, and closes it.       *)
(***************************************************************************)
EXTENDS RequestBuilder, Store

CONSTANTS
    Client,     \* slots, each running one zob command after another
    NoClient,
    Inputs,     \* what a client may find on its standard input
    Commands,   \* the README commands among them
    AnswerRoom, \* how many tokens of a value the answer to a read holds
    Durable,    \* the verbs whose Ok is to outlive a crash
    CanCrash,   \* TRUE if the server process may be killed
    CanHangUp   \* TRUE if a client may be killed

ASSUME SystemAssumption ==
    /\ NoClient \notin Client
    /\ Inputs \subseteq Text
    /\ Commands \subseteq {m \in Message : IsCommand(m)}
    /\ AnswerRoom \in Nat
    /\ {CanCrash, CanHangUp} \subseteq BOOLEAN

\* listen(fd, 0): connections beyond one waiting block in connect.
Backlog == 1

VARIABLES
    pc,         \* where zob_server_run is
    running,    \* is_running
    rb,         \* p_rb, the builder of the session
    answer,     \* the message p_answer
    exit,       \* how the last server process ended
    sockFile,   \* the name ./con exists
    pending,    \* connections made and not yet accepted
    session,    \* the client session_fd is connected to
    inbox,      \* what a client has sent and the server has not read
    outbox,     \* what the server has answered and the client has not read
    client      \* where each client process is

serverVars == <<pc, running, rb, answer, exit>>
linkVars == <<sockFile, pending, session, inbox, outbox>>
vars == <<serverVars, linkVars, client, storeVars>>

Answer == [kind : {"none", "Ok", "Ko", "NotFound", "ParseError"}, value : Seq(Token)]
Plain(kind) == [kind |-> kind, value |-> <<>>]
NoAnswer == Plain("none")

\* snprintf in the 100 bytes of zob_server_process leaves 95 to the value.
\* Mutant: the byte past the room is shown, whatever it is.
Unterminated(v) == IF Len(v) > AnswerRoom THEN Append(SubSeq(v, 1, AnswerRoom), "") ELSE v

Truncated(v) == IF Len(v) > AnswerRoom THEN SubSeq(v, 1, AnswerRoom) ELSE v
Shown(v) == [kind |-> "Ok", value |-> Truncated(v)]

Serving == {"accept", "read", "parse", "process", "sync", "answer", "end"}
Listening == pc \in Serving \cup {"close"}

\* The server end of the client's connection is open.
Attached(c) == c = session \/ \E i \in DOMAIN pending : pending[i] = c

\* The client process is there to read and be written to.
Alive(c) == client[c] \in {"connected", "waiting"}

TypeOK ==
    /\ pc \in Serving \cup {"down", "listen", "close"}
    /\ running \in BOOLEAN
    /\ rb \in Builder
    /\ answer \in Answer
    /\ exit \in {"none", "success", "failure", "signal", "killed"}
    /\ sockFile \in BOOLEAN
    /\ pending \in Seq(Client)
    /\ session \in Client \cup {NoClient}
    /\ inbox \in [Client -> Text]
    /\ outbox \in [Client -> Answer]
    /\ client \in [Client -> {"idle", "connected", "waiting", "ok", "failed", "killed"}]
    /\ StoreTypeOK(Seq(Token), Seq(Token))

Init ==
    /\ pc = "down" /\ running = FALSE /\ rb = NewBuilder
    /\ answer = NoAnswer /\ exit = "none"
    /\ sockFile = FALSE /\ pending = <<>> /\ session = NoClient
    /\ inbox = [c \in Client |-> <<>>]
    /\ outbox = [c \in Client |-> NoAnswer]
    /\ client = [c \in Client |-> "idle"]
    /\ StoreInit
-----------------------------------------------------------------------------
(* The end of a server process, whatever ends it: the kernel closes its    *)
(* sockets, dropping what it has not read; the name of the socket stays.   *)

Gone(status) ==
    /\ pc' = "down" /\ exit' = status
    /\ running' = FALSE /\ rb' = NewBuilder /\ answer' = NoAnswer
    /\ pending' = <<>> /\ session' = NoClient
    /\ inbox' = [c \in Client |-> <<>>]
    /\ UNCHANGED <<sockFile, outbox, client>>

Die(status) == Gone(status) /\ StoreLost

\* How a fault of the builder ends the process.
StatusOf(fault) == IF fault = "abort" THEN "signal" ELSE "failure"

Crash == CanCrash /\ pc # "down" /\ Die("killed")

\* The operator removes the socket of a server that is not running.
RemoveSocket ==
    /\ pc = "down" /\ sockFile
    /\ sockFile' = FALSE
    /\ UNCHANGED <<serverVars, pending, session, inbox, outbox, client, storeVars>>

-----------------------------------------------------------------------------
(* zob_server_run, up to its loop.                                         *)

Launch ==
    /\ pc = "down"
    /\ pc' = "listen" /\ running' = TRUE /\ exit' = "none"
    /\ StoreConnect
    /\ UNCHANGED <<rb, answer, linkVars, client>>

\* bind makes the name, and fails if it is there.
Listen ==
    /\ pc = "listen"
    /\ IF sockFile
       THEN Die("failure")
       ELSE /\ pc' = "accept" /\ sockFile' = TRUE
            /\ UNCHANGED <<running, rb, answer, exit, pending, session, inbox, outbox>>
            /\ UNCHANGED <<client, storeVars>>

-----------------------------------------------------------------------------
(* One turn of the loop.                                                   *)

\* A builder is made for the session, then the next connection is taken.
SessionBegin ==
    /\ pc = "accept" /\ pending # <<>>
    /\ pc' = "read"
    /\ rb' = NewBuilder
    /\ session' = Head(pending) /\ pending' = Tail(pending)
    /\ UNCHANGED <<running, answer, exit, sockFile, inbox, outbox, client, storeVars>>

\* read returns what has been sent, or nothing once the client has gone.
Read ==
    /\ pc = "read"
    /\ inbox[session] # <<>> \/ ~Alive(session)
    /\ \E r \in {Write(rb, inbox[session])} :
           IF r.fault # "none"
           THEN Die(StatusOf(r.fault))
           ELSE /\ pc' = "parse" /\ rb' = r
                /\ inbox' = [inbox EXCEPT ![session] = <<>>]
                /\ UNCHANGED <<running, answer, exit, sockFile, pending, session, outbox>>
                /\ UNCHANGED <<client, storeVars>>

\* One pass of zob_request_builder_parse, and what follows the last one.
Parse ==
    /\ pc = "parse"
    /\ \E r \in {Pass(rb)} :
           IF r.fault # "none"
           THEN Die(StatusOf(r.fault))
           ELSE /\ rb' = r
                /\ pc' = IF ~LoopEnds(r) THEN "parse"
                         ELSE IF r.bad THEN "answer"
                         ELSE IF r.needMoar THEN "read" ELSE "process"
                /\ answer' = IF LoopEnds(r) /\ r.bad THEN Plain("ParseError") ELSE answer
                /\ UNCHANGED <<running, exit, linkVars, client, storeVars>>

Performs(verb) == pc = "process" /\ rb.request.verb = verb

Answers(a) == pc' = "answer" /\ answer' = a /\ UNCHANGED <<rb, exit, linkVars, client>>

\* A longer value than the buffer takes ends the process; so does an error of the system,
\* by the empty text it leaves to be copied.
ProcessRead ==
    /\ Performs("read")
    /\ LET k == rb.request.key
       IN  \/ /\ open
              /\ k \in DOMAIN cache => FitsRead(k)
              /\ Answers(IF k \in DOMAIN cache THEN Shown(cache[k]) ELSE Plain("NotFound"))
              /\ UNCHANGED <<running, storeVars>>
           \/ k \in DOMAIN cache /\ ~FitsRead(k) /\ Die("failure")
           \/ (IoMayFail \/ ~open) /\ Die("failure")

\* Mutant: the answer is Ok whatever the store said.
ProcessWriteUnchecked(verb, overwrite) ==
    /\ Performs(verb) /\ UNCHANGED running
    /\ IF KeyExists(rb.request.key, overwrite)
       THEN Answers(Plain("Ok")) /\ UNCHANGED storeVars
       ELSE /\ StorePut(rb.request.key, rb.request.payload)
            /\ pc' = "sync" /\ answer' = Plain("Ok")
            /\ UNCHANGED <<rb, exit, linkVars, client>>

\* zob_store_write puts, then syncs, unless the key is there and may not be; it syncs
\* too when the put has failed.
ProcessWrite(verb, overwrite) ==
    /\ Performs(verb) /\ UNCHANGED running
    /\ \/ /\ KeyExists(rb.request.key, overwrite)
          /\ Answers(Plain("Ko")) /\ UNCHANGED storeVars
       \/ /\ ~KeyExists(rb.request.key, overwrite)
          /\ StorePut(rb.request.key, rb.request.payload)
          /\ pc' = "sync" /\ answer' = Plain("Ok")
          /\ UNCHANGED <<rb, exit, linkVars, client>>
       \/ /\ StoreRefuses
          /\ pc' = "sync" /\ answer' = Plain("Ko")
          /\ UNCHANGED <<rb, exit, linkVars, client>>

ProcessUpdate == ProcessWrite("update", TRUE)

\* Mutant: new overwrites.
ProcessNewOver == ProcessWrite("new", TRUE)

ProcessNew == ProcessWrite("new", FALSE)

Sync ==
    /\ pc = "sync" /\ StoreSync
    /\ pc' = "answer"
    /\ UNCHANGED <<running, rb, answer, exit, linkVars, client>>

ProcessDelete ==
    /\ Performs("delete")
    /\ \/ /\ rb.request.key \in DOMAIN cache
          /\ Answers(Plain("Ok")) /\ StoreDelete(rb.request.key)
       \/ /\ open /\ rb.request.key \notin DOMAIN cache
          /\ Answers(Plain("Ko")) /\ UNCHANGED storeVars
       \/ Answers(Plain("Ko")) /\ StoreRefuses
    /\ UNCHANGED running

ProcessStop ==
    /\ Performs("stop")
    /\ running' = FALSE
    /\ Answers(Plain("Ok"))
    /\ UNCHANGED storeVars

\* A request without a verb: the header of a read that has no line feed.
ProcessNothing ==
    /\ Performs(NoVerb)
    /\ Answers(Plain("Ko"))
    /\ UNCHANGED <<running, storeVars>>

\* Mutant: the answer goes to the connection that waits, if there is one.
SendAnswerToNext ==
    /\ pc = "answer"
    /\ IF Alive(session)
       THEN /\ outbox' = [outbox EXCEPT ![IF pending = <<>> THEN session ELSE Head(pending)] = answer]
            /\ pc' = "end"
            /\ UNCHANGED <<running, rb, answer, exit, sockFile, pending, session, inbox>>
            /\ UNCHANGED <<client, storeVars>>
       ELSE Die("signal")

\* Writing to a client that has gone ends the process by SIGPIPE.
SendAnswer ==
    /\ pc = "answer"
    /\ IF Alive(session)
       THEN /\ outbox' = [outbox EXCEPT ![session] = answer]
            /\ pc' = "end"
            /\ UNCHANGED <<running, rb, answer, exit, sockFile, pending, session, inbox>>
            /\ UNCHANGED <<client, storeVars>>
       ELSE Die("signal")

\* Mutant: the loop does not look at is_running.
SessionEndForever ==
    /\ pc = "end" /\ pc' = "accept"
    /\ rb' = NewBuilder /\ answer' = NoAnswer /\ session' = NoClient
    /\ UNCHANGED <<running, exit, sockFile, pending, inbox, outbox, client, storeVars>>

SessionEnd ==
    /\ pc = "end"
    /\ pc' = IF running THEN "accept" ELSE "close"
    /\ rb' = NewBuilder /\ answer' = NoAnswer
    /\ session' = NoClient
    /\ UNCHANGED <<running, exit, sockFile, pending, inbox, outbox, client, storeVars>>

\* zob_app_dispose closes the store and the process ends; the socket is left.
Close == pc = "close" /\ StoreClose /\ Gone("success")

\* The library evicts a page whenever the process runs.
Evict == WriteBack /\ UNCHANGED <<serverVars, linkVars, client>>

-----------------------------------------------------------------------------
(* zob_client_run in slot c.                                               *)

Becomes(c, state) == client' = [client EXCEPT ![c] = state]

\* connect joins the queue, waits while it is full, fails without a server.
Connect(c) ==
    /\ client[c] = "idle"
    /\ IF Listening
       THEN /\ Len(pending) < Backlog
            /\ pending' = Append(pending, c)
            /\ Becomes(c, "connected")
       ELSE Becomes(c, "failed") /\ UNCHANGED pending
    /\ UNCHANGED <<serverVars, sockFile, session, inbox, outbox, storeVars>>

\* One read of the standard input and one write; nothing is written of an
\* empty input, and writing to a closed connection ends the client.
Send(c) ==
    /\ client[c] = "connected"
    /\ IF Attached(c)
       THEN /\ Becomes(c, "waiting")
            /\ \E input \in Inputs : inbox' = [inbox EXCEPT ![c] = input]
       ELSE Becomes(c, "failed") /\ UNCHANGED inbox
    /\ UNCHANGED <<serverVars, sockFile, pending, session, outbox, storeVars>>

\* The answer, or the end of the connection without one.  Only Ok is a success.
Receive(c) ==
    /\ client[c] = "waiting"
    /\ outbox[c] # NoAnswer \/ ~Attached(c)
    /\ Becomes(c, IF outbox[c].kind = "Ok" THEN "ok" ELSE "failed")
    /\ outbox' = [outbox EXCEPT ![c] = NoAnswer]
    /\ UNCHANGED <<serverVars, sockFile, pending, session, inbox, storeVars>>

HangUp(c) ==
    /\ CanHangUp /\ Alive(c)
    /\ Becomes(c, "killed")
    /\ UNCHANGED <<serverVars, linkVars, storeVars>>

\* The slot is free for another command once the old connection is closed.
Again(c) ==
    /\ client[c] \in {"ok", "failed", "killed"} /\ ~Attached(c)
    /\ Becomes(c, "idle")
    /\ outbox' = [outbox EXCEPT ![c] = NoAnswer]
    /\ UNCHANGED <<serverVars, sockFile, pending, session, inbox, storeVars>>
-----------------------------------------------------------------------------
Process ==
    ProcessRead \/ ProcessUpdate \/ ProcessNew \/ ProcessDelete \/ ProcessStop \/ ProcessNothing

\* The steps of a server process that has been launched.
ServerStep ==
    \/ Listen \/ SessionBegin \/ Read \/ Parse \/ Process \/ Sync
    \/ SendAnswer \/ SessionEnd \/ Close

ClientStep(c) == Connect(c) \/ Send(c) \/ Receive(c) \/ Again(c)

Next ==
    \/ ServerStep
    \/ Launch \/ Evict
    \/ Crash \/ RemoveSocket
    \/ \E c \in Client : ClientStep(c) \/ HangUp(c)

Spec == Init /\ [][Next]_vars

\* Threads that can run do; nobody has to launch a server, to kill one, to
\* evict a page or to start a client.
FairSpec ==
    /\ Spec
    /\ WF_vars(ServerStep)
    /\ \A c \in Client : WF_vars(Send(c)) /\ WF_vars(Receive(c))
-----------------------------------------------------------------------------
\* Outside of a write between its put and its sync, the file holds all that the
\* process shows; what it may hold on top are entries already deleted
\* (zob_store_write syncs, zob_store_delete does not).
LaggingKey == IF pc = "sync" THEN {rb.request.key} ELSE {}
DiskLagsOnlyByDeletes == open => DiskHolds(LaggingKey)

\* An Ok to new or update is only ever sent with its value in the file, so that
\* no crash after it can lose the value.
AckedWritesAreOnDisk ==
    pc = "answer" /\ rb.request.verb \in {"new", "update"} /\ answer.kind = "Ok" =>
        /\ rb.request.key \in DOMAIN disk
        /\ disk[rb.request.key] = rb.request.payload

\* README.rst calls the storage permanent: an Ok to delete would have to be
\* sent with the entry gone from the file.
AckedDeletesAreOnDisk ==
    pc = "answer" /\ rb.request.verb = "delete" /\ answer.kind = "Ok" =>
        rb.request.key \notin DOMAIN disk

\* With complete commands, clients that stay and values that fit, a server that has begun
\* to serve goes on until it is killed or told to stop: no order of commands ends it.
OnlyStopEndsServing ==
    [][pc' = "down" /\ pc \in Serving \cup {"close"} =>
            exit' = "killed" \/ (exit' = "success" /\ ~running)]_vars

\* Every client that has got a connection is answered or told that there is no
\* answer, whatever the others do, and it comes to its end.
EveryClientEnds ==
    \A c \in Client : client[c] = "connected" ~> ~Alive(c)

\* A server that has performed a stop ends.
StopEnds == pc = "answer" /\ ~running ~> pc = "down"
=============================================================================
