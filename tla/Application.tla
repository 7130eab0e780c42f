---------------------------- MODULE Application ----------------------------
(***************************************************************************)
(* The life of a process, src/main.c and src/src/app.c, and of the objects *)
(* it is made of: the application, its configuration (config.c), its log   *)
(* (log.c), the server or the client, and what each session creates and    *)
(* disposes of (server.c, request-builder.c, message.c).                   *)
(***************************************************************************)
EXTENDS Integers, FiniteSets, Sequences

CONSTANTS
    Names,      \* the names the program may be started under, as sequences
    MaxSessions,\* bound: the sessions a server is followed for
    EarlyErrors \* TRUE if memory may be short from the start

Slash == "/"
Keys == {"socket.name", "server.store", "server.log.file"}
Fields == {"verb", "key", "payload"}

Allocator == <<"app", "allocator">>
Name == <<"app", "name">>
Config == <<"app", "config">>
Log == <<"app", "log">>
Server == <<"app", "server">>
Client == <<"app", "client">>
Store == <<"server", "store">>
KeyOf(k) == <<"key", k>>
ValueOf(k) == <<"value", k>>
Builder == <<"session", "rb">>
Built == <<"rb", "request">>
Request == <<"session", "request">>
Answer == <<"session", "answer">>
FieldsOf(m) == {<<m[1], m[2], f>> : f \in Fields}

Object ==
    {Allocator, Name, Config, Log, Server, Client, Store, Builder, Built, Request, Answer,
     <<"rb", "buffer">>, <<"rb", "payload">>}
        \cup {KeyOf(k) : k \in Keys} \cup {ValueOf(k) : k \in Keys}
        \cup UNION {FieldsOf(m) : m \in {Built, Request, Answer}}

Part ==
    [o \in Object |->
        CASE o = Server -> {Store}
          [] o = Builder -> {Built, <<"rb", "buffer">>, <<"rb", "payload">>}
          [] o \in {Built, Request, Answer} -> FieldsOf(o)
          [] OTHER -> {}]

INSTANCE Objects

\* A path to a file: what is between two slashes is one element, and so is what follows.
IsPath(n) ==
    /\ n \in Seq(STRING) /\ n # <<>> /\ n[Len(n)] # Slash
    /\ Len(n) > 1 => n[Len(n) - 1] = Slash

ASSUME ApplicationAssumption ==
    /\ \A n \in Names : IsPath(n)
    /\ MaxSessions \in Nat
    /\ EarlyErrors \in BOOLEAN

VARIABLES
    argv0,      \* what the program is called
    pc,         \* what it does next
    heap,       \* its objects
    kind,       \* is_server, is_client, or neither
    sessions,   \* how many have begun
    verb,       \* the command of the session, "bad" for none
    ended       \* how it has ended and where that has been written

vars == <<argv0, pc, heap, kind, sessions, verb, ended>>

Verbs == {"new", "clone", "read", "delete", "update", "stop", "bad"}
ServerSteps == {"connect", "session", "parse", "request", "process", "dispose"}
Steps == {"start", "command", "configure", "log", "module", "client", "clean", "over"}
             \cup ServerSteps

TypeOK ==
    /\ argv0 \in Names /\ pc \in Steps /\ IsHeap(heap)
    /\ kind \in {"server", "client", "neither"}
    /\ pc = "client" => kind = "client"
    /\ pc \in ServerSteps => kind = "server"
    /\ sessions \in 0 .. MaxSessions /\ verb \in Verbs
    /\ ended \in [status : {"none", "success", "failure", "crash"}, told : {"nobody", "log", "stderr"}]

Ended(status, told) == [status |-> status, told |-> told]

Init ==
    /\ argv0 \in Names /\ pc = "start" /\ heap = EmptyHeap /\ kind = "neither"
    /\ sessions = 0 /\ verb = "bad" /\ ended = Ended("none", "nobody")

Has(o) == heap.of[o] = "live"

\* A step of the program, which a fault of its memory ends.
Step(from, to, h) ==
    /\ pc = from
    /\ heap' = h
    /\ IF h.fault = "none"
       THEN pc' = to /\ UNCHANGED ended
       ELSE pc' = "over" /\ ended' = Ended("crash", "nobody")

\* zob_app_error: the log, or the standard error while there is none, takes a line that
\* starts with the name of the program.
Exit(where) ==
    /\ pc = where /\ pc' = "over"
    /\ ended' = IF Has(Name) THEN Ended("failure", IF Has(Log) THEN "log" ELSE "stderr")
                             ELSE Ended("crash", "nobody")
    /\ UNCHANGED <<argv0, heap, kind, sessions, verb>>

-----------------------------------------------------------------------------
(* Starting.                                                               *)

Start ==
    /\ Step("start", "command", [EmptyHeap EXCEPT !.of[Allocator] = "live"])
    /\ UNCHANGED <<argv0, kind, sessions, verb>>

\* Mutant: the search of the slash goes on to the first one.
AfterFirstSlash(name) ==
    LET s == {i \in DOMAIN name : name[i] = Slash}
    IN  IF s = {} THEN name ELSE SubSeq(name, (CHOOSE i \in s : \A j \in s : i <= j) + 1, Len(name))

\* What follows the last slash; one that the name starts with is not looked at.
AfterSlash(name) ==
    LET s == {i \in 2 .. Len(name) : name[i] = Slash}
    IN  IF s = {} THEN name ELSE SubSeq(name, (CHOOSE i \in s : \A j \in s : j <= i) + 1, Len(name))

\* Mutant: the name is disposed of like any other string made of a C string.
CommandForgetting ==
    /\ Step("command", "configure", Dispose(Create(heap, {Name}), {Name}))
    /\ kind' = IF AfterSlash(argv0) = <<"zob">> THEN "client"
               ELSE IF AfterSlash(argv0) = <<"zobd">> THEN "server" ELSE "neither"
    /\ UNCHANGED <<argv0, sessions, verb>>

Command ==
    /\ Step("command", "configure", Create(heap, {Name}))
    /\ kind' = IF AfterSlash(argv0) = <<"zob">> THEN "client"
               ELSE IF AfterSlash(argv0) = <<"zobd">> THEN "server" ELSE "neither"
    /\ UNCHANGED <<argv0, sessions, verb>>

\* The vector and a pair of strings for each element of tbl_config.
Configured(h) ==
    Create(Create(h, {Config}), {KeyOf(k) : k \in Keys} \cup {ValueOf(k) : k \in Keys})

Configure ==
    /\ Step("configure", "log", Configured(heap))
    /\ UNCHANGED <<argv0, kind, sessions, verb>>

\* zob_app_config_get_helper: every key up to the one that is sought is compared; the
\* value is lent to the caller.
Lookup(h, k) == Use(Locals(h), {Config} \cup {KeyOf(l) : l \in Keys})
Lent(h, k) == Use(Lookup(h, k), {ValueOf(k)})

\* The log disposes of the file name it has been lent.
OpenLog ==
    /\ Step("log", "module",
            Dispose(Create(Lent(heap, "server.log.file"), {Log}), {ValueOf("server.log.file")}))
    /\ UNCHANGED <<argv0, kind, sessions, verb>>

\* Mutant: what is no server is taken for a client.
CreateAnyModule ==
    /\ Step("module", IF kind = "server" THEN "connect" ELSE "client",
            Create(heap, {IF kind = "server" THEN Server ELSE Client}))
    /\ UNCHANGED <<argv0, kind, sessions, verb>>

\* A program of neither name has nothing to run.
CreateModule ==
    /\ kind # "neither"
    /\ Step("module", IF kind = "server" THEN "connect" ELSE "client",
            Create(heap, {IF kind = "server" THEN Server ELSE Client}))
    /\ UNCHANGED <<argv0, kind, sessions, verb>>

UnknownModule == kind = "neither" /\ Exit("module")

-----------------------------------------------------------------------------
(* Running.                                                                *)

RunClient ==
    /\ Step("client", "clean", Use(Lent(heap, "socket.name"), {Client}))
    /\ UNCHANGED <<argv0, kind, sessions, verb>>

Connect ==
    /\ Step("connect", "session",
            Use(Lent(Lent(heap, "server.store"), "socket.name"), {Server, Store}))
    /\ UNCHANGED <<argv0, kind, sessions, verb>>

BeginSession(v) ==
    /\ sessions < MaxSessions
    /\ Step("session", "parse", Create(heap, {Builder}))
    /\ sessions' = sessions + 1 /\ verb' = v
    /\ UNCHANGED <<argv0, kind>>

\* Fields are slices.  The header's string for the verb is not disposed of.
Parsed(h, v) ==
    CASE v \in {"new", "update"} -> Slices(Locals(h), 2)
      [] v = "delete" -> Slices(Locals(h), 1)
      [] v = "read" -> [Slices(h, 1) EXCEPT !.lost = @ + 1]
      [] v = "stop" -> [Locals(h) EXCEPT !.lost = @ + 1]
      [] v = "clone" -> Use(Locals(h), {Log, Name})
      [] v = "bad" -> h

Parse ==
    /\ Step("parse", "request", Parsed(Use(heap, Family(Builder)), verb))
    /\ UNCHANGED <<argv0, kind, sessions, verb>>

Refused == verb \in {"bad", "clone"}

\* A bad request is answered from a new message, another from a clone of the request.
TakeRequest ==
    /\ Step("request", "process",
            IF Refused THEN Locals(Create(heap, {Answer}))
            ELSE Clone(Clone(heap, Built, Request), Request, Answer))
    /\ UNCHANGED <<argv0, kind, sessions, verb>>

Performed(h, v) ==
    LET used == Use(Locals(h), Family(Request) \cup {Store})
    IN  IF v = "stop" THEN used ELSE Use(used, {Log, Name})

Process ==
    /\ Step("process", "dispose",
            Locals(Use(IF Refused THEN heap ELSE Performed(heap, verb), Family(Answer))))
    /\ UNCHANGED <<argv0, kind, sessions, verb>>

\* Mutant: the request, a clone, is forgotten.
EndSessionLosing ==
    /\ Step("dispose", IF verb = "stop" THEN "clean" ELSE "session",
            Dispose(Dispose(heap, {Answer}), {Builder}))
    /\ UNCHANGED <<argv0, kind, sessions, verb>>

EndSession ==
    /\ Step("dispose", IF verb = "stop" THEN "clean" ELSE "session",
            LET h == IF Refused THEN heap ELSE Dispose(heap, {Request})
            IN  Dispose(Dispose(h, {Answer}), {Builder}))
    /\ UNCHANGED <<argv0, kind, sessions, verb>>

-----------------------------------------------------------------------------
(* Ending.                                                                 *)

\* Mutant: the allocator goes with the log.
CleanedEarly(h) ==
    LET l == Dispose(Dispose(Dispose(h, {IF kind = "server" THEN Server ELSE Client}), {Name}), {Log})
        a == Release(l, Allocator)
    IN  Release(Dispose(a, {KeyOf(k) : k \in Keys} \cup {ValueOf(k) : k \in Keys}), Config)

\* zob_app_clean: the configuration after those who have borrowed from it, the
\* allocator last.
Cleaned(h) ==
    LET l == Dispose(Dispose(Dispose(h, {IF kind = "server" THEN Server ELSE Client}), {Name}), {Log})
        c == Release(Dispose(l, {KeyOf(k) : k \in Keys} \cup {ValueOf(k) : k \in Keys}), Config)
    IN  Release(c, Allocator)

Clean ==
    /\ pc = "clean" /\ pc' = "over"
    /\ heap' = Cleaned(heap)
    /\ ended' = IF heap'.fault = "none" THEN Ended("success", "nobody") ELSE Ended("crash", "nobody")
    /\ UNCHANGED <<argv0, kind, sessions, verb>>

\* Memory may be short wherever an object is created, and the system may refuse a file,
\* a socket, a read or a write.
MayFail ==
    {"configure", "log", "module", "client", "connect", "session", "parse", "request", "process"}
        \cup (IF EarlyErrors THEN {"start", "command"} ELSE {})

Error == \E where \in MayFail : Exit(where)

Next ==
    \/ Start \/ Command \/ Configure \/ OpenLog \/ CreateModule \/ UnknownModule
    \/ RunClient \/ Connect \/ \E v \in Verbs : BeginSession(v)
    \/ Parse \/ TakeRequest \/ Process \/ EndSession \/ Clean \/ Error

Spec == Init /\ [][Next]_vars
-----------------------------------------------------------------------------
\* No object is used or disposed of that is not there, and none is released twice, from
\* the first to the last line of main, although the log disposes of a string that belongs
\* to the configuration (log.c:28), which disposes of it again (config.c:65): it is
\* Dispose's leaving the structure behind (object.h:46) that makes the second a no-op.
NothingIsMisused == heap.fault = "none"

\* Every error is told, under the name of the program, to the log or else to the standard
\* error (log_error reads the name and the log through the application, log.c:82-92).
ErrorsAreTold == ended.status # "crash" /\ (ended.status = "failure" => ended.told # "nobody")

\* A session leaves live nothing but what was before the first one, and at most two
\* objects that nobody can dispose of: the verb of a header (request-builder.c:227) and
\* the first buffer of each slice (string.c:103).
SessionsAreDisposedOf ==
    /\ pc = "session" =>
        Live(heap) = {Allocator, Name, Config, Log, Server, Store}
            \cup {KeyOf(k) : k \in Keys} \cup {ValueOf(k) : k \in Keys \ {"server.log.file"}}
    /\ heap.lost <= 2 * sessions

\* app.c:84: "Determine app is server or client from name", whatever the directory is.
\* The root directory is a case of its own: the search for the slash stops before it has
\* looked at the first byte (app.c:94), and /zobd is no module.
Directory(name) == SubSeq(name, 1, Len(name) - 1)
LastName(name) == name[Len(name)]
LastNameDecides ==
    pc \notin {"start", "command"} /\ Directory(argv0) # <<Slash>> =>
        /\ kind = "client" <=> LastName(argv0) = "zob"
        /\ kind = "server" <=> LastName(argv0) = "zobd"
=============================================================================
