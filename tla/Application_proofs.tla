------------------------- MODULE Application_proofs -------------------------
(***************************************************************************)
(* The objects of a process at each step of its life, for any number of    *)
(* sessions and under any name.                                            *)
(***************************************************************************)
EXTENDS Application, FiniteSetTheorems, SequenceTheorems, TLAPS

Settings == {KeyOf(k) : k \in Keys} \cup {ValueOf(k) : k \in Keys}

\* The file name the log has disposed of.
LogName == ValueOf("server.log.file")

Standing == {Allocator, Name, Config, Log} \cup (Settings \ {LogName})

Running == Standing \cup Families({IF kind = "server" THEN Server ELSE Client})

\* What is live before each step.
LiveAt ==
    CASE pc = "start" -> {}
      [] pc = "command" -> {Allocator}
      [] pc = "configure" -> {Allocator, Name}
      [] pc = "log" -> {Allocator, Name, Config} \cup Settings
      [] pc = "module" -> Standing
      [] pc \in {"client", "clean", "connect", "session"} -> Running
      [] pc \in {"parse", "request"} -> Running \cup Families({Builder})
      [] pc \in {"process", "dispose"} ->
            Running \cup Families({Builder}) \cup Families({Answer})
                \cup (IF Refused THEN {} ELSE Families({Request}))

\* The heap h is sound, and the objects that are live in it are those of L.
Holds(h, L) ==
    /\ IsHeap(h) /\ h.fault = "none"
    /\ \A o \in Object : h.of[o] = "live" <=> o \in L

Opened == {"module", "client", "clean"} \cup ServerSteps

ShapeInv ==
    /\ pc # "over" => Holds(heap, LiveAt)
    /\ IsHeap(heap) /\ heap.fault = "none"
    /\ pc \in Opened => heap.of[LogName] = "hollow"

\* Two objects a session: those of the session under way are lost as it is parsed.
LostInv ==
    /\ heap.lost <= 2 * sessions
    /\ pc = "parse" => heap.lost <= 2 * (sessions - 1)

KindInv ==
    /\ pc \notin {"start", "command"} /\ (pc = "over" => ~EarlyErrors) =>
        kind = (IF AfterSlash(argv0) = <<"zob">> THEN "client"
                ELSE IF AfterSlash(argv0) = <<"zobd">> THEN "server" ELSE "neither")
    /\ pc = "clean" => kind # "neither"

EndInv ==
    IF pc = "over" THEN ended.status # "crash" /\ (ended.status = "failure" => ended.told # "nobody")
                   ELSE ended = Ended("none", "nobody")

AppInv == TypeOK /\ ShapeInv /\ LostInv /\ KindInv /\ (~EarlyErrors => EndInv)

-----------------------------------------------------------------------------
(* What the operations on objects do to a sound heap.                      *)

LEMMA UseHolds ==
    ASSUME NEW h, NEW L, Holds(h, L), NEW S \in SUBSET Object, S \subseteq L
    PROVE  Use(h, S) = h
BY DEF Holds, Use, If, Are

LEMMA LocalsHold ==
    ASSUME NEW h, NEW L, Holds(h, L), Allocator \in L
    PROVE  Locals(h) = h
BY DEF Holds, Locals, If, Allocates, Object

LEMMA BecomeHolds ==
    ASSUME NEW h, NEW L, Holds(h, L), NEW S, NEW state \in {"none", "live", "hollow"},
           NEW K, \A o \in Object \cap S : o \in K <=> state = "live",
           \A o \in Object \ S : o \in K <=> o \in L
    PROVE  /\ Holds(Become(h, S, state), K)
           /\ Become(h, S, state).lost = h.lost
           /\ \A o \in Object : Become(h, S, state).of[o] = IF o \in S THEN state ELSE h.of[o]
<1> DEFINE b == Become(h, S, state)
<1>1. b = [of |-> [o \in Object |-> IF o \in S THEN state ELSE h.of[o]],
           lost |-> h.lost, fault |-> h.fault]
  BY DEF Holds, IsHeap, Become
<1>2. IsHeap(b)
  BY <1>1 DEF Holds, IsHeap
<1> HIDE DEF b
<1> QED
  BY <1>1, <1>2 DEF Holds, b

LEMMA CreateHolds ==
    ASSUME NEW h, NEW L, Holds(h, L), Allocator \in L, NEW S, NEW F \in SUBSET Object,
           Families(S) = F, F \cap L = {}, NEW K, K = L \cup F
    PROVE  /\ Holds(Create(h, S), K)
           /\ Create(h, S).lost = h.lost
           /\ \A o \in Object \ F : Create(h, S).of[o] = h.of[o]
<1> DEFINE b == Become(h, F, "live")
<1>1. h.fault = "none" /\ Allocates(h) /\ h.lost \in Nat
  BY DEF Holds, IsHeap, Allocates, Object
<1>2. F \cap Live(h) = {}
  BY DEF Holds, Live
<1>3. Cardinality(F \cap Live(h)) = 0
  BY <1>2, FS_EmptySet
<1>4. (\A o \in Object \cap F : o \in K) /\ (\A o \in Object \ F : o \in K <=> o \in L)
  OBVIOUS
<1>5. /\ Holds(b, K) /\ b.lost = h.lost
      /\ \A o \in Object : b.of[o] = IF o \in F THEN "live" ELSE h.of[o]
  BY <1>4, BecomeHolds
<1>6. Create(h, S) = [b EXCEPT !.lost = @ + 0]
  BY <1>1, <1>3 DEF Create, If
<1>7. [b EXCEPT !.lost = @ + 0] = b
  BY <1>1, <1>5 DEF Holds, IsHeap
<1> QED
  BY <1>5, <1>6, <1>7

LEMMA CloneHolds ==
    ASSUME NEW h, NEW L, Holds(h, L), NEW from \in L \cap Object, NEW to
    PROVE  Clone(h, from, to) = Create(h, {to})
BY DEF Holds, Clone, If, Are

LEMMA DisposeHolds ==
    ASSUME NEW h, NEW L, Holds(h, L), Allocator \in L, NEW S, \A o \in S : h.of[o] # "none"
    PROVE  /\ Holds(Dispose(h, S), L \ Families(S))
           /\ Dispose(h, S).lost = h.lost
           /\ \A o \in Object : Dispose(h, S).of[o] = IF o \in Families(S) THEN "hollow" ELSE h.of[o]
<1>1. Dispose(h, S) = Become(h, Families(S), "hollow")
  BY DEF Holds, Dispose, If, Allocates, Object
<1>2. /\ \A o \in Object \cap Families(S) : o \notin L \ Families(S)
      /\ \A o \in Object \ Families(S) : o \in L \ Families(S) <=> o \in L
  OBVIOUS
<1> QED
  BY <1>1, <1>2, BecomeHolds

LEMMA ReleaseHolds ==
    ASSUME NEW h, NEW L, Holds(h, L), NEW o \in L \cap Object
    PROVE  /\ Holds(Release(h, o), L \ {o})
           /\ Release(h, o).lost = h.lost
           /\ \A p \in Object \ {o} : Release(h, o).of[p] = h.of[p]
<1>1. Release(h, o) = Become(h, {o}, "none")
  BY DEF Holds, Release, If, Are
<1>2. /\ \A p \in Object \cap {o} : p \notin L \ {o}
      /\ \A p \in Object \ {o} : p \in L \ {o} <=> p \in L
  OBVIOUS
<1>3. /\ Holds(Become(h, {o}, "none"), L \ {o})
      /\ Become(h, {o}, "none").lost = h.lost
      /\ \A p \in Object : Become(h, {o}, "none").of[p] = IF p \in {o} THEN "none" ELSE h.of[p]
  BY <1>2, BecomeHolds
<1> QED
  BY <1>1, <1>3

\* The buffers that slices forget are the only objects lost.
LEMMA ParsedHolds ==
    ASSUME NEW h, NEW L, Holds(h, L), {Allocator, Log, Name} \subseteq L, NEW v \in Verbs
    PROVE  /\ Holds(Parsed(h, v), L)
           /\ Parsed(h, v).lost <= h.lost + 2
           /\ Parsed(h, v).of = h.of
<1>1. Locals(h) = h
  BY LocalsHold
<1>2. Use(h, {Log, Name}) = h
  BY UseHolds DEF Object
<1>3. \A n \in 0 .. 2 : Slices(h, n) = [of |-> h.of, lost |-> h.lost + n, fault |-> h.fault]
  BY DEF Holds, IsHeap, Slices, If, Allocates, Object
<1>4. \E n \in 0 .. 2 : Parsed(h, v) = [of |-> h.of, lost |-> h.lost + n, fault |-> h.fault]
  <2>1. CASE v \in {"new", "update"}
    BY <1>1, <1>3, <2>1 DEF Parsed
  <2>2. CASE v = "delete"
    BY <1>1, <1>3, <2>2 DEF Parsed
  <2>3. CASE v = "read"
    BY <1>3, <2>3 DEF Parsed, Holds, IsHeap
  <2>4. CASE v = "stop"
    BY <1>1, <2>4 DEF Parsed, Holds, IsHeap
  <2>5. CASE v \in {"clone", "bad"}
    <3>1. Parsed(h, v) = h
      BY <1>1, <1>2, <2>5 DEF Parsed
    <3> QED
      BY <3>1 DEF Holds, IsHeap
  <2> QED
    BY <2>1, <2>2, <2>3, <2>4, <2>5 DEF Verbs
<1>5. PICK n \in 0 .. 2 : Parsed(h, v) = [of |-> h.of, lost |-> h.lost + n, fault |-> h.fault]
  BY <1>4
<1> QED
  BY <1>5 DEF Holds, IsHeap

-----------------------------------------------------------------------------
(* The objects and their parts.                                            *)

LEMMA SingleFamilies ==
    ASSUME NEW S \in SUBSET Object, S \cap {Server, Builder, Built, Request, Answer} = {}
    PROVE  Families(S) = S
<1>1. ASSUME NEW o \in S PROVE Part[o] = {}
  BY DEF Part
<1> QED
  BY <1>1 DEF Families, Family

LEMMA ModuleFamilies ==
    /\ Families({Server}) = {Server, Store} /\ Families({Client}) = {Client}
    /\ {Server, Store, Client} \subseteq Object
<1>1. Part[Server] = {Store} /\ Part[Store] = {} /\ Part[Client] = {}
  BY DEF Object, Part, Server, Store, Client, Builder, Built, Request, Answer
<1>2. {Server, Store, Client} \subseteq Object
  BY DEF Object
<1> QED
  BY <1>1, <1>2 DEF Families, Family

LEMMA FieldParts ==
    ASSUME NEW m \in {Built, Request, Answer}
    PROVE  FieldsOf(m) \subseteq Object /\ \A x \in FieldsOf(m) : Part[x] = {}
<1>1. \A x \in FieldsOf(m) : x \notin {Server, Builder, Built, Request, Answer}
  BY DEF FieldsOf, Fields, Server, Builder, Built, Request, Answer
<1>2. FieldsOf(m) \subseteq Object
  BY DEF Object
<1> QED
  BY <1>1, <1>2 DEF Part

LEMMA MessageFamilies ==
    ASSUME NEW m \in {Request, Answer}
    PROVE  Families({m}) = {m} \cup FieldsOf(m) /\ Families({m}) \subseteq Object
<1>1. m \in Object /\ Part[m] = FieldsOf(m)
  BY DEF Object, Part, Server, Builder, Built, Request, Answer
<1> QED
  BY <1>1, FieldParts DEF Families, Family

BuilderParts == {Builder, Built, <<"rb", "buffer">>, <<"rb", "payload">>} \cup FieldsOf(Built)

LEMMA BuilderFamilies ==
    Families({Builder}) = BuilderParts /\ Family(Builder) = BuilderParts /\ BuilderParts \subseteq Object
<1>1. BuilderParts \subseteq Object
  BY FieldParts DEF BuilderParts, Object
<1>2. /\ Part[Builder] = {Built, <<"rb", "buffer">>, <<"rb", "payload">>}
      /\ Part[Built] = FieldsOf(Built)
      /\ Part[<<"rb", "buffer">>] = {} /\ Part[<<"rb", "payload">>] = {}
  BY <1>1 DEF Part, BuilderParts, Server, Builder, Built, Request, Answer
<1> QED
  BY <1>1, <1>2 DEF Families, Family, BuilderParts

Lasting == {Allocator, Name, Config, Log, Server, Store, Client} \cup Settings

\* The groups of objects that come and go together have nothing in common.
LEMMA Apart ==
    /\ Lasting \subseteq Object
    /\ Lasting \cap BuilderParts = {}
    /\ \A m \in {Request, Answer} :
        Families({m}) \cap Lasting = {} /\ Families({m}) \cap BuilderParts = {}
    /\ Families({Request}) \cap Families({Answer}) = {}
<1>1. Lasting \subseteq Object
  BY DEF Lasting, Object, Settings
<1>2. Lasting \cap BuilderParts = {}
  BY DEF Lasting, Settings, BuilderParts, FieldsOf, Fields, Allocator, Name, Config, Log, Server,
         Store, Client, KeyOf, ValueOf, Builder, Built
<1>3. ASSUME NEW m \in {Request, Answer}
      PROVE  Families({m}) \cap Lasting = {} /\ Families({m}) \cap BuilderParts = {}
  <2>1. Families({m}) = {m} \cup FieldsOf(m)
    BY MessageFamilies
  <2>2. ({m} \cup FieldsOf(m)) \cap Lasting = {}
    BY DEF Lasting, Settings, FieldsOf, Fields, Allocator, Name, Config, Log, Server,
           Store, Client, KeyOf, ValueOf, Request, Answer
  <2>3. ({m} \cup FieldsOf(m)) \cap BuilderParts = {}
    BY DEF BuilderParts, FieldsOf, Fields, Builder, Built, Request, Answer
  <2> QED
    BY <2>1, <2>2, <2>3
<1>4. Families({Request}) \cap Families({Answer}) = {}
  BY MessageFamilies DEF FieldsOf, Fields, Request, Answer
<1> QED
  BY <1>1, <1>2, <1>3, <1>4

LEMMA Singles ==
    /\ \A o \in Lasting \ {Server} : Families({o}) = {o}
    /\ Families(Settings) = Settings
<1>1. (Lasting \ {Server}) \cap {Server, Builder, Built, Request, Answer} = {}
  <2>1. {Request, Answer, Builder, Built} \cap Lasting = {}
    BY Apart, MessageFamilies DEF BuilderParts
  <2> QED
    BY <2>1
<1>2. Settings \subseteq Lasting \ {Server}
  BY DEF Lasting, Settings, KeyOf, ValueOf, Server
<1> QED
  BY <1>1, <1>2, Apart, SingleFamilies

\* No two of the single objects are the same.
LEMMA Distinct ==
    /\ Allocator # Name /\ Allocator # Config /\ Allocator # Log
    /\ Name # Config /\ Name # Log /\ Config # Log
    /\ {Server, Store, Client} \cap {Allocator, Name, Config, Log} = {}
    /\ Settings \cap {Allocator, Name, Config, Log, Server, Store, Client} = {}
    /\ LogName \in Settings
    /\ \A k \in Keys : KeyOf(k) \in Settings \ {LogName} /\ ValueOf(k) \in Settings
    /\ \A k \in Keys \ {"server.log.file"} : ValueOf(k) # LogName
BY DEF Settings, LogName, Keys, Allocator, Name, Config, Log, Server, Store, Client, KeyOf, ValueOf

-----------------------------------------------------------------------------
(* The steps.                                                              *)

LEMMA AppInit == Init => AppInv
<1> SUFFICES ASSUME Init PROVE AppInv
  OBVIOUS
<1>1. IsHeap(EmptyHeap) /\ EmptyHeap.fault = "none" /\ EmptyHeap.lost = 0
      /\ \A o \in Object : EmptyHeap.of[o] # "live"
  BY DEF EmptyHeap, IsHeap
<1>2. TypeOK
  BY <1>1, ApplicationAssumption DEF Init, TypeOK, Steps, ServerSteps, Verbs, Ended
<1>3. ShapeInv
  BY <1>1 DEF Init, ShapeInv, Holds, LiveAt, Opened, ServerSteps
<1>4. LostInv /\ KindInv /\ EndInv
  BY <1>1 DEF Init, LostInv, KindInv, EndInv
<1> QED
  BY <1>2, <1>3, <1>4 DEF AppInv

\* A step whose memory is sound leads where it is meant to.
LEMMA Continues ==
    ASSUME AppInv, NEW from \in Steps, NEW to \in Steps \ {"over"}, NEW h, Step(from, to, h),
           from \notin {"start", "command", "over"},
           UNCHANGED <<argv0, kind>>, sessions' \in 0 .. MaxSessions, verb' \in Verbs,
           Holds(h, LiveAt'), to \in Opened => h.of[LogName] = "hollow",
           to = "client" => kind = "client", to = "clean" => kind # "neither",
           to \in ServerSteps => kind = "server",
           to \notin {"start", "command"},
           h.lost <= 2 * sessions', to = "parse" => h.lost <= 2 * (sessions' - 1)
    PROVE  AppInv'
<1>1. pc = from /\ heap' = h /\ pc' = to /\ UNCHANGED ended
  BY DEF Step, Holds
<1>2. TypeOK'
  BY <1>1 DEF AppInv, TypeOK, Holds
<1>3. ShapeInv'
  BY <1>1 DEF ShapeInv, Holds
<1>4. LostInv'
  BY <1>1 DEF LostInv
<1>5. KindInv'
  BY <1>1 DEF AppInv, KindInv
<1>6. ~EarlyErrors => EndInv'
  BY <1>1 DEF AppInv, EndInv
<1> QED
  BY <1>2, <1>3, <1>4, <1>5, <1>6 DEF AppInv

\* What the invariant says of a step that is not over.
LEMMA Standings ==
    ASSUME AppInv, pc # "over"
    PROVE  Holds(heap, LiveAt) /\ heap.lost \in Nat /\ sessions \in Nat
BY DEF AppInv, ShapeInv, TypeOK, IsHeap

LEMMA StartKeeps == ASSUME AppInv, Start PROVE AppInv'
<1> DEFINE h == [EmptyHeap EXCEPT !.of[Allocator] = "live"]
<1>1. /\ IsHeap(h) /\ h.fault = "none" /\ h.lost = 0
      /\ \A o \in Object : h.of[o] = "live" <=> o \in {Allocator}
  <2>1. h = [of |-> [o \in Object |-> IF o = Allocator THEN "live" ELSE "none"],
             lost |-> 0, fault |-> "none"]
    BY DEF EmptyHeap
  <2> HIDE DEF h
  <2> QED
    BY <2>1 DEF IsHeap
<1>2. /\ pc = "start" /\ pc' = "command" /\ heap' = h
      /\ UNCHANGED <<argv0, kind, sessions, verb, ended>>
  BY <1>1 DEF Start, Step
<1> HIDE DEF h
<1>3. TypeOK'
  BY <1>1, <1>2 DEF AppInv, TypeOK, Steps, ServerSteps
<1>4. ShapeInv'
  BY <1>1, <1>2 DEF ShapeInv, Holds, LiveAt, Opened, ServerSteps
<1>5. LostInv' /\ KindInv' /\ (~EarlyErrors => EndInv')
  BY <1>1, <1>2 DEF AppInv, TypeOK, LostInv, KindInv, EndInv
<1> QED
  BY <1>3, <1>4, <1>5 DEF AppInv

LEMMA CommandKeeps == ASSUME AppInv, Command PROVE AppInv'
<1> DEFINE h == Create(heap, {Name})
<1>0. pc = "command"
  BY DEF Command, Step
<1>1. Holds(heap, {Allocator}) /\ sessions \in Nat
  BY <1>0, Standings DEF LiveAt
<1>2. Families({Name}) = {Name} /\ {Name} \in SUBSET Object /\ {Name} \cap {Allocator} = {}
      /\ {Allocator, Name} = {Allocator} \cup {Name}
  BY Singles, Apart, Distinct DEF Lasting
<1>3. Holds(h, {Allocator, Name}) /\ h.lost = heap.lost
  BY <1>1, <1>2, CreateHolds
<1> HIDE DEF h
<1>4. /\ pc' = "configure" /\ heap' = h
      /\ UNCHANGED <<argv0, sessions, verb, ended>>
      /\ kind' = (IF AfterSlash(argv0) = <<"zob">> THEN "client"
                  ELSE IF AfterSlash(argv0) = <<"zobd">> THEN "server" ELSE "neither")
  BY <1>3 DEF Command, Step, Holds, h
<1>5. TypeOK'
  BY <1>3, <1>4 DEF AppInv, TypeOK, Steps, ServerSteps, Holds
<1>6. ShapeInv'
  <2>1. Holds(heap', {Allocator, Name})
    BY <1>3, <1>4
  <2>2. LiveAt' = {Allocator, Name}
    BY <1>4 DEF LiveAt
  <2>3. pc' \notin Opened
    BY <1>4 DEF Opened, ServerSteps
  <2> QED
    BY <2>1, <2>2, <2>3 DEF ShapeInv, Holds
<1>7. LostInv' /\ KindInv' /\ (~EarlyErrors => EndInv')
  BY <1>0, <1>3, <1>4 DEF AppInv, LostInv, KindInv, EndInv
<1> QED
  BY <1>5, <1>6, <1>7 DEF AppInv

LEMMA ConfigureKeeps == ASSUME AppInv, Configure PROVE AppInv'
<1>0. pc = "configure"
  BY DEF Configure, Step
<1>1. Holds(heap, {Allocator, Name}) /\ heap.lost <= 2 * sessions
  BY <1>0, Standings DEF LiveAt, AppInv, LostInv
<1>2. /\ Families({Config}) = {Config} /\ Families(Settings) = Settings
      /\ {Config} \in SUBSET Object /\ Settings \in SUBSET Object
      /\ {Config} \cap {Allocator, Name} = {}
      /\ Settings \cap ({Allocator, Name} \cup {Config}) = {}
  BY Singles, Apart, Distinct DEF Lasting
<1> DEFINE g == Create(heap, {Config})
           h == Create(g, Settings)
<1>3. Holds(g, {Allocator, Name} \cup {Config}) /\ g.lost = heap.lost
  BY <1>1, <1>2, CreateHolds
<1> HIDE DEF g
<1>4. Holds(h, ({Allocator, Name} \cup {Config}) \cup Settings) /\ h.lost = g.lost
  BY <1>2, <1>3, CreateHolds
<1>5. Configured(heap) = h
  BY DEF Configured, Settings, g
<1> HIDE DEF h
<1>6. pc' = "log"
  BY <1>4, <1>5 DEF Configure, Step, Holds
<1>7. LiveAt' = ({Allocator, Name} \cup {Config}) \cup Settings
  BY <1>6 DEF LiveAt
<1>8. Holds(h, LiveAt')
  BY <1>4, <1>7
<1>9. Step("configure", "log", h) /\ UNCHANGED <<argv0, kind, sessions, verb>>
  BY <1>5 DEF Configure
<1> QED
  BY <1>1, <1>3, <1>4, <1>8, <1>9, Continues DEF Steps, ServerSteps, Opened, AppInv, TypeOK

LEMMA LentHolds ==
    ASSUME NEW h, NEW L, Holds(h, L), {Allocator, Config} \subseteq L, NEW k \in Keys,
           {KeyOf(l) : l \in Keys} \cup {ValueOf(k)} \subseteq L
    PROVE  Lent(h, k) = h
<1>1. Locals(h) = h
  BY LocalsHold
<1>2. {Config} \cup {KeyOf(l) : l \in Keys} \in SUBSET Object /\ {ValueOf(k)} \in SUBSET Object
  BY Apart DEF Lasting, Settings
<1>3. Lookup(h, k) = h
  BY <1>1, <1>2, UseHolds DEF Lookup
<1>4. {ValueOf(k)} \subseteq L
  OBVIOUS
<1> QED
  BY <1>2, <1>3, <1>4, UseHolds DEF Lent

LEMMA OpenLogKeeps == ASSUME AppInv, OpenLog PROVE AppInv'
<1>0. pc = "log"
  BY DEF OpenLog, Step
<1> DEFINE L == {Allocator, Name, Config} \cup Settings
           g == Create(heap, {Log})
           h == Dispose(g, {LogName})
<1>1. Holds(heap, L) /\ heap.lost <= 2 * sessions
  BY <1>0, Standings DEF LiveAt, AppInv, LostInv
<1>2. /\ Families({Log}) = {Log} /\ Families({LogName}) = {LogName}
      /\ {Log} \in SUBSET Object /\ LogName \in Object
      /\ {Log} \cap L = {} /\ LogName \in L /\ {Allocator, Config} \subseteq L
      /\ {KeyOf(l) : l \in Keys} \cup {LogName} \subseteq L
      /\ "server.log.file" \in Keys
  BY Singles, Apart, Distinct DEF Lasting, LogName, Keys, Settings
<1>3. Standing = (L \cup {Log}) \ {LogName} /\ Allocator \in L \cup {Log}
  BY Distinct DEF Standing
<1> HIDE DEF L
<1>4. Lent(heap, "server.log.file") = heap
  BY <1>1, <1>2, LentHolds DEF LogName
<1>5. Holds(g, L \cup {Log}) /\ g.lost = heap.lost
  BY <1>1, <1>2, CreateHolds
<1> HIDE DEF g
<1>6. \A o \in {LogName} : g.of[o] # "none"
  BY <1>2, <1>5 DEF Holds
<1>7. Holds(h, Standing) /\ h.lost = g.lost /\ h.of[LogName] = "hollow"
  <2>1. /\ Holds(h, (L \cup {Log}) \ Families({LogName})) /\ h.lost = g.lost
        /\ \A o \in Object : h.of[o] = IF o \in Families({LogName}) THEN "hollow" ELSE g.of[o]
    BY <1>3, <1>5, <1>6, DisposeHolds
  <2> QED
    BY <1>2, <1>3, <2>1
<1> HIDE DEF h
<1>8. Step("log", "module", h) /\ UNCHANGED <<argv0, kind, sessions, verb>>
  BY <1>4 DEF OpenLog, LogName, g, h
<1>9. LiveAt' = Standing
  <2>1. pc' = "module"
    BY <1>7, <1>8 DEF Step, Holds
  <2> QED
    BY <2>1 DEF LiveAt
<1> QED
  BY <1>1, <1>5, <1>7, <1>8, <1>9, Continues DEF Steps, ServerSteps, Opened, AppInv, TypeOK

LEMMA CreateModuleKeeps == ASSUME AppInv, CreateModule PROVE AppInv'
<1> DEFINE module == IF kind = "server" THEN Server ELSE Client
           h == Create(heap, {module})
           to == IF kind = "server" THEN "connect" ELSE "client"
<1>0. pc = "module"
  BY DEF CreateModule, Step
<1>1. Holds(heap, Standing) /\ heap.lost <= 2 * sessions /\ heap.of[LogName] = "hollow"
  BY <1>0, Standings DEF LiveAt, AppInv, LostInv, ShapeInv, Opened
<1>2. /\ Families({module}) \in SUBSET Object
      /\ Families({module}) \cap Standing = {} /\ LogName \in Object \ Families({module})
      /\ Allocator \in Standing
      /\ Running = Standing \cup Families({module})
  BY ModuleFamilies, Apart, Distinct DEF Standing, Running, Lasting
<1>3. kind \in {"server", "client"} /\ Step("module", to, h) /\ UNCHANGED <<argv0, kind, sessions, verb>>
  BY DEF CreateModule, AppInv, TypeOK
<1> HIDE DEF module
<1>4. Holds(h, Running) /\ h.lost = heap.lost /\ h.of[LogName] = "hollow"
  BY <1>1, <1>2, CreateHolds
<1> HIDE DEF h
<1>5. pc' = to
  BY <1>3, <1>4 DEF Step, Holds
<1>6. LiveAt' = Running
  BY <1>3, <1>5 DEF LiveAt, Running
<1>7. /\ to \in {"connect", "client"}
      /\ to = "connect" => kind = "server"
      /\ to = "client" => kind = "client"
  BY <1>3
<1>8. to \in Steps \ {"over"} /\ to \notin {"start", "command", "parse", "clean"}
      /\ "module" \in Steps /\ (to \in ServerSteps => to = "connect")
  BY <1>7 DEF Steps, ServerSteps
<1>9. h.lost <= 2 * sessions' /\ sessions' \in 0 .. MaxSessions /\ verb' \in Verbs
  BY <1>1, <1>3, <1>4 DEF AppInv, TypeOK
<1>10. Holds(h, LiveAt')
  BY <1>4, <1>6
<1> HIDE DEF to
<1> QED
  BY <1>3, <1>4, <1>7, <1>8, <1>9, <1>10, Continues

\* Objects that stand while the program runs.
LEMMA RunningHolds ==
    /\ {Allocator, Name, Config, Log} \subseteq Running
    /\ {KeyOf(l) : l \in Keys} \subseteq Running
    /\ \A k \in Keys \ {"server.log.file"} : ValueOf(k) \in Running
    /\ kind = "server" => {Server, Store} \subseteq Running
    /\ kind = "client" => Client \in Running
    /\ Running \subseteq Lasting /\ Lasting \subseteq Object
BY ModuleFamilies, Apart, Distinct DEF Running, Standing, Lasting, Settings

LEMMA RunClientKeeps == ASSUME AppInv, RunClient PROVE AppInv'
<1>1. /\ pc = "client" /\ Holds(heap, Running) /\ heap.lost <= 2 * sessions
      /\ heap.of[LogName] = "hollow" /\ kind = "client"
  <2>1. pc = "client"
    BY DEF RunClient, Step
  <2> QED
    BY <2>1, Standings DEF LiveAt, AppInv, LostInv, ShapeInv, Opened, TypeOK
<1>2. Lent(heap, "socket.name") = heap
  BY <1>1, RunningHolds, LentHolds DEF Keys
<1>3. Use(heap, {Client}) = heap
  BY <1>1, RunningHolds, UseHolds
<1>4. Step("client", "clean", heap) /\ UNCHANGED <<argv0, kind, sessions, verb>>
  BY <1>2, <1>3 DEF RunClient
<1>5. LiveAt' = Running
  <2>1. pc' = "clean"
    BY <1>1, <1>4 DEF Step, Holds
  <2> QED
    BY <1>4, <2>1 DEF LiveAt, Running
<1> QED
  BY <1>1, <1>4, <1>5, Continues DEF Steps, ServerSteps, Opened, AppInv, TypeOK

LEMMA ConnectKeeps == ASSUME AppInv, Connect PROVE AppInv'
<1>1. /\ pc = "connect" /\ Holds(heap, Running) /\ heap.lost <= 2 * sessions
      /\ heap.of[LogName] = "hollow" /\ kind = "server"
  <2>1. pc = "connect"
    BY DEF Connect, Step
  <2> QED
    BY <2>1, Standings DEF LiveAt, AppInv, LostInv, ShapeInv, Opened, TypeOK, ServerSteps
<1>2. Lent(heap, "server.store") = heap /\ Lent(heap, "socket.name") = heap
  BY <1>1, RunningHolds, LentHolds DEF Keys
<1>3. Use(heap, {Server, Store}) = heap
  BY <1>1, RunningHolds, UseHolds
<1>4. Step("connect", "session", heap) /\ UNCHANGED <<argv0, kind, sessions, verb>>
  BY <1>2, <1>3 DEF Connect
<1>5. LiveAt' = Running
  <2>1. pc' = "session"
    BY <1>1, <1>4 DEF Step, Holds
  <2> QED
    BY <1>4, <2>1 DEF LiveAt, Running
<1> QED
  BY <1>1, <1>4, <1>5, Continues DEF Steps, ServerSteps, Opened, AppInv, TypeOK

LEMMA BeginSessionKeeps == ASSUME AppInv, NEW v \in Verbs, BeginSession(v) PROVE AppInv'
<1> DEFINE h == Create(heap, {Builder})
           F == Families({Builder})
<1>1. /\ pc = "session" /\ Holds(heap, Running) /\ heap.lost <= 2 * sessions
      /\ heap.of[LogName] = "hollow" /\ kind = "server"
  <2>1. pc = "session"
    BY DEF BeginSession, Step
  <2> QED
    BY <2>1, Standings DEF LiveAt, AppInv, LostInv, ShapeInv, Opened, TypeOK, ServerSteps
<1>2. /\ F \in SUBSET Object /\ F \cap Running = {} /\ LogName \in Object \ F
      /\ Allocator \in Running
  BY BuilderFamilies, RunningHolds, Apart, Distinct DEF Lasting
<1>3. Holds(h, Running \cup F) /\ h.lost = heap.lost /\ h.of[LogName] = "hollow"
  BY <1>1, <1>2, CreateHolds
<1> HIDE DEF F
<1> HIDE DEF h
<1>4. /\ Step("session", "parse", h) /\ UNCHANGED <<argv0, kind>>
      /\ sessions' = sessions + 1 /\ verb' = v /\ sessions' \in 0 .. MaxSessions
  BY ApplicationAssumption DEF BeginSession, AppInv, TypeOK, h
<1>5. LiveAt' = Running \cup F
  <2>1. pc' = "parse"
    BY <1>3, <1>4 DEF Step, Holds
  <2> QED
    BY <1>4, <2>1 DEF LiveAt, Running, F
<1>6. h.lost <= 2 * sessions' /\ h.lost <= 2 * (sessions' - 1)
  BY <1>1, <1>3, <1>4 DEF Holds, IsHeap, AppInv, TypeOK
<1> QED
  BY <1>1, <1>3, <1>4, <1>5, <1>6, Continues DEF Steps, ServerSteps, Opened

\* What the invariant says of the steps of a session.
LEMMA InSession ==
    ASSUME AppInv, pc \in {"parse", "request", "process", "dispose"}
    PROVE  /\ Holds(heap, LiveAt) /\ heap.of[LogName] = "hollow" /\ kind = "server"
           /\ sessions \in 0 .. MaxSessions /\ verb \in Verbs
           /\ heap.lost <= 2 * sessions
           /\ pc = "parse" => heap.lost <= 2 * (sessions - 1)
BY Standings DEF AppInv, LostInv, ShapeInv, Opened, TypeOK, ServerSteps

LEMMA ParseKeeps == ASSUME AppInv, Parse PROVE AppInv'
<1> DEFINE L == Running \cup Families({Builder})
           h == Parsed(heap, verb)
<1>1. pc = "parse"
  BY DEF Parse, Step
<1>2. Holds(heap, L) /\ verb \in Verbs
  BY <1>1, InSession DEF LiveAt
<1>3. /\ Families({Builder}) = Family(Builder) /\ Family(Builder) \in SUBSET Object
      /\ {Allocator, Log, Name} \subseteq L /\ LogName \in Object
  BY BuilderFamilies, RunningHolds, Apart, Distinct DEF Lasting
<1>4. Use(heap, Family(Builder)) = heap
  BY <1>2, <1>3, UseHolds
<1>5. Holds(h, L) /\ h.lost <= heap.lost + 2 /\ h.of = heap.of
  BY <1>2, <1>3, ParsedHolds
<1>6. Step("parse", "request", h) /\ UNCHANGED <<argv0, kind, sessions, verb>>
  BY <1>4 DEF Parse
<1> HIDE DEF h
<1>7. h.lost <= 2 * sessions /\ h.of[LogName] = "hollow"
  BY <1>1, <1>5, InSession DEF Holds, IsHeap
<1>8. LiveAt' = L
  <2>1. pc' = "request"
    BY <1>5, <1>6 DEF Step, Holds
  <2> QED
    BY <1>6, <2>1 DEF LiveAt, Running
<1> QED
  BY <1>1, <1>5, <1>6, <1>7, <1>8, InSession, Continues DEF Steps, ServerSteps, Opened

LEMMA TakeRequestKeeps == ASSUME AppInv, TakeRequest PROVE AppInv'
<1> DEFINE L == Running \cup Families({Builder})
           R == Families({Request})
           A == Families({Answer})
<1>1. pc = "request" /\ UNCHANGED <<argv0, kind, sessions, verb>>
  BY DEF TakeRequest, Step
<1>2. Holds(heap, L)
  BY <1>1, InSession DEF LiveAt
<1>3. /\ R \in SUBSET Object /\ A \in SUBSET Object
      /\ R \cap L = {} /\ A \cap (L \cup R) = {} /\ A \cap L = {}
      /\ Allocator \in L /\ Built \in L \cap Object /\ Request \in R \cap Object
      /\ LogName \in Object \ R /\ LogName \in Object \ A
      /\ Families({Request}) = R /\ Families({Answer}) = A
  BY BuilderFamilies, MessageFamilies, RunningHolds, Apart, Distinct DEF Lasting, BuilderParts
<1> HIDE DEF L, R, A
<1>4. CASE Refused
  <2> DEFINE h == Create(heap, {Answer})
  <2>1. Holds(h, L \cup A) /\ h.lost = heap.lost /\ h.of[LogName] = heap.of[LogName]
    BY <1>2, <1>3, CreateHolds
  <2>2. Locals(h) = h
    BY <1>3, <2>1, LocalsHold
  <2>3. Step("request", "process", h)
    BY <1>4, <2>2 DEF TakeRequest
  <2> HIDE DEF h
  <2>4. LiveAt' = L \cup A
    <3>1. pc' = "process"
      BY <2>1, <2>3 DEF Step, Holds
    <3> QED
      BY <1>1, <1>4, <3>1 DEF LiveAt, Running, Refused, L, A
  <2> QED
    BY <1>1, <2>1, <2>3, <2>4, InSession, Continues DEF Steps, ServerSteps, Opened
<1>5. CASE ~Refused
  <2> DEFINE g == Create(heap, {Request})
             h == Create(g, {Answer})
  <2>1. Holds(g, L \cup R) /\ g.lost = heap.lost /\ g.of[LogName] = heap.of[LogName]
    BY <1>2, <1>3, CreateHolds
  <2>2. Clone(heap, Built, Request) = g
    BY <1>2, <1>3, CloneHolds
  <2>3. Clone(g, Request, Answer) = h
    BY <1>3, <2>1, CloneHolds
  <2>4. Step("request", "process", h)
    BY <1>5, <2>2, <2>3 DEF TakeRequest
  <2> HIDE DEF g
  <2>5. /\ Holds(h, (L \cup R) \cup A) /\ h.lost = heap.lost
        /\ h.of[LogName] = heap.of[LogName]
    BY <1>3, <2>1, CreateHolds
  <2> HIDE DEF h
  <2>6. LiveAt' = (L \cup R) \cup A
    <3>1. pc' = "process"
      BY <2>4, <2>5 DEF Step, Holds
    <3> QED
      BY <1>1, <1>5, <3>1 DEF LiveAt, Running, Refused, L, R, A
  <2> QED
    BY <1>1, <2>4, <2>5, <2>6, InSession, Continues DEF Steps, ServerSteps, Opened
<1> QED
  BY <1>4, <1>5

LEMMA ProcessKeeps == ASSUME AppInv, Process PROVE AppInv'
<1>1. pc = "process" /\ UNCHANGED <<argv0, kind, sessions, verb>>
  BY DEF Process, Step
<1>2. Holds(heap, LiveAt) /\ kind = "server"
  BY <1>1, InSession
<1>3. /\ Family(Answer) = Families({Answer}) /\ Family(Request) = Families({Request})
      /\ Family(Answer) \in SUBSET Object /\ Family(Request) \in SUBSET Object
  BY MessageFamilies DEF Families
<1>4. /\ Family(Answer) \subseteq LiveAt
      /\ ~Refused => Family(Request) \subseteq LiveAt
      /\ {Allocator, Log, Name, Store} \subseteq LiveAt
      /\ {Log, Name, Store} \subseteq Object
  BY <1>1, <1>2, <1>3, RunningHolds DEF LiveAt, Lasting
<1>5. Locals(heap) = heap /\ Use(heap, Family(Answer)) = heap /\ Use(heap, {Log, Name}) = heap
  BY <1>2, <1>3, <1>4, LocalsHold, UseHolds
<1>6. ~Refused => Performed(heap, verb) = heap
  <2>1. ~Refused => Use(heap, Family(Request) \cup {Store}) = heap
    BY <1>2, <1>3, <1>4, UseHolds
  <2> QED
    BY <1>5, <2>1 DEF Performed
<1>7. Step("process", "dispose", heap)
  BY <1>5, <1>6 DEF Process
<1>8. LiveAt' = LiveAt
  <2>1. pc' = "dispose"
    BY <1>2, <1>7 DEF Step, Holds
  <2> QED
    BY <1>1, <2>1 DEF LiveAt, Running, Refused
<1> QED
  BY <1>1, <1>2, <1>7, <1>8, InSession, Continues DEF Steps, ServerSteps, Opened

LEMMA EndSessionKeeps == ASSUME AppInv, EndSession PROVE AppInv'
<1> DEFINE B == Families({Builder})
           R == Families({Request})
           A == Families({Answer})
           g == IF Refused THEN heap ELSE Dispose(heap, {Request})
           f == Dispose(g, {Answer})
           h == Dispose(f, {Builder})
           to == IF verb = "stop" THEN "clean" ELSE "session"
<1>1. pc = "dispose" /\ UNCHANGED <<argv0, kind, sessions, verb>>
  BY DEF EndSession, Step
<1>2. Holds(heap, LiveAt) /\ heap.of[LogName] = "hollow"
  BY <1>1, InSession
<1>3. LiveAt = Running \cup B \cup A \cup (IF Refused THEN {} ELSE R)
  BY <1>1 DEF LiveAt
<1>4. /\ Running \cap B = {} /\ Running \cap A = {} /\ Running \cap R = {}
      /\ A \cap R = {} /\ B \cap R = {} /\ A \cap B = {}
      /\ Allocator \in Running /\ Builder \in B \cap Object /\ Answer \in A \cap Object
      /\ Request \in R \cap Object /\ LogName \in Object \ (R \cup A \cup B)
  BY BuilderFamilies, MessageFamilies, RunningHolds, Apart, Distinct DEF Lasting, BuilderParts
<1> HIDE DEF B, R, A
<1>5. Holds(g, Running \cup B \cup A) /\ g.lost = heap.lost /\ g.of[LogName] = "hollow"
  <2>1. CASE Refused
    <3>1. LiveAt = Running \cup B \cup A
      BY <1>3, <2>1
    <3> QED
      BY <1>2, <2>1, <3>1
  <2>2. CASE ~Refused
    <3>1. /\ Allocator \in LiveAt /\ \A o \in {Request} : heap.of[o] # "none"
          /\ LiveAt \ R = Running \cup B \cup A
      BY <1>2, <1>3, <1>4, <2>2 DEF Holds
    <3>2. /\ Holds(Dispose(heap, {Request}), LiveAt \ R)
          /\ Dispose(heap, {Request}).lost = heap.lost
          /\ \A o \in Object :
                Dispose(heap, {Request}).of[o] = IF o \in R THEN "hollow" ELSE heap.of[o]
      BY <1>2, <3>1, DisposeHolds DEF R
    <3> QED
      BY <1>2, <1>4, <2>2, <3>1, <3>2
  <2> QED
    BY <2>1, <2>2
<1> HIDE DEF g
<1>6. Holds(f, Running \cup B) /\ f.lost = g.lost /\ f.of[LogName] = "hollow"
  <2>1. /\ Allocator \in Running \cup B \cup A /\ \A o \in {Answer} : g.of[o] # "none"
        /\ (Running \cup B \cup A) \ A = Running \cup B
    BY <1>4, <1>5 DEF Holds
  <2>2. /\ Holds(f, (Running \cup B \cup A) \ A) /\ f.lost = g.lost
        /\ \A o \in Object : f.of[o] = IF o \in A THEN "hollow" ELSE g.of[o]
    BY <1>5, <2>1, DisposeHolds DEF A
  <2> QED
    BY <1>4, <1>5, <2>1, <2>2
<1> HIDE DEF f
<1>7. Holds(h, Running) /\ h.lost = f.lost /\ h.of[LogName] = "hollow"
  <2>1. /\ Allocator \in Running \cup B /\ \A o \in {Builder} : f.of[o] # "none"
        /\ (Running \cup B) \ B = Running
    BY <1>4, <1>6 DEF Holds
  <2>2. /\ Holds(h, (Running \cup B) \ B) /\ h.lost = f.lost
        /\ \A o \in Object : h.of[o] = IF o \in B THEN "hollow" ELSE f.of[o]
    BY <1>6, <2>1, DisposeHolds DEF B
  <2> QED
    BY <1>4, <1>6, <2>1, <2>2
<1> HIDE DEF h
<1>8. Step("dispose", to, h) /\ to \in {"clean", "session"}
  BY DEF EndSession, h, f, g
<1> HIDE DEF to
<1>9. LiveAt' = Running
  <2>1. pc' \in {"clean", "session"}
    BY <1>7, <1>8 DEF Step, Holds
  <2> QED
    BY <1>1, <2>1 DEF LiveAt, Running
<1> QED
  BY <1>1, <1>5, <1>6, <1>7, <1>8, <1>9, InSession, Continues DEF Steps, ServerSteps, Opened

\* The program ends with a sound heap, once it has disposed of everything.
LEMMA CleanedHolds ==
    ASSUME AppInv, pc = "clean"
    PROVE  IsHeap(Cleaned(heap)) /\ Cleaned(heap).fault = "none" /\ Cleaned(heap).lost = heap.lost
<1> DEFINE module == IF kind = "server" THEN Server ELSE Client
           M == Families({module})
           e == Dispose(heap, {module})
           f == Dispose(e, {Name})
           l == Dispose(f, {Log})
           g == Dispose(l, Settings)
           c == Release(g, Config)
           h == Release(c, Allocator)
           Q == Standing \ {Name}
           P == Q \ {Log}
<1>1. Holds(heap, Running) /\ heap.of[LogName] = "hollow"
  BY Standings DEF LiveAt, AppInv, ShapeInv, Opened
<1>2. /\ Running = Standing \cup M /\ M \cap Standing = {} /\ module \in M \cap Object
      /\ Families({Name}) = {Name} /\ Families({Log}) = {Log} /\ Families(Settings) = Settings
      /\ LogName \in Object \ (M \cup {Name, Log})
  BY ModuleFamilies, Singles, Apart, Distinct DEF Standing, Running, Lasting
<1>3. /\ Allocator \in Standing /\ Name \in Standing \cap Object /\ Allocator # Name
      /\ Log \in Q \cap Object /\ Allocator \in Q \cap P
      /\ \A o \in Settings \ {LogName} : o \in P \cap Object
      /\ Config \in (P \ Settings) \cap Object
      /\ Allocator \in ((P \ Settings) \ {Config}) \cap Object
  BY Apart, Distinct DEF Standing, Lasting
<1> HIDE DEF module, M
<1>4. Holds(e, Standing) /\ e.lost = heap.lost /\ e.of[LogName] = "hollow"
  <2>1. /\ Allocator \in Running /\ \A o \in {module} : heap.of[o] # "none"
        /\ Running \ M = Standing
    BY <1>1, <1>2, <1>3 DEF Holds
  <2>2. /\ Holds(e, Running \ M) /\ e.lost = heap.lost
        /\ \A o \in Object : e.of[o] = IF o \in M THEN "hollow" ELSE heap.of[o]
    BY <1>1, <2>1, DisposeHolds DEF M
  <2> QED
    BY <1>1, <1>2, <2>1, <2>2
<1> HIDE DEF e
<1>5. Holds(f, Q) /\ f.lost = e.lost /\ f.of[LogName] = "hollow"
  <2>1. Allocator \in Standing /\ \A o \in {Name} : e.of[o] # "none"
    BY <1>3, <1>4 DEF Holds
  <2>2. /\ Holds(f, Standing \ Families({Name})) /\ f.lost = e.lost
        /\ \A o \in Object : f.of[o] = IF o \in Families({Name}) THEN "hollow" ELSE e.of[o]
    BY <1>4, <2>1, DisposeHolds DEF f
  <2> QED
    BY <1>2, <1>4, <2>2
<1> HIDE DEF f, Q
<1>6. Holds(l, P) /\ l.lost = f.lost /\ l.of[LogName] = "hollow"
  <2>1. Allocator \in Q /\ \A o \in {Log} : f.of[o] # "none"
    BY <1>3, <1>5 DEF Holds
  <2>2. /\ Holds(l, Q \ Families({Log})) /\ l.lost = f.lost
        /\ \A o \in Object : l.of[o] = IF o \in Families({Log}) THEN "hollow" ELSE f.of[o]
    BY <1>5, <2>1, DisposeHolds DEF l
  <2> QED
    BY <1>2, <1>5, <2>2 DEF P
<1> HIDE DEF l, P
<1>7. Holds(g, P \ Settings) /\ g.lost = l.lost
  <2>1. \A o \in Settings : l.of[o] # "none"
    BY <1>3, <1>6 DEF Holds
  <2>2. Holds(g, P \ Families(Settings)) /\ g.lost = l.lost
    BY <1>3, <1>6, <2>1, DisposeHolds
  <2> QED
    BY <1>2, <2>2
<1> HIDE DEF g
<1>8. Holds(c, (P \ Settings) \ {Config}) /\ c.lost = g.lost
  BY <1>3, <1>7, ReleaseHolds
<1> HIDE DEF c
<1>9. Holds(h, ((P \ Settings) \ {Config}) \ {Allocator}) /\ h.lost = c.lost
  BY <1>3, <1>8, ReleaseHolds
<1>10. Cleaned(heap) = h
  BY DEF Cleaned, Settings, h, c, g, l, f, e, module
<1> QED
  BY <1>4, <1>5, <1>6, <1>7, <1>8, <1>9, <1>10 DEF Holds

LEMMA CleanKeeps == ASSUME AppInv, Clean PROVE AppInv'
<1>1. /\ pc = "clean" /\ pc' = "over" /\ heap' = Cleaned(heap)
      /\ UNCHANGED <<argv0, kind, sessions, verb>>
  BY DEF Clean
<1>2. IsHeap(heap') /\ heap'.fault = "none" /\ heap'.lost = heap.lost
  BY <1>1, CleanedHolds
<1>3. ended' = Ended("success", "nobody")
  BY <1>2 DEF Clean
<1>4. TypeOK'
  BY <1>1, <1>2, <1>3 DEF AppInv, TypeOK, Steps, ServerSteps, Ended
<1>5. ShapeInv'
  BY <1>1, <1>2 DEF ShapeInv, Opened, ServerSteps
<1>6. LostInv' /\ KindInv'
  BY <1>1, <1>2 DEF AppInv, LostInv, KindInv
<1>7. EndInv'
  BY <1>1, <1>3 DEF EndInv, Ended
<1> QED
  BY <1>4, <1>5, <1>6, <1>7 DEF AppInv

\* Wherever an error ends the program it can be told, but before there is a name to tell.
LEMMA ExitKeeps ==
    ASSUME AppInv, NEW where, where \in MayFail \/ where = "module", Exit(where)
    PROVE  AppInv'
<1>1. /\ pc = where /\ pc' = "over" /\ UNCHANGED <<argv0, heap, kind, sessions, verb>>
      /\ ended' = IF Has(Name) THEN Ended("failure", IF Has(Log) THEN "log" ELSE "stderr")
                               ELSE Ended("crash", "nobody")
  BY DEF Exit
<1>2. pc # "over"
  BY <1>1 DEF MayFail
<1>3. TypeOK'
  BY <1>1 DEF AppInv, TypeOK, Steps, ServerSteps, Ended
<1>4. ShapeInv' /\ LostInv'
  BY <1>1 DEF AppInv, ShapeInv, LostInv, Opened, ServerSteps
<1>5. ASSUME ~EarlyErrors PROVE pc \notin {"start", "command"}
  BY <1>1, <1>5 DEF MayFail
<1>6. KindInv'
  BY <1>1, <1>2, <1>5 DEF AppInv, KindInv
<1>7. ASSUME ~EarlyErrors PROVE EndInv'
  <2>1. Name \in LiveAt /\ Name \in Object
    <3>1. pc \in {"configure", "log", "module", "client", "connect", "session", "parse",
                  "request", "process"}
      BY <1>1, <1>7 DEF MayFail
    <3> QED
      BY <3>1, RunningHolds DEF LiveAt, Standing
  <2>2. Has(Name)
    BY <1>2, <2>1, Standings DEF Holds, Has
  <2> QED
    BY <1>1, <2>2 DEF EndInv, Ended
<1> QED
  BY <1>3, <1>4, <1>6, <1>7 DEF AppInv

LEMMA AppNext == ASSUME AppInv, [Next]_vars PROVE AppInv'
<1>1. CASE UNCHANGED vars
  <2>1. TypeOK' /\ ShapeInv'
    BY <1>1 DEF vars, AppInv, TypeOK, ShapeInv, LiveAt, Running, Refused
  <2>2. LostInv' /\ KindInv' /\ (~EarlyErrors => EndInv')
    BY <1>1 DEF vars, AppInv, LostInv, KindInv, EndInv
  <2> QED
    BY <2>1, <2>2 DEF AppInv
<1>2. CASE UnknownModule \/ Error
  BY <1>2, ExitKeeps DEF UnknownModule, Error
<1> QED
  BY <1>1, <1>2, StartKeeps, CommandKeeps, ConfigureKeeps, OpenLogKeeps, CreateModuleKeeps,
     RunClientKeeps, ConnectKeeps, BeginSessionKeeps, ParseKeeps, TakeRequestKeeps,
     ProcessKeeps, EndSessionKeeps, CleanKeeps DEF Next

-----------------------------------------------------------------------------
(* The name the program is called by.                                      *)

LEMMA SingleName ==
    ASSUME NEW s \in Seq(STRING), Len(s) = 1
    PROVE  s = <<s[1]>>
<1>1. s[1] \in STRING
  BY ElementOfSeq
<1>2. <<s[1]>> \in Seq(STRING) /\ Len(<<s[1]>>) = 1 /\ <<s[1]>>[1] = s[1]
  BY <1>1
<1>3. \A i \in 1 .. Len(s) : s[i] = <<s[1]>>[i]
  BY <1>2
<1> QED
  BY <1>2, <1>3, SeqEqual

LEMMA NameAt ==
    ASSUME NEW s \in Seq(STRING), NEW k \in 1 .. Len(s)
    PROVE  SubSeq(s, k, k) = <<s[k]>>
<1>1. k \in Int /\ \A i \in k .. k : s[i] \in STRING
  BY ElementOfSeq
<1>2. /\ SubSeq(s, k, k) \in Seq(STRING)
      /\ Len(SubSeq(s, k, k)) = IF k <= k THEN k - k + 1 ELSE 0
      /\ \A i \in 1 .. k - k + 1 : SubSeq(s, k, k)[i] = s[k + i - 1]
  BY <1>1, SubSeqProperties
<1>3. Len(SubSeq(s, k, k)) = 1 /\ SubSeq(s, k, k)[1] = s[k]
  BY <1>1, <1>2
<1> QED
  BY <1>2, <1>3, SingleName

LEMMA LastOfPath ==
    ASSUME NEW n, IsPath(n), Directory(n) # <<Slash>>
    PROVE  AfterSlash(n) = <<LastName(n)>>
<1> DEFINE s == {i \in 2 .. Len(n) : n[i] = Slash}
           last == CHOOSE i \in s : \A j \in s : j <= i
<1>1. /\ n \in Seq(STRING) /\ n # <<>> /\ n[Len(n)] # Slash
      /\ Len(n) > 1 => n[Len(n) - 1] = Slash
  BY DEF IsPath
<1>2. Len(n) \in Nat \ {0}
  BY <1>1, EmptySeq, LenProperties
<1>3. CASE Len(n) = 1
  <2>1. s = {}
    BY <1>3
  <2>2. AfterSlash(n) = n
    BY <2>1 DEF AfterSlash
  <2> QED
    BY <1>1, <1>3, <2>2, SingleName DEF LastName
<1>4. CASE Len(n) = 2
  <2>1. SubSeq(n, 1, 1) = <<n[1]>>
    BY <1>1, <1>4, NameAt
  <2>2. n[1] = Slash /\ Directory(n) = SubSeq(n, 1, 1)
    BY <1>1, <1>4 DEF Directory
  <2> QED
    BY <2>1, <2>2
<1>5. CASE Len(n) > 2
  <2>1. Len(n) - 1 \in s /\ \A j \in s : j <= Len(n) - 1
    <3>1. Len(n) - 1 \in 2 .. Len(n) /\ n[Len(n) - 1] = Slash
      BY <1>1, <1>2, <1>5
    <3>2. ASSUME NEW j \in s PROVE j <= Len(n) - 1
      BY <1>1, <1>2
    <3> QED
      BY <3>1, <3>2
  <2>2. \A i \in s : i \in Int
    OBVIOUS
  <2>3. AfterSlash(n) = SubSeq(n, last + 1, Len(n))
    BY <2>1 DEF AfterSlash
  <2> HIDE DEF s
  <2>4. last = Len(n) - 1
    BY <1>2, <2>1, <2>2
  <2> HIDE DEF last
  <2>5. AfterSlash(n) = SubSeq(n, Len(n), Len(n))
    BY <1>2, <2>3, <2>4
  <2>6. SubSeq(n, Len(n), Len(n)) = <<n[Len(n)]>>
    BY <1>1, <1>2, NameAt
  <2> QED
    BY <2>5, <2>6 DEF LastName
<1> HIDE DEF s, last
<1>6. Len(n) = 1 \/ Len(n) = 2 \/ Len(n) > 2
  <2>1. \A l \in Nat \ {0} : l = 1 \/ l = 2 \/ l > 2
    OBVIOUS
  <2> QED
    BY <1>2, <2>1
<1> QED
  BY <1>3, <1>4, <1>5, <1>6

-----------------------------------------------------------------------------
(* What holds of every life of the program.                                *)

LEMMA AppStrong == Spec => []AppInv
<1>1. Init => AppInv
  BY AppInit
<1>2. AppInv /\ [Next]_vars => AppInv'
  BY AppNext
<1> QED
  BY <1>1, <1>2, PTL DEF Spec

\* Every state has its type; no process is in a step of the server that is none.
THEOREM ApplicationTypes == Spec => []TypeOK
<1>1. AppInv => TypeOK
  BY DEF AppInv
<1> QED
  BY <1>1, AppStrong, PTL

\* No object is used that is not there or released twice, by any sequence of sessions and
\* wherever an error ends the program (app.c:45, object.h:46).
THEOREM ObjectsAreSafe == Spec => []NothingIsMisused
<1>1. AppInv => NothingIsMisused
  BY DEF AppInv, ShapeInv, NothingIsMisused
<1> QED
  BY <1>1, AppStrong, PTL

\* While memory suffices for the first objects, every error finds a name and a place to be
\* told under (log.c:82).
THEOREM ErrorsHaveATeller == ~EarlyErrors => (Spec => []ErrorsAreTold)
<1> SUFFICES ASSUME ~EarlyErrors PROVE Spec => []ErrorsAreTold
  OBVIOUS
<1>1. AppInv => ErrorsAreTold
  BY DEF AppInv, EndInv, ErrorsAreTold, Ended
<1> QED
  BY <1>1, AppStrong, PTL

\* Between two sessions, of however many, only the lasting objects are live, and at most
\* two have been lost for each session there has been (server.c:81).
THEOREM SessionsLeaveNothing == Spec => []SessionsAreDisposedOf
<1>1. ASSUME AppInv, pc = "session"
      PROVE  Live(heap) = {Allocator, Name, Config, Log, Server, Store}
                \cup {KeyOf(k) : k \in Keys} \cup {ValueOf(k) : k \in Keys \ {"server.log.file"}}
  <2> DEFINE K == {KeyOf(k) : k \in Keys} \cup {ValueOf(k) : k \in Keys \ {"server.log.file"}}
  <2>1. Holds(heap, Running) /\ kind = "server"
    BY <1>1 DEF AppInv, TypeOK, ShapeInv, LiveAt, ServerSteps
  <2>2. Settings \ {LogName} = K
    BY DEF Settings, LogName, KeyOf, ValueOf
  <2>3. Running = {Allocator, Name, Config, Log, Server, Store} \cup K
    BY <2>1, <2>2, ModuleFamilies DEF Running, Standing
  <2>4. Running \subseteq Object
    BY RunningHolds
  <2> HIDE DEF K
  <2>5. Live(heap) = Running
    BY <2>1, <2>4 DEF Holds, Live
  <2> QED
    BY <2>3, <2>5 DEF K
<1>2. AppInv => SessionsAreDisposedOf
  BY <1>1 DEF AppInv, LostInv, SessionsAreDisposedOf
<1> QED
  BY <1>2, AppStrong, PTL

\* What the program is depends on the last name of any path but one in the root directory
\* (app.c:84).
THEOREM LastNameRules == ~EarlyErrors => (Spec => []LastNameDecides)
<1> SUFFICES ASSUME ~EarlyErrors PROVE Spec => []LastNameDecides
  OBVIOUS
<1>1. ASSUME AppInv, pc \notin {"start", "command"}, Directory(argv0) # <<Slash>>
      PROVE  /\ kind = "client" <=> LastName(argv0) = "zob"
             /\ kind = "server" <=> LastName(argv0) = "zobd"
  <2>1. IsPath(argv0)
    BY <1>1, ApplicationAssumption DEF AppInv, TypeOK
  <2>2. /\ AfterSlash(argv0) = <<"zob">> <=> LastName(argv0) = "zob"
        /\ AfterSlash(argv0) = <<"zobd">> <=> LastName(argv0) = "zobd"
    <3>1. AfterSlash(argv0) = <<LastName(argv0)>>
      BY <1>1, <2>1, LastOfPath
    <3> QED
      BY <3>1
  <2> QED
    BY <1>1, <2>2 DEF AppInv, KindInv
<1>2. AppInv => LastNameDecides
  BY <1>1 DEF LastNameDecides
<1> QED
  BY <1>2, AppStrong, PTL
=============================================================================
