------------------------------ MODULE Objects ------------------------------
(***************************************************************************)
(* The objects of the program: what the macros of src/src/object.h do with *)
(* the allocator of src/src/allocator.c, as operators on a heap            *)
(*   of     for each object: "none" before it is created, "live", or       *)
(*          "hollow" once disposed, its contents released and its          *)
(*          structure left to nobody                                       *)
(*   lost   how many objects are live with nobody left to dispose of them  *)
(*   fault  "use" of an object that is not live, or a release "twice"      *)
(* A string stands for its structure, its buffer and its block.            *)
(***************************************************************************)
EXTENDS Integers, FiniteSets

CONSTANTS
    Object,     \* the places objects are kept in
    Allocator,  \* the object all others need, that of the application
    Part        \* [Object -> SUBSET Object]: what an object creates and disposes of with itself

EmptyHeap == [of |-> [o \in Object |-> "none"], lost |-> 0, fault |-> "none"]

IsHeap(h) ==
    /\ h = [of |-> h.of, lost |-> h.lost, fault |-> h.fault]
    /\ h.of \in [Object -> {"none", "live", "hollow"}]
    /\ h.lost \in Nat
    /\ h.fault \in {"none", "use", "twice"}

Family(o) == {o} \cup Part[o] \cup UNION {Part[p] : p \in Part[o]}
Families(S) == UNION {Family(o) : o \in S}

Are(h, S, state) == \A o \in S : h.of[o] = state
Live(h) == {o \in Object : h.of[o] = "live"}

Become(h, S, state) == [h EXCEPT !.of = [o \in Object |-> IF o \in S THEN state ELSE @[o]]]

\* What a failed operation would do next does not matter.
If(h, ok, how, then) ==
    IF h.fault # "none" THEN h ELSE IF ok THEN then ELSE [h EXCEPT !.fault = how]

Allocates(h) == h.of[Allocator] = "live"

\* alloc, clean without disposing, init: what the places held before is lost.
Create(h, S) ==
    If(h, Allocates(h), "use",
       [Become(h, Families(S), "live") EXCEPT
            !.lost = @ + Cardinality(Families(S) \cap Live(h))])

\* alloc, init, copy: a clone has parts of its own.
Clone(h, from, to) == If(h, Are(h, {from}, "live"), "use", Create(h, {to}))

Use(h, S) == If(h, Are(h, S, "live"), "use", h)

\* Mutant: the structure is released too, as its name promises.
DisposeReally(h, S) ==
    LET gone == Families(S)
    IN  If(h, Allocates(h) /\ \A o \in S : h.of[o] # "none", "use",
           If(h, Are(h, gone, "live"), "twice", Become(h, gone, "hollow")))

\* What is released is what the first field points to, and that is NULL after the
\* cleaning: the structure stays.  Disposing of what is hollow already does nothing.
Dispose(h, S) ==
    If(h, Allocates(h) /\ \A o \in S : h.of[o] # "none", "use", Become(h, Families(S), "hollow"))

\* Vectors are released for good.
Release(h, o) == If(h, Are(h, {o}, "live"), "use", Become(h, {o}, "none"))

\* The strings that a function creates and disposes of are not seen from outside of it.
Locals(h) == If(h, Allocates(h), "use", h)

\* The buffer of a new string is forgotten when the slice takes its place.
Slices(h, n) == If(h, Allocates(h), "use", [h EXCEPT !.lost = @ + n])
=============================================================================
