---------------------------- MODULE ErrorReport ----------------------------
(***************************************************************************)
(* The error object of src/src/error.c: the format line is built in a      *)
(* block that is made larger until the line fits, and printed; a fatal     *)
(* error then ends the process.  Lengths stand for the texts.              *)
(***************************************************************************)
EXTENDS Integers

CONSTANTS
    FmtSize,    \* FMT_SIZE, the first size of the block
    MaxLength   \* bound: the length of a line, its final NUL left out

VARIABLES
    fatal,      \* is_fatal, "none" before there is an error object
    length,     \* that of the line to be printed
    size,       \* that of the block, 0 while there is none
    pc,         \* idle, or a step of zob_error_printf, or "exited"
    printed     \* the length of what has been printed last, -1 before and on a failure

vars == <<fatal, length, size, pc, printed>>

TypeOK ==
    /\ fatal \in {"none", "yes", "no"}
    /\ length \in 0 .. MaxLength /\ printed \in -1 .. MaxLength
    /\ size \in 0 .. FmtSize + MaxLength + 1
    /\ pc \in {"idle", "write", "grow", "print", "exited"}
    /\ pc \in {"idle", "exited"} => size = 0

Init == fatal = "none" /\ length = 0 /\ size = 0 /\ pc = "idle" /\ printed = -1

\* calloc: an object that is not initialised is not fatal.
Alloc ==
    /\ pc = "idle" /\ fatal = "none"
    /\ fatal' = "no" /\ UNCHANGED <<length, size, pc, printed>>

SetFatal(is_fatal) ==
    /\ pc = "idle" /\ fatal # "none"
    /\ fatal' = is_fatal /\ UNCHANGED <<length, size, pc, printed>>

ErrorInit == SetFatal("yes")

\* zob_error_printf, with or without an error object.
Printf(l) ==
    /\ pc = "idle"
    /\ length' = l /\ size' = FmtSize /\ pc' = "write" /\ printed' = -1
    /\ UNCHANGED fatal

\* Mutant: the NUL is not counted.
FitsWithout(l, s) == l <= s

\* What snprintf has written against the block.
Fits(l, s) == l < s

\* Mutant: as many bytes as were written.
GrownShort(l) == l

Grown(l) == l + 1

\* One turn of the loop of make_format.
WriteFormat ==
    /\ pc = "write"
    /\ IF Fits(length, size)
       THEN pc' = "print" /\ UNCHANGED size
       ELSE pc' = "grow" /\ size' = Grown(length)
    /\ UNCHANGED <<fatal, length, printed>>

Grow == pc = "grow" /\ pc' = "write" /\ UNCHANGED <<fatal, length, size, printed>>

Exits == fatal # "no"

\* vfprintf of the block, which holds what fits in; without an object the error is fatal.
Emit ==
    /\ pc = "print"
    /\ printed' = (IF length < size THEN length ELSE size - 1)
    /\ size' = 0 /\ pc' = IF Exits THEN "exited" ELSE "idle"
    /\ UNCHANGED <<fatal, length>>

\* No memory, or a line that cannot be formatted: the process ends, fatal or not.
Fail ==
    /\ pc \in {"write", "grow"}
    /\ size' = 0 /\ pc' = "exited"
    /\ UNCHANGED <<fatal, length, printed>>

Reporting == WriteFormat \/ Grow \/ Emit

Next ==
    \/ Alloc \/ ErrorInit \/ (\E f \in {"yes", "no"} : SetFatal(f))
    \/ (\E l \in 0 .. MaxLength : Printf(l)) \/ Reporting \/ Fail
=============================================================================
