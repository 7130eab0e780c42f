----------------------------- MODULE Searching -----------------------------
(***************************************************************************)
(* The loops of src/src/buffer.c over the bytes of a block: the search of  *)
(* a character, the search of a string and the comparison.  Each says what *)
(* it finds, where it stops, and the furthest byte it has read.            *)
(***************************************************************************)
EXTENDS Integers, Sequences

Outcome(found, position, read) == [found |-> found, position |-> position, read |-> read]
Further(outcome, read) == IF read > outcome.read THEN [outcome EXCEPT !.read = read] ELSE outcome

\* A byte behind the block, which ends a model's loop as nobody knows it.
Outside(mem, p) == p >= Len(mem)
ByteAt(mem, p) == mem[p + 1]

\* Mutant: the end is the first position that is not looked at.
PastLast(p, last) == p = last + 1

\* The loops end at the last position, which is looked at as well.
AtLast(p, last) == p = last

\* zob_buffer_find_char.
SearchChar(mem, needle, first, last) ==
    LET from[p \in first .. Len(mem)] ==
            IF Outside(mem, p) THEN Outcome(FALSE, p, p)
            ELSE IF ByteAt(mem, p) = needle THEN Outcome(TRUE, p, p)
            ELSE IF AtLast(p, last) THEN Outcome(FALSE, p, p)
            ELSE from[p + 1]
    IN  from[first]

\* A needle is refused when it is empty or longer than the buffer.
Refused(size, needle) == needle = <<>> \/ Len(needle) > size

\* How many bytes of the needle are found from a position on, in their order.
Matched(mem, needle, p) ==
    LET from[i \in 0 .. Len(needle)] ==
            IF i = Len(needle) \/ Outside(mem, p + i) \/ ByteAt(mem, p + i) # needle[i + 1]
            THEN i ELSE from[i + 1]
    IN  from[0]

\* Mutant: the needle is found with its first byte that matches.
Begun(needle, matched) == matched >= 1

\* The needle is at its own NUL.
Complete(needle, matched) == matched = Len(needle)

\* zob_buffer_find_string.
SearchString(mem, size, needle, first, last) ==
    LET from[p \in first .. Len(mem)] ==
            LET m == Matched(mem, needle, p)
            IN  IF Complete(needle, m) THEN Outcome(TRUE, p, p + m - 1)
                ELSE IF Outside(mem, p + m) \/ AtLast(p, last) THEN Outcome(FALSE, p, p + m)
                ELSE Further(from[p + 1], p + m)
    IN  IF Refused(size, needle) THEN Outcome(FALSE, 0, -1) ELSE from[first]

\* zob_buffer_compare, of two buffers that hold a byte at least.
Same(lhs, rhs, size) ==
    LET from[p \in 0 .. size] ==
            IF p = size THEN Outcome(TRUE, p, p - 1)
            ELSE IF ByteAt(lhs, p) # ByteAt(rhs, p) THEN Outcome(FALSE, p, p)
            ELSE from[p + 1]
    IN  from[0]
Equal(l, r) == l.size = r.size /\ Same(l.mem, r.mem, l.size).found
=============================================================================
