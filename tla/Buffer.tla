------------------------------- MODULE Buffer -------------------------------
(***************************************************************************)
(* A byte buffer, src/src/buffer.c, and the string made of one,            *)
(* src/src/string.c, as operators on a record:                             *)
(*   mem    the allocated block, <<>> while p_begin is NULL                *)
(*   end    p_end - p_begin, which is not always the length of the block   *)
(*   size   the bytes in use, the final NUL of a string among them         *)
(*   auto   the buffer may grow                                            *)
(*   fault  how an operation has ended the process: "exit" is              *)
(*          zob_app_error, "abort" a failed assert, "overrun" an access    *)
(*          outside of the block, after which anything may happen          *)
(***************************************************************************)
EXTENDS Integers, Sequences

CONSTANTS
    Chunk,      \* chunk_size
    NUL,        \* the zero byte
    Junk        \* what malloc leaves in a block

ASSUME BufferAssumption == Chunk \in Nat \ {0} /\ Junk # NUL

NewBuffer == [mem |-> <<>>, end |-> 0, size |-> 0, auto |-> FALSE, fault |-> "none"]

IsBuffer(b, Byte) ==
    /\ b = [mem |-> b.mem, end |-> b.end, size |-> b.size, auto |-> b.auto, fault |-> b.fault]
    /\ b.mem \in Seq(Byte \cup {NUL, Junk})
    /\ b.end \in Nat /\ b.size \in Nat /\ b.auto \in BOOLEAN
    /\ b.end = 0 <=> b.mem = <<>>
    /\ b.fault \in {"none", "exit", "abort", "overrun"}

Failed(b) == b.fault # "none"
Fault(b, how) == [b EXCEPT !.fault = how]
AutoSet(b, is_auto) == [b EXCEPT !.auto = is_auto]

-----------------------------------------------------------------------------
(* Growing.                                                                *)

\* available_size, counted from the size and not from the block.
Room(b, position) == IF b.end > 0 THEN b.size - position ELSE 0

\* The int is compared as a size_t: what is negative passes for huge.
HasRoom(b, position, n) == Room(b, position) < 0 \/ Room(b, position) >= n

\* Mutant: what remains does not get a chunk.
WholeChunks(n) == n \div Chunk

Chunks(n) == (n + Chunk - 1) \div Chunk

\* Mutant: the end stays at the beginning.
NewEndLost(b, n) == 0

\* p_end counts the chunks added, not those that were there.
NewEnd(b, n) == n * Chunk

\* Mutant: cleared after the bytes are carried over.
ClearedLate(old, kept, length) == [i \in 1 .. length |-> NUL]

Cleared(old, kept, length) == [i \in 1 .. length |-> IF i <= kept THEN old[i] ELSE NUL]
Fresh(length) == [i \in 1 .. length |-> Junk]

\* A block of n more chunks, with what the old one holds up to its end.
Grown(b, n) ==
    IF ~b.auto
    THEN IF b.mem = <<>> THEN Fault(b, "exit") ELSE [b EXCEPT !.end = NewEnd(b, n)]
    ELSE IF b.mem = <<>>
    THEN [b EXCEPT !.mem = Fresh(b.end + n * Chunk), !.end = NewEnd(b, n), !.size = 0]
    ELSE IF b.end > Len(b.mem)
    THEN Fault(b, "overrun")
    ELSE [b EXCEPT !.mem = Cleared(b.mem, b.end, b.end + n * Chunk), !.end = NewEnd(b, n)]

Ensure(b, position, n) ==
    IF ~b.auto /\ position > b.size
    THEN Fault(b, "exit")
    ELSE IF HasRoom(b, position, n) THEN b
    ELSE Grown(b, Chunks(n - Room(b, position)))

-----------------------------------------------------------------------------
(* Operations.  One that fails leaves the others undone.                   *)

\* memcpy and memset into the block.
Overlaid(mem, from, bytes) ==
    [i \in 1 .. Len(mem) |->
        IF from < i /\ i <= from + Len(bytes) THEN bytes[i - from] ELSE mem[i]]
Put(b, from, bytes) ==
    IF Failed(b) THEN b
    ELSE IF from + Len(bytes) > Len(b.mem) THEN Fault(b, "overrun")
    ELSE [b EXCEPT !.mem = Overlaid(@, from, bytes)]

\* A fixed buffer takes what there is room for, from its start on, whatever the position.
Taken(b, bytes) ==
    IF b.auto \/ Len(bytes) <= b.end THEN bytes ELSE SubSeq(bytes, 1, b.end)

WriteBytes(b, from, bytes) ==
    LET taken == Taken(b, bytes)
        put == Put(IF b.auto THEN Ensure(b, from, Len(taken)) ELSE b, from, taken)
    IN  IF taken = <<>> THEN Fault(b, "exit")
        ELSE IF Failed(put) THEN put
        ELSE [put EXCEPT !.size = from + Len(taken)]

WriteItem(b, at, item) ==
    IF Failed(b) THEN b
    ELSE IF at >= b.size THEN Fault(b, "abort")
    ELSE Put(b, at, <<item>>)

SizeSet(b, size) ==
    LET e == Ensure(b, 0, size)
    IN  IF Failed(e) THEN e ELSE [e EXCEPT !.size = size]

\* What a block holds from one position to another, a read of it in bounds or not.
InBounds(b, to) == to <= Len(b.mem)
Bytes(b, from, to) == SubSeq(b.mem, from + 1, to)

CopyBuffer(from, to) ==
    LET sized == SizeSet(AutoSet(to, TRUE), from.size)
    IN  IF Failed(sized) THEN sized
        ELSE IF ~InBounds(from, from.size) THEN Fault(sized, "overrun")
        ELSE AutoSet(Put(sized, 0, Bytes(from, 0, from.size)), from.auto)

\* zob_buffer_create_from_memory: a fixed buffer.
FromMemory(bytes) ==
    LET e == Ensure(AutoSet(NewBuffer, TRUE), 0, Len(bytes))
    IN  WriteBytes(AutoSet(e, FALSE), 0, bytes)

\* An empty or a reversed slice is an empty write.
SliceBuffer(b, from, to) ==
    IF to <= from THEN Fault(NewBuffer, "exit")
    ELSE IF ~InBounds(b, to) THEN Fault(NewBuffer, "overrun")
    ELSE AutoSet(FromMemory(Bytes(b, from, to)), TRUE)

Repeated(value, size) == [i \in 1 .. size |-> value]
Fill(b, size, value) == Put(Ensure(b, 0, size), 0, Repeated(value, size))

-----------------------------------------------------------------------------
(* Strings: automatic buffers that end in a NUL.                           *)

NewString == WriteBytes(AutoSet(NewBuffer, TRUE), 0, <<NUL>>)

\* Mutant: the place of the final NUL is not counted.
StringSizeSetShort(s, size) ==
    IF Failed(s) THEN s ELSE WriteItem(SizeSet(s, size), size - 1, NUL)

\* Mutant: the NUL is left to whatever the block holds.
StringSizeSetOpen(s, size) == IF Failed(s) THEN s ELSE SizeSet(s, size + 1)

StringSizeSet(s, size) ==
    IF Failed(s) THEN s ELSE WriteItem(SizeSet(s, size + 1), size, NUL)

StringWrite(s, from, bytes) ==
    StringSizeSet(WriteBytes(s, from, bytes), from + Len(bytes))

StringSet(s, bytes) == StringWrite(s, 0, bytes)

\* Mutant: the bounds swapped in the length.
StringSliceBack(s, from, to) == StringSizeSet(SliceBuffer(s, from, to), from - to)

StringSlice(s, from, to) == StringSizeSet(SliceBuffer(s, from, to), to - from)

StringClone(s) == CopyBuffer(s, NewString)

StringFill(s, size, value) == Fill(s, size, value)

\* The text of a string.
Held(s) == SubSeq(s.mem, 1, s.size - 1)
=============================================================================
