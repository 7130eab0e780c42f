------------------------------ MODULE Buffers ------------------------------
(***************************************************************************)
(* The byte buffers of src/src/buffer.c under every order of the calls of  *)
(* src/src/buffer.h, with what their callers have put in them beside.      *)
(* Beyond names the uses of a buffer that are let in although the program  *)
(* has none of them, as only its tests and comments speak of them.         *)
(***************************************************************************)
EXTENDS Buffer, FiniteSetsExt

CONSTANTS
    Name,       \* the variables that hold buffers
    Letter,     \* what is written
    MaxSize,    \* bound: the furthest a call reaches in a buffer
    MaxMemory,  \* bound: the bytes of all blocks together
    Beyond

Uses == {"regrow", "resize", "gap", "nothing"}

ASSUME BuffersAssumption ==
    /\ NUL \notin Letter /\ Junk \notin Letter
    /\ {MaxSize, MaxMemory} \subseteq Nat
    /\ Beyond \subseteq Uses

VARIABLES
    buf,        \* the buffers there are
    said,       \* the bytes their callers rely on, Junk where none can be relied on
    carried     \* the bytes that were in use when a larger block last replaced one

vars == <<buf, said, carried>>

TypeOK ==
    /\ DOMAIN buf \subseteq Name /\ DOMAIN said = DOMAIN buf /\ carried \in [DOMAIN buf -> Nat]
    /\ \A n \in DOMAIN buf :
        IsBuffer(buf[n], Letter) /\ said[n] \in Seq(Letter \cup {NUL, Junk})

Init ==
    /\ buf = [n \in {} |-> NewBuffer]
    /\ said = [n \in {} |-> <<>>]
    /\ carried = [n \in {} |-> 0]

Running == \A n \in DOMAIN buf : ~Failed(buf[n])
There(n) == Running /\ n \in DOMAIN buf
Absent(n) == Running /\ n \notin DOMAIN buf

With(f, n, x) == [m \in DOMAIN f \cup {n} |-> IF m = n THEN x ELSE f[m]]

HasBlock(b) == b.mem # <<>>

\* How many of the last bytes in use p_end may leave out, as far as callers can tell: no
\* more than were in use when the block was last replaced, and none of the first chunk.
Doubt(size, used) ==
    LET above == IF size > Chunk THEN size - Chunk ELSE 0
    IN  IF used < above THEN used ELSE above

\* What rounding up to chunks adds to a growth.
Slack(grow) == Chunks(grow) * Chunk - grow

\* A block may be replaced any number of times, as long as the rounding makes up for the
\* bytes in doubt.
HasOrGetsRoom(size, used, position, length) ==
    \/ position + length <= size
    \/ Slack(position + length - size) >= Doubt(size, used)

\* How a caller may ask for room: without a gap, a fixed buffer for no more than its size.
MayAsk(n, auto, position, length) ==
    LET b == buf[n]
    IN  /\ position <= b.size \/ "gap" \in Beyond
        /\ \/ ~HasBlock(b) \/ "regrow" \in Beyond
           \/ HasOrGetsRoom(b.size, carried[n], position, length)
        /\ auto \/ "resize" \in Beyond \/ (HasBlock(b) /\ position + length <= b.size)

Replaces(n, auto, position, length) == auto /\ ~HasRoom(buf[n], position, length)

\* What callers rely on once room has been made, the bytes in doubt no more.
Relied(n, replaces) ==
    LET sure == Len(said[n]) - Doubt(buf[n].size, carried[n])
    IN  IF replaces THEN [i \in DOMAIN said[n] |-> IF i <= sure THEN said[n][i] ELSE Junk]
        ELSE said[n]

Allocated(f) == MapThenSumSet(LAMBDA n : Len(f[n].mem), DOMAIN f)

Becomes(n, b, bytes, used) ==
    /\ buf' = With(buf, n, b) /\ Allocated(buf') <= MaxMemory
    /\ said' = With(said, n, bytes)
    /\ carried' = With(carried, n, used)

Carried(n, replaces) == IF replaces THEN buf[n].size ELSE carried[n]

Sized(bytes, size) == [i \in 1 .. size |-> IF i <= Len(bytes) THEN bytes[i] ELSE Junk]

-----------------------------------------------------------------------------
Create(n) == Absent(n) /\ Becomes(n, NewBuffer, <<>>, 0)

SetAuto(n, is_auto) == There(n) /\ Becomes(n, AutoSet(buf[n], is_auto), said[n], carried[n])

EnsureRoom(n, position, length) ==
    LET replaces == Replaces(n, buf[n].auto, position, length)
    IN  /\ There(n) /\ MayAsk(n, buf[n].auto, position, length)
        /\ Becomes(n, Ensure(buf[n], position, length), Relied(n, replaces),
                   Carried(n, replaces))

\* A fixed buffer never grows here: it takes what it has room for from its start on.
Write(n, from, bytes) ==
    LET b == buf[n]
        taken == Taken(b, bytes)
        replaces == Replaces(n, b.auto, from, Len(bytes))
    IN  /\ There(n)
        /\ taken # <<>> \/ "nothing" \in Beyond
        /\ IF b.auto THEN MayAsk(n, TRUE, from, Len(bytes)) ELSE from = 0 \/ "resize" \in Beyond
        /\ Becomes(n, WriteBytes(b, from, bytes), Sized(Relied(n, replaces), from) \o taken,
                   Carried(n, replaces))

WriteAt(n, at, item) ==
    /\ There(n) /\ at < buf[n].size
    /\ Becomes(n, WriteItem(buf[n], at, item), [said[n] EXCEPT ![at + 1] = item], carried[n])

SetSize(n, size) ==
    LET replaces == Replaces(n, buf[n].auto, 0, size)
    IN  /\ There(n) /\ MayAsk(n, buf[n].auto, 0, size)
        /\ Becomes(n, SizeSet(buf[n], size), Sized(Relied(n, replaces), size),
                   Carried(n, replaces))

Filled(bytes, size, value) ==
    [i \in DOMAIN bytes |-> IF i <= size THEN value ELSE bytes[i]]

FillWith(n, size, value) ==
    LET replaces == Replaces(n, buf[n].auto, 0, size)
    IN  /\ There(n) /\ size > 0 /\ MayAsk(n, buf[n].auto, 0, size)
        /\ Becomes(n, Fill(buf[n], size, value), Filled(Relied(n, replaces), size, value),
                   Carried(n, replaces))

\* The receiver is made automatic for the time of the copy.
Copy(n, to) ==
    /\ There(n) /\ There(to) /\ n # to /\ MayAsk(to, TRUE, 0, buf[n].size)
    /\ Becomes(to, CopyBuffer(buf[n], buf[to]), said[n],
               Carried(to, Replaces(to, TRUE, 0, buf[n].size)))

CreateFromMemory(new, bytes) ==
    /\ bytes # <<>> \/ "nothing" \in Beyond
    /\ Absent(new) /\ Becomes(new, FromMemory(bytes), bytes, 0)

SliceGet(n, from, to, new) ==
    /\ There(n) /\ Absent(new) /\ to <= buf[n].size /\ from < to
    /\ Becomes(new, SliceBuffer(buf[n], from, to), SubSeq(said[n], from + 1, to), 0)

Dispose(n) ==
    /\ There(n)
    /\ buf' = [m \in DOMAIN buf \ {n} |-> buf[m]]
    /\ said' = [m \in DOMAIN said \ {n} |-> said[m]]
    /\ carried' = [m \in DOMAIN carried \ {n} |-> carried[m]]

Lengths == 0 .. MaxSize
Positions(n) == IF "gap" \in Beyond THEN Lengths ELSE 0 .. buf[n].size
Within(position, length) == position + length <= MaxSize
Texts == {[i \in 1 .. l |-> x] : l \in Lengths, x \in Letter}

Next ==
    \E n \in Name :
        \/ Create(n) \/ Dispose(n)
        \/ \E a \in BOOLEAN : SetAuto(n, a)
        \/ \E t \in Texts : CreateFromMemory(n, t)
        \/ \E l \in Lengths : SetSize(n, l) \/ \E x \in Letter : FillWith(n, l, x)
        \/ \E m \in Name : Copy(n, m)
        \/ n \in DOMAIN buf /\ \E p \in Positions(n) :
            \/ \E l \in Lengths : Within(p, l) /\ EnsureRoom(n, p, l)
            \/ \E t \in Texts : Within(p, Len(t)) /\ Write(n, p, t)
            \/ \E x \in Letter : WriteAt(n, p, x)
            \/ \E m \in Name, to \in Lengths : SliceGet(n, p, to, m)

Spec == Init /\ [][Next]_vars
-----------------------------------------------------------------------------
\* Every call gets the room it needs, however often a block is replaced, as it is twice by
\* each zob_string_write (buffer.c:138 and :215): nothing is read or written outside of a
\* block and no call ends the process, although zob_buffer_ensure counts the room from the
\* size (buffer.c:94) and the end from the chunks added (buffer.c:127).  It is so for the
\* callers who ask as MayAsk says, and FailsBeforeItOverruns is about the others.
StaysInBounds == Running

\* buffer.c:82 says that room is ensured "and fail if we can't grow": however it is
\* called, a buffer has its process end by an error before bytes outside of its block
\* are read or written.
FailsBeforeItOverruns == \A n \in DOMAIN buf : buf[n].fault # "overrun"

\* What has been written is there, whatever has grown, been copied or been cut since, but
\* for the bytes in doubt: replacing a block carries over as much as p_end says
\* (buffer.c:117), which is less than the size once a block has been replaced.  A loss
\* ends where the doubt does, on the last bytes.
KeepsBytes ==
    \A n \in DOMAIN buf :
        ~Failed(buf[n]) =>
            /\ buf[n].size = Len(said[n]) /\ buf[n].size <= Len(buf[n].mem)
            /\ \A i \in DOMAIN said[n] : said[n][i] # Junk => buf[n].mem[i] = said[n][i]
=============================================================================
