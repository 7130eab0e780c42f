--------------------------- MODULE Buffers_proofs ---------------------------
(***************************************************************************)
(* The buffers as callers may use them: any number of them, of any size,   *)
(* with any size of chunk, whose blocks are replaced any number of times.  *)
(***************************************************************************)
EXTENDS Buffers, SequenceTheorems, TLAPS

Byte == Letter \cup {NUL, Junk}

\* The bytes in use are in the block, and the block reaches as far as p_end at least.
Sound(b) ==
    /\ IsBuffer(b, Letter) /\ ~Failed(b)
    /\ b.size <= Len(b.mem) /\ b.end <= Len(b.mem)

\* p_end counts a chunk at least, and leaves out no more than the used bytes that a block
\* held when it was last replaced.
Counts(end, size, used) ==
    /\ used \in Nat
    /\ end = 0 \/ Chunk <= end
    /\ size - end <= used

Keeps(b, bytes) ==
    /\ bytes \in Seq(Byte) /\ Len(bytes) = b.size
    /\ \A i \in 1 .. b.size : bytes[i] # Junk => b.mem[i] = bytes[i]

\* The bounds and the bytes do not make an invariant: how much of a block is carried over
\* when it is replaced follows from what p_end counts, and so from the replacement before.
BuffersInv ==
    /\ DOMAIN buf \subseteq Name /\ DOMAIN said = DOMAIN buf
    /\ carried = [n \in DOMAIN buf |-> carried[n]]
    /\ \A n \in DOMAIN buf :
        /\ Sound(buf[n]) /\ Keeps(buf[n], said[n])
        /\ Counts(buf[n].end, buf[n].size, carried[n])

-----------------------------------------------------------------------------
(* Chunks.                                                                 *)

LEMMA ChunksSuffice ==
    ASSUME NEW n \in Nat \ {0}
    PROVE  /\ Chunks(n) \in Nat /\ Chunks(n) * Chunk \in Nat /\ Chunks(n) * Chunk >= n
           /\ Chunks(n) * Chunk >= Chunk
<1>1. Chunk \in Nat \ {0}
  BY BufferAssumption
<1>2. n + Chunk - 1 \in Nat
  BY <1>1
<1> DEFINE a == n + Chunk - 1
           q == a \div Chunk
           r == a % Chunk
<1>3. a \in Nat
  BY <1>2
<1> HIDE DEF a
<1>4. q \in Nat /\ r \in 0 .. Chunk - 1 /\ a = Chunk * q + r
  BY <1>1, <1>3
<1> HIDE DEF q, r
<1>5. q * Chunk = Chunk * q /\ Chunk * q \in Nat
  BY <1>1, <1>4
<1>6. Chunk * q >= n
  BY <1>1, <1>4, <1>5 DEF a
<1>7. q * Chunk >= Chunk
  <2>1. q # 0
    BY <1>1, <1>5, <1>6
  <2>2. q - 1 \in Nat
    BY <1>4, <2>1
  <2>3. Chunk * (q - 1) \in Nat /\ Chunk * q = Chunk * (q - 1) + Chunk
    BY <1>1, <1>4, <2>2
  <2> QED
    BY <1>1, <1>5, <2>3
<1> QED
  BY <1>4, <1>5, <1>6, <1>7 DEF Chunks, q, a

-----------------------------------------------------------------------------
(* What the operations of a buffer do to a sound one.                      *)

LEMMA BlockBytes ==
    ASSUME NEW b, Sound(b)
    PROVE  /\ b = [mem |-> b.mem, end |-> b.end, size |-> b.size, auto |-> b.auto, fault |-> "none"]
           /\ b.mem \in Seq(Byte) /\ Len(b.mem) \in Nat /\ b.end \in Nat /\ b.size \in Nat
           /\ b.auto \in BOOLEAN /\ b.fault = "none"
           /\ \A i \in 1 .. Len(b.mem) : b.mem[i] \in Byte
           /\ b.end = 0 <=> b.mem = <<>>
           /\ b.end = 0 <=> Len(b.mem) = 0
<1>1. /\ b = [mem |-> b.mem, end |-> b.end, size |-> b.size, auto |-> b.auto, fault |-> b.fault]
      /\ b.mem \in Seq(Byte) /\ b.end \in Nat /\ b.size \in Nat
      /\ b.auto \in BOOLEAN /\ b.fault = "none" /\ (b.end = 0 <=> b.mem = <<>>)
      /\ b.end <= Len(b.mem)
  BY DEF Sound, IsBuffer, Failed, Byte
<1>2. \A i \in 1 .. Len(b.mem) : b.mem[i] \in Byte
  BY <1>1, ElementOfSeq
<1>3. Len(b.mem) \in Nat /\ (b.mem = <<>> <=> Len(b.mem) = 0)
  BY <1>1, EmptySeq, LenProperties
<1> QED
  BY <1>1, <1>2, <1>3

LEMMA SoundBuffer ==
    ASSUME NEW mem \in Seq(Byte), NEW end \in Nat, NEW size \in Nat, NEW auto \in BOOLEAN,
           end = 0 <=> Len(mem) = 0, end <= Len(mem), size <= Len(mem)
    PROVE  Sound([mem |-> mem, end |-> end, size |-> size, auto |-> auto, fault |-> "none"])
<1>1. mem = <<>> <=> Len(mem) = 0
  BY EmptySeq
<1> QED
  BY <1>1 DEF Sound, IsBuffer, Failed, Byte

\* A function on an interval from 1 is a sequence.
LEMMA BytesOf ==
    ASSUME NEW l \in Nat, NEW f \in [1 .. l -> Byte]
    PROVE  f \in Seq(Byte) /\ Len(f) = l
<1>1. f \in Seq(Byte)
  BY SeqDef
<1>2. DOMAIN f = 1 .. Len(f) /\ Len(f) \in Nat
  BY <1>1, LenProperties
<1> QED
  BY <1>1, <1>2

\* The bytes in doubt are at least those that p_end leaves out.
LEMMA DoubtCovers ==
    ASSUME NEW b, Sound(b), NEW used, Counts(b.end, b.size, used)
    PROVE  /\ Doubt(b.size, used) \in Nat /\ Doubt(b.size, used) <= b.size
           /\ b.size - b.end <= Doubt(b.size, used)
<1>1. /\ b.end \in Nat /\ b.size \in Nat /\ Len(b.mem) \in Nat /\ b.size <= Len(b.mem)
      /\ b.end = 0 <=> Len(b.mem) = 0
  BY BlockBytes DEF Sound
<1>2. Chunk \in Nat \ {0}
  BY BufferAssumption
<1> QED
  BY <1>1, <1>2 DEF Doubt, Counts

\* What a call that asks for room may rely on.
MayGrow(b, used, position, n) ==
    /\ position <= b.size
    /\ b.auto \/ HasRoom(b, position, n)
    /\ \/ HasRoom(b, position, n) \/ ~HasBlock(b)
       \/ Slack(position + n - b.size) >= Doubt(b.size, used)

LEMMA RoomMeans ==
    ASSUME NEW b, Sound(b), NEW position \in Nat, NEW n \in Nat, position <= b.size
    PROVE  /\ HasRoom(b, position, n) <=> (IF HasBlock(b) THEN position + n <= b.size ELSE n = 0)
           /\ HasRoom(b, position, n) => position + n <= Len(b.mem)
           /\ Room(b, position) = b.size - position /\ Room(b, position) \in Nat
<1>1. /\ Len(b.mem) \in Nat /\ b.end \in Nat /\ b.size \in Nat /\ b.size <= Len(b.mem)
      /\ b.end = 0 <=> b.mem = <<>>
      /\ b.end = 0 <=> Len(b.mem) = 0
  BY BlockBytes DEF Sound
<1> QED
  BY <1>1 DEF HasRoom, Room, HasBlock

After(b, used, position, n) == IF HasRoom(b, position, n) THEN used ELSE b.size

\* The room that has been asked for is there, and so is what has been written but for the
\* bytes in doubt; what p_end leaves out afterwards is no more than has been carried over.
LEMMA EnsureHolds ==
    ASSUME NEW b, Sound(b), NEW used, Counts(b.end, b.size, used),
           NEW position \in Nat, NEW n \in Nat, MayGrow(b, used, position, n)
    PROVE  LET e == Ensure(b, position, n)
           IN  /\ Sound(e) /\ e.auto = b.auto /\ e.size = b.size
               /\ position + n <= Len(e.mem)
               /\ \A i \in 1 .. b.size - Doubt(b.size, used) : e.mem[i] = b.mem[i]
               /\ HasRoom(b, position, n) => e = b
               /\ \A size \in Nat :
                    size <= position + n \/ size <= b.size =>
                        Counts(e.end, size, After(b, used, position, n))
<1> DEFINE e == Ensure(b, position, n)
           k == Chunks(n - Room(b, position))
           more == k * Chunk
           sure == b.size - Doubt(b.size, used)
<1>1. /\ b = [mem |-> b.mem, end |-> b.end, size |-> b.size, auto |-> b.auto, fault |-> "none"]
      /\ b.mem \in Seq(Byte) /\ Len(b.mem) \in Nat /\ b.end \in Nat /\ b.size \in Nat
      /\ b.auto \in BOOLEAN
      /\ \A i \in 1 .. Len(b.mem) : b.mem[i] \in Byte
      /\ b.end = 0 <=> b.mem = <<>>
      /\ b.end = 0 <=> Len(b.mem) = 0
      /\ b.size <= Len(b.mem) /\ b.end <= Len(b.mem)
  BY BlockBytes DEF Sound
<1>2. position <= b.size
  BY DEF MayGrow
<1>3. CASE HasRoom(b, position, n)
  <2>1. e = b
    BY <1>1, <1>2, <1>3 DEF Ensure
  <2>2. /\ position + n <= Len(b.mem)
        /\ position + n <= b.size
    BY <1>1, <1>2, <1>3, RoomMeans DEF HasBlock
  <2>3. \A size \in Nat : size <= position + n \/ size <= b.size => Counts(b.end, size, used)
    BY <1>1, <2>2 DEF Counts
  <2>4. After(b, used, position, n) = used
    BY <1>3 DEF After
  <2> HIDE DEF e
  <2> QED
    BY <1>1, <1>3, <2>1, <2>2, <2>3, <2>4 DEF e
<1>4. CASE ~HasRoom(b, position, n)
  <2>1. b.auto
    BY <1>4 DEF MayGrow
  <2>2. /\ Room(b, position) = b.size - position
        /\ n - Room(b, position) = position + n - b.size
        /\ position + n - b.size \in Nat \ {0}
    BY <1>1, <1>2, <1>4, RoomMeans DEF HasRoom
  <2>3. more \in Nat /\ more >= position + n - b.size /\ more >= Chunk
    BY <2>2, ChunksSuffice
  <2>4. e = Grown(b, k)
    BY <1>4, <2>1 DEF Ensure
  <2>5. more = Chunks(position + n - b.size) * Chunk
    BY <2>2
  <2>6. /\ Chunk \in Nat \ {0}
        /\ Doubt(b.size, used) \in Nat /\ Doubt(b.size, used) <= b.size
        /\ b.size - b.end <= Doubt(b.size, used)
    BY BufferAssumption, DoubtCovers
  <2> HIDE DEF e, k
  <2>7. \A size \in Nat :
            size <= position + n \/ size <= b.size =>
                Counts(more, size, After(b, used, position, n))
    <3> HIDE DEF more
    <3> QED
      BY <1>1, <1>4, <2>2, <2>3 DEF Counts, After
  <2>8. CASE ~HasBlock(b)
    <3>1. b.mem = <<>> /\ b.end = 0 /\ b.size = 0 /\ Len(b.mem) = 0 /\ position = 0
      BY <1>1, <1>2, <2>8 DEF HasBlock
    <3> DEFINE length == b.end + more
               c == [b EXCEPT !.mem = Fresh(length)]
               d == [c EXCEPT !.end = more]
               f == [d EXCEPT !.size = 0]
    <3>2. Grown(b, k) = f
      BY <2>1, <3>1 DEF Grown, NewEnd
    <3>3. length = more
      BY <2>3, <3>1
    <3> HIDE DEF more, length
    <3>4. e = [mem |-> Fresh(more), end |-> more, size |-> 0, auto |-> b.auto, fault |-> "none"]
      <4>1. c = [mem |-> Fresh(length), end |-> b.end, size |-> b.size, auto |-> b.auto,
                 fault |-> "none"]
        BY <1>1
      <4> HIDE DEF c
      <4>2. d = [mem |-> Fresh(length), end |-> more, size |-> b.size, auto |-> b.auto,
                 fault |-> "none"]
        BY <4>1
      <4> HIDE DEF d
      <4>3. f = [mem |-> Fresh(length), end |-> more, size |-> 0, auto |-> b.auto, fault |-> "none"]
        BY <4>2
      <4> QED
        BY <2>4, <3>2, <3>3, <4>3
    <3>5. Fresh(more) \in [1 .. more -> Byte]
      BY DEF Fresh, Byte
    <3>6. Fresh(more) \in Seq(Byte) /\ Len(Fresh(more)) = more
      BY <2>3, <3>5, BytesOf
    <3>7. Sound([mem |-> Fresh(more), end |-> more, size |-> 0, auto |-> b.auto, fault |-> "none"])
      <4>1. more # 0 /\ 0 <= more
        BY <2>3, <2>6
      <4> QED
        BY <1>1, <2>3, <3>6, <4>1, SoundBuffer
    <3>8. position + n <= more
      BY <1>1, <2>3, <3>1
    <3>9. \A i \in 1 .. sure : e.mem[i] = b.mem[i]
      BY <2>6, <3>1
    <3> HIDE DEF sure
    <3> QED
      BY <1>4, <2>7, <3>1, <3>4, <3>6, <3>7, <3>8, <3>9 DEF e, sure
  <2>9. CASE HasBlock(b)
    <3>1. b.mem # <<>> /\ more - (position + n - b.size) >= Doubt(b.size, used)
      BY <1>4, <2>5, <2>9 DEF MayGrow, Slack, HasBlock
    <3> DEFINE length == b.end + more
               c == [b EXCEPT !.mem = Cleared(b.mem, b.end, length)]
               d == [c EXCEPT !.end = more]
    <3>2. Grown(b, k) = d
      BY <1>1, <2>1, <3>1 DEF Grown, NewEnd
    <3> HIDE DEF more
    <3>3. e = [mem |-> Cleared(b.mem, b.end, length), end |-> more, size |-> b.size,
               auto |-> b.auto, fault |-> "none"]
      <4> HIDE DEF length
      <4>1. c = [mem |-> Cleared(b.mem, b.end, length), end |-> b.end, size |-> b.size,
                 auto |-> b.auto, fault |-> "none"]
        BY <1>1
      <4> HIDE DEF c
      <4>2. d = [mem |-> Cleared(b.mem, b.end, length), end |-> more, size |-> b.size,
                 auto |-> b.auto, fault |-> "none"]
        BY <4>1
      <4> QED
        BY <2>4, <3>2, <4>2
    <3>4. length \in Nat /\ length >= more /\ position + n <= length /\ b.size <= length
      BY <1>1, <2>2, <2>3, <2>6, <3>1
    <3>5. sure <= b.end /\ b.end <= length /\ sure \in Nat
      BY <1>1, <2>3, <2>6
    <3> HIDE DEF length, sure
    <3>6. /\ Cleared(b.mem, b.end, length) \in [1 .. length -> Byte]
          /\ \A i \in 1 .. sure : Cleared(b.mem, b.end, length)[i] = b.mem[i]
      BY <1>1, <3>4, <3>5 DEF Cleared, Byte
    <3>7. /\ Cleared(b.mem, b.end, length) \in Seq(Byte)
          /\ Len(Cleared(b.mem, b.end, length)) = length
      BY <3>4, <3>6, BytesOf
    <3>8. Sound(e)
      BY <1>1, <2>3, <2>6, <3>3, <3>4, <3>7, SoundBuffer
    <3> QED
      BY <1>4, <2>7, <3>3, <3>4, <3>6, <3>7, <3>8 DEF e, sure
  <2> QED
    BY <2>8, <2>9
<1> QED
  BY <1>3, <1>4

LEMMA PutHolds ==
    ASSUME NEW b, Sound(b), NEW from \in Nat, NEW bytes \in Seq(Byte),
           from + Len(bytes) <= Len(b.mem)
    PROVE  LET p == Put(b, from, bytes)
           IN  /\ Sound(p) /\ p.auto = b.auto /\ p.size = b.size /\ p.end = b.end
               /\ Len(p.mem) = Len(b.mem)
               /\ \A i \in 1 .. Len(b.mem) :
                    p.mem[i] = IF from < i /\ i <= from + Len(bytes) THEN bytes[i - from]
                               ELSE b.mem[i]
<1> DEFINE p == Put(b, from, bytes)
           mem == Overlaid(b.mem, from, bytes)
<1>1. /\ b = [mem |-> b.mem, end |-> b.end, size |-> b.size, auto |-> b.auto, fault |-> "none"]
      /\ Len(b.mem) \in Nat /\ b.end \in Nat /\ b.size \in Nat /\ b.auto \in BOOLEAN
      /\ \A i \in 1 .. Len(b.mem) : b.mem[i] \in Byte
      /\ b.end = 0 <=> Len(b.mem) = 0
      /\ b.size <= Len(b.mem) /\ b.end <= Len(b.mem)
  BY BlockBytes DEF Sound
<1>2. Len(bytes) \in Nat /\ \A i \in 1 .. Len(bytes) : bytes[i] \in Byte
  BY ElementOfSeq, LenProperties
<1>3. p = [mem |-> mem, end |-> b.end, size |-> b.size, auto |-> b.auto, fault |-> "none"]
  BY <1>1, <1>2 DEF Put, Failed
<1>4. /\ mem \in [1 .. Len(b.mem) -> Byte]
      /\ \A i \in 1 .. Len(b.mem) :
            mem[i] = IF from < i /\ i <= from + Len(bytes) THEN bytes[i - from] ELSE b.mem[i]
  BY <1>1, <1>2 DEF Overlaid
<1> HIDE DEF mem, p
<1>5. mem \in Seq(Byte) /\ Len(mem) = Len(b.mem)
  BY <1>1, <1>4, BytesOf
<1>6. Sound(p)
  BY <1>1, <1>3, <1>5, SoundBuffer
<1> QED
  BY <1>3, <1>4, <1>5, <1>6 DEF p

LEMMA AutoHolds ==
    ASSUME NEW b, Sound(b), NEW auto \in BOOLEAN
    PROVE  LET a == AutoSet(b, auto)
           IN  /\ Sound(a) /\ a.auto = auto /\ a.size = b.size /\ a.end = b.end /\ a.mem = b.mem
               /\ HasBlock(a) <=> HasBlock(b)
               /\ \A bytes : Keeps(a, bytes) <=> Keeps(b, bytes)
<1>1. /\ b = [mem |-> b.mem, end |-> b.end, size |-> b.size, auto |-> b.auto, fault |-> "none"]
      /\ b.mem \in Seq(Byte) /\ b.end \in Nat /\ b.size \in Nat
      /\ b.end = 0 <=> Len(b.mem) = 0
      /\ b.size <= Len(b.mem) /\ b.end <= Len(b.mem)
  BY BlockBytes DEF Sound
<1> DEFINE a == AutoSet(b, auto)
<1>2. a = [mem |-> b.mem, end |-> b.end, size |-> b.size, auto |-> auto, fault |-> "none"]
  BY <1>1 DEF AutoSet
<1>3. Sound(a)
  BY <1>1, <1>2, SoundBuffer
<1> HIDE DEF a
<1> QED
  BY <1>2, <1>3 DEF HasBlock, Keeps, a

LEMMA SizeHolds ==
    ASSUME NEW b, Sound(b), NEW size \in Nat, size <= Len(b.mem)
    PROVE  LET r == [b EXCEPT !.size = size]
           IN  Sound(r) /\ r.auto = b.auto /\ r.size = size /\ r.end = b.end /\ r.mem = b.mem
<1>1. /\ b = [mem |-> b.mem, end |-> b.end, size |-> b.size, auto |-> b.auto, fault |-> "none"]
      /\ b.mem \in Seq(Byte) /\ b.end \in Nat /\ b.auto \in BOOLEAN
      /\ b.end = 0 <=> Len(b.mem) = 0
      /\ b.end <= Len(b.mem)
  BY BlockBytes DEF Sound
<1> DEFINE r == [b EXCEPT !.size = size]
<1>2. r = [mem |-> b.mem, end |-> b.end, size |-> size, auto |-> b.auto, fault |-> "none"]
  BY <1>1
<1>3. Sound(r)
  BY <1>1, <1>2, SoundBuffer
<1> HIDE DEF r
<1> QED
  BY <1>2, <1>3 DEF r

LEMMA NewHolds ==
    /\ Sound(NewBuffer) /\ ~HasBlock(NewBuffer) /\ NewBuffer.end = 0
    /\ NewBuffer.size = 0 /\ ~NewBuffer.auto /\ Keeps(NewBuffer, <<>>)
    /\ Counts(0, 0, 0)
<1>1. <<>> \in Seq(Byte) /\ Len(<<>>) = 0
  OBVIOUS
<1> DEFINE mem == <<>>
           auto == FALSE
           none == 0
<1>2. /\ mem \in Seq(Byte) /\ auto \in BOOLEAN /\ none \in Nat
      /\ none <= Len(mem) /\ (none = 0 <=> Len(mem) = 0)
  BY <1>1
<1> HIDE DEF mem, auto, none
<1>3. Sound([mem |-> mem, end |-> none, size |-> none, auto |-> auto, fault |-> "none"])
  BY <1>2, SoundBuffer
<1> QED
  BY <1>1, <1>3 DEF NewBuffer, HasBlock, Keeps, Counts, mem, auto, none

\* What is relied on after a change of the size.
LEMMA SizedHolds ==
    ASSUME NEW bytes \in Seq(Byte), NEW size \in Nat
    PROVE  /\ Sized(bytes, size) \in Seq(Byte) /\ Len(Sized(bytes, size)) = size
           /\ \A i \in 1 .. size :
                Sized(bytes, size)[i] = IF i <= Len(bytes) THEN bytes[i] ELSE Junk
<1>1. Len(bytes) \in Nat /\ \A i \in 1 .. Len(bytes) : bytes[i] \in Byte
  BY ElementOfSeq, LenProperties
<1>2. /\ Sized(bytes, size) \in [1 .. size -> Byte]
      /\ \A i \in 1 .. size : Sized(bytes, size)[i] = IF i <= Len(bytes) THEN bytes[i] ELSE Junk
  BY <1>1 DEF Sized, Byte
<1> QED
  BY <1>2, BytesOf

LEMMA KeepsSized ==
    ASSUME NEW b, Sound(b), NEW bytes, Keeps(b, bytes), NEW size \in Nat,
           NEW r, r.size = size, \A i \in 1 .. Len(b.mem) : r.mem[i] = b.mem[i]
    PROVE  Keeps(r, Sized(bytes, size))
<1>1. /\ bytes \in Seq(Byte) /\ Len(bytes) = b.size /\ b.size \in Nat
      /\ Len(b.mem) \in Nat /\ b.size <= Len(b.mem)
  BY BlockBytes DEF Keeps, Sound
<1>2. /\ Sized(bytes, size) \in Seq(Byte) /\ Len(Sized(bytes, size)) = size
      /\ \A i \in 1 .. size : Sized(bytes, size)[i] = IF i <= Len(bytes) THEN bytes[i] ELSE Junk
  BY <1>1, SizedHolds
<1> SUFFICES ASSUME NEW i \in 1 .. size, Sized(bytes, size)[i] # Junk
             PROVE  r.mem[i] = Sized(bytes, size)[i]
  BY <1>2 DEF Keeps
<1>3. i <= Len(bytes) /\ Sized(bytes, size)[i] = bytes[i]
  BY <1>2
<1>4. i \in 1 .. b.size /\ i \in 1 .. Len(b.mem)
  BY <1>1, <1>3
<1> QED
  BY <1>3, <1>4 DEF Keeps

LEMMA KeepsWritten ==
    ASSUME NEW b, Sound(b), NEW bytes, Keeps(b, bytes), NEW from \in Nat, from <= b.size,
           NEW taken \in Seq(Byte),
           NEW r, r.size = from + Len(taken),
           \A i \in 1 .. from : r.mem[i] = b.mem[i],
           \A i \in 1 .. Len(taken) : r.mem[from + i] = taken[i]
    PROVE  Keeps(r, Sized(bytes, from) \o taken)
<1> DEFINE s == Sized(bytes, from)
           w == s \o taken
<1>1. bytes \in Seq(Byte) /\ Len(bytes) = b.size /\ b.size \in Nat /\ Len(taken) \in Nat
  BY BlockBytes, LenProperties DEF Keeps
<1>2. /\ s \in Seq(Byte) /\ Len(s) = from
      /\ \A i \in 1 .. from : s[i] = IF i <= Len(bytes) THEN bytes[i] ELSE Junk
  BY <1>1, SizedHolds
<1>3. \A i \in 1 .. from : s[i] # Junk => r.mem[i] = s[i]
  <2> SUFFICES ASSUME NEW i \in 1 .. from, s[i] # Junk PROVE r.mem[i] = s[i]
    OBVIOUS
  <2>1. i \in 1 .. b.size /\ s[i] = bytes[i]
    BY <1>1, <1>2
  <2> HIDE DEF s
  <2> QED
    BY <2>1 DEF Keeps
<1> HIDE DEF s
<1>4. /\ w \in Seq(Byte) /\ Len(w) = from + Len(taken)
      /\ \A i \in 1 .. Len(s) + Len(taken) : w[i] = IF i <= Len(s) THEN s[i] ELSE taken[i - Len(s)]
  BY <1>2, ConcatProperties
<1> SUFFICES ASSUME NEW i \in 1 .. from + Len(taken), w[i] # Junk PROVE r.mem[i] = w[i]
  BY <1>4 DEF Keeps, s
<1> HIDE DEF w
<1>5. CASE i <= from
  BY <1>2, <1>3, <1>4, <1>5
<1>6. CASE ~(i <= from)
  <2>1. i - from \in 1 .. Len(taken) /\ from + (i - from) = i
    BY <1>1, <1>6
  <2>2. w[i] = taken[i - from]
    BY <1>1, <1>2, <1>4, <1>6
  <2>3. r.mem[from + (i - from)] = taken[i - from]
    BY <2>1
  <2> QED
    BY <2>1, <2>2, <2>3
<1> QED
  BY <1>5, <1>6

\* The write itself, once there is room.
Written(e, from, taken) == [Put(e, from, taken) EXCEPT !.size = from + Len(taken)]

\* What is written where there is room for it is there, and so is what comes before it.
LEMMA WriteHolds ==
    ASSUME NEW e, Sound(e), NEW bytes, Keeps(e, bytes), NEW from \in Nat, from <= e.size,
           NEW taken \in Seq(Byte), from + Len(taken) <= Len(e.mem)
    PROVE  LET r == Written(e, from, taken)
           IN  /\ ~Failed(Put(e, from, taken))
               /\ Sound(r) /\ r.auto = e.auto /\ r.end = e.end /\ r.size = from + Len(taken)
               /\ Keeps(r, Sized(bytes, from) \o taken)
<1> DEFINE l == Len(taken)
           put == Put(e, from, taken)
           r == [put EXCEPT !.size = from + l]
<1>1. Len(e.mem) \in Nat /\ e.size \in Nat /\ e.size <= Len(e.mem) /\ l \in Nat
  BY BlockBytes, LenProperties DEF Sound
<1>2. /\ Sound(put) /\ put.auto = e.auto /\ put.end = e.end
      /\ Len(put.mem) = Len(e.mem)
      /\ \A i \in 1 .. Len(e.mem) :
            put.mem[i] = IF from < i /\ i <= from + l THEN taken[i - from] ELSE e.mem[i]
  BY PutHolds
<1>3. ~Failed(put)
  BY <1>2 DEF Sound
<1> HIDE DEF put
<1>4. from + l \in Nat /\ from + l <= Len(put.mem)
  BY <1>1, <1>2
<1>5. Sound(r) /\ r.auto = put.auto /\ r.size = from + l /\ r.end = put.end /\ r.mem = put.mem
  BY <1>2, <1>4, SizeHolds
<1> HIDE DEF r
<1>6. \A i \in 1 .. from : r.mem[i] = e.mem[i]
  BY <1>1, <1>2, <1>5
<1>7. \A i \in 1 .. l : r.mem[from + i] = taken[i]
  <2> SUFFICES ASSUME NEW i \in 1 .. l PROVE r.mem[from + i] = taken[i]
    OBVIOUS
  <2>1. /\ from + i \in 1 .. Len(e.mem) /\ from < from + i
        /\ from + i <= from + l /\ (from + i) - from = i
    BY <1>1
  <2> QED
    BY <1>2, <1>5, <2>1
<1>8. Keeps(r, Sized(bytes, from) \o taken)
  BY <1>5, <1>6, <1>7, KeepsWritten
<1>9. Written(e, from, taken) = r
  BY DEF Written, r, put
<1> QED
  BY <1>2, <1>3, <1>5, <1>8, <1>9 DEF put

\* A buffer made of bytes is fixed, and p_end counts them all.
LEMMA FromMemoryHolds ==
    ASSUME NEW bytes \in Seq(Byte), bytes # <<>>
    PROVE  LET r == FromMemory(bytes)
           IN  /\ Sound(r) /\ Keeps(r, bytes) /\ r.size = Len(bytes)
               /\ Counts(r.end, r.size, 0)
<1> DEFINE l == Len(bytes)
           a == AutoSet(NewBuffer, TRUE)
           none == 0
           e == Ensure(a, none, l)
           f == AutoSet(e, FALSE)
           put == Put(f, 0, bytes)
           r == Written(f, 0, bytes)
<1>1. l \in Nat \ {0} /\ 0 + l = l
  BY EmptySeq, LenProperties
<1>2. Sound(a) /\ ~HasBlock(a) /\ a.auto = TRUE /\ a.size = 0 /\ a.end = 0
  BY NewHolds, AutoHolds
<1> HIDE DEF a
<1>2a. Counts(a.end, a.size, none)
  BY <1>2, NewHolds
<1>3. MayGrow(a, none, none, l) /\ none \in Nat
  BY <1>2 DEF MayGrow
<1>4. After(a, none, none, l) = 0
  BY <1>2 DEF After
<1> HIDE DEF l, none
<1>5. /\ Sound(e) /\ e.size = a.size /\ none + l <= Len(e.mem)
      /\ \A size \in Nat :
            size <= none + l \/ size <= a.size => Counts(e.end, size, After(a, none, none, l))
  BY <1>2a, <1>1, <1>2, <1>3, EnsureHolds
<1>6. Counts(e.end, l, 0)
  BY <1>1, <1>4, <1>5 DEF none
<1> HIDE DEF e
<1>7. Sound(f) /\ f.auto = FALSE /\ f.end = e.end /\ f.mem = e.mem /\ f.size = 0
  BY <1>2, <1>5, AutoHolds
<1>8. e.end \in Nat
  BY <1>5, BlockBytes
<1> HIDE DEF f
<1>9. l <= f.end
  BY <1>1, <1>6, <1>7, <1>8 DEF Counts
<1>10. Taken(f, bytes) = bytes
  BY <1>9 DEF Taken, l
<1>11. Keeps(f, <<>>)
  BY <1>7 DEF Keeps
<1>12. /\ ~Failed(put) /\ Sound(r) /\ r.end = f.end /\ r.size = 0 + Len(bytes)
       /\ Keeps(r, Sized(<<>>, 0) \o bytes)
  <2>1. 0 <= f.size /\ 0 + Len(bytes) <= Len(f.mem)
    BY <1>5, <1>7 DEF l, none
  <2> QED
    BY <1>7, <1>11, <2>1, WriteHolds
<1>13. Sized(<<>>, 0) \o bytes = bytes
  <2>1. <<>> \in Seq(Byte) /\ 0 \in Nat
    OBVIOUS
  <2>2. Sized(<<>>, 0) \in Seq(Byte) /\ Len(Sized(<<>>, 0)) = 0
    BY <2>1, SizedHolds
  <2>3. Sized(<<>>, 0) = <<>>
    BY <2>2, EmptySeq
  <2> QED
    BY <2>3, ConcatEmptySeq
<1>14. FromMemory(bytes) = r
  <2>1. ~f.auto
    BY <1>7
  <2>2. WriteBytes(f, 0, bytes) = r
    BY <1>10, <1>12, <2>1 DEF WriteBytes, Written
  <2> QED
    BY <2>2 DEF FromMemory, f, e, a, l, none
<1> HIDE DEF r
<1> QED
  BY <1>1, <1>6, <1>7, <1>12, <1>13, <1>14 DEF l

\* What a part of a sound buffer holds.
LEMMA PartOf ==
    ASSUME NEW s \in Seq(Byte), NEW from \in Nat, NEW to \in Nat, from <= to, to <= Len(s)
    PROVE  /\ SubSeq(s, from + 1, to) \in Seq(Byte) /\ Len(SubSeq(s, from + 1, to)) = to - from
           /\ \A i \in 1 .. to - from : SubSeq(s, from + 1, to)[i] = s[from + i]
<1>1. from + 1 \in Int /\ to \in Int /\ \A i \in from + 1 .. to : s[i] \in Byte
  BY ElementOfSeq, LenProperties
<1>2. /\ SubSeq(s, from + 1, to) \in Seq(Byte)
      /\ Len(SubSeq(s, from + 1, to)) = IF from + 1 <= to THEN to - (from + 1) + 1 ELSE 0
      /\ \A i \in 1 .. to - (from + 1) + 1 : SubSeq(s, from + 1, to)[i] = s[from + 1 + i - 1]
  BY <1>1, SubSeqProperties
<1>3. to - (from + 1) + 1 = to - from /\ \A i \in 1 .. to - from : from + 1 + i - 1 = from + i
  OBVIOUS
<1>4. Len(SubSeq(s, from + 1, to)) = to - from
  BY <1>2, <1>3
<1>5. \A i \in 1 .. to - from : SubSeq(s, from + 1, to)[i] = s[from + i]
  BY <1>2, <1>3
<1> QED
  BY <1>2, <1>4, <1>5

LEMMA SliceHolds ==
    ASSUME NEW b, Sound(b), NEW bytes, Keeps(b, bytes),
           NEW from \in Nat, NEW to \in Nat, from < to, to <= b.size
    PROVE  LET r == SliceBuffer(b, from, to)
           IN  Sound(r) /\ Keeps(r, SubSeq(bytes, from + 1, to)) /\ Counts(r.end, r.size, 0)
<1> DEFINE part == Bytes(b, from, to)
           said0 == SubSeq(bytes, from + 1, to)
           m == FromMemory(part)
           r == AutoSet(m, TRUE)
<1>1. b.mem \in Seq(Byte) /\ Len(b.mem) \in Nat /\ b.size \in Nat /\ b.size <= Len(b.mem)
  BY BlockBytes DEF Sound
<1>2. /\ part \in Seq(Byte) /\ Len(part) = to - from
      /\ \A i \in 1 .. to - from : part[i] = b.mem[from + i]
  <2>1. to <= Len(b.mem) /\ from <= to
    BY <1>1
  <2> QED
    BY <1>1, <2>1, PartOf DEF Bytes
<1>3. /\ said0 \in Seq(Byte) /\ Len(said0) = to - from
      /\ \A i \in 1 .. to - from : said0[i] = bytes[from + i]
  <2>1. bytes \in Seq(Byte) /\ to <= Len(bytes) /\ from <= to
    BY DEF Keeps
  <2> QED
    BY <2>1, PartOf
<1> HIDE DEF part, said0
<1>4. part # <<>>
  BY <1>2, EmptySeq
<1>5. Sound(m) /\ Keeps(m, part) /\ m.size = to - from /\ Counts(m.end, m.size, 0)
  BY <1>2, <1>4, FromMemoryHolds
<1>6. Keeps(m, said0)
  <2> SUFFICES ASSUME NEW i \in 1 .. to - from, said0[i] # Junk PROVE m.mem[i] = said0[i]
    BY <1>3, <1>5 DEF Keeps
  <2>1. from + i \in 1 .. b.size
    BY <1>1
  <2>2. b.mem[from + i] = bytes[from + i]
    BY <1>3, <2>1 DEF Keeps
  <2>3. part[i] = said0[i]
    BY <1>2, <1>3, <2>2
  <2>4. i \in 1 .. m.size
    BY <1>5
  <2> HIDE DEF m
  <2> QED
    BY <1>5, <2>3, <2>4 DEF Keeps
<1> HIDE DEF m
<1>7. Sound(r) /\ Keeps(r, said0) /\ r.end = m.end /\ r.size = m.size
  BY <1>5, <1>6, AutoHolds
<1>8. SliceBuffer(b, from, to) = r
  <2>1. ~(to <= from) /\ InBounds(b, to)
    BY <1>1 DEF InBounds
  <2> QED
    BY <2>1 DEF SliceBuffer, r, m, part
<1> HIDE DEF r
<1> QED
  BY <1>5, <1>7, <1>8 DEF said0

\* A copy, once there is room for it in its receiver.
LEMMA CopyHolds ==
    ASSUME NEW b, Sound(b), NEW bytes, Keeps(b, bytes), NEW to,
           Sound(Ensure(AutoSet(to, TRUE), 0, b.size)),
           b.size <= Len(Ensure(AutoSet(to, TRUE), 0, b.size).mem)
    PROVE  LET r == CopyBuffer(b, to)
           IN  /\ Sound(r) /\ Keeps(r, bytes) /\ r.size = b.size
               /\ r.end = Ensure(AutoSet(to, TRUE), 0, b.size).end
<1> DEFINE e == Ensure(AutoSet(to, TRUE), 0, b.size)
           sized == [e EXCEPT !.size = b.size]
           part == Bytes(b, 0, b.size)
           put == Put(sized, 0, part)
           r == AutoSet(put, b.auto)
<1>1. /\ b.mem \in Seq(Byte) /\ Len(b.mem) \in Nat /\ b.size \in Nat /\ b.size <= Len(b.mem)
      /\ b.auto \in BOOLEAN
  BY BlockBytes DEF Sound
<1>2. SizeSet(AutoSet(to, TRUE), b.size) = sized
  BY DEF SizeSet, Sound
<1> HIDE DEF e
<1>3. Sound(sized) /\ sized.size = b.size /\ sized.end = e.end /\ sized.mem = e.mem
  BY <1>1, SizeHolds DEF e
<1>4. /\ part \in Seq(Byte) /\ Len(part) = b.size - 0
      /\ \A i \in 1 .. b.size - 0 : part[i] = b.mem[0 + i]
  BY <1>1, PartOf DEF Bytes
<1>5. ~Failed(sized) /\ InBounds(b, b.size)
  BY <1>1, <1>3 DEF Sound, InBounds
<1> HIDE DEF sized, part
<1>6. Len(part) = b.size /\ \A i \in 1 .. b.size : part[i] = b.mem[i]
  BY <1>1, <1>4
<1>7. b.size <= Len(sized.mem) /\ Len(sized.mem) \in Nat
  BY <1>3, BlockBytes DEF Sound
<1>8. /\ Sound(put) /\ put.size = sized.size /\ put.end = sized.end
      /\ Len(put.mem) = Len(sized.mem)
      /\ \A i \in 1 .. Len(sized.mem) :
            put.mem[i] = IF 0 < i /\ i <= 0 + Len(part) THEN part[i - 0] ELSE sized.mem[i]
  <2>1. 0 + Len(part) <= Len(sized.mem)
    BY <1>1, <1>6, <1>7
  <2> QED
    BY <1>3, <1>4, <2>1, PutHolds
<1> HIDE DEF put
<1>9. \A i \in 1 .. b.size : put.mem[i] = b.mem[i]
  <2> SUFFICES ASSUME NEW i \in 1 .. b.size PROVE put.mem[i] = b.mem[i]
    OBVIOUS
  <2>1. i \in 1 .. Len(sized.mem) /\ 0 < i /\ i <= 0 + Len(part) /\ i - 0 = i
    BY <1>1, <1>6, <1>7
  <2> QED
    BY <1>6, <1>8, <2>1
<1>10. Keeps(put, bytes)
  BY <1>3, <1>8, <1>9 DEF Keeps
<1>11. Sound(r) /\ Keeps(r, bytes) /\ r.end = put.end /\ r.size = put.size
  BY <1>1, <1>8, <1>10, AutoHolds
<1>12. CopyBuffer(b, to) = r
  BY <1>2, <1>5 DEF CopyBuffer, r, put, part
<1> HIDE DEF r
<1> QED
  BY <1>3, <1>8, <1>11, <1>12 DEF e

\* Filling a buffer that has the room.
LEMMA FillHolds ==
    ASSUME NEW e, Sound(e), NEW bytes, Keeps(e, bytes), NEW size \in Nat, size <= Len(e.mem),
           NEW value \in Byte
    PROVE  LET r == Put(e, 0, Repeated(value, size))
           IN  /\ Sound(r) /\ r.end = e.end /\ r.size = e.size
               /\ Keeps(r, Filled(bytes, size, value))
<1> DEFINE v == Repeated(value, size)
           r == Put(e, 0, v)
           filled == Filled(bytes, size, value)
<1>1. Len(e.mem) \in Nat /\ e.size \in Nat /\ e.size <= Len(e.mem)
  BY BlockBytes DEF Sound
<1>2. v \in [1 .. size -> Byte] /\ \A i \in 1 .. size : v[i] = value
  BY DEF Repeated
<1> HIDE DEF v
<1>3. v \in Seq(Byte) /\ Len(v) = size
  BY <1>2, BytesOf
<1>4. /\ Sound(r) /\ r.size = e.size /\ r.end = e.end /\ Len(r.mem) = Len(e.mem)
      /\ \A i \in 1 .. Len(e.mem) :
            r.mem[i] = IF 0 < i /\ i <= 0 + Len(v) THEN v[i - 0] ELSE e.mem[i]
  BY <1>3, PutHolds
<1> HIDE DEF r
<1>5. \A i \in 1 .. e.size : r.mem[i] = IF i <= size THEN value ELSE e.mem[i]
  <2> SUFFICES ASSUME NEW i \in 1 .. e.size
               PROVE  r.mem[i] = IF i <= size THEN value ELSE e.mem[i]
    OBVIOUS
  <2>1. i \in 1 .. Len(e.mem) /\ 0 < i /\ i - 0 = i /\ 0 + Len(v) = size
    BY <1>1, <1>3
  <2>2. i <= size => i \in 1 .. size
    OBVIOUS
  <2> QED
    BY <1>2, <1>4, <2>1, <2>2
<1>6. bytes \in Seq(Byte) /\ Len(bytes) = e.size /\ DOMAIN bytes = 1 .. e.size
  BY LenProperties DEF Keeps
<1>7. /\ filled \in [1 .. e.size -> Byte]
      /\ \A i \in 1 .. e.size : filled[i] = IF i <= size THEN value ELSE bytes[i]
  BY <1>6, ElementOfSeq DEF Filled
<1> HIDE DEF filled
<1>8. filled \in Seq(Byte) /\ Len(filled) = e.size
  BY <1>1, <1>7, BytesOf
<1>9. Keeps(r, filled)
  <2> SUFFICES ASSUME NEW i \in 1 .. e.size, filled[i] # Junk PROVE r.mem[i] = filled[i]
    BY <1>4, <1>8 DEF Keeps
  <2>1. bytes[i] # Junk => e.mem[i] = bytes[i]
    BY DEF Keeps
  <2> QED
    BY <1>5, <1>7, <2>1
<1> QED
  BY <1>4, <1>9 DEF r, v, filled

LEMMA WriteItemHolds ==
    ASSUME NEW b, Sound(b), NEW bytes, Keeps(b, bytes), NEW at \in Nat, at < b.size,
           NEW item \in Byte
    PROVE  LET r == WriteItem(b, at, item)
           IN  Sound(r) /\ Keeps(r, [bytes EXCEPT ![at + 1] = item]) /\ r.end = b.end /\ r.size = b.size
<1> DEFINE v == <<item>>
           r == Put(b, at, v)
           said0 == [bytes EXCEPT ![at + 1] = item]
<1>1. Len(b.mem) \in Nat /\ b.size \in Nat /\ b.size <= Len(b.mem)
  BY BlockBytes DEF Sound
<1>2. v \in Seq(Byte) /\ Len(v) = 1 /\ v[1] = item
  OBVIOUS
<1> HIDE DEF v
<1>3. /\ Sound(r) /\ r.size = b.size /\ r.end = b.end /\ Len(r.mem) = Len(b.mem)
      /\ \A i \in 1 .. Len(b.mem) :
            r.mem[i] = IF at < i /\ i <= at + Len(v) THEN v[i - at] ELSE b.mem[i]
  <2>1. at + Len(v) <= Len(b.mem)
    BY <1>1, <1>2
  <2> QED
    BY <1>2, <2>1, PutHolds
<1> HIDE DEF r
<1>4. \A i \in 1 .. b.size : r.mem[i] = IF i = at + 1 THEN item ELSE b.mem[i]
  <2> SUFFICES ASSUME NEW i \in 1 .. b.size PROVE r.mem[i] = IF i = at + 1 THEN item ELSE b.mem[i]
    OBVIOUS
  <2>1. i \in 1 .. Len(b.mem) /\ (at < i /\ i <= at + 1 <=> i = at + 1)
    BY <1>1
  <2>2. i = at + 1 => i - at = 1
    OBVIOUS
  <2> QED
    BY <1>2, <1>3, <2>1, <2>2
<1>5. bytes \in Seq(Byte) /\ Len(bytes) = b.size /\ DOMAIN bytes = 1 .. b.size
  BY LenProperties DEF Keeps
<1>6. said0 \in [1 .. b.size -> Byte]
  <2>1. bytes \in [1 .. b.size -> Byte]
    BY <1>5, LenProperties, ElementOfSeq, SeqDef
  <2> QED
    BY <2>1
<1>7. said0 \in Seq(Byte) /\ Len(said0) = b.size
  BY <1>1, <1>6, BytesOf
<1>8. Keeps(r, said0)
  <2> SUFFICES ASSUME NEW i \in 1 .. b.size, said0[i] # Junk PROVE r.mem[i] = said0[i]
    BY <1>3, <1>7 DEF Keeps
  <2>1. said0[i] = IF i = at + 1 THEN item ELSE bytes[i]
    BY <1>5
  <2> HIDE DEF said0
  <2>2. bytes[i] # Junk => b.mem[i] = bytes[i]
    BY DEF Keeps
  <2> QED
    BY <1>4, <2>1, <2>2
<1>9. WriteItem(b, at, item) = r
  <2>1. ~Failed(b) /\ ~(at >= b.size)
    BY <1>1 DEF Sound
  <2> QED
    BY <2>1 DEF WriteItem, r, v
<1> QED
  BY <1>3, <1>8, <1>9

-----------------------------------------------------------------------------
(* The steps.                                                              *)

LEMMA SameAuto ==
    ASSUME NEW b, Sound(b)
    PROVE  AutoSet(b, b.auto) = b
<1>1. b = [mem |-> b.mem, end |-> b.end, size |-> b.size, auto |-> b.auto, fault |-> "none"]
  BY BlockBytes
<1> QED
  BY <1>1 DEF AutoSet

\* What callers rely on is true of the block that has been made room in.
LEMMA ReliedHolds ==
    ASSUME BuffersInv, NEW n \in DOMAIN buf, NEW replaces \in BOOLEAN,
           NEW e, e.size = buf[n].size,
           ~replaces => e.mem = buf[n].mem,
           \A i \in 1 .. buf[n].size - Doubt(buf[n].size, carried[n]) : e.mem[i] = buf[n].mem[i]
    PROVE  Keeps(e, Relied(n, replaces))
<1> DEFINE b == buf[n]
           bytes == said[n]
           sure == Len(bytes) - Doubt(b.size, carried[n])
           cut == [i \in DOMAIN bytes |-> IF i <= sure THEN bytes[i] ELSE Junk]
<1>1. Sound(b) /\ Keeps(b, bytes) /\ Counts(b.end, b.size, carried[n])
  BY DEF BuffersInv
<1> HIDE DEF b, bytes
<1>2. /\ bytes \in Seq(Byte) /\ Len(bytes) = b.size /\ b.size \in Nat
      /\ DOMAIN bytes = 1 .. b.size
  BY <1>1, BlockBytes, LenProperties DEF Keeps
<1>3. CASE ~replaces
  <2>1. Relied(n, replaces) = bytes
    BY <1>3 DEF Relied, bytes
  <2> QED
    BY <1>1, <1>3, <2>1 DEF Keeps, b
<1>4. CASE replaces
  <2>1. Relied(n, replaces) = cut
    BY <1>4 DEF Relied, bytes, b
  <2>2. sure \in Int
    BY <1>1, <1>2, DoubtCovers
  <2>3. /\ cut \in [1 .. b.size -> Byte]
        /\ \A i \in 1 .. b.size : cut[i] = IF i <= sure THEN bytes[i] ELSE Junk
    BY <1>2, ElementOfSeq DEF Byte
  <2> HIDE DEF cut
  <2>4. cut \in Seq(Byte) /\ Len(cut) = b.size
    BY <1>2, <2>3, BytesOf
  <2>5. ASSUME NEW i \in 1 .. b.size, cut[i] # Junk PROVE e.mem[i] = cut[i]
    <3>1. i <= sure /\ cut[i] = bytes[i]
      BY <2>3, <2>5
    <3>2. i \in 1 .. sure
      BY <2>2, <3>1
    <3>3. e.mem[i] = b.mem[i]
      BY <1>2, <3>2 DEF b
    <3>4. b.mem[i] = bytes[i]
      BY <1>1, <2>5, <3>1 DEF Keeps
    <3> QED
      BY <3>1, <3>3, <3>4
  <2> QED
    BY <2>1, <2>4, <2>5 DEF Keeps, b
<1> QED
  BY <1>3, <1>4

\* What a call finds when its caller may ask for the room.
LEMMA RoomIsMade ==
    ASSUME BuffersInv, Beyond = {}, NEW n \in DOMAIN buf, NEW auto \in BOOLEAN,
           NEW position \in Nat, NEW length \in Nat, MayAsk(n, auto, position, length)
    PROVE  LET a == AutoSet(buf[n], auto)
               e == Ensure(a, position, length)
               replaces == Replaces(n, auto, position, length)
           IN  /\ Sound(e) /\ e.auto = auto /\ e.size = buf[n].size
               /\ position <= e.size /\ position + length <= Len(e.mem)
               /\ Keeps(e, Relied(n, replaces))
               /\ \A size \in Nat :
                    size <= position + length \/ size <= e.size =>
                        Counts(e.end, size, Carried(n, replaces))
<1> DEFINE b == buf[n]
           used == carried[n]
           a == AutoSet(b, auto)
           e == Ensure(a, position, length)
           replaces == Replaces(n, auto, position, length)
<1>1. Sound(b) /\ Counts(b.end, b.size, used)
  BY DEF BuffersInv
<1>2. b.size \in Nat
  BY <1>1, BlockBytes
<1>3. /\ position <= b.size
      /\ ~HasBlock(b) \/ HasOrGetsRoom(b.size, used, position, length)
      /\ auto \/ (HasBlock(b) /\ position + length <= b.size)
  BY DEF MayAsk
<1>4. replaces \in BOOLEAN /\ (replaces <=> auto /\ ~HasRoom(b, position, length))
  BY DEF Replaces, HasRoom
<1>5. Carried(n, replaces) = IF replaces THEN b.size ELSE used
  BY DEF Carried
<1> HIDE DEF b, used, replaces
<1>6. /\ Sound(a) /\ a.auto = auto /\ a.size = b.size /\ (HasBlock(a) <=> HasBlock(b))
      /\ a.end = b.end /\ a.mem = b.mem
  BY <1>1, AutoHolds
<1>7. HasRoom(a, position, length) <=> HasRoom(b, position, length)
  BY <1>6 DEF HasRoom, Room
<1> HIDE DEF a
<1>8. HasRoom(a, position, length) <=>
        (IF HasBlock(a) THEN position + length <= a.size ELSE length = 0)
  BY <1>3, <1>6, RoomMeans
<1>9. MayGrow(a, used, position, length)
  BY <1>3, <1>6, <1>8 DEF MayGrow, HasOrGetsRoom
<1>10. Counts(a.end, a.size, used)
  BY <1>1, <1>6
<1>11. /\ Sound(e) /\ e.auto = a.auto /\ e.size = a.size
       /\ position + length <= Len(e.mem)
       /\ \A i \in 1 .. a.size - Doubt(a.size, used) : e.mem[i] = a.mem[i]
       /\ HasRoom(a, position, length) => e = a
       /\ \A size \in Nat :
            size <= position + length \/ size <= a.size =>
                Counts(e.end, size, After(a, used, position, length))
  BY <1>6, <1>9, <1>10, EnsureHolds
<1> HIDE DEF e
<1>12. After(a, used, position, length) = Carried(n, replaces)
  BY <1>4, <1>5, <1>6, <1>7, <1>9 DEF After, MayGrow
<1>13. ~replaces => e.mem = b.mem
  BY <1>4, <1>6, <1>7, <1>9, <1>11 DEF MayGrow
<1>14. Keeps(e, Relied(n, replaces))
  BY <1>4, <1>6, <1>11, <1>13, ReliedHolds DEF b, used
<1> QED
  BY <1>3, <1>6, <1>11, <1>12, <1>14 DEF e, a, b, replaces

\* The same for a call that leaves the buffer as automatic as it is.
LEMMA RoomIsMadePlainly ==
    ASSUME BuffersInv, Beyond = {}, NEW n \in DOMAIN buf,
           NEW position \in Nat, NEW length \in Nat, MayAsk(n, buf[n].auto, position, length)
    PROVE  LET e == Ensure(buf[n], position, length)
               replaces == Replaces(n, buf[n].auto, position, length)
           IN  /\ Sound(e) /\ e.auto = buf[n].auto /\ e.size = buf[n].size
               /\ position <= e.size /\ position + length <= Len(e.mem)
               /\ Keeps(e, Relied(n, replaces))
               /\ \A size \in Nat :
                    size <= position + length \/ size <= e.size =>
                        Counts(e.end, size, Carried(n, replaces))
<1>1. Sound(buf[n])
  BY DEF BuffersInv
<1>2. buf[n].auto \in BOOLEAN /\ AutoSet(buf[n], buf[n].auto) = buf[n]
  BY <1>1, BlockBytes, SameAuto
<1> QED
  BY <1>2, RoomIsMade

\* What one buffer becomes disturbs no other.
LEMMA BecomesKeeps ==
    ASSUME BuffersInv, NEW n \in Name, NEW b, NEW bytes, NEW used,
           Becomes(n, b, bytes, used),
           Sound(b), Keeps(b, bytes), Counts(b.end, b.size, used)
    PROVE  BuffersInv'
<1>1. /\ buf' = With(buf, n, b) /\ said' = With(said, n, bytes)
      /\ carried' = With(carried, n, used)
  BY DEF Becomes
<1>2. DOMAIN said = DOMAIN buf /\ DOMAIN carried = DOMAIN buf
  BY DEF BuffersInv
<1>3. /\ DOMAIN buf' = DOMAIN buf \cup {n} /\ DOMAIN said' = DOMAIN buf \cup {n}
      /\ carried' = [m \in DOMAIN buf \cup {n} |-> IF m = n THEN used ELSE carried[m]]
      /\ \A m \in DOMAIN buf' : buf'[m] = IF m = n THEN b ELSE buf[m]
      /\ \A m \in DOMAIN buf' : said'[m] = IF m = n THEN bytes ELSE said[m]
      /\ \A m \in DOMAIN buf' : carried'[m] = IF m = n THEN used ELSE carried[m]
  BY <1>1, <1>2 DEF With
<1>4. /\ DOMAIN buf' \subseteq Name /\ DOMAIN said' = DOMAIN buf'
      /\ carried' = [m \in DOMAIN buf' |-> carried'[m]]
  BY <1>3 DEF BuffersInv
<1>5. ASSUME NEW m \in DOMAIN buf'
      PROVE  /\ Sound(buf'[m]) /\ Keeps(buf'[m], said'[m])
             /\ Counts(buf'[m].end, buf'[m].size, carried'[m])
  <2>1. CASE m = n
    BY <1>3, <2>1
  <2>2. CASE m # n
    <3>1. m \in DOMAIN buf /\ buf'[m] = buf[m] /\ said'[m] = said[m] /\ carried'[m] = carried[m]
      BY <1>3, <2>2
    <3> QED
      BY <3>1 DEF BuffersInv
  <2> QED
    BY <2>1, <2>2
<1> QED
  BY <1>4, <1>5 DEF BuffersInv

LEMMA EnsureRoomKeeps ==
    ASSUME BuffersInv, Beyond = {}, NEW n \in Name, NEW p \in Nat, NEW l \in Nat,
           EnsureRoom(n, p, l)
    PROVE  BuffersInv'
<1> DEFINE e == Ensure(buf[n], p, l)
           replaces == Replaces(n, buf[n].auto, p, l)
<1>1. /\ n \in DOMAIN buf /\ MayAsk(n, buf[n].auto, p, l)
      /\ Becomes(n, e, Relied(n, replaces), Carried(n, replaces))
  BY DEF EnsureRoom, There
<1>2. /\ Sound(e) /\ Keeps(e, Relied(n, replaces))
      /\ \A size \in Nat :
            size <= p + l \/ size <= e.size => Counts(e.end, size, Carried(n, replaces))
  BY <1>1, RoomIsMadePlainly
<1> HIDE DEF e, replaces
<1>3. Counts(e.end, e.size, Carried(n, replaces))
  BY <1>2, BlockBytes
<1> QED
  BY <1>1, <1>2, <1>3, BecomesKeeps

\* What is taken of what is to be written: all of it, or as much as there is room for.
LEMMA TakenHolds ==
    ASSUME NEW b, Sound(b), NEW bytes \in Seq(Byte)
    PROVE  /\ Taken(b, bytes) \in Seq(Byte) /\ Len(Taken(b, bytes)) \in Nat
           /\ b.auto => Taken(b, bytes) = bytes
           /\ ~b.auto => Len(Taken(b, bytes)) <= b.end
<1>1. b.end \in Nat /\ Len(bytes) \in Nat
  BY BlockBytes, LenProperties
<1>2. CASE b.auto \/ Len(bytes) <= b.end
  BY <1>1, <1>2, LenProperties DEF Taken
<1>3. CASE ~(b.auto \/ Len(bytes) <= b.end)
  <2>1. Taken(b, bytes) = SubSeq(bytes, 1, b.end)
    BY <1>3 DEF Taken
  <2>2. \A i \in 1 .. b.end : bytes[i] \in Byte
    BY <1>1, <1>3, ElementOfSeq
  <2>3. 1 \in Int /\ b.end \in Int
    BY <1>1
  <2>4. /\ SubSeq(bytes, 1, b.end) \in Seq(Byte)
        /\ Len(SubSeq(bytes, 1, b.end)) = IF 1 <= b.end THEN b.end - 1 + 1 ELSE 0
    BY <2>2, <2>3, SubSeqProperties
  <2> QED
    BY <1>1, <1>3, <2>1, <2>4
<1> QED
  BY <1>2, <1>3

LEMMA WriteKeeps ==
    ASSUME BuffersInv, Beyond = {}, NEW n \in Name, NEW from \in Nat, NEW bytes \in Seq(Byte),
           Write(n, from, bytes)
    PROVE  BuffersInv'
<1> DEFINE b == buf[n]
           taken == Taken(b, bytes)
           l == Len(taken)
           e == IF b.auto THEN Ensure(b, from, l) ELSE b
           put == Put(e, from, taken)
           r == Written(e, from, taken)
           replaces == Replaces(n, b.auto, from, Len(bytes))
           now == Sized(Relied(n, replaces), from) \o taken
<1>1. /\ n \in DOMAIN buf /\ taken # <<>>
      /\ IF b.auto THEN MayAsk(n, TRUE, from, Len(bytes)) ELSE from = 0
      /\ Becomes(n, WriteBytes(b, from, bytes), now, Carried(n, replaces))
  BY DEF Write, There
<1>2. Sound(b) /\ Keeps(b, said[n]) /\ Counts(b.end, b.size, carried[n])
  BY <1>1 DEF BuffersInv
<1>3. /\ b.auto \in BOOLEAN /\ b.size \in Nat /\ b.end \in Nat /\ Len(b.mem) \in Nat
      /\ b.end <= Len(b.mem) /\ Len(bytes) \in Nat
  BY <1>2, BlockBytes, LenProperties DEF Sound
<1>4. /\ taken \in Seq(Byte) /\ l \in Nat
      /\ b.auto => taken = bytes
      /\ ~b.auto => l <= b.end
  BY <1>2, TakenHolds
<1>5. /\ Sound(e) /\ e.auto = b.auto /\ from <= e.size /\ from + l <= Len(e.mem)
      /\ Keeps(e, Relied(n, replaces))
      /\ Counts(e.end, from + l, Carried(n, replaces))
  <2>1. CASE b.auto
    <3>1. l = Len(bytes) /\ b.auto = TRUE
      BY <1>3, <1>4, <2>1
    <3>2. e = Ensure(b, from, Len(bytes))
      BY <2>1, <3>1
    <3>3. MayAsk(n, b.auto, from, Len(bytes))
      BY <1>1, <3>1
    <3> HIDE DEF e, l, taken
    <3>4. /\ Sound(e) /\ e.auto = b.auto /\ e.size = b.size
          /\ from <= e.size /\ from + Len(bytes) <= Len(e.mem)
          /\ Keeps(e, Relied(n, replaces))
          /\ \A size \in Nat :
                size <= from + Len(bytes) \/ size <= e.size =>
                    Counts(e.end, size, Carried(n, replaces))
      BY <1>1, <1>3, <3>2, <3>3, RoomIsMadePlainly
    <3>5. from + Len(bytes) \in Nat /\ from + Len(bytes) <= from + Len(bytes)
      BY <1>3
    <3>6. Counts(e.end, from + Len(bytes), Carried(n, replaces))
      BY <3>4, <3>5
    <3> QED
      BY <3>1, <3>4, <3>6
  <2>2. CASE ~b.auto
    <3>1. e = b /\ from = 0 /\ l <= b.end
      BY <1>1, <1>4, <2>2
    <3>2. replaces = FALSE
      BY <2>2 DEF Replaces
    <3>3. Relied(n, replaces) = said[n] /\ Carried(n, replaces) = carried[n]
      BY <3>2 DEF Relied, Carried
    <3> HIDE DEF e, l, taken, b, replaces
    <3>4. Counts(b.end, from + l, carried[n])
      BY <1>2, <1>3, <1>4, <3>1 DEF Counts
    <3> QED
      BY <1>2, <1>3, <1>4, <3>1, <3>3, <3>4
  <2> QED
    BY <2>1, <2>2
<1> HIDE DEF e, taken, l
<1>6. /\ ~Failed(put)
      /\ Sound(r) /\ r.end = e.end /\ r.size = from + Len(taken)
      /\ Keeps(r, now)
  <2>1. from + Len(taken) <= Len(e.mem)
    BY <1>5 DEF l
  <2> QED
    BY <1>4, <1>5, <2>1, WriteHolds
<1>7. WriteBytes(b, from, bytes) = r
  BY <1>1, <1>6 DEF WriteBytes, Written, e, l, taken
<1>8. Counts(r.end, r.size, Carried(n, replaces))
  BY <1>5, <1>6 DEF l
<1> HIDE DEF r, now, replaces
<1> QED
  BY <1>1, <1>6, <1>7, <1>8, BecomesKeeps

\* What a growth by at most one, or from within a first chunk, finds.
LEMMA SmallAsks ==
    ASSUME NEW size \in Nat, NEW used \in Nat, NEW position \in Nat, NEW length \in Nat,
           \/ used = 0
           \/ position + length <= Chunk
           \/ Chunk > 1 /\ used <= 1 /\ position + length <= size + 1
           \/ Chunk > 1 /\ size <= Chunk /\ position + length <= size + 1
    PROVE  HasOrGetsRoom(size, used, position, length)
<1> DEFINE grow == position + length - size
<1>1. Chunk \in Nat \ {0}
  BY BufferAssumption
<1> SUFFICES ASSUME position + length > size PROVE Slack(grow) >= Doubt(size, used)
  BY DEF HasOrGetsRoom
<1>2. grow \in Nat \ {0}
  OBVIOUS
<1>3. Chunks(grow) * Chunk \in Nat /\ Chunks(grow) * Chunk >= grow /\ Chunks(grow) * Chunk >= Chunk
  BY <1>2, ChunksSuffice
<1>4. /\ Doubt(size, used) <= used
      /\ size <= Chunk => Doubt(size, used) = 0
      /\ used = 0 => Doubt(size, used) = 0
  BY <1>1 DEF Doubt
<1>5. Slack(grow) >= 0 /\ (grow = 1 => Slack(grow) >= Chunk - 1)
  BY <1>1, <1>2, <1>3 DEF Slack
<1>6. Slack(grow) \in Int /\ Doubt(size, used) \in Int
  BY <1>1, <1>2, <1>3 DEF Slack, Doubt
<1>7. CASE used = 0
  BY <1>4, <1>5, <1>6, <1>7
<1>8. CASE position + length <= Chunk \/ size <= Chunk
  <2>1. size <= Chunk
    BY <1>1, <1>8
  <2> QED
    BY <1>4, <1>5, <1>6, <2>1
<1>9. CASE Chunk > 1 /\ used <= 1 /\ position + length <= size + 1
  <2>1. grow = 1
    BY <1>2, <1>9
  <2> HIDE DEF grow
  <2> QED
    BY <1>1, <1>4, <1>5, <1>6, <1>9, <2>1
<1> QED
  BY <1>7, <1>8, <1>9

\* zob_string_write (string.c:80) writes and sets the size to one more, which replaces the
\* block twice when it writes two bytes at least.  Both are calls its caller may make, of a
\* new string, which holds one byte, whatever is written; of another one, in the first chunk.
THEOREM StringWritesMayAsk ==
    ASSUME BuffersInv, Beyond = {}, Chunk > 1, NEW n \in Name, n \in DOMAIN buf, buf[n].auto,
           NEW from \in Nat, from <= buf[n].size, NEW bytes \in Seq(Byte),
           (buf[n].size = 1 /\ carried[n] = 0) \/ from + Len(bytes) <= Chunk
    PROVE  /\ MayAsk(n, TRUE, from, Len(bytes))
           /\ Write(n, from, bytes) => MayAsk(n, TRUE, 0, from + Len(bytes) + 1)'
<1> DEFINE b == buf[n]
           length == Len(bytes)
           replaces == Replaces(n, b.auto, from, length)
           now == Sized(Relied(n, replaces), from) \o bytes
<1>1. Sound(b) /\ carried[n] \in Nat
  BY DEF BuffersInv, Counts
<1>2. b.size \in Nat /\ b.auto = TRUE /\ length \in Nat
  BY <1>1, BlockBytes, LenProperties
<1>3. HasOrGetsRoom(b.size, carried[n], from, length)
  BY <1>1, <1>2, SmallAsks
<1>4. MayAsk(n, TRUE, from, length)
  BY <1>3 DEF MayAsk
<1>5. ASSUME Write(n, from, bytes) PROVE MayAsk(n, TRUE, 0, from + length + 1)'
  <2>1. Taken(b, bytes) = bytes
    BY <1>1, <1>2, TakenHolds
  <2>2. Becomes(n, WriteBytes(b, from, bytes), now, Carried(n, replaces))
    BY <1>5, <2>1 DEF Write
  <2>3. /\ n \in DOMAIN buf' /\ said'[n] = now
        /\ carried'[n] = Carried(n, replaces)
    BY <2>2 DEF Becomes, With, BuffersInv
  <2>4. Relied(n, replaces) \in Seq(Byte)
    BY <1>2, <1>4, RoomIsMadePlainly DEF Keeps
  <2>5. Len(now) = from + length
    <3> DEFINE sized == Sized(Relied(n, replaces), from)
    <3>1. sized \in Seq(Byte) /\ Len(sized) = from
      BY <2>4, SizedHolds
    <3> HIDE DEF sized
    <3>2. Len(sized \o bytes) = Len(sized) + Len(bytes)
      BY <3>1, ConcatProperties
    <3> QED
      BY <3>1, <3>2 DEF sized
  <2>6. buf'[n].size = from + length
    <3>1. BuffersInv'
      BY <1>5, WriteKeeps
    <3>2. Keeps(buf'[n], said'[n])
      BY <2>3, <3>1 DEF BuffersInv
    <3> QED
      BY <2>3, <2>5, <3>2 DEF Keeps
  <2>7. carried'[n] \in Nat /\ (b.size = 1 /\ carried[n] = 0 => carried'[n] <= 1)
    <3>1. replaces \in BOOLEAN
      BY DEF Replaces, HasRoom
    <3> HIDE DEF replaces
    <3> QED
      BY <1>1, <1>2, <2>3, <3>1 DEF Carried
  <2> DEFINE size == from + length
  <2>8. HasOrGetsRoom(size, carried'[n], 0, size + 1)
    <3>1. size \in Nat /\ size + 1 \in Nat /\ 0 + (size + 1) <= size + 1
      BY <1>2
    <3>2. (b.size = 1 /\ carried[n] = 0) \/ size <= Chunk
      OBVIOUS
    <3> HIDE DEF size
    <3> QED
      BY <2>7, <3>1, <3>2, SmallAsks
  <2> QED
    BY <1>2, <2>6, <2>8 DEF MayAsk
<1> QED
  BY <1>4, <1>5

LEMMA SetSizeKeeps ==
    ASSUME BuffersInv, Beyond = {}, NEW n \in Name, NEW size \in Nat, SetSize(n, size)
    PROVE  BuffersInv'
<1> DEFINE e == Ensure(buf[n], 0, size)
           r == [e EXCEPT !.size = size]
           replaces == Replaces(n, buf[n].auto, 0, size)
<1>1. /\ n \in DOMAIN buf /\ MayAsk(n, buf[n].auto, 0, size)
      /\ Becomes(n, SizeSet(buf[n], size), Sized(Relied(n, replaces), size),
                 Carried(n, replaces))
  BY DEF SetSize, There
<1>2. /\ Sound(e) /\ 0 + size <= Len(e.mem) /\ Keeps(e, Relied(n, replaces))
      /\ \A s \in Nat : s <= 0 + size \/ s <= e.size => Counts(e.end, s, Carried(n, replaces))
  BY <1>1, RoomIsMadePlainly
<1>3. SizeSet(buf[n], size) = r
  BY <1>2 DEF SizeSet, Sound
<1> HIDE DEF e, replaces
<1>4. Sound(r) /\ r.size = size /\ r.end = e.end /\ r.mem = e.mem
  BY <1>2, SizeHolds
<1> HIDE DEF r
<1>5. Keeps(r, Sized(Relied(n, replaces), size))
  BY <1>2, <1>4, KeepsSized
<1>6. Counts(r.end, r.size, Carried(n, replaces))
  BY <1>2, <1>4
<1> QED
  BY <1>1, <1>3, <1>4, <1>5, <1>6, BecomesKeeps

LEMMA FillWithKeeps ==
    ASSUME BuffersInv, Beyond = {}, NEW n \in Name, NEW size \in Nat, NEW value \in Letter,
           FillWith(n, size, value)
    PROVE  BuffersInv'
<1> DEFINE e == Ensure(buf[n], 0, size)
           r == Put(e, 0, Repeated(value, size))
           replaces == Replaces(n, buf[n].auto, 0, size)
           filled == Filled(Relied(n, replaces), size, value)
<1>1. /\ n \in DOMAIN buf /\ MayAsk(n, buf[n].auto, 0, size)
      /\ Becomes(n, Fill(buf[n], size, value), filled, Carried(n, replaces))
  BY DEF FillWith, There
<1>2. /\ Sound(e) /\ 0 + size <= Len(e.mem) /\ Keeps(e, Relied(n, replaces))
      /\ \A s \in Nat : s <= 0 + size \/ s <= e.size => Counts(e.end, s, Carried(n, replaces))
  BY <1>1, RoomIsMadePlainly
<1>3. Fill(buf[n], size, value) = r
  BY DEF Fill
<1> HIDE DEF e, replaces
<1>4. e.size \in Nat
  BY <1>2, BlockBytes
<1>5. Sound(r) /\ r.end = e.end /\ r.size = e.size /\ Keeps(r, filled)
  BY <1>2, FillHolds DEF Byte
<1> HIDE DEF r, filled
<1>6. Counts(r.end, r.size, Carried(n, replaces))
  BY <1>2, <1>4, <1>5
<1> QED
  BY <1>1, <1>3, <1>5, <1>6, BecomesKeeps

LEMMA CopyKeeps ==
    ASSUME BuffersInv, Beyond = {}, NEW n \in Name, NEW to \in Name, Copy(n, to)
    PROVE  BuffersInv'
<1> DEFINE b == buf[n]
           e == Ensure(AutoSet(buf[to], TRUE), 0, b.size)
           r == CopyBuffer(b, buf[to])
           used == Carried(to, Replaces(to, TRUE, 0, b.size))
<1>1. /\ n \in DOMAIN buf /\ to \in DOMAIN buf /\ MayAsk(to, TRUE, 0, b.size)
      /\ Becomes(to, r, said[n], used)
  BY DEF Copy, There
<1>2. Sound(b) /\ Keeps(b, said[n])
  BY <1>1 DEF BuffersInv
<1>3. b.size \in Nat
  BY <1>2, BlockBytes
<1>4. /\ Sound(e) /\ 0 + b.size <= Len(e.mem)
      /\ \A size \in Nat : size <= 0 + b.size \/ size <= e.size => Counts(e.end, size, used)
  BY <1>1, <1>3, RoomIsMade
<1> HIDE DEF b, e, used
<1>5. b.size <= Len(e.mem) /\ Counts(e.end, b.size, used)
  BY <1>3, <1>4
<1>6. Sound(r) /\ Keeps(r, said[n]) /\ r.size = b.size /\ r.end = e.end
  BY <1>2, <1>4, <1>5, CopyHolds DEF e
<1> HIDE DEF r
<1> QED
  BY <1>1, <1>5, <1>6, BecomesKeeps

LEMMA SliceGetKeeps ==
    ASSUME BuffersInv, NEW n \in Name, NEW new \in Name, NEW from \in Nat, NEW to \in Nat,
           SliceGet(n, from, to, new)
    PROVE  BuffersInv'
<1> DEFINE r == SliceBuffer(buf[n], from, to)
           part == SubSeq(said[n], from + 1, to)
<1>1. /\ n \in DOMAIN buf /\ to <= buf[n].size /\ from < to
      /\ Becomes(new, r, part, 0)
  BY DEF SliceGet, There
<1>2. Sound(buf[n]) /\ Keeps(buf[n], said[n])
  BY <1>1 DEF BuffersInv
<1>3. Sound(r) /\ Keeps(r, part) /\ Counts(r.end, r.size, 0)
  BY <1>1, <1>2, SliceHolds
<1> HIDE DEF r, part
<1> QED
  BY <1>1, <1>3, BecomesKeeps

LEMMA CreateFromMemoryKeeps ==
    ASSUME BuffersInv, Beyond = {}, NEW new \in Name, NEW bytes \in Seq(Byte),
           CreateFromMemory(new, bytes)
    PROVE  BuffersInv'
<1> DEFINE r == FromMemory(bytes)
<1>1. bytes # <<>> /\ Becomes(new, r, bytes, 0)
  BY DEF CreateFromMemory
<1>2. Sound(r) /\ Keeps(r, bytes) /\ Counts(r.end, r.size, 0)
  BY <1>1, FromMemoryHolds
<1> HIDE DEF r
<1> QED
  BY <1>1, <1>2, BecomesKeeps

LEMMA CreateKeeps == ASSUME BuffersInv, NEW n \in Name, Create(n) PROVE BuffersInv'
<1>1. Becomes(n, NewBuffer, <<>>, 0)
  BY DEF Create
<1> QED
  BY <1>1, NewHolds, BecomesKeeps

LEMMA SetAutoKeeps ==
    ASSUME BuffersInv, NEW n \in Name, NEW auto \in BOOLEAN, SetAuto(n, auto)
    PROVE  BuffersInv'
<1> DEFINE r == AutoSet(buf[n], auto)
<1>1. n \in DOMAIN buf /\ Becomes(n, r, said[n], carried[n])
  BY DEF SetAuto, There
<1>2. Sound(buf[n]) /\ Keeps(buf[n], said[n]) /\ Counts(buf[n].end, buf[n].size, carried[n])
  BY <1>1 DEF BuffersInv
<1>3. Sound(r) /\ Keeps(r, said[n]) /\ r.end = buf[n].end /\ r.size = buf[n].size
  BY <1>2, AutoHolds
<1> HIDE DEF r
<1> QED
  BY <1>1, <1>2, <1>3, BecomesKeeps

LEMMA WriteAtKeeps ==
    ASSUME BuffersInv, NEW n \in Name, NEW at \in Nat, NEW item \in Letter, WriteAt(n, at, item)
    PROVE  BuffersInv'
<1> DEFINE r == WriteItem(buf[n], at, item)
           written == [said[n] EXCEPT ![at + 1] = item]
<1>1. n \in DOMAIN buf /\ at < buf[n].size /\ Becomes(n, r, written, carried[n])
  BY DEF WriteAt, There
<1>2. Sound(buf[n]) /\ Keeps(buf[n], said[n]) /\ Counts(buf[n].end, buf[n].size, carried[n])
  BY <1>1 DEF BuffersInv
<1>3. Sound(r) /\ Keeps(r, written) /\ r.end = buf[n].end /\ r.size = buf[n].size
  BY <1>1, <1>2, WriteItemHolds DEF Byte
<1> HIDE DEF r, written
<1> QED
  BY <1>1, <1>2, <1>3, BecomesKeeps

LEMMA DisposeKeeps == ASSUME BuffersInv, NEW n \in Name, Dispose(n) PROVE BuffersInv'
<1>1. /\ buf' = [m \in DOMAIN buf \ {n} |-> buf[m]]
      /\ said' = [m \in DOMAIN said \ {n} |-> said[m]]
      /\ carried' = [m \in DOMAIN carried \ {n} |-> carried[m]]
  BY DEF Dispose
<1> QED
  BY <1>1 DEF BuffersInv

LEMMA BuffersInit == Init => BuffersInv
<1> SUFFICES ASSUME Init PROVE BuffersInv
  OBVIOUS
<1>1. DOMAIN buf = {} /\ DOMAIN said = {} /\ carried = [n \in {} |-> 0]
  BY DEF Init
<1> QED
  BY <1>1 DEF BuffersInv

LEMMA BuffersNext == ASSUME BuffersInv, Beyond = {}, [Next]_vars PROVE BuffersInv'
<1>1. CASE UNCHANGED vars
  <2>1. buf' = buf /\ said' = said /\ carried' = carried
    BY <1>1 DEF vars
  <2> QED
    BY <2>1 DEF BuffersInv
<1>2. ASSUME NEW n \in Name,
             \/ Create(n) \/ Dispose(n)
             \/ \E a \in BOOLEAN : SetAuto(n, a)
             \/ \E t \in Texts : CreateFromMemory(n, t)
             \/ \E l \in Lengths : SetSize(n, l) \/ \E x \in Letter : FillWith(n, l, x)
             \/ \E m \in Name : Copy(n, m)
             \/ n \in DOMAIN buf /\ \E p \in Positions(n) :
                    \/ \E l \in Lengths : Within(p, l) /\ EnsureRoom(n, p, l)
                    \/ \E t \in Texts : Within(p, Len(t)) /\ Write(n, p, t)
                    \/ \E x \in Letter : WriteAt(n, p, x)
                    \/ \E m \in Name, to \in Lengths : SliceGet(n, p, to, m)
      PROVE  BuffersInv'
  <2>1. Lengths \subseteq Nat
    BY BuffersAssumption DEF Lengths
  <2>2. ASSUME NEW t \in Texts PROVE t \in Seq(Byte)
    <3>1. PICK l \in Lengths, x \in Letter : t = [i \in 1 .. l |-> x]
      BY DEF Texts
    <3>2. t \in [1 .. l -> Byte]
      BY <3>1 DEF Byte
    <3> QED
      BY <2>1, <3>2, BytesOf
  <2>3. CASE Create(n) \/ Dispose(n) \/ \E a \in BOOLEAN : SetAuto(n, a)
    BY <2>3, CreateKeeps, DisposeKeeps, SetAutoKeeps
  <2>4. CASE \E t \in Texts : CreateFromMemory(n, t)
    BY <2>2, <2>4, CreateFromMemoryKeeps
  <2>5. CASE \E l \in Lengths : SetSize(n, l) \/ \E x \in Letter : FillWith(n, l, x)
    BY <2>1, <2>5, SetSizeKeeps, FillWithKeeps
  <2>6. CASE \E m \in Name : Copy(n, m)
    BY <2>6, CopyKeeps
  <2>7. ASSUME NEW p \in Positions(n), n \in DOMAIN buf,
               \/ \E l \in Lengths : Within(p, l) /\ EnsureRoom(n, p, l)
               \/ \E t \in Texts : Within(p, Len(t)) /\ Write(n, p, t)
               \/ \E x \in Letter : WriteAt(n, p, x)
               \/ \E m \in Name, to \in Lengths : SliceGet(n, p, to, m)
        PROVE  BuffersInv'
    <3>1. p \in Nat
      BY <2>1 DEF Positions
    <3> QED
      BY <2>1, <2>2, <2>7, <3>1, EnsureRoomKeeps, WriteKeeps, WriteAtKeeps, SliceGetKeeps
  <2> QED
    BY <1>2, <2>3, <2>4, <2>5, <2>6, <2>7
<1> QED
  BY <1>1, <1>2 DEF Next

-----------------------------------------------------------------------------
(* What holds of every sequence of calls the program makes.                *)

LEMMA BuffersStrong == Beyond = {} => (Spec => []BuffersInv)
<1> SUFFICES ASSUME Beyond = {} PROVE Spec => []BuffersInv
  OBVIOUS
<1>1. Init => BuffersInv
  BY BuffersInit
<1>2. BuffersInv /\ [Next]_vars => BuffersInv'
  BY BuffersNext
<1> QED
  BY <1>1, <1>2, PTL DEF Spec

\* The buffers and what their callers rely on have their types.
THEOREM BufferTypes == Beyond = {} => (Spec => []TypeOK)
<1> SUFFICES ASSUME Beyond = {} PROVE Spec => []TypeOK
  OBVIOUS
<1>1. BuffersInv => TypeOK
  <2> SUFFICES ASSUME BuffersInv PROVE TypeOK
    OBVIOUS
  <2>1. carried \in [DOMAIN buf -> Nat]
    BY DEF BuffersInv, Counts
  <2> QED
    BY <2>1 DEF BuffersInv, TypeOK, Sound, Keeps, Byte
<1> QED
  BY <1>1, BuffersStrong, PTL

\* No call reads or writes outside of a block, or ends the process, however many buffers
\* there are, however often their blocks are replaced (buffer.c:138, :215) and whatever the
\* size of a chunk, for callers who ask for room as MayAsk says (buffer.c:82).
THEOREM BuffersStayInBounds == Beyond = {} => (Spec => []StaysInBounds)
<1> SUFFICES ASSUME Beyond = {} PROVE Spec => []StaysInBounds
  OBVIOUS
<1>1. BuffersInv => StaysInBounds
  BY DEF BuffersInv, StaysInBounds, Running, Sound
<1> QED
  BY <1>1, BuffersStrong, PTL

\* What has been written is there through any number of growths, copies and slices, but for
\* the last bytes, which p_end may leave out when a block is replaced (buffer.c:117).
THEOREM BuffersKeepBytes == Beyond = {} => (Spec => []KeepsBytes)
<1> SUFFICES ASSUME Beyond = {} PROVE Spec => []KeepsBytes
  OBVIOUS
<1>1. ASSUME BuffersInv, NEW n \in DOMAIN buf
      PROVE  /\ buf[n].size = Len(said[n]) /\ buf[n].size <= Len(buf[n].mem)
             /\ \A i \in DOMAIN said[n] : said[n][i] # Junk => buf[n].mem[i] = said[n][i]
  <2>1. Sound(buf[n]) /\ Keeps(buf[n], said[n])
    BY <1>1 DEF BuffersInv
  <2>2. DOMAIN said[n] = 1 .. buf[n].size
    BY <2>1, LenProperties DEF Keeps
  <2> QED
    BY <2>1, <2>2 DEF Sound, Keeps
<1>2. BuffersInv => KeepsBytes
  BY <1>1 DEF KeepsBytes
<1> QED
  BY <1>2, BuffersStrong, PTL
=============================================================================
