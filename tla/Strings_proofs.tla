--------------------------- MODULE Strings_proofs ---------------------------
(***************************************************************************)
(* The strings of the program stay in their blocks and hold the texts that *)
(* the parser's model works on: any number of them, with texts of any      *)
(* length and any chunk of two bytes at least.                             *)
(***************************************************************************)
EXTENDS Strings, RequestBuilder_proofs

Byte == Token \cup {NUL, Junk}

\* A block that may be replaced: it is as large as p_end says, which is a chunk at least.
Sound(s) ==
    /\ IsBuffer(s, Token) /\ ~Failed(s) /\ s.auto
    /\ Chunk <= s.end /\ s.end <= Len(s.mem)
    /\ s.size \in 1 .. Len(s.mem)

\* A string between two calls.
Holds(s) == Sound(s) /\ s.mem[s.size] = NUL

\* A string that nothing has been written to: what comes next may be of any length.
Blank(s) == s.size = 1 /\ s.end = Chunk

StringsInv ==
    /\ DOMAIN str \subseteq Name /\ fresh \subseteq DOMAIN str
    /\ \A n \in DOMAIN str : Holds(str[n]) /\ (n \in fresh => Blank(str[n]))

-----------------------------------------------------------------------------
(* Chunks, and sequences of bytes.                                         *)

LEMMA ChunkIs == Chunk \in Nat \ {0}
BY RbAssumption

LEMMA ChunksSuffice ==
    ASSUME NEW n \in Nat \ {0}
    PROVE  /\ Chunks(n) * Chunk \in Nat
           /\ n <= Chunks(n) * Chunk /\ Chunks(n) * Chunk < n + Chunk
           /\ Chunk <= Chunks(n) * Chunk
<1> DEFINE a == n + Chunk - 1
           q == a \div Chunk
           r == a % Chunk
<1>1. Chunk \in Nat \ {0}
  BY ChunkIs
<1>2. a \in Nat
  BY <1>1
<1> HIDE DEF a
<1>3. q \in Nat /\ r \in 0 .. Chunk - 1 /\ a = Chunk * q + r
  BY <1>1, <1>2
<1> HIDE DEF q, r
<1>4. q * Chunk = Chunk * q /\ Chunk * q \in Nat
  BY <1>1, <1>3
<1> DEFINE m == Chunk * q
<1>5. n <= m /\ m < n + Chunk
  BY <1>1, <1>3, <1>4 DEF a
<1>6. q # 0
  BY <1>1, <1>3, <1>5
<1>7. Chunk <= Chunk * q
  BY <1>1, <1>3, <1>6
<1> QED
  BY <1>4, <1>5, <1>7 DEF Chunks, q, a

LEMMA OneChunk == Chunks(1) * Chunk = Chunk
<1>1. Chunk \in Nat \ {0}
  BY ChunkIs
<1>2. 1 + Chunk - 1 = Chunk
  BY <1>1
<1>3. Chunk \div Chunk = 1
  BY <1>1
<1>4. Chunks(1) = 1
  BY <1>2, <1>3 DEF Chunks
<1> QED
  BY <1>1, <1>4

\* The chunks for so many bytes are filled by them when the bytes are whole chunks.
LEMMA ChunksFilled ==
    ASSUME NEW n \in Nat \ {0}
    PROVE  Chunks(n) * Chunk = n <=> n % Chunk = 0
<1> DEFINE q == Chunks(n)
           d == n \div Chunk
           r == n % Chunk
<1>1. Chunk \in Nat \ {0}
  BY ChunkIs
<1>2. d \in Nat /\ r \in 0 .. Chunk - 1 /\ n = Chunk * d + r
  BY <1>1
<1>3. q \in Nat /\ q * Chunk = Chunk * q
  <2>1. n + Chunk - 1 \in Nat
    BY <1>1
  <2>2. q \in Nat
    BY <1>1, <2>1 DEF Chunks
  <2> HIDE DEF q
  <2> QED
    BY <1>1, <2>2
<1>4. Chunk * q \in Nat /\ n <= Chunk * q /\ Chunk * q < n + Chunk
  <2>1. q * Chunk \in Nat /\ n <= q * Chunk /\ q * Chunk < n + Chunk
    BY ChunksSuffice
  <2> HIDE DEF q
  <2> QED
    BY <1>3, <2>1
<1> HIDE DEF q, d, r
<1>5. ASSUME r = 0 PROVE Chunk * q = n
  <2>1. n = Chunk * d
    BY <1>1, <1>2, <1>5
  <2>2. Chunk * q < Chunk * (d + 1)
    BY <1>1, <1>2, <1>4, <2>1
  <2>3. q < d + 1
    BY <1>1, <1>2, <1>3, <2>2
  <2>4. ~(q < d)
    <3> SUFFICES ASSUME q < d PROVE FALSE
      OBVIOUS
    <3>1. Chunk * q < Chunk * d
      BY <1>1, <1>2, <1>3
    <3> QED
      BY <1>4, <2>1, <3>1
  <2>5. q = d
    BY <1>2, <1>3, <2>3, <2>4
  <2> QED
    BY <2>1, <2>5
<1>6. ASSUME Chunk * q = n PROVE r = 0
  <2>1. r = Chunk * (q - d)
    BY <1>1, <1>2, <1>3, <1>6
  <2>2. CASE q - d <= 0
    <3>1. Chunk * (q - d) <= 0
      BY <1>1, <1>2, <1>3, <2>2
    <3> QED
      BY <1>1, <1>2, <2>1, <3>1
  <2>3. CASE q - d >= 1
    <3>1. Chunk * (q - d) >= Chunk
      BY <1>1, <1>2, <1>3, <2>3
    <3> QED
      BY <1>1, <1>2, <2>1, <3>1
  <2> QED
    BY <1>2, <1>3, <2>2, <2>3
<1> QED
  BY <1>3, <1>5, <1>6 DEF q, r

\* A function on an interval from 1 is a sequence.
LEMMA BytesOf ==
    ASSUME NEW l \in Nat, NEW f \in [1 .. l -> Byte]
    PROVE  f \in Seq(Byte) /\ Len(f) = l
<1>1. f \in Seq(Byte)
  BY SeqDef
<1>2. DOMAIN f = 1 .. Len(f) /\ Len(f) \in Nat
  BY <1>1, LenProperties
<1> QED
  BY <1>1, <1>2

LEMMA PartOf ==
    ASSUME NEW s \in Seq(Byte), NEW from \in Nat, NEW to \in Nat, from <= to, to <= Len(s)
    PROVE  /\ SubSeq(s, from + 1, to) \in Seq(Byte) /\ Len(SubSeq(s, from + 1, to)) = to - from
           /\ \A i \in 1 .. to - from : SubSeq(s, from + 1, to)[i] = s[from + i]
<1>1. from + 1 \in Int /\ to \in Int /\ \A i \in from + 1 .. to : s[i] \in Byte
  BY ElementOfSeq, LenProperties
<1>2. /\ SubSeq(s, from + 1, to) \in Seq(Byte)
      /\ Len(SubSeq(s, from + 1, to)) = IF from + 1 <= to THEN to - (from + 1) + 1 ELSE 0
      /\ \A i \in 1 .. to - (from + 1) + 1 : SubSeq(s, from + 1, to)[i] = s[from + 1 + i - 1]
  BY <1>1, SubSeqProperties
<1>3. to - (from + 1) + 1 = to - from /\ \A i \in 1 .. to - from : from + 1 + i - 1 = from + i
  OBVIOUS
<1>4. Len(SubSeq(s, from + 1, to)) = to - from
  BY <1>2, <1>3
<1>5. \A i \in 1 .. to - from : SubSeq(s, from + 1, to)[i] = s[from + i]
  BY <1>2, <1>3
<1> QED
  BY <1>2, <1>4, <1>5

-----------------------------------------------------------------------------
(* What the operations of a buffer do to a sound one.                      *)

\* A buffer that may grow and that no operation has failed on.
Block(mem, end, size) ==
    [mem |-> mem, end |-> end, size |-> size, auto |-> TRUE, fault |-> "none"]

LEMMA Changed ==
    ASSUME NEW s, NEW to, s = Block(s.mem, s.end, s.size)
    PROVE  /\ [s EXCEPT !.size = to] = Block(s.mem, s.end, to)
           /\ [s EXCEPT !.mem = to] = Block(to, s.end, s.size)
           /\ [s EXCEPT !.end = to] = Block(s.mem, to, s.size)
           /\ AutoSet(s, TRUE) = s
<1>1. /\ s = [mem |-> s.mem, end |-> s.end, size |-> s.size, auto |-> s.auto, fault |-> "none"]
      /\ s.auto = TRUE
  BY DEF Block
<1> DEFINE auto == s.auto
<1>2. [s EXCEPT !.size = to] =
            [mem |-> s.mem, end |-> s.end, size |-> to, auto |-> auto, fault |-> "none"]
  BY <1>1
<1>3. [s EXCEPT !.mem = to] =
            [mem |-> to, end |-> s.end, size |-> s.size, auto |-> auto, fault |-> "none"]
  BY <1>1
<1>4. [s EXCEPT !.end = to] =
            [mem |-> s.mem, end |-> to, size |-> s.size, auto |-> auto, fault |-> "none"]
  BY <1>1
<1>5. [s EXCEPT !.auto = auto] = s
  BY <1>1
<1>6. auto = TRUE
  BY <1>1
<1> HIDE DEF auto
<1> QED
  BY <1>2, <1>3, <1>4, <1>5, <1>6, Zenon DEF Block, AutoSet

LEMMA SoundIs ==
    ASSUME NEW s, Sound(s)
    PROVE  /\ s = Block(s.mem, s.end, s.size) /\ s.auto = TRUE /\ ~Failed(s)
           /\ s.mem \in Seq(Byte) /\ Len(s.mem) \in Nat /\ s.mem # <<>>
           /\ \A i \in 1 .. Len(s.mem) : s.mem[i] \in Byte
           /\ s.end \in Nat \ {0} /\ Chunk <= s.end /\ s.end <= Len(s.mem)
           /\ s.size \in Nat \ {0} /\ s.size <= Len(s.mem)
<1>1. /\ s = Block(s.mem, s.end, s.size) /\ s.auto = TRUE /\ ~Failed(s)
      /\ s.mem \in Seq(Byte) /\ s.end \in Nat /\ s.size \in Nat
      /\ s.end = 0 <=> s.mem = <<>>
      /\ Chunk <= s.end /\ s.end <= Len(s.mem) /\ s.size \in 1 .. Len(s.mem)
  BY DEF Sound, IsBuffer, Failed, Byte, Block
<1>2. /\ \A i \in 1 .. Len(s.mem) : s.mem[i] \in Byte
      /\ Len(s.mem) \in Nat
  BY <1>1, ElementOfSeq, LenProperties
<1> QED
  BY <1>1, <1>2, ChunkIs

LEMMA SoundBlock ==
    ASSUME NEW mem \in Seq(Byte), NEW end \in Nat, NEW size \in Nat,
           Chunk <= end, end <= Len(mem), size # 0, size <= Len(mem)
    PROVE  Sound(Block(mem, end, size))
<1>1. mem # <<>> /\ end # 0
  BY ChunkIs, EmptySeq, LenProperties
<1>2. size \in 1 .. Len(mem)
  BY LenProperties
<1> QED
  BY <1>1, <1>2 DEF Sound, IsBuffer, Failed, Byte, Block

LEMMA RoomMeans ==
    ASSUME NEW s, Sound(s), NEW position \in Nat, NEW n \in Nat, position <= s.size
    PROVE  /\ HasRoom(s, position, n) <=> position + n <= s.size
           /\ Room(s, position) = s.size - position
<1>1. s.end \in Nat \ {0} /\ s.size \in Nat
  BY SoundIs
<1>2. Room(s, position) = s.size - position
  BY <1>1 DEF Room
<1> QED
  BY <1>1, <1>2 DEF HasRoom

LEMMA EnsureRoom ==
    ASSUME NEW s, Sound(s), NEW position \in Nat, NEW n \in Nat, position + n <= s.size
    PROVE  Ensure(s, position, n) = s
<1>1. s.size \in Nat /\ s.auto
  BY SoundIs
<1>2. position <= s.size
  BY <1>1
<1>3. HasRoom(s, position, n)
  BY <1>2, RoomMeans
<1> QED
  BY <1>1, <1>3 DEF Ensure

\* A block that grows keeps what it holds up to p_end, and p_end is what it has grown by.
LEMMA EnsureGrows ==
    ASSUME NEW s, Sound(s), NEW position \in Nat, NEW n \in Nat,
           position <= s.size, position + n > s.size, s.size <= s.end + Chunk
    PROVE  LET e == Ensure(s, position, n)
               more == Chunks(position + n - s.size) * Chunk
           IN  /\ Sound(e) /\ e.size = s.size /\ e.end = more
               /\ more \in Nat /\ Chunk <= more /\ position + n - s.size <= more
               /\ Len(e.mem) = s.end + more
               /\ \A i \in 1 .. s.end + more :
                    e.mem[i] = IF i <= s.end THEN s.mem[i] ELSE NUL
<1> DEFINE k == Chunks(position + n - s.size)
           more == k * Chunk
           length == s.end + more
           mem == Cleared(s.mem, s.end, length)
           e == Ensure(s, position, n)
<1>1. /\ s = Block(s.mem, s.end, s.size) /\ s.auto = TRUE
      /\ s.mem \in Seq(Byte) /\ Len(s.mem) \in Nat /\ s.mem # <<>>
      /\ \A i \in 1 .. Len(s.mem) : s.mem[i] \in Byte
      /\ s.end \in Nat \ {0} /\ Chunk <= s.end /\ s.end <= Len(s.mem)
      /\ s.size \in Nat \ {0} /\ s.size <= Len(s.mem)
  BY SoundIs
<1>2. n - Room(s, position) = position + n - s.size /\ ~HasRoom(s, position, n)
  <2>1. Room(s, position) = s.size - position /\ (HasRoom(s, position, n) <=> position + n <= s.size)
    BY RoomMeans
  <2> QED
    BY <1>1, <2>1
<1>3. position + n - s.size \in Nat \ {0}
  BY <1>1
<1>4. more \in Nat /\ Chunk <= more /\ position + n - s.size <= more
  BY <1>3, ChunksSuffice
<1>5. e = Grown(s, k)
  BY <1>1, <1>2 DEF Ensure
<1> HIDE DEF e, k
<1> DEFINE c == [s EXCEPT !.mem = mem]
           d == [c EXCEPT !.end = more]
<1>6. Grown(s, k) = d
  BY <1>1 DEF Grown, NewEnd
<1> HIDE DEF more
<1>7. length \in Nat /\ s.end <= length /\ more <= length
  BY <1>1, <1>4
<1> HIDE DEF length
<1>8. /\ mem \in [1 .. length -> Byte]
      /\ \A i \in 1 .. length : mem[i] = IF i <= s.end THEN s.mem[i] ELSE NUL
  BY <1>1, <1>7 DEF Cleared, Byte
<1> HIDE DEF mem
<1>9. mem \in Seq(Byte) /\ Len(mem) = length
  BY <1>7, <1>8, BytesOf
<1>10. d = Block(mem, more, s.size)
  <2>1. c = Block(mem, s.end, s.size)
    BY <1>1, Changed
  <2> HIDE DEF c
  <2>2. c.mem = mem /\ c.end = s.end /\ c.size = s.size
    BY <2>1 DEF Block
  <2>3. c = Block(c.mem, c.end, c.size)
    BY <2>1, <2>2
  <2>4. [c EXCEPT !.end = more] = Block(c.mem, more, c.size)
    BY <2>3, Changed
  <2> QED
    BY <2>2, <2>4
<1> HIDE DEF d
<1>11. s.size <= length
  BY <1>1, <1>4, ChunkIs DEF length
<1>12. Sound(Block(mem, more, s.size))
  BY <1>1, <1>4, <1>7, <1>9, <1>11, SoundBlock
<1>13. Sound(e) /\ e.size = s.size /\ e.end = more /\ e.mem = mem
  <2> DEFINE b == Block(mem, more, s.size)
  <2>1. b.mem = mem /\ b.end = more /\ b.size = s.size
    BY DEF Block
  <2>2. e = b /\ Sound(b)
    BY <1>5, <1>6, <1>10, <1>12
  <2> HIDE DEF b
  <2> QED
    BY <2>1, <2>2
<1> QED
  BY <1>4, <1>8, <1>9, <1>13 DEF e, length, more, k

LEMMA Resized ==
    ASSUME NEW s, Sound(s), NEW size \in Nat \ {0}, size <= Len(s.mem)
    PROVE  LET r == [s EXCEPT !.size = size]
           IN  Sound(r) /\ r.size = size /\ r.mem = s.mem /\ r.end = s.end
<1> DEFINE c == Block(s.mem, s.end, size)
<1>1. /\ s = Block(s.mem, s.end, s.size) /\ s.mem \in Seq(Byte) /\ s.end \in Nat
      /\ Chunk <= s.end /\ s.end <= Len(s.mem)
  BY SoundIs
<1>2. [s EXCEPT !.size = size] = c
  BY <1>1, Changed
<1>3. Sound(c)
  BY <1>1, SoundBlock
<1>4. c.mem = s.mem /\ c.end = s.end /\ c.size = size
  BY DEF Block
<1> HIDE DEF c
<1> QED
  BY <1>2, <1>3, <1>4

LEMMA Rewritten ==
    ASSUME NEW s, Sound(s), NEW bytes \in Seq(Byte), Len(bytes) = Len(s.mem)
    PROVE  LET r == [s EXCEPT !.mem = bytes]
           IN  Sound(r) /\ r.size = s.size /\ r.mem = bytes /\ r.end = s.end
<1> DEFINE c == Block(bytes, s.end, s.size)
<1>1. /\ s = Block(s.mem, s.end, s.size) /\ s.end \in Nat /\ s.size \in Nat \ {0}
      /\ Chunk <= s.end /\ s.end <= Len(s.mem) /\ s.size <= Len(s.mem)
  BY SoundIs
<1>2. [s EXCEPT !.mem = bytes] = c
  BY <1>1, Changed
<1>3. Sound(c)
  BY <1>1, SoundBlock
<1>4. c.mem = bytes /\ c.end = s.end /\ c.size = s.size
  BY DEF Block
<1> HIDE DEF c
<1> QED
  BY <1>2, <1>3, <1>4

LEMMA PutHolds ==
    ASSUME NEW s, Sound(s), NEW from \in Nat, NEW bytes \in Seq(Byte),
           from + Len(bytes) <= Len(s.mem)
    PROVE  LET p == Put(s, from, bytes)
           IN  /\ Sound(p) /\ p.size = s.size /\ p.end = s.end /\ Len(p.mem) = Len(s.mem)
               /\ \A i \in 1 .. Len(s.mem) :
                    p.mem[i] = IF from < i /\ i <= from + Len(bytes) THEN bytes[i - from]
                               ELSE s.mem[i]
<1> DEFINE p == Put(s, from, bytes)
           mem == Overlaid(s.mem, from, bytes)
<1>1. /\ ~Failed(s) /\ Len(s.mem) \in Nat
      /\ \A i \in 1 .. Len(s.mem) : s.mem[i] \in Byte
  BY SoundIs
<1>2. Len(bytes) \in Nat /\ \A i \in 1 .. Len(bytes) : bytes[i] \in Byte
  BY ElementOfSeq, LenProperties
<1>3. p = [s EXCEPT !.mem = mem]
  BY <1>1, <1>2 DEF Put
<1>4. /\ mem \in [1 .. Len(s.mem) -> Byte]
      /\ \A i \in 1 .. Len(s.mem) :
            mem[i] = IF from < i /\ i <= from + Len(bytes) THEN bytes[i - from] ELSE s.mem[i]
  BY <1>1, <1>2 DEF Overlaid
<1> HIDE DEF mem, p
<1>5. mem \in Seq(Byte) /\ Len(mem) = Len(s.mem)
  BY <1>1, <1>4, BytesOf
<1>6. Sound(p) /\ p.size = s.size /\ p.mem = mem /\ p.end = s.end
  BY <1>3, <1>5, Rewritten
<1> QED
  BY <1>4, <1>5, <1>6 DEF p

\* What is written is there, and so is what comes before it.
LEMMA WriteHolds ==
    ASSUME NEW s, Sound(s), NEW from \in Nat, NEW bytes \in Seq(Byte), bytes # <<>>,
           from < s.size, s.size <= s.end \/ from + Len(bytes) <= s.end
    PROVE  LET w == WriteBytes(s, from, bytes)
           IN  /\ Sound(w) /\ w.size = from + Len(bytes)
               /\ \A i \in 1 .. from : w.mem[i] = s.mem[i]
               /\ \A i \in 1 .. Len(bytes) : w.mem[from + i] = bytes[i]
               /\ w.end = IF from + Len(bytes) <= s.size THEN s.end
                          ELSE Chunks(from + Len(bytes) - s.size) * Chunk
<1> DEFINE l == Len(bytes)
           e == Ensure(s, from, l)
           put == Put(e, from, bytes)
           w == [put EXCEPT !.size = from + l]
<1>1. /\ s.auto /\ Len(s.mem) \in Nat /\ s.end \in Nat /\ s.size \in Nat
      /\ s.size <= Len(s.mem) /\ s.end <= Len(s.mem)
  BY SoundIs
<1>2. l \in Nat \ {0} /\ from <= s.size
  BY <1>1, EmptySeq, LenProperties
<1> HIDE DEF l
<1>3. /\ Sound(e) /\ from + l <= Len(e.mem)
      /\ \A i \in 1 .. from : e.mem[i] = s.mem[i]
      /\ e.end = IF from + l <= s.size THEN s.end ELSE Chunks(from + l - s.size) * Chunk
  <2>1. CASE from + l <= s.size
    <3>1. e = s
      BY <1>2, <2>1, EnsureRoom
    <3> HIDE DEF e
    <3> QED
      BY <1>1, <1>2, <2>1, <3>1
  <2>2. CASE ~(from + l <= s.size)
    <3> DEFINE more == Chunks(from + l - s.size) * Chunk
    <3>1. from + l > s.size /\ s.size <= s.end + Chunk
      BY <1>1, <1>2, <2>2, ChunkIs DEF l
    <3>2. /\ Sound(e) /\ e.end = more
          /\ more \in Nat /\ from + l - s.size <= more
          /\ Len(e.mem) = s.end + more
          /\ \A i \in 1 .. s.end + more : e.mem[i] = IF i <= s.end THEN s.mem[i] ELSE NUL
      BY <1>2, <3>1, EnsureGrows
    <3> HIDE DEF e, more
    <3>3. from <= s.end /\ from + l <= s.end + more
      BY <1>1, <1>2, <3>1, <3>2 DEF l
    <3>4. \A i \in 1 .. from : e.mem[i] = s.mem[i]
      <4> SUFFICES ASSUME NEW i \in 1 .. from PROVE e.mem[i] = s.mem[i]
        OBVIOUS
      <4>1. i \in 1 .. s.end + more /\ i <= s.end
        BY <1>1, <3>2, <3>3
      <4> QED
        BY <3>2, <4>1
    <3> QED
      BY <2>2, <3>2, <3>3, <3>4 DEF more
  <2> QED
    BY <2>1, <2>2
<1>4. WriteBytes(s, from, bytes) = IF Failed(put) THEN put ELSE w
  BY <1>1 DEF WriteBytes, Taken, l
<1> HIDE DEF e
<1>5. /\ Sound(put) /\ put.end = e.end /\ Len(put.mem) = Len(e.mem)
      /\ \A i \in 1 .. Len(e.mem) :
            put.mem[i] = IF from < i /\ i <= from + l THEN bytes[i - from] ELSE e.mem[i]
  BY <1>3, PutHolds DEF l
<1>6. Len(e.mem) \in Nat /\ ~Failed(put)
  BY <1>3, <1>5, SoundIs
<1> HIDE DEF put
<1>7. Sound(w) /\ w.size = from + l /\ w.mem = put.mem /\ w.end = put.end
  <2>1. from + l \in Nat \ {0} /\ from + l <= Len(put.mem)
    BY <1>2, <1>3, <1>5
  <2> QED
    BY <1>5, <2>1, Resized
<1>8. WriteBytes(s, from, bytes) = w
  BY <1>4, <1>6
<1> HIDE DEF w
<1>9. \A i \in 1 .. from : w.mem[i] = s.mem[i]
  BY <1>2, <1>3, <1>5, <1>6, <1>7
<1>10. \A i \in 1 .. l : w.mem[from + i] = bytes[i]
  <2> SUFFICES ASSUME NEW i \in 1 .. l PROVE w.mem[from + i] = bytes[i]
    OBVIOUS
  <2>1. /\ from + i \in 1 .. Len(e.mem) /\ from < from + i /\ from + i <= from + l
        /\ (from + i) - from = i
    BY <1>2, <1>3, <1>6
  <2> QED
    BY <1>5, <1>7, <2>1
<1> QED
  BY <1>3, <1>5, <1>7, <1>8, <1>9, <1>10 DEF l

\* Setting the size to the bytes there are puts the NUL behind them, and clears the last
\* of them where p_end stops short of it.
LEMMA SealHolds ==
    ASSUME NEW w, Sound(w), w.size <= w.end + 1, Chunk > 1
    PROVE  LET r == StringSizeSet(w, w.size)
           IN  /\ Holds(r) /\ r.size = w.size + 1
               /\ \A i \in 1 .. w.size : r.mem[i] = IF i <= w.end THEN w.mem[i] ELSE NUL
<1> DEFINE l == w.size
           e == Ensure(w, 0, l + 1)
           d == [e EXCEPT !.size = l + 1]
           nul == <<NUL>>
           r == Put(d, l, nul)
<1>1. /\ l \in Nat \ {0} /\ w.end \in Nat \ {0} /\ Chunk <= w.end /\ ~Failed(w)
      /\ Chunk \in Nat
  BY SoundIs, ChunkIs
<1>2. Chunks(0 + (l + 1) - l) * Chunk = Chunk
  <2>1. 0 + (l + 1) - l = 1
    BY <1>1
  <2> QED
    BY <2>1, OneChunk
<1> HIDE DEF l
<1>3. /\ Sound(e) /\ e.size = l /\ Len(e.mem) = w.end + Chunk
      /\ \A i \in 1 .. w.end + Chunk : e.mem[i] = IF i <= w.end THEN w.mem[i] ELSE NUL
  <2>1. 0 \in Nat /\ l + 1 \in Nat /\ 0 <= w.size /\ 0 + (l + 1) > w.size /\ w.size <= w.end + Chunk
    BY <1>1 DEF l
  <2> QED
    BY <1>2, <2>1, EnsureGrows DEF l
<1> HIDE DEF e
<1>4. l + 1 <= w.end + Chunk
  BY <1>1 DEF l
<1>5. Sound(d) /\ d.size = l + 1 /\ d.mem = e.mem
  <2>1. l + 1 \in Nat \ {0} /\ l + 1 <= Len(e.mem)
    BY <1>1, <1>3, <1>4
  <2> QED
    BY <1>3, <2>1, Resized
<1>6. SizeSet(w, l + 1) = d /\ ~Failed(d)
  BY <1>3, <1>5, SoundIs DEF SizeSet, e
<1> HIDE DEF d
<1>7. nul \in Seq(Byte) /\ Len(nul) = 1 /\ nul[1] = NUL
  BY DEF Byte
<1>6b. SizeSet(w, l + 1) = d => StringSizeSet(w, l) = IF l >= d.size THEN Fault(d, "abort") ELSE r
  BY <1>1, <1>6 DEF StringSizeSet, WriteItem
<1> HIDE DEF nul
<1>8. /\ Sound(r) /\ r.size = l + 1 /\ Len(r.mem) = w.end + Chunk
      /\ \A i \in 1 .. w.end + Chunk :
            r.mem[i] = IF l < i /\ i <= l + 1 THEN nul[i - l] ELSE d.mem[i]
  <2>1. l + Len(nul) <= Len(d.mem)
    BY <1>3, <1>4, <1>5, <1>7
  <2> QED
    <3>1. /\ Sound(r) /\ r.size = d.size /\ Len(r.mem) = Len(d.mem)
          /\ \A i \in 1 .. Len(d.mem) :
                r.mem[i] = IF l < i /\ i <= l + Len(nul) THEN nul[i - l] ELSE d.mem[i]
      BY <1>1, <1>5, <1>7, <2>1, PutHolds
    <3> HIDE DEF r
    <3> QED
      BY <1>3, <1>5, <1>7, <3>1
<1>9. StringSizeSet(w, l) = r
  <2>1. ~(l >= d.size)
    BY <1>1, <1>5
  <2> QED
    BY <1>6, <1>6b, <2>1
<1> HIDE DEF r
<1>10. r.mem[l + 1] = NUL
  <2>1. l + 1 \in 1 .. w.end + Chunk /\ l < l + 1 /\ l + 1 <= l + 1 /\ (l + 1) - l = 1
    BY <1>1, <1>4
  <2> QED
    BY <1>7, <1>8, <2>1
<1>11. \A i \in 1 .. l : r.mem[i] = IF i <= w.end THEN w.mem[i] ELSE NUL
  <2> SUFFICES ASSUME NEW i \in 1 .. l PROVE r.mem[i] = IF i <= w.end THEN w.mem[i] ELSE NUL
    OBVIOUS
  <2>1. i \in 1 .. w.end + Chunk /\ ~(l < i)
    BY <1>1, <1>4
  <2> QED
    BY <1>3, <1>5, <1>8, <2>1
<1> QED
  BY <1>8, <1>9, <1>10, <1>11 DEF Holds, l

-----------------------------------------------------------------------------
(* What the operations of a string do.                                     *)

LEMMA HeldIs ==
    ASSUME NEW s, Sound(s)
    PROVE  /\ Held(s) \in Seq(Byte) /\ Len(Held(s)) = s.size - 1
           /\ \A i \in 1 .. s.size - 1 : Held(s)[i] = s.mem[i]
<1>1. /\ s.mem \in Seq(Byte) /\ s.size \in Nat \ {0} /\ s.size <= Len(s.mem)
  BY SoundIs
<1> DEFINE mem == s.mem
           l == s.size - 1
<1>2. l \in Nat /\ l <= Len(mem) /\ 0 <= l
  BY <1>1, LenProperties
<1>3. mem \in Seq(Byte)
  BY <1>1
<1>4. Held(s) = SubSeq(mem, 0 + 1, l)
  BY DEF Held
<1> HIDE DEF mem, l
<1>5. /\ SubSeq(mem, 0 + 1, l) \in Seq(Byte) /\ Len(SubSeq(mem, 0 + 1, l)) = l - 0
      /\ \A i \in 1 .. l - 0 : SubSeq(mem, 0 + 1, l)[i] = mem[0 + i]
  BY <1>2, <1>3, PartOf
<1>6. l - 0 = l /\ \A i \in 1 .. l : 0 + i = i
  BY <1>2
<1> QED
  BY <1>4, <1>5, <1>6 DEF mem, l

LEMMA StringWriteHolds ==
    ASSUME NEW s, Sound(s), NEW from \in Nat, NEW bytes \in Seq(Byte), bytes # <<>>,
           from < s.size, s.size <= s.end \/ from + Len(bytes) <= s.end,
           from + Len(bytes) <= WriteBytes(s, from, bytes).end + 1, Chunk > 1
    PROVE  LET r == StringWrite(s, from, bytes)
               end == WriteBytes(s, from, bytes).end
           IN  /\ Holds(r) /\ r.size = from + Len(bytes) + 1
               /\ \A i \in 1 .. from + Len(bytes) :
                    r.mem[i] = IF i > end THEN NUL
                               ELSE IF i <= from THEN s.mem[i] ELSE bytes[i - from]
<1> DEFINE w == WriteBytes(s, from, bytes)
           l == Len(bytes)
           r == StringSizeSet(w, from + l)
<1>1. /\ Sound(w) /\ w.size = from + l
      /\ \A i \in 1 .. from : w.mem[i] = s.mem[i]
      /\ \A i \in 1 .. l : w.mem[from + i] = bytes[i]
  BY WriteHolds
<1>2. w.size <= w.end + 1 /\ StringWrite(s, from, bytes) = r
  BY <1>1 DEF StringWrite
<1> HIDE DEF w
<1>3. /\ Holds(StringSizeSet(w, w.size)) /\ StringSizeSet(w, w.size).size = w.size + 1
      /\ \A i \in 1 .. w.size :
            StringSizeSet(w, w.size).mem[i] = IF i <= w.end THEN w.mem[i] ELSE NUL
  BY <1>1, <1>2, SealHolds
<1>4. /\ Holds(r) /\ r.size = from + l + 1
      /\ \A i \in 1 .. from + l : r.mem[i] = IF i <= w.end THEN w.mem[i] ELSE NUL
  BY <1>1, <1>3
<1> HIDE DEF r
<1>5. l \in Nat /\ w.end \in Nat
  BY <1>1, SoundIs, LenProperties
<1> HIDE DEF l
<1>6. ASSUME NEW i \in 1 .. from + l
      PROVE  r.mem[i] = IF i > w.end THEN NUL ELSE IF i <= from THEN s.mem[i] ELSE bytes[i - from]
  <2>1. CASE i <= from
    BY <1>1, <1>4, <1>5, <1>6, <2>1
  <2>2. CASE i > from
    <3>1. i - from \in 1 .. l /\ from + (i - from) = i
      BY <1>5, <1>6, <2>2
    <3>2. w.mem[i] = bytes[i - from]
      BY <1>1, <3>1
    <3> QED
      BY <1>4, <1>5, <1>6, <2>2, <3>2
  <2> QED
    BY <1>6, <2>1, <2>2
<1> QED
  BY <1>2, <1>4, <1>6 DEF w, l

\* What the writes of a string that is empty, or of less than a chunk, may rely on: the
\* last byte is behind p_end exactly where the model of the parser says that it is lost.
LEMMA EndOfWrite ==
    ASSUME NEW s, Sound(s), NEW t \in Seq(Byte), t # <<>>, Blank(s) \/ Len(t) <= Chunk, Chunk > 1
    PROVE  LET end == WriteBytes(s, 0, t).end
           IN  /\ s.size <= s.end \/ 0 + Len(t) <= s.end
               /\ end \in Nat
               /\ IF OnBoundary(t) THEN end + 1 = Len(t) ELSE Len(t) <= end
<1> DEFINE w == WriteBytes(s, 0, t)
           l == Len(t)
<1>1. /\ Chunk \in Nat /\ s.end \in Nat /\ Chunk <= s.end /\ s.size \in Nat /\ 0 < s.size
      /\ l \in Nat \ {0}
  <2>1. l \in Nat /\ l # 0
    BY EmptySeq, LenProperties
  <2>2. s.end \in Nat /\ Chunk <= s.end /\ s.size \in Nat \ {0}
    BY SoundIs
  <2>3. Chunk \in Nat
    BY ChunkIs
  <2> HIDE DEF l, w
  <2> QED
    BY <2>1, <2>2, <2>3
<1>2. s.size <= s.end \/ 0 + Len(t) <= s.end
  BY <1>1 DEF Blank
<1>3. Sound(w) /\ w.end = IF 0 + l <= s.size THEN s.end ELSE Chunks(0 + l - s.size) * Chunk
  BY <1>1, <1>2, WriteHolds
<1> HIDE DEF w
<1>4. w.end \in Nat /\ Chunk <= w.end
  BY <1>3, SoundIs
<1>5. OnBoundary(t) <=> l > 1 /\ (l - 1) % Chunk = 0
  BY DEF OnBoundary
<1> HIDE DEF l
<1>6. CASE l <= Chunk
  <2>1. ASSUME l > 1 PROVE (l - 1) % Chunk = l - 1
    BY <1>1, <1>6, <2>1
  <2> QED
    BY <1>1, <1>2, <1>4, <1>5, <1>6, <2>1 DEF w, l
<1>7. CASE l > Chunk
  <2>1. Blank(s) /\ l > 1
    BY <1>1, <1>7 DEF l
  <2>2. w.end = Chunks(l - 1) * Chunk
    <3>1. ~(0 + l <= s.size) /\ 0 + l - s.size = l - 1
      BY <1>1, <2>1 DEF Blank
    <3> QED
      BY <1>3, <3>1
  <2>3. l - 1 \in Nat \ {0}
    BY <1>1, <2>1
  <2>4. l - 1 <= w.end /\ (w.end = l - 1 <=> (l - 1) % Chunk = 0)
    BY <2>2, <2>3, ChunksSuffice, ChunksFilled
  <2> QED
    BY <1>1, <1>2, <1>4, <1>5, <2>1, <2>4 DEF w, l
<1> QED
  BY <1>1, <1>6, <1>7

\* A text that is set is kept as the model of the parser says.
LEMMA SetHolds ==
    ASSUME NEW s, Sound(s), NEW t \in Seq(Byte), t # <<>>, Blank(s) \/ Len(t) <= Chunk, Chunk > 1
    PROVE  Holds(StringSet(s, t)) /\ Held(StringSet(s, t)) = Kept(t)
<1> DEFINE r == StringWrite(s, 0, t)
           end == WriteBytes(s, 0, t).end
           l == Len(t)
<1>1. /\ s.size <= s.end \/ 0 + l <= s.end
      /\ end \in Nat
      /\ IF OnBoundary(t) THEN end + 1 = l ELSE l <= end
      /\ 0 < s.size /\ l \in Nat \ {0} /\ 0 + l = l
  <2>1. l \in Nat /\ l # 0
    BY EmptySeq, LenProperties
  <2>2. s.size \in Nat \ {0}
    BY SoundIs
  <2>3. /\ s.size <= s.end \/ 0 + l <= s.end
        /\ end \in Nat
        /\ IF OnBoundary(t) THEN end + 1 = l ELSE l <= end
    BY EndOfWrite
  <2> HIDE DEF l, end
  <2> QED
    BY <2>1, <2>2, <2>3
<1>2. 0 + l <= end + 1
  BY <1>1
<1>3. /\ Holds(r) /\ r.size = 0 + l + 1
      /\ \A i \in 1 .. 0 + l :
            r.mem[i] = IF i > end THEN NUL ELSE IF i <= 0 THEN s.mem[i] ELSE t[i - 0]
  BY <1>1, <1>2, StringWriteHolds
<1>4. StringSet(s, t) = r
  BY DEF StringSet
<1> HIDE DEF r, end
<1>5. \A i \in 1 .. l : r.mem[i] = IF i > end THEN NUL ELSE t[i]
  BY <1>1, <1>3
<1>6. /\ Held(r) \in Seq(Byte) /\ Len(Held(r)) = l
      /\ \A i \in 1 .. l : Held(r)[i] = r.mem[i]
  <2>1. Held(r) \in Seq(Byte) /\ Len(Held(r)) = r.size - 1 /\ r.size - 1 = l
        /\ \A i \in 1 .. r.size - 1 : Held(r)[i] = r.mem[i]
    <3>1. Sound(r)
      BY <1>3 DEF Holds
    <3>2. r.size - 1 = l
      <4> HIDE DEF l
      <4> QED
        BY <1>1, <1>3
    <3> QED
      BY <3>1, <3>2, HeldIs
  <2> QED
    BY <2>1
<1>7. /\ Kept(t) \in Seq(Byte) /\ Len(Kept(t)) = l
      /\ \A i \in 1 .. l : Kept(t)[i] = IF i > end THEN NUL ELSE t[i]
  <2>1. CASE OnBoundary(t)
    <3>1. Kept(t) = [t EXCEPT ![l] = NUL] /\ NUL \in Byte /\ l \in 1 .. Len(t)
      BY <1>1, <2>1 DEF Kept, Byte
    <3>2. /\ Kept(t) \in Seq(Byte) /\ Len(Kept(t)) = l
          /\ \A i \in 1 .. l : Kept(t)[i] = IF i = l THEN NUL ELSE t[i]
      BY <3>1, ExceptSeq
    <3>3. end + 1 = l
      BY <1>1, <2>1
    <3>4. \A i \in 1 .. l : i = l <=> i > end
      <4> HIDE DEF l
      <4> QED
        BY <1>1, <3>3
    <3> QED
      BY <3>2, <3>4
  <2>2. CASE ~OnBoundary(t)
    BY <1>1, <2>2 DEF Kept
  <2> QED
    BY <2>1, <2>2
<1>8. Held(r) = Kept(t)
  BY <1>5, <1>6, <1>7, SeqEqual
<1> QED
  BY <1>3, <1>4, <1>8

\* A text that is amended keeps what is before the bytes written, and ends with them.
LEMMA AmendHolds ==
    ASSUME NEW s, Holds(s), NEW from \in Nat, NEW t \in Seq(Byte), t # <<>>,
           from <= Len(Held(s)), from + Len(t) <= Chunk, Chunk > 1
    PROVE  /\ Holds(StringWrite(s, from, t))
           /\ Held(StringWrite(s, from, t)) = SubSeq(Held(s), 1, from) \o t
<1> DEFINE r == StringWrite(s, from, t)
           end == WriteBytes(s, from, t).end
           l == Len(t)
           kept == SubSeq(Held(s), 0 + 1, from)
<1>1. /\ Sound(s) /\ s.size \in Nat \ {0} /\ s.end \in Nat /\ Chunk <= s.end /\ Chunk \in Nat
      /\ Held(s) \in Seq(Byte) /\ Len(Held(s)) = s.size - 1
      /\ \A i \in 1 .. s.size - 1 : Held(s)[i] = s.mem[i]
      /\ l \in Nat
  BY SoundIs, HeldIs, ChunkIs, LenProperties DEF Holds
<1>2. from < s.size /\ from + l <= s.end
  BY <1>1
<1>3. end \in Nat /\ from + l <= end
  <2>1. Sound(WriteBytes(s, from, t))
    BY <1>1, <1>2, WriteHolds
  <2>2. end \in Nat /\ Chunk <= end
    BY <2>1, SoundIs
  <2> QED
    BY <1>1, <2>2
<1>4. from + l <= end + 1
  BY <1>1, <1>3
<1>5. /\ Holds(r) /\ r.size = from + l + 1
      /\ \A i \in 1 .. from + l :
            r.mem[i] = IF i > end THEN NUL ELSE IF i <= from THEN s.mem[i] ELSE t[i - from]
  BY <1>1, <1>2, <1>4, StringWriteHolds
<1> HIDE DEF r, end, l
<1>6. /\ kept \in Seq(Byte) /\ Len(kept) = from - 0
      /\ \A i \in 1 .. from - 0 : kept[i] = Held(s)[0 + i]
  <2>1. 0 \in Nat /\ 0 <= from
    OBVIOUS
  <2> QED
    BY <1>1, <2>1, PartOf
<1>7. from - 0 = from /\ \A i \in 1 .. from : 0 + i = i
  OBVIOUS
<1>8. kept = SubSeq(Held(s), 1, from)
  OBVIOUS
<1> HIDE DEF kept
<1>9. Len(kept) = from /\ \A i \in 1 .. from : kept[i] = s.mem[i]
  <2>1. \A i \in 1 .. from : kept[i] = Held(s)[i]
    BY <1>6, <1>7
  <2>2. \A i \in 1 .. from : i \in 1 .. s.size - 1
    BY <1>1, <1>2
  <2> QED
    BY <1>1, <1>6, <1>7, <2>1, <2>2
<1>10. /\ Held(r) \in Seq(Byte) /\ Len(Held(r)) = from + l
       /\ \A i \in 1 .. from + l : Held(r)[i] = r.mem[i]
  <2>1. Held(r) \in Seq(Byte) /\ Len(Held(r)) = r.size - 1 /\ r.size - 1 = from + l
        /\ \A i \in 1 .. r.size - 1 : Held(r)[i] = r.mem[i]
    BY <1>1, <1>5, HeldIs DEF Holds
  <2> QED
    BY <2>1
<1>11. /\ kept \o t \in Seq(Byte) /\ Len(kept \o t) = from + l
       /\ \A i \in 1 .. from + l : (kept \o t)[i] = IF i <= from THEN kept[i] ELSE t[i - from]
  BY <1>6, <1>9, ConcatProperties DEF l
<1>12. ASSUME NEW i \in 1 .. from + l PROVE Held(r)[i] = (kept \o t)[i]
  <2>1. r.mem[i] = IF i <= from THEN s.mem[i] ELSE t[i - from]
    BY <1>1, <1>3, <1>5, <1>12
  <2>2. i <= from => i \in 1 .. from
    BY <1>12
  <2> QED
    BY <1>9, <1>10, <1>11, <1>12, <2>1, <2>2
<1>13. Held(r) = kept \o t
  BY <1>10, <1>11, <1>12, SeqEqual
<1> QED
  BY <1>5, <1>8, <1>13 DEF r

-----------------------------------------------------------------------------
(* New strings, clones, copies, slices and fillings.                       *)

\* A buffer that no operation has failed on, whether it may grow or not.
Buf(mem, end, size, auto) ==
    [mem |-> mem, end |-> end, size |-> size, auto |-> auto, fault |-> "none"]

\* The changes of a field.
WithMem(b, mem) == [b EXCEPT !.mem = mem]
WithEnd(b, end) == [b EXCEPT !.end = end]
WithSize(b, size) == [b EXCEPT !.size = size]

LEMMA BufIs ==
    ASSUME NEW mem, NEW end, NEW size, NEW auto, NEW b, b = Buf(mem, end, size, auto)
    PROVE  /\ b.mem = mem /\ b.end = end /\ b.size = size
           /\ b = Buf(b.mem, b.end, b.size, b.auto)
           /\ b.fault = "none"
           /\ b.auto = auto
BY DEF Buf

LEMMA BufChanged ==
    ASSUME NEW mem, NEW end, NEW size, NEW auto, NEW b, b = Buf(mem, end, size, auto), NEW to
    PROVE  /\ WithSize(b, to) = Buf(mem, end, to, auto)
           /\ WithMem(b, to) = Buf(to, end, size, auto)
           /\ WithEnd(b, to) = Buf(mem, to, size, auto)
           /\ AutoSet(b, to) = Buf(mem, end, size, to)
<1>1. /\ b = Buf(b.mem, b.end, b.size, b.auto)
      /\ b.mem = mem /\ b.end = end /\ b.size = size /\ b.auto = auto
  BY BufIs
<1>2. [b EXCEPT !.size = to] = Buf(b.mem, b.end, to, b.auto)
  BY <1>1 DEF Buf
<1>3. [b EXCEPT !.mem = to] = Buf(to, b.end, b.size, b.auto)
  BY <1>1 DEF Buf
<1>4. [b EXCEPT !.end = to] = Buf(b.mem, to, b.size, b.auto)
  BY <1>1 DEF Buf
<1>5. [b EXCEPT !.auto = to] = Buf(b.mem, b.end, b.size, to)
  BY <1>1 DEF Buf
<1> QED
  BY <1>1, <1>2, <1>3, <1>4, <1>5 DEF WithSize, WithMem, WithEnd, AutoSet

\* The first block of a buffer.
LEMMA FirstBlock ==
    ASSUME NEW n \in Nat \ {0}
    PROVE  LET more == Chunks(n) * Chunk
           IN  Ensure(AutoSet(NewBuffer, TRUE), 0, n) = Buf(Fresh(more), more, 0, TRUE)
<1> DEFINE none == <<>>
           zero == 0
           no == FALSE
           yes == TRUE
           a == AutoSet(NewBuffer, yes)
           more == Chunks(n) * Chunk
           c == WithMem(a, Fresh(a.end + more))
           d == WithEnd(c, more)
           e == WithSize(d, zero)
<1>1. NewBuffer = Buf(none, zero, zero, no)
  BY DEF NewBuffer, Buf
<1>2. a = Buf(none, zero, zero, yes)
  <2> HIDE DEF none, zero, no, yes, a
  <2> DEFINE b == NewBuffer
  <2>1. b = Buf(none, zero, zero, no)
    BY <1>1
  <2> HIDE DEF b
  <2>2. AutoSet(b, yes) = Buf(none, zero, zero, yes)
    BY <2>1, BufChanged
  <2> QED
    BY <2>2 DEF a, b
<1>3. a.mem = none /\ a.end = zero /\ a.size = zero /\ a.auto = yes
      /\ a = Buf(a.mem, a.end, a.size, a.auto)
  <2> HIDE DEF none, zero, no, yes, a
  <2> QED
    BY <1>2, BufIs
<1>4. a.mem = <<>> /\ a.end = 0 /\ a.size = 0 /\ a.auto
  BY <1>3
<1> HIDE DEF a
<1>5. Room(a, 0) = 0 /\ ~HasRoom(a, 0, n)
  BY <1>4 DEF Room, HasRoom
<1>6. n - Room(a, 0) = n
  BY <1>5
<1>7. Ensure(a, 0, n) = Grown(a, Chunks(n))
  BY <1>4, <1>5, <1>6 DEF Ensure
<1>8. Grown(a, Chunks(n)) = e
  BY <1>4 DEF Grown, NewEnd, WithMem, WithEnd, WithSize
<1>9. more \in Nat /\ a.end + more = more
  BY <1>4, ChunksSuffice
<1> HIDE DEF more
<1>10. e = Buf(Fresh(more), more, zero, yes)
  <2> HIDE DEF zero, yes, none, c, d, e
  <2>1. c = Buf(Fresh(more), zero, zero, yes)
    BY <1>3, <1>9, BufChanged DEF c
  <2>2. d = Buf(Fresh(more), more, zero, yes)
    BY <2>1, BufChanged DEF d
  <2> QED
    BY <2>2, BufChanged DEF e
<1> QED
  BY <1>7, <1>8, <1>10 DEF a, more

\* The bytes that are put into a block that has just been allocated.
LEMMA FilledBlock ==
    ASSUME NEW more \in Nat, NEW bytes \in Seq(Byte), bytes # <<>>, Len(bytes) <= more, Chunk <= more
    PROVE  LET mem == Overlaid(Fresh(more), 0, bytes)
           IN  /\ Sound(Block(mem, more, Len(bytes))) /\ Len(mem) = more
               /\ \A i \in 1 .. Len(bytes) : mem[i] = bytes[i]
               /\ 0 + Len(bytes) <= Len(Fresh(more))
<1> DEFINE l == Len(bytes)
           mem == Overlaid(Fresh(more), 0, bytes)
<1>1. l \in Nat /\ l # 0 /\ \A i \in 1 .. l : bytes[i] \in Byte
  BY EmptySeq, ElementOfSeq, LenProperties
<1>2. Fresh(more) \in [1 .. more -> Byte] /\ \A i \in 1 .. more : Fresh(more)[i] = Junk
  BY DEF Fresh, Byte
<1>3. Len(Fresh(more)) = more
  BY <1>2, BytesOf
<1>4. /\ mem \in [1 .. more -> Byte]
      /\ \A i \in 1 .. l : mem[i] = bytes[i]
  BY <1>1, <1>2, <1>3 DEF Overlaid
<1> HIDE DEF mem
<1>5. mem \in Seq(Byte) /\ Len(mem) = more
  BY <1>4, BytesOf
<1>6. Sound(Block(mem, more, l))
  BY <1>1, <1>5, SoundBlock
<1> QED
  BY <1>1, <1>3, <1>4, <1>5, <1>6 DEF mem

LEMMA NewHolds == Holds(NewString) /\ Blank(NewString)
<1> DEFINE nul == <<NUL>>
           one == 1
           zero == 0
           yes == TRUE
           a == AutoSet(NewBuffer, TRUE)
           e == Ensure(a, 0, Len(nul))
           mem == Overlaid(Fresh(Chunk), 0, nul)
           put == Put(e, 0, nul)
           w == WithSize(put, one)
<1>1. nul \in Seq(Byte) /\ Len(nul) = 1 /\ nul # <<>> /\ nul[1] = NUL
  BY DEF Byte
<1>2. a.auto
  BY DEF AutoSet, NewBuffer
<1>3. 0 + Len(nul) = one /\ one \in Nat /\ one = Len(nul)
  BY <1>1
<1>4. NewString = IF Failed(put) THEN put ELSE w
  BY <1>1, <1>2, <1>3 DEF NewString, WriteBytes, Taken, WithSize
<1>5. e = Buf(Fresh(Chunk), Chunk, zero, yes)
  <2>1. Len(nul) = 1 /\ 1 \in Nat \ {0}
    BY <1>1
  <2>2. Ensure(AutoSet(NewBuffer, TRUE), 0, 1) = Buf(Fresh(Chunks(1) * Chunk), Chunks(1) * Chunk, 0, TRUE)
    BY <2>1, FirstBlock
  <2> QED
    BY <2>1, <2>2, OneChunk
<1> HIDE DEF nul
<1>6. Chunk \in Nat /\ 1 <= Chunk
  BY ChunkIs
<1>7. /\ Sound(Block(mem, Chunk, Len(nul))) /\ Len(mem) = Chunk
      /\ \A i \in 1 .. Len(nul) : mem[i] = nul[i]
      /\ 0 + Len(nul) <= Len(Fresh(Chunk))
  BY <1>1, <1>6, FilledBlock
<1>8. /\ e.mem = Fresh(Chunk) /\ e.end = Chunk /\ e.size = zero /\ e.auto = yes
      /\ e = Buf(e.mem, e.end, e.size, e.auto) /\ e.fault = "none"
  <2> HIDE DEF zero, yes, e
  <2> QED
    BY <1>5, BufIs
<1>9. put = WithMem(e, mem)
  <2>1. ~Failed(e) /\ ~(0 + Len(nul) > Len(e.mem)) /\ Overlaid(e.mem, 0, nul) = mem
    <3>1. Len(e.mem) = Len(Fresh(Chunk)) /\ Overlaid(e.mem, 0, nul) = mem
      BY <1>8
    <3>2. 0 + Len(nul) <= Len(e.mem)
      BY <1>7, <3>1
    <3>3. Len(Fresh(Chunk)) \in Nat
      <4>1. Fresh(Chunk) \in [1 .. Chunk -> Byte]
        BY DEF Fresh, Byte
      <4> QED
        BY <1>6, <4>1, BytesOf
    <3>4. ~Failed(e)
      BY <1>8 DEF Failed
    <3> HIDE DEF e, mem
    <3> QED
      BY <1>1, <3>1, <3>2, <3>3, <3>4
  <2> HIDE DEF e
  <2> QED
    BY <2>1 DEF Put, WithMem
<1> HIDE DEF zero, yes, e, mem, one
<1>10. put = Buf(mem, Chunk, zero, yes)
  <2> HIDE DEF put
  <2> QED
    BY <1>8, <1>9, BufChanged
<1> HIDE DEF put
<1>11. w = Buf(mem, Chunk, one, yes) /\ ~Failed(put)
  <2>1. w = Buf(mem, Chunk, one, yes)
    BY <1>10, BufChanged
  <2>2. put.fault = "none"
    BY <1>10, BufIs
  <2> QED
    BY <2>1, <2>2 DEF Failed
<1>12. w = Block(mem, Chunk, one)
  BY <1>11 DEF Buf, Block, yes
<1> HIDE DEF w
<1>13. Sound(w)
  BY <1>3, <1>7, <1>12
<1>14. w.mem = mem /\ w.end = Chunk /\ w.size = one
  BY <1>12 DEF Block
<1>15. mem[1] = NUL
  BY <1>1, <1>7
<1> QED
  BY <1>4, <1>11, <1>13, <1>14, <1>15 DEF Holds, Blank, one

LEMMA FromMemoryHolds ==
    ASSUME NEW bytes \in Seq(Byte), bytes # <<>>
    PROVE  LET r == AutoSet(FromMemory(bytes), TRUE)
           IN  /\ Sound(r) /\ r.size = Len(bytes) /\ r.size <= r.end
               /\ \A i \in 1 .. Len(bytes) : r.mem[i] = bytes[i]
<1> DEFINE l == Len(bytes)
           zero == 0
           yes == TRUE
           no == FALSE
           more == Chunks(l) * Chunk
           mem == Overlaid(Fresh(more), 0, bytes)
           e == Ensure(AutoSet(NewBuffer, TRUE), 0, l)
           f == AutoSet(e, no)
           put == Put(f, 0, bytes)
           w == WithSize(put, 0 + l)
           r == AutoSet(w, yes)
<1>1. l \in Nat \ {0} /\ 0 + l = l
  BY EmptySeq, LenProperties
<1>2. e = Buf(Fresh(more), more, zero, yes)
  BY <1>1, FirstBlock
<1>3. FromMemory(bytes) = WriteBytes(f, 0, bytes)
  BY DEF FromMemory
<1>4. more \in Nat /\ l <= more /\ Chunk <= more
  BY <1>1, ChunksSuffice
<1> HIDE DEF e, more
<1>5. /\ Sound(Block(mem, more, l)) /\ Len(mem) = more
      /\ \A i \in 1 .. l : mem[i] = bytes[i]
      /\ 0 + l <= Len(Fresh(more))
  BY <1>4, FilledBlock
<1> HIDE DEF mem
<1>6. f = Buf(Fresh(more), more, zero, no)
  <2> HIDE DEF zero, yes, no
  <2> QED
    BY <1>2, BufChanged
<1>7. f.mem = Fresh(more) /\ f.end = more /\ f.fault = "none" /\ f.auto = no
  <2> HIDE DEF zero, yes, no, f
  <2> QED
    BY <1>6, BufIs
<1> HIDE DEF f, l
<1>8. Len(Fresh(more)) \in Nat
  <2>1. Fresh(more) \in [1 .. more -> Byte]
    BY DEF Fresh, Byte
  <2> QED
    BY <1>4, <2>1, BytesOf
<1>9. put = WithMem(f, mem)
  <2>1. ~(0 + l > Len(f.mem)) /\ ~Failed(f)
    <3>1. ~(0 + l > Len(Fresh(more)))
      BY <1>1, <1>5, <1>8
    <3> QED
      BY <1>7, <3>1 DEF Failed
  <2>2. Overlaid(f.mem, 0, bytes) = mem
    BY <1>7 DEF mem
  <2> QED
    BY <2>1, <2>2 DEF Put, WithMem, l
<1>10. put = Buf(mem, more, zero, no)
  <2> HIDE DEF put, zero, no
  <2> QED
    BY <1>6, <1>9, BufChanged
<1> HIDE DEF put
<1>11. ~Failed(put) /\ w = Buf(mem, more, l, no)
  <2> HIDE DEF zero, no
  <2>1. put.fault = "none"
    BY <1>10, BufIs
  <2>2. w = Buf(mem, more, 0 + l, no)
    BY <1>10, BufChanged
  <2> QED
    BY <1>1, <2>1, <2>2 DEF Failed
<1>12. WriteBytes(f, 0, bytes) = w
  <2>1. Taken(f, bytes) = bytes
    BY <1>4, <1>7 DEF Taken, l
  <2> QED
    BY <1>7, <1>11, <2>1 DEF WriteBytes, WithSize, put, l
<1> HIDE DEF w
<1>13. r = Buf(mem, more, l, yes)
  <2> HIDE DEF no, yes
  <2> QED
    BY <1>11, BufChanged
<1>14. r = Block(mem, more, l)
  BY <1>13 DEF Buf, Block
<1> HIDE DEF r
<1>15. r.mem = mem /\ r.end = more /\ r.size = l
  BY <1>14 DEF Block
<1> QED
  BY <1>3, <1>4, <1>5, <1>12, <1>14, <1>15 DEF r, l

\* A slice holds what it is cut from.
LEMMA SliceHolds ==
    ASSUME NEW s, Holds(s), NEW from \in Nat, NEW to \in Nat, from < to, to <= Len(Held(s)), Chunk > 1
    PROVE  Holds(StringSlice(s, from, to)) /\ Held(StringSlice(s, from, to)) = Slice(Held(s), from, to)
<1> DEFINE mem == s.mem
           bytes == SubSeq(mem, from + 1, to)
           l == to - from
           b == AutoSet(FromMemory(bytes), TRUE)
           r == StringSizeSet(b, l)
           held == Held(s)
           cut == SubSeq(held, from + 1, to)
<1>1. /\ Sound(s) /\ mem \in Seq(Byte) /\ Len(mem) \in Nat /\ s.size \in Nat \ {0}
      /\ s.size <= Len(mem)
  BY SoundIs DEF Holds
<1>2. /\ held \in Seq(Byte) /\ Len(held) = s.size - 1
      /\ \A i \in 1 .. s.size - 1 : held[i] = mem[i]
  BY <1>1, HeldIs
<1>3. to <= s.size - 1 /\ to <= Len(mem) /\ from <= to /\ l \in Nat \ {0}
  BY <1>1, <1>2
<1> HIDE DEF held
<1>4. /\ cut \in Seq(Byte) /\ Len(cut) = l
      /\ \A i \in 1 .. l : cut[i] = held[from + i]
  BY <1>2, <1>3, PartOf
<1>5. SliceBuffer(s, from, to) = b
  <2>1. ~(to <= from) /\ InBounds(s, to)
    BY <1>3 DEF InBounds
  <2> QED
    BY <2>1 DEF SliceBuffer, Bytes
<1>6. StringSlice(s, from, to) = r
  BY <1>5 DEF StringSlice
<1> HIDE DEF mem
<1>7. /\ bytes \in Seq(Byte) /\ Len(bytes) = l
      /\ \A i \in 1 .. l : bytes[i] = mem[from + i]
  BY <1>1, <1>3, PartOf
<1> HIDE DEF bytes, l, cut
<1>8. bytes # <<>>
  BY <1>3, <1>7, EmptySeq
<1>9. /\ Sound(b) /\ b.size = l /\ b.size <= b.end
      /\ \A i \in 1 .. l : b.mem[i] = bytes[i]
  BY <1>7, <1>8, FromMemoryHolds
<1> HIDE DEF b
<1>10. b.end \in Nat /\ l <= b.end
  BY <1>9, SoundIs
<1>11. b.size <= b.end + 1
  BY <1>3, <1>9, <1>10
<1>12. /\ Holds(r) /\ r.size = l + 1
       /\ \A i \in 1 .. l : r.mem[i] = IF i <= b.end THEN b.mem[i] ELSE NUL
  BY <1>9, <1>11, SealHolds
<1> HIDE DEF r
<1>13. \A i \in 1 .. l : r.mem[i] = bytes[i]
  BY <1>3, <1>9, <1>10, <1>12
<1>14. /\ Held(r) \in Seq(Byte) /\ Len(Held(r)) = l
       /\ \A i \in 1 .. l : Held(r)[i] = r.mem[i]
  <2>1. Sound(r) /\ r.size - 1 = l
    BY <1>3, <1>12 DEF Holds
  <2> QED
    BY <2>1, HeldIs
<1>15. ASSUME NEW i \in 1 .. l PROVE Held(r)[i] = cut[i]
  <2>1. from + i \in 1 .. s.size - 1
    BY <1>1, <1>3 DEF l
  <2> QED
    BY <1>2, <1>4, <1>7, <1>13, <1>14, <2>1
<1>16. Held(r) = cut
  BY <1>4, <1>14, <1>15, SeqEqual
<1> QED
  BY <1>6, <1>12, <1>16 DEF Slice, cut, held

\* What asks for no more than a chunk and its NUL, or is the first to ask, gets the room.
LEMMA RoomGiven ==
    ASSUME NEW s, Sound(s), NEW n \in Nat, Blank(s) \/ n <= Chunk + 1
    PROVE  LET e == Ensure(s, 0, n)
           IN  /\ Sound(e) /\ e.size = s.size /\ n <= Len(e.mem)
               /\ n <= s.size => e = s
<1> DEFINE e == Ensure(s, 0, n)
<1>1. /\ s.size \in Nat \ {0} /\ s.end \in Nat /\ Chunk <= s.end /\ s.size <= Len(s.mem)
      /\ Len(s.mem) \in Nat /\ Chunk \in Nat \ {0}
  BY SoundIs, ChunkIs
<1>2. CASE n <= s.size
  <2>1. 0 \in Nat /\ 0 + n <= s.size
    BY <1>2
  <2>2. e = s
    BY <2>1, EnsureRoom
  <2> HIDE DEF e
  <2> QED
    BY <1>1, <1>2, <2>2 DEF e
<1>3. CASE n > s.size
  <2>1. 0 \in Nat /\ 0 <= s.size /\ 0 + n > s.size /\ s.size <= s.end + Chunk
    BY <1>1, <1>3 DEF Blank
  <2> DEFINE more == Chunks(0 + n - s.size) * Chunk
  <2>2. /\ Sound(e) /\ e.size = s.size /\ more \in Nat /\ Chunk <= more
        /\ 0 + n - s.size <= more /\ Len(e.mem) = s.end + more
    BY <2>1, EnsureGrows
  <2> HIDE DEF e, more
  <2>3. n <= s.end + more
    BY <1>1, <1>3, <2>2 DEF Blank
  <2> QED
    BY <1>1, <1>3, <2>2, <2>3 DEF e
<1> QED
  BY <1>1, <1>2, <1>3

\* Filling overwrites the beginning and leaves the size alone.
LEMMA FillHolds ==
    ASSUME NEW s, Holds(s), NEW size \in Nat, Blank(s) \/ size <= Chunk
    PROVE  LET r == StringFill(s, size, NUL)
           IN  /\ Holds(r)
               /\ Held(r) = [i \in DOMAIN Held(s) |-> IF i <= size THEN NUL ELSE Held(s)[i]]
<1> DEFINE e == Ensure(s, 0, size)
           bytes == Repeated(NUL, size)
           r == Put(e, 0, bytes)
           held == [i \in DOMAIN Held(s) |-> IF i <= size THEN NUL ELSE Held(s)[i]]
<1>1. /\ Sound(s) /\ s.size \in Nat \ {0} /\ s.mem[s.size] = NUL
      /\ Held(s) \in Seq(Byte) /\ Len(Held(s)) = s.size - 1
      /\ \A i \in 1 .. s.size - 1 : Held(s)[i] = s.mem[i]
  BY SoundIs, HeldIs DEF Holds
<1>2. size <= Chunk => size <= Chunk + 1
  BY ChunkIs
<1>3. /\ Sound(e) /\ e.size = s.size /\ size <= Len(e.mem)
      /\ size <= s.size => e = s
  BY <1>1, <1>2, RoomGiven
<1>4. StringFill(s, size, NUL) = r
  BY DEF StringFill, Fill
<1>5. bytes \in Seq(Byte) /\ Len(bytes) = size /\ \A i \in 1 .. size : bytes[i] = NUL
  <2>1. bytes \in [1 .. size -> Byte] /\ \A i \in 1 .. size : bytes[i] = NUL
    BY DEF Repeated, Byte
  <2> QED
    BY <2>1, BytesOf
<1> HIDE DEF e, bytes
<1>6. 0 + Len(bytes) <= Len(e.mem) /\ Len(e.mem) \in Nat /\ e.size <= Len(e.mem)
  <2>1. Len(e.mem) \in Nat /\ e.size <= Len(e.mem)
    BY <1>3, SoundIs
  <2>2. 0 + Len(bytes) = size
    BY <1>5
  <2> QED
    BY <1>3, <2>1, <2>2
<1>7. /\ Sound(r) /\ r.size = e.size
      /\ \A i \in 1 .. Len(e.mem) :
            r.mem[i] = IF 0 < i /\ i <= 0 + Len(bytes) THEN bytes[i - 0] ELSE e.mem[i]
  BY <1>3, <1>5, <1>6, PutHolds
<1> HIDE DEF r
<1>8. ASSUME NEW i \in 1 .. s.size PROVE r.mem[i] = IF i <= size THEN NUL ELSE s.mem[i]
  <2>1. i \in 1 .. Len(e.mem)
    BY <1>1, <1>3, <1>6
  <2>2. CASE i <= size
    <3>1. i - 0 \in 1 .. size /\ 0 < i /\ i <= 0 + Len(bytes)
      BY <1>5, <2>2
    <3> QED
      BY <1>5, <1>7, <2>1, <2>2, <3>1
  <2>3. CASE i > size
    <3>1. e = s /\ ~(i <= 0 + Len(bytes))
      BY <1>1, <1>3, <1>5, <2>3
    <3> QED
      BY <1>7, <2>1, <2>3, <3>1
  <2> QED
    BY <2>2, <2>3
<1>9. r.mem[r.size] = NUL
  BY <1>1, <1>3, <1>7, <1>8
<1>10. /\ Held(r) \in Seq(Byte) /\ Len(Held(r)) = s.size - 1
       /\ \A i \in 1 .. s.size - 1 : Held(r)[i] = r.mem[i]
  <2>1. r.size = s.size
    BY <1>3, <1>7
  <2> QED
    BY <1>7, <2>1, HeldIs
<1>11. DOMAIN Held(s) = 1 .. s.size - 1 /\ s.size - 1 \in Nat
  BY <1>1, LenProperties
<1>12. /\ held \in [1 .. s.size - 1 -> Byte]
       /\ \A i \in 1 .. s.size - 1 : held[i] = IF i <= size THEN NUL ELSE Held(s)[i]
  <2>1. \A i \in 1 .. s.size - 1 : Held(s)[i] \in Byte
    BY <1>1, ElementOfSeq
  <2> QED
    BY <1>11, <2>1 DEF Byte
<1> HIDE DEF held
<1>13. held \in Seq(Byte) /\ Len(held) = s.size - 1
  BY <1>11, <1>12, BytesOf
<1>14. ASSUME NEW i \in 1 .. s.size - 1 PROVE Held(r)[i] = held[i]
  <2>1. i \in 1 .. s.size
    BY <1>1
  <2>2. /\ r.mem[i] = IF i <= size THEN NUL ELSE s.mem[i]
        /\ held[i] = IF i <= size THEN NUL ELSE Held(s)[i]
        /\ Held(s)[i] = s.mem[i] /\ Held(r)[i] = r.mem[i]
    BY <1>1, <1>8, <1>10, <1>12, <2>1
  <2> QED
    BY <2>2
<1>15. Held(r) = held
  BY <1>10, <1>13, <1>14, SeqEqual
<1> QED
  BY <1>4, <1>7, <1>9, <1>15 DEF Holds, held

\* A copy and a clone hold what they are made from.
LEMMA CopyHolds ==
    ASSUME NEW s, Holds(s), NEW to, Sound(to), Blank(to) \/ Len(Held(s)) <= Chunk
    PROVE  Holds(CopyBuffer(s, to)) /\ Held(CopyBuffer(s, to)) = Held(s)
<1> DEFINE size == s.size
           e == Ensure(to, 0, size)
           d == [e EXCEPT !.size = size]
           bytes == SubSeq(s.mem, 0 + 1, size)
           r == Put(d, 0, bytes)
<1>1. /\ Sound(s) /\ s.size \in Nat \ {0} /\ s.mem[s.size] = NUL /\ s.auto = TRUE
      /\ s.mem \in Seq(Byte) /\ s.size <= Len(s.mem)
      /\ Held(s) \in Seq(Byte) /\ Len(Held(s)) = s.size - 1
      /\ \A i \in 1 .. s.size - 1 : Held(s)[i] = s.mem[i]
  BY SoundIs, HeldIs DEF Holds
<1>2. size \in Nat /\ (Blank(to) \/ size <= Chunk + 1)
  BY <1>1, ChunkIs
<1>3. Sound(e) /\ size <= Len(e.mem)
  BY <1>2, RoomGiven
<1>4. bytes \in Seq(Byte) /\ Len(bytes) = size /\ \A i \in 1 .. size : bytes[i] = s.mem[i]
  <2> DEFINE mem == s.mem
  <2>1. 0 \in Nat /\ 0 <= size /\ size <= Len(mem) /\ mem \in Seq(Byte)
    BY <1>1
  <2> HIDE DEF mem, size
  <2>2. /\ SubSeq(mem, 0 + 1, size) \in Seq(Byte) /\ Len(SubSeq(mem, 0 + 1, size)) = size - 0
        /\ \A i \in 1 .. size - 0 : SubSeq(mem, 0 + 1, size)[i] = mem[0 + i]
    BY <1>2, <2>1, PartOf
  <2>3. size - 0 = size /\ \A i \in 1 .. size : 0 + i = i
    BY <1>2
  <2> QED
    BY <2>2, <2>3 DEF mem
<1>5. Sound(d) /\ d.size = size /\ d.mem = e.mem
  BY <1>1, <1>3, Resized
<1>6. AutoSet(to, TRUE) = to
  <2>1. to = Block(to.mem, to.end, to.size)
    BY SoundIs
  <2> QED
    BY <2>1, Changed
<1>7. SizeSet(to, size) = d /\ ~Failed(d)
  BY <1>3, <1>5, SoundIs DEF SizeSet
<1> HIDE DEF d, e
<1>8. CopyBuffer(s, to) = AutoSet(r, s.auto)
  <2>1. InBounds(s, s.size)
    BY <1>1 DEF InBounds
  <2> QED
    BY <1>6, <1>7, <2>1 DEF CopyBuffer, Bytes
<1> HIDE DEF bytes
<1>9. 0 + Len(bytes) <= Len(d.mem)
  BY <1>2, <1>3, <1>4, <1>5
<1>10. /\ Sound(r) /\ r.size = d.size
       /\ \A i \in 1 .. Len(d.mem) :
            r.mem[i] = IF 0 < i /\ i <= 0 + Len(bytes) THEN bytes[i - 0] ELSE d.mem[i]
  BY <1>4, <1>5, <1>9, PutHolds
<1> HIDE DEF r
<1>11. CopyBuffer(s, to) = r
  <2>1. r = Block(r.mem, r.end, r.size)
    BY <1>10, SoundIs
  <2>2. AutoSet(r, TRUE) = r
    BY <2>1, Changed
  <2> QED
    BY <1>1, <1>8, <2>2
<1>12. ASSUME NEW i \in 1 .. size PROVE r.mem[i] = s.mem[i]
  <2>1. Len(d.mem) \in Nat
    BY <1>5, SoundIs
  <2>2. i \in 1 .. Len(d.mem) /\ 0 < i /\ i <= 0 + Len(bytes) /\ i - 0 = i
    BY <1>2, <1>4, <1>9, <2>1
  <2> QED
    BY <1>4, <1>10, <2>2
<1>13. Holds(r)
  BY <1>1, <1>5, <1>10, <1>12 DEF Holds
<1>14. /\ Held(r) \in Seq(Byte) /\ Len(Held(r)) = size - 1
       /\ \A i \in 1 .. size - 1 : Held(r)[i] = r.mem[i]
  BY <1>5, <1>10, HeldIs
<1>15. \A i \in 1 .. size - 1 : Held(r)[i] = Held(s)[i]
  BY <1>1, <1>12, <1>14
<1>16. Held(r) = Held(s)
  BY <1>1, <1>14, <1>15, SeqEqual
<1> QED
  BY <1>11, <1>13, <1>16

-----------------------------------------------------------------------------
(* The inductive invariant, and the texts that the strings hold.           *)

\* The texts of the strings there are.
TextOf(strings) == [n \in DOMAIN strings |-> Held(strings[n])]

\* A string that is given a block that holds a text is given the text.
LEMMA BecomesHolds ==
    ASSUME StringsInv, NEW n \in Name, NEW s, Becomes(n, s), Holds(s),
           fresh' \subseteq fresh \cup {n}, n \in fresh' => Blank(s)
    PROVE  StringsInv' /\ Abstract!Becomes(n, Held(s))
<1>1. /\ DOMAIN str' = DOMAIN str \cup {n} /\ str'[n] = s
      /\ \A m \in DOMAIN str \ {n} : str'[m] = str[m]
  BY DEF Becomes
<1>2. DOMAIN str' \subseteq Name /\ fresh' \subseteq DOMAIN str'
  BY <1>1 DEF StringsInv
<1>3. ASSUME NEW m \in DOMAIN str' PROVE Holds(str'[m]) /\ (m \in fresh' => Blank(str'[m]))
  <2>1. CASE m = n
    BY <1>1, <2>1
  <2>2. CASE m # n
    <3>1. m \in DOMAIN str \ {n} /\ (m \in fresh' => m \in fresh)
      BY <1>1, <1>3, <2>2
    <3> QED
      BY <1>1, <3>1 DEF StringsInv
  <2> QED
    BY <2>1, <2>2
<1>4. StringsInv'
  BY <1>2, <1>3 DEF StringsInv, Holds, Sound, Blank
<1>5. Abstract!Becomes(n, Held(s))
  <2> DEFINE t == TextOf(str)
             u == TextOf(str')
             v == [m \in DOMAIN t \cup {n} |-> IF m = n THEN Held(s) ELSE t[m]]
  <2>1. DOMAIN t = DOMAIN str /\ DOMAIN u = DOMAIN str' /\ DOMAIN v = DOMAIN str'
    BY <1>1 DEF TextOf
  <2>2. ASSUME NEW m \in DOMAIN str' PROVE u[m] = v[m]
    BY <1>1, <2>1, <2>2 DEF TextOf
  <2>3. u = [m \in DOMAIN str' |-> u[m]] /\ v = [m \in DOMAIN str' |-> v[m]]
    BY <2>1 DEF TextOf
  <2> HIDE DEF u, v
  <2>4. u = v
    BY <2>2, <2>3
  <2> QED
    BY <2>4 DEF Abstract!Becomes, TextOf, u, v
<1> QED
  BY <1>4, <1>5

LEMMA TextIs ==
    ASSUME StringsInv, NEW n \in DOMAIN str
    PROVE  /\ Holds(str[n]) /\ Sound(str[n]) /\ n \in Name
           /\ TextOf(str)[n] = Held(str[n]) /\ DOMAIN TextOf(str) = DOMAIN str
           /\ Held(str[n]) \in Seq(Byte) /\ Len(Held(str[n])) \in Nat
           /\ \A length : MayTake(n, length) => Blank(str[n]) \/ length <= Chunk
<1>1. Holds(str[n]) /\ Sound(str[n]) /\ n \in Name /\ (n \in fresh => Blank(str[n]))
  BY DEF StringsInv, Holds
<1>2. Held(str[n]) \in Seq(Byte) /\ Len(Held(str[n])) \in Nat
  BY <1>1, HeldIs, LenProperties
<1> QED
  BY <1>1, <1>2 DEF TextOf, MayTake

LEMMA InputIs ==
    ASSUME NEW t \in Inputs
    PROVE  t \in Seq(Byte) /\ t # <<>> /\ Len(t) \in Nat
<1>1. t \in Text /\ t # <<>>
  BY StringsAssumption
<1>2. Word \cup {SP, LF} \subseteq Byte
  BY DEF Byte, Token
<1>3. t \in Seq(Byte)
  BY <1>1, <1>2, SeqMonotonic DEF Text
<1> QED
  BY <1>1, <1>3, LenProperties

LEMMA StepHolds ==
    ASSUME Chunk > 1, StringsInv, Next
    PROVE  StringsInv' /\ Abstract!Next
<1> SUFFICES ASSUME NEW n \in Name,
                    \/ Create(n) \/ Dispose(n)
                    \/ \E t \in Inputs : Set(n, t)
                    \/ \E size \in 1 .. 2 * Chunk : FillWith(n, size)
                    \/ n \in DOMAIN str /\
                        \/ \E t \in Inputs, from \in 1 .. Len(Held(str[n])) : Amend(n, from, t)
                        \/ \E m \in Name : Copy(n, m) \/ Clone(n, m)
                        \/ \E m \in Name, from, to \in 0 .. Len(Held(str[n])) : Cut(n, from, to, m)
             PROVE  StringsInv' /\ Abstract!Next
  BY DEF Next
<1>1. ASSUME Create(n) PROVE StringsInv' /\ Abstract!Create(n)
  <2>1. Holds(NewString) /\ Blank(NewString)
    BY NewHolds
  <2>2. Held(NewString) = <<>>
    <3>1. Len(Held(NewString)) = 0 /\ Held(NewString) \in Seq(Byte)
      BY <2>1, HeldIs DEF Holds, Blank
    <3> QED
      BY <3>1, EmptySeq
  <2>3. Becomes(n, NewString) /\ fresh' \subseteq fresh \cup {n}
    BY <1>1 DEF Create
  <2>4. StringsInv' /\ Abstract!Becomes(n, Held(NewString))
    BY <2>1, <2>3, BecomesHolds
  <2> QED
    BY <2>2, <2>4 DEF Abstract!Create
<1>2. ASSUME Dispose(n) PROVE StringsInv' /\ Abstract!Dispose(n)
  <2>1. /\ str' = [m \in DOMAIN str \ {n} |-> str[m]] /\ fresh' = fresh \ {n}
    BY <1>2 DEF Dispose
  <2>2. StringsInv'
    BY <2>1 DEF StringsInv, Holds, Sound, Blank
  <2>3. TextOf(str') = [m \in DOMAIN TextOf(str) \ {n} |-> TextOf(str)[m]]
    BY <2>1 DEF TextOf
  <2> QED
    BY <2>2, <2>3 DEF Abstract!Dispose, TextOf
<1>3. ASSUME NEW t \in Inputs, Set(n, t) PROVE StringsInv' /\ Abstract!Set(n, t)
  <2> DEFINE r == StringSet(str[n], t)
  <2>1. /\ n \in DOMAIN str /\ MayTake(n, Len(t)) /\ Becomes(n, r) /\ fresh' = fresh \ {n}
    BY <1>3 DEF Set
  <2>2. Sound(str[n]) /\ (Blank(str[n]) \/ Len(t) <= Chunk) /\ DOMAIN TextOf(str) = DOMAIN str
    BY <2>1, TextIs
  <2>3. Holds(r) /\ Held(r) = Kept(t)
    BY <2>2, InputIs, SetHolds
  <2> HIDE DEF r
  <2>4. StringsInv' /\ Abstract!Becomes(n, Held(r))
    BY <2>1, <2>3, BecomesHolds
  <2>5. Abstract!Kept(t) = Kept(t)
    BY DEF Abstract!Kept, Abstract!OnBoundary, Kept, OnBoundary
  <2> QED
    BY <2>1, <2>2, <2>3, <2>4, <2>5 DEF Abstract!Set, TextOf
<1>4. ASSUME NEW size \in 1 .. 2 * Chunk, FillWith(n, size)
      PROVE  /\ StringsInv' /\ n \in DOMAIN TextOf(str)
             /\ \E length \in 0 .. Len(TextOf(str)[n]) : Abstract!FillWith(n, length)
  <2> DEFINE s == str[n]
             r == StringFill(s, size, NUL)
             held == Held(s)
             length == IF size <= Len(held) THEN size ELSE Len(held)
  <2>1. n \in DOMAIN str /\ MayTake(n, size) /\ Becomes(n, r) /\ fresh' = fresh \ {n} /\ size \in Nat
    BY <1>4, ChunkIs DEF FillWith
  <2>2. /\ Holds(s) /\ (Blank(s) \/ size <= Chunk) /\ held \in Seq(Byte) /\ Len(held) \in Nat
        /\ DOMAIN TextOf(str) = DOMAIN str /\ TextOf(str)[n] = held
    BY <2>1, TextIs
  <2>3. Holds(r) /\ Held(r) = [i \in DOMAIN held |-> IF i <= size THEN NUL ELSE held[i]]
    BY <2>1, <2>2, FillHolds
  <2> HIDE DEF r, s
  <2>4. StringsInv' /\ Abstract!Becomes(n, Held(r))
    BY <2>1, <2>3, BecomesHolds
  <2>5. length \in 0 .. Len(held)
    BY <2>1, <2>2
  <2>6. Held(r) = [i \in DOMAIN held |-> IF i <= length THEN NUL ELSE held[i]]
    <3>1. DOMAIN held = 1 .. Len(held)
      BY <2>2, LenProperties
    <3> HIDE DEF held
    <3>2. \A i \in 1 .. Len(held) : i <= size <=> i <= length
      BY <2>1, <2>2
    <3> HIDE DEF length
    <3> QED
      BY <2>3, <3>1, <3>2
  <2> HIDE DEF held, length
  <2>7. Abstract!FillWith(n, length)
    BY <2>1, <2>2, <2>4, <2>6 DEF Abstract!FillWith, TextOf
  <2> QED
    BY <2>1, <2>2, <2>4, <2>5, <2>7
<1>5. ASSUME n \in DOMAIN str, NEW t \in Inputs, NEW from \in 1 .. Len(Held(str[n])), Amend(n, from, t)
      PROVE  StringsInv' /\ Abstract!Amend(n, from, t)
  <2> DEFINE s == str[n]
             r == StringWrite(s, from, t)
  <2>1. MayTake(n, from + Len(t)) /\ Becomes(n, r) /\ fresh' = fresh /\ n \notin fresh
    BY <1>5 DEF Amend
  <2>2. Holds(s) /\ TextOf(str)[n] = Held(s) /\ DOMAIN TextOf(str) = DOMAIN str /\ Len(Held(s)) \in Nat
    BY <1>5, TextIs
  <2>3. from \in Nat /\ from <= Len(Held(s)) /\ from + Len(t) <= Chunk
    BY <1>5, <2>1, <2>2 DEF MayTake
  <2>4. Holds(r) /\ Held(r) = SubSeq(Held(s), 1, from) \o t
    BY <2>2, <2>3, InputIs, AmendHolds
  <2> HIDE DEF r, s
  <2>5. StringsInv' /\ Abstract!Becomes(n, Held(r))
    BY <2>1, <2>4, BecomesHolds
  <2> QED
    BY <1>5, <2>2, <2>3, <2>4, <2>5 DEF Abstract!Amend, TextOf
<1>6. ASSUME n \in DOMAIN str, NEW m \in Name, Copy(n, m) PROVE StringsInv' /\ Abstract!Copy(n, m)
  <2> DEFINE r == CopyBuffer(str[n], str[m])
  <2>1. /\ m \in DOMAIN str /\ MayTake(m, Len(Held(str[n]))) /\ Becomes(m, r)
        /\ fresh' = fresh \ {m}
    BY <1>6 DEF Copy
  <2>2. Holds(str[n]) /\ TextOf(str)[n] = Held(str[n]) /\ DOMAIN TextOf(str) = DOMAIN str
    BY <1>6, TextIs
  <2>3. Sound(str[m]) /\ (Blank(str[m]) \/ Len(Held(str[n])) <= Chunk)
    BY <2>1, TextIs
  <2>4. Holds(r) /\ Held(r) = Held(str[n])
    BY <2>2, <2>3, CopyHolds
  <2> HIDE DEF r
  <2>5. StringsInv' /\ Abstract!Becomes(m, Held(r))
    BY <2>1, <2>4, BecomesHolds
  <2> QED
    BY <1>6, <2>1, <2>2, <2>4, <2>5 DEF Abstract!Copy, TextOf
<1>7. ASSUME n \in DOMAIN str, NEW m \in Name, Clone(n, m) PROVE StringsInv' /\ Abstract!Clone(n, m)
  <2> DEFINE r == CopyBuffer(str[n], NewString)
  <2>1. m \notin DOMAIN str /\ Becomes(m, r) /\ fresh' = fresh
    BY <1>7 DEF Clone, StringClone
  <2>2. Holds(str[n]) /\ TextOf(str)[n] = Held(str[n]) /\ DOMAIN TextOf(str) = DOMAIN str
    BY <1>7, TextIs
  <2>3. Holds(r) /\ Held(r) = Held(str[n])
    BY <2>2, NewHolds, CopyHolds DEF Holds
  <2> HIDE DEF r
  <2>4. m \notin fresh'
    BY <2>1 DEF StringsInv
  <2>5. StringsInv' /\ Abstract!Becomes(m, Held(r))
    BY <2>1, <2>3, <2>4, BecomesHolds
  <2> QED
    BY <1>7, <2>2, <2>3, <2>5 DEF Abstract!Clone, TextOf
<1>8. ASSUME n \in DOMAIN str, NEW m \in Name,
             NEW from \in 0 .. Len(Held(str[n])), NEW to \in 0 .. Len(Held(str[n])), Cut(n, from, to, m)
      PROVE  StringsInv' /\ Abstract!Cut(n, from, to, m)
  <2> DEFINE s == str[n]
             r == StringSlice(s, from, to)
  <2>1. m \notin DOMAIN str /\ Becomes(m, r) /\ fresh' = fresh /\ from < to /\ to <= Len(Held(s))
    BY <1>8 DEF Cut
  <2>2. Holds(s) /\ TextOf(str)[n] = Held(s) /\ DOMAIN TextOf(str) = DOMAIN str /\ Len(Held(s)) \in Nat
    BY <1>8, TextIs
  <2>3. from \in Nat /\ to \in Nat
    BY <1>8, <2>2
  <2>4. Holds(r) /\ Held(r) = Slice(Held(s), from, to)
    BY <2>1, <2>2, <2>3, SliceHolds
  <2> HIDE DEF r, s
  <2>5. m \notin fresh'
    BY <2>1 DEF StringsInv
  <2>6. StringsInv' /\ Abstract!Becomes(m, Held(r))
    BY <2>1, <2>4, <2>5, BecomesHolds
  <2>7. Abstract!IsSlice(from, to) /\ Abstract!Slice(Held(s), from, to) = Slice(Held(s), from, to)
    BY <2>1 DEF Abstract!IsSlice, Abstract!Slice, Slice
  <2> QED
    BY <1>8, <2>1, <2>2, <2>4, <2>6, <2>7 DEF Abstract!Cut, TextOf
<1>9. n \in DOMAIN str => TextOf(str)[n] = Held(str[n]) /\ n \in DOMAIN TextOf(str)
  BY TextIs
<1>10. CASE Create(n) \/ Dispose(n) \/ \E t \in Inputs : Set(n, t)
  BY <1>1, <1>2, <1>3, <1>10 DEF Abstract!Next
<1>11. CASE \E size \in 1 .. 2 * Chunk : FillWith(n, size)
  BY <1>4, <1>11 DEF Abstract!Next, TextOf
<1>12. CASE n \in DOMAIN str /\ \E t \in Inputs, from \in 1 .. Len(Held(str[n])) : Amend(n, from, t)
  BY <1>5, <1>9, <1>12 DEF Abstract!Next, TextOf
<1>13. CASE n \in DOMAIN str /\ \E m \in Name : Copy(n, m) \/ Clone(n, m)
  BY <1>6, <1>7, <1>9, <1>13 DEF Abstract!Next, TextOf
<1>14. CASE n \in DOMAIN str /\
              \E m \in Name, from, to \in 0 .. Len(Held(str[n])) : Cut(n, from, to, m)
  BY <1>8, <1>9, <1>14 DEF Abstract!Next, TextOf
<1> QED
  BY <1>10, <1>11, <1>12, <1>13, <1>14

LEMMA InitHolds == Init => StringsInv /\ Abstract!Init
BY DEF Init, StringsInv, Abstract!Init

LEMMA InvHolds == Chunk > 1 => (Spec => []StringsInv)
<1> SUFFICES ASSUME Chunk > 1 PROVE Spec => []StringsInv
  OBVIOUS
<1>1. StringsInv /\ [Next]_vars => StringsInv'
  <2>1. StringsInv /\ Next => StringsInv'
    BY StepHolds
  <2>2. StringsInv /\ UNCHANGED vars => StringsInv'
    BY DEF StringsInv, vars, Holds, Sound, Blank
  <2> QED
    BY <2>1, <2>2
<1> QED
  BY <1>1, InitHolds, PTL DEF Spec

-----------------------------------------------------------------------------
\* Every string is a buffer of tokens, of bytes that malloc has left, and of NULs, however
\* long the texts are (buffer.c:53, string.c:24).
THEOREM StringTypes == Chunk > 1 => (Spec => []TypeOK)
<1>1. StringsInv => TypeOK
  BY DEF StringsInv, TypeOK, Holds, Sound
<1> QED
  BY <1>1, InvHolds, PTL

\* No operation of a string leaves its block or ends the process, as the program uses
\* strings: p_end says no more than there is (buffer.c:126), and a block is asked for more
\* before it is too short for what is carried over.
THEOREM StringsStayInBounds == Chunk > 1 => (Spec => []StaysInBounds)
<1>1. StringsInv => StaysInBounds
  BY DEF StringsInv, StaysInBounds, Running, Holds, Sound
<1> QED
  BY <1>1, InvHolds, PTL

\* What zob_string_get hands out ends in a NUL that is inside of the block.
THEOREM StringsEndInNul == Chunk > 1 => (Spec => []EndsInNul)
<1>1. StringsInv => EndsInNul
  BY DEF StringsInv, EndsInNul, Holds, Sound
<1> QED
  BY <1>1, InvHolds, PTL

\* The strings of string.c in their blocks implement the texts that the parser's model
\* works on: every call is the step of the abstract texts of the same name, and what is
\* set loses its last token exactly when the parser's model says that it does.
THEOREM StringsHoldTexts == Chunk > 1 => (Spec => HoldTexts)
<1> SUFFICES ASSUME Chunk > 1 PROVE Spec => HoldTexts
  OBVIOUS
<1>1. StringsInv /\ [Next]_vars => [Abstract!Next]_(TextOf(str))
  <2>1. StringsInv /\ Next => Abstract!Next
    BY StepHolds
  <2>2. UNCHANGED vars => TextOf(str)' = TextOf(str)
    BY DEF vars, TextOf
  <2> QED
    BY <2>1, <2>2
<1>2. [Abstract!Next]_(TextOf(str)) => [Abstract!Next]_([n \in DOMAIN str |-> Held(str[n])])
  BY DEF TextOf
<1>3. StringsInv /\ [Next]_vars => [Abstract!Next]_([n \in DOMAIN str |-> Held(str[n])])
  BY <1>1, <1>2
<1> QED
  BY <1>3, InvHolds, InitHolds, PTL DEF Spec, HoldTexts, Abstract!Spec

-----------------------------------------------------------------------------
(* The searches.  A recursive function over positions is shown to exist    *)
(* and to have its values by a least counterexample.                       *)

\* A loop that stops at the positions of a set, and hands on what it finds there.
IsLoop(f, a, b, Stop, g) == f = [p \in a .. b |-> IF p \in Stop THEN g[p] ELSE f[p + 1]]

LEMMA LoopExists ==
    ASSUME NEW a \in Nat, NEW b \in Nat, NEW Stop \in SUBSET (a .. b), b \in Stop, NEW g
    PROVE  \E f : IsLoop(f, a, b, Stop, g)
<1> DEFINE Ahead(p) == {q \in Stop : p <= q}
           f == [p \in a .. b |-> g[Least(Ahead(p))]]
           e == [p \in a .. b |-> IF p \in Stop THEN g[p] ELSE f[p + 1]]
<1>1. ASSUME NEW p \in a .. b PROVE f[p] = e[p]
  <2>1. Ahead(p) \in SUBSET Nat /\ Ahead(p) # {}
    <3>1. p <= b /\ p \in Nat /\ \A q \in Stop : q \in Nat
      OBVIOUS
    <3>2. b \in Ahead(p)
      BY <3>1
    <3> QED
      BY <3>1, <3>2
  <2>2. Least(Ahead(p)) \in Ahead(p) /\ \A q \in Ahead(p) : Least(Ahead(p)) <= q
    <3> DEFINE S == Ahead(p)
    <3>1. S \in SUBSET Nat /\ S # {}
      BY <2>1
    <3> HIDE DEF S
    <3>2. Least(S) \in S /\ \A q \in S : Least(S) <= q
      BY <3>1, LeastOf
    <3> QED
      BY <3>2 DEF S
  <2>3. CASE p \in Stop
    <3>1. p \in Ahead(p)
      BY <2>3
    <3>2. Least(Ahead(p)) <= p /\ p <= Least(Ahead(p)) /\ Least(Ahead(p)) \in Nat
      BY <2>1, <2>2, <3>1
    <3>3. Least(Ahead(p)) = p
      <4> HIDE DEF Ahead
      <4> QED
        BY <3>2
    <3> QED
      BY <2>3, <3>3
  <2>4. CASE p \notin Stop
    <3>1. p + 1 \in a .. b
      BY <2>4
    <3>2. \A q \in Stop : p <= q <=> p + 1 <= q
      BY <2>4
    <3>3. Ahead(p) = Ahead(p + 1)
      BY <3>2
    <3>4. f[p] = g[Least(Ahead(p))] /\ f[p + 1] = g[Least(Ahead(p + 1))] /\ e[p] = f[p + 1]
      BY <2>4, <3>1
    <3> QED
      BY <3>3, <3>4
  <2> QED
    BY <2>3, <2>4
<1>2. f = e
  <2>1. f = [p \in a .. b |-> f[p]] /\ e = [p \in a .. b |-> e[p]]
    OBVIOUS
  <2> HIDE DEF f, e
  <2> QED
    BY <1>1, <2>1
<1>3. IsLoop(f, a, b, Stop, g)
  BY <1>2 DEF IsLoop
<1> QED
  BY <1>3

\* What a loop finds is what is at the first position where it stops.
LEMMA LoopStops ==
    ASSUME NEW a \in Nat, NEW b \in Nat, NEW Stop, NEW g, NEW f,
           IsLoop(f, a, b, Stop, g),
           NEW p \in a .. b, NEW q \in a .. b, q \in Stop, p <= q, \A r \in p .. q - 1 : r \notin Stop
    PROVE  f[p] = g[q]
<1> DEFINE Bad == {d \in 0 .. q - p : f[q - d] # g[q]}
<1>1. q \in a .. b
  OBVIOUS
<1>2. ASSUME NEW r \in a .. b PROVE f[r] = IF r \in Stop THEN g[r] ELSE f[r + 1]
  BY <1>2 DEF IsLoop
<1>3. Bad = {}
  <2> SUFFICES ASSUME Bad # {} PROVE FALSE
    OBVIOUS
  <2>1. Bad \in SUBSET Nat
    BY <1>1
  <2> DEFINE d == Least(Bad)
  <2>2. d \in Bad /\ \A e \in Bad : d <= e
    <3> HIDE DEF Bad
    <3> QED
      BY <2>1, LeastOf
  <2> HIDE DEF d
  <2>3. d \in 0 .. q - p /\ f[q - d] # g[q]
    BY <2>2
  <2>4. d # 0
    <3>1. f[q] = g[q] /\ q - 0 = q
      BY <1>1, <1>2
    <3> QED
      BY <2>3, <3>1
  <2>5. d - 1 \in 0 .. q - p /\ ~(d <= d - 1)
    BY <1>1, <2>3, <2>4
  <2>6. f[q - (d - 1)] = g[q]
    BY <2>2, <2>5
  <2>7. q - d \in p .. q - 1 /\ q - d \in a .. b /\ q - d + 1 = q - (d - 1)
    BY <1>1, <2>3, <2>4
  <2>8. f[q - d] = f[q - d + 1]
    BY <1>2, <2>7
  <2> QED
    BY <2>3, <2>6, <2>7, <2>8
<1>4. \A d \in 0 .. q - p : f[q - d] = g[q]
  BY <1>3
<1>5. q - p \in 0 .. q - p /\ q - (q - p) = p
  BY <1>1
<1>6. f[q - (q - p)] = g[q]
  <2> DEFINE d == q - p
  <2>1. d \in 0 .. q - p
    BY <1>5
  <2> HIDE DEF d
  <2>2. f[q - d] = g[q]
    BY <1>4, <2>1
  <2> QED
    BY <2>2 DEF d
<1> QED
  BY <1>5, <1>6

\* Of the positions up to one where it stops there is a first.
LEMMA FirstStop ==
    ASSUME NEW a \in Nat, NEW last \in Nat, a <= last, NEW Stop, last \in Stop
    PROVE  \E q \in a .. last : q \in Stop /\ \A r \in a .. q - 1 : r \notin Stop
<1> DEFINE S == Stop \cap (a .. last)
<1>1. S \in SUBSET Nat /\ S # {}
  OBVIOUS
<1>2. Least(S) \in S /\ \A r \in S : Least(S) <= r
  <2> HIDE DEF S
  <2> QED
    BY <1>1, LeastOf
<1>3. ASSUME NEW r \in a .. Least(S) - 1 PROVE r \notin Stop
  <2>1. Least(S) \in a .. last
    BY <1>2
  <2>2. r \in a .. last /\ ~(Least(S) <= r)
    BY <1>3, <2>1
  <2> QED
    BY <1>2, <2>2
<1> QED
  BY <1>2, <1>3

LEMMA LoopFinds ==
    ASSUME NEW a \in Nat, NEW b \in Nat, a <= b, NEW Stop \in SUBSET (a .. b), b \in Stop,
           NEW g, NEW f, IsLoop(f, a, b, Stop, g)
    PROVE  \E q \in a .. b : q \in Stop /\ (\A r \in a .. q - 1 : r \notin Stop) /\ f[a] = g[q]
<1>1. PICK q \in a .. b : q \in Stop /\ \A r \in a .. q - 1 : r \notin Stop
  BY FirstStop
<1>2. a \in a .. b /\ a <= q
  OBVIOUS
<1>3. f[a] = g[q]
  BY <1>1, <1>2, LoopStops
<1> QED
  BY <1>1, <1>3

\* The bytes of a block up to its NUL are those of the text.
LEMMA ReadAs ==
    ASSUME NEW s, Holds(s)
    PROVE  /\ s.size \in Nat \ {0} /\ s.size <= Len(s.mem) /\ Len(s.mem) \in Nat
           /\ Len(Held(s)) = s.size - 1
           /\ \A p \in 0 .. s.size - 1 : ByteAt(s.mem, p) = At(Held(s), p) /\ ~Outside(s.mem, p)
           /\ \A p \in Nat : p >= s.size - 1 => At(Held(s), p) = NUL
           /\ ByteAt(s.mem, s.size - 1) = NUL
<1>1. /\ s.size \in Nat \ {0} /\ s.size <= Len(s.mem) /\ Len(s.mem) \in Nat
      /\ s.mem[s.size] = NUL
      /\ Len(Held(s)) = s.size - 1
      /\ \A i \in 1 .. s.size - 1 : Held(s)[i] = s.mem[i]
  BY SoundIs, HeldIs DEF Holds
<1>2. \A p \in Nat : p >= s.size - 1 => At(Held(s), p) = NUL
  BY <1>1 DEF At
<1>3. ByteAt(s.mem, s.size - 1) = NUL
  <2>1. s.size - 1 + 1 = s.size
    BY <1>1
  <2> QED
    BY <1>1, <2>1 DEF ByteAt
<1>4. ASSUME NEW p \in 0 .. s.size - 1 PROVE ByteAt(s.mem, p) = At(Held(s), p) /\ ~Outside(s.mem, p)
  <2>1. ~Outside(s.mem, p)
    BY <1>1 DEF Outside
  <2>2. CASE p = s.size - 1
    BY <1>1, <1>2, <1>3, <2>1, <2>2
  <2>3. CASE p < s.size - 1
    <3>1. p + 1 \in 1 .. s.size - 1 /\ p < Len(Held(s))
      BY <1>1, <2>3
    <3> QED
      BY <1>1, <2>1, <3>1 DEF ByteAt, At
  <2> QED
    BY <1>1, <2>2, <2>3
<1> QED
  BY <1>1, <1>2, <1>3, <1>4

-----------------------------------------------------------------------------
(* The search of a character.                                              *)

IsCharLoop(f, mem, needle, first, last) ==
    f = [p \in first .. Len(mem) |->
            IF Outside(mem, p) THEN Outcome(FALSE, p, p)
            ELSE IF ByteAt(mem, p) = needle THEN Outcome(TRUE, p, p)
            ELSE IF AtLast(p, last) THEN Outcome(FALSE, p, p)
            ELSE f[p + 1]]

\* It ends at the first hit, or else at the last position.
LEMMA CharStops ==
    ASSUME NEW mem, Len(mem) \in Nat, NEW needle,
           NEW first \in Nat, NEW last \in Nat, first <= last, last < Len(mem),
           NEW q \in first .. last, q = last \/ ByteAt(mem, q) = needle,
           \A r \in first .. q - 1 : ByteAt(mem, r) # needle
    PROVE  LET c == SearchChar(mem, needle, first, last)
           IN  (c.found <=> ByteAt(mem, q) = needle) /\ c.position = q /\ c.read = q
<1> DEFINE b == Len(mem)
           Stop == {p \in first .. b : p >= b \/ ByteAt(mem, p) = needle \/ p = last}
           g == [p \in first .. b |->
                    IF p < b /\ ByteAt(mem, p) = needle THEN Outcome(TRUE, p, p)
                    ELSE Outcome(FALSE, p, p)]
           h == CHOOSE f : IsCharLoop(f, mem, needle, first, last)
<1>1. ASSUME NEW f PROVE IsLoop(f, first, b, Stop, g) <=> IsCharLoop(f, mem, needle, first, last)
  <2>1. ASSUME NEW p \in first .. b
        PROVE  (IF p \in Stop THEN g[p] ELSE f[p + 1])
                = (IF Outside(mem, p) THEN Outcome(FALSE, p, p)
                   ELSE IF ByteAt(mem, p) = needle THEN Outcome(TRUE, p, p)
                   ELSE IF AtLast(p, last) THEN Outcome(FALSE, p, p)
                   ELSE f[p + 1])
    BY DEF Outside, AtLast, Outcome
  <2> HIDE DEF Stop, g
  <2> QED
    BY <2>1 DEF IsLoop, IsCharLoop
<1>2. b \in Nat /\ Stop \in SUBSET (first .. b) /\ b \in Stop
  OBVIOUS
<1>3. q \in Stop /\ first \in first .. b /\ first <= q /\ \A r \in first .. q - 1 : r \notin Stop
  OBVIOUS
<1>4. (g[q].found <=> ByteAt(mem, q) = needle) /\ g[q].position = q /\ g[q].read = q
  BY DEF Outcome
<1> HIDE DEF b, Stop, g
<1>5. \E f : IsCharLoop(f, mem, needle, first, last)
  BY <1>1, <1>2, LoopExists
<1>6. IsCharLoop(h, mem, needle, first, last)
  BY <1>5
<1>7. SearchChar(mem, needle, first, last) = h[first]
  BY DEF SearchChar, IsCharLoop
<1> HIDE DEF h
<1>8. IsLoop(h, first, b, Stop, g)
  BY <1>1, <1>6
<1>9. h[first] = g[q]
  <2>1. \A p \in first .. b, s \in Stop :
            p <= s /\ (\A r \in p .. s - 1 : r \notin Stop) => h[p] = g[s]
    BY <1>2, <1>8, LoopStops
  <2> QED
    BY <1>3, <2>1
<1> QED
  BY <1>4, <1>7, <1>9

\* Over a string it finds what the parser's model says, and does not read behind its NUL.
LEMMA CharFound ==
    ASSUME NEW s, Holds(s), NEW needle, NEW b, b.buf = Held(s),
           b.first \in 0 .. Len(Held(s)), b.last \in 0 .. Len(Held(s)), b.first <= b.last
    PROVE  LET c == SearchChar(s.mem, needle, b.first, b.last)
           IN  /\ c.found <=> Finds(b, needle)
               /\ c.position = IF c.found THEN Position(b, needle) ELSE b.last
               /\ c.read < s.size
<1> DEFINE c == SearchChar(s.mem, needle, b.first, b.last)
           first == b.first
           last == b.last
           Stop == {p \in first .. last : p = last \/ ByteAt(s.mem, p) = needle}
<1>1. /\ s.size \in Nat \ {0} /\ s.size <= Len(s.mem) /\ Len(s.mem) \in Nat
      /\ Len(Held(s)) = s.size - 1
      /\ \A p \in 0 .. s.size - 1 : ByteAt(s.mem, p) = At(Held(s), p)
  BY ReadAs
<1>2. first \in Nat /\ last \in Nat /\ first <= last /\ last < s.size /\ last < Len(s.mem)
  BY <1>1
<1>3. \A p \in first .. last : ByteAt(s.mem, p) = At(b.buf, p)
  BY <1>1, <1>2
<1>4. Hits(b, needle) = {p \in first .. last : ByteAt(s.mem, p) = needle}
  BY <1>3 DEF Hits
<1> HIDE DEF first, last
<1>5. PICK q \in first .. last : q \in Stop /\ \A r \in first .. q - 1 : r \notin Stop
  <2>1. last \in Stop
    BY <1>2
  <2> HIDE DEF Stop
  <2> QED
    BY <1>2, <2>1, FirstStop
<1>6. /\ q = last \/ ByteAt(s.mem, q) = needle
      /\ \A r \in first .. q - 1 : ByteAt(s.mem, r) # needle
  BY <1>2, <1>5
<1>8. (c.found <=> ByteAt(s.mem, q) = needle) /\ c.position = q /\ c.read = q
  BY <1>1, <1>2, <1>5, <1>6, CharStops DEF first, last
<1> HIDE DEF c
<1>9. c.read < s.size
  BY <1>1, <1>2, <1>8
<1>10. CASE ByteAt(s.mem, q) = needle
  <2>1. q \in Hits(b, needle) /\ Hits(b, needle) \in SUBSET Nat
    BY <1>2, <1>4, <1>10
  <2>2. \A r \in Hits(b, needle) : q <= r
    BY <1>2, <1>4, <1>6
  <2>3. Position(b, needle) \in Hits(b, needle) /\ \A r \in Hits(b, needle) : Position(b, needle) <= r
    BY <2>1, LeastOf DEF Position
  <2>4. Position(b, needle) = q
    BY <2>1, <2>2, <2>3
  <2> QED
    BY <1>8, <1>9, <1>10, <2>1, <2>4 DEF Finds, c, first, last
<1>11. CASE ByteAt(s.mem, q) # needle
  <2>1. q = last /\ Hits(b, needle) = {}
    BY <1>2, <1>4, <1>6, <1>11
  <2> QED
    BY <1>8, <1>9, <1>11, <2>1 DEF Finds, c, first, last
<1> QED
  BY <1>10, <1>11

-----------------------------------------------------------------------------
(* The search of a string.                                                 *)

IsMatchLoop(f, mem, needle, p) ==
    f = [i \in 0 .. Len(needle) |->
            IF i = Len(needle) \/ Outside(mem, p + i) \/ ByteAt(mem, p + i) # needle[i + 1]
            THEN i ELSE f[i + 1]]

\* The bytes that match are those before the first that does not.
LEMMA MatchStops ==
    ASSUME NEW mem, NEW needle, Len(needle) \in Nat, NEW p
    PROVE  LET m == Matched(mem, needle, p)
           IN  /\ m \in 0 .. Len(needle)
               /\ m = Len(needle) \/ Outside(mem, p + m) \/ ByteAt(mem, p + m) # needle[m + 1]
               /\ \A i \in 0 .. m - 1 : ByteAt(mem, p + i) = needle[i + 1]
<1> DEFINE b == Len(needle)
           Stop == {i \in 0 .. b : i = b \/ Outside(mem, p + i) \/ ByteAt(mem, p + i) # needle[i + 1]}
           g == [i \in 0 .. b |-> i]
           h == CHOOSE f : IsMatchLoop(f, mem, needle, p)
<1>1. ASSUME NEW f PROVE IsLoop(f, 0, b, Stop, g) <=> IsMatchLoop(f, mem, needle, p)
  <2>1. ASSUME NEW i \in 0 .. b
        PROVE  (IF i \in Stop THEN g[i] ELSE f[i + 1])
                = (IF i = Len(needle) \/ Outside(mem, p + i) \/ ByteAt(mem, p + i) # needle[i + 1]
                   THEN i ELSE f[i + 1])
    OBVIOUS
  <2> HIDE DEF Stop, g
  <2> QED
    BY <2>1 DEF IsLoop, IsMatchLoop
<1>2. 0 \in Nat /\ b \in Nat /\ 0 <= b /\ Stop \in SUBSET (0 .. b) /\ b \in Stop
  OBVIOUS
<1>3. \A i \in 0 .. b : g[i] = i
  OBVIOUS
<1>4. \A i \in Stop : i \in 0 .. b /\ (i = b \/ Outside(mem, p + i) \/ ByteAt(mem, p + i) # needle[i + 1])
  OBVIOUS
<1>5. \A i \in 0 .. b : i \notin Stop => ByteAt(mem, p + i) = needle[i + 1]
  OBVIOUS
<1> HIDE DEF b, Stop, g
<1>6. \E f : IsMatchLoop(f, mem, needle, p)
  BY <1>1, <1>2, LoopExists
<1>7. IsMatchLoop(h, mem, needle, p)
  BY <1>6
<1>8. Matched(mem, needle, p) = h[0]
  BY DEF Matched, IsMatchLoop
<1> HIDE DEF h
<1>9. IsLoop(h, 0, b, Stop, g)
  BY <1>1, <1>7
<1>10. PICK q \in 0 .. b : q \in Stop /\ (\A i \in 0 .. q - 1 : i \notin Stop) /\ h[0] = g[q]
  BY <1>2, <1>9, LoopFinds
<1>12. Matched(mem, needle, p) = q
  BY <1>3, <1>8, <1>10
<1>13. \A i \in 0 .. q - 1 : ByteAt(mem, p + i) = needle[i + 1]
  <2>1. \A i \in 0 .. q - 1 : i \in 0 .. b
    BY <1>2
  <2> QED
    BY <1>5, <1>10, <2>1
<1>14. q \in 0 .. b /\ (q = b \/ Outside(mem, p + q) \/ ByteAt(mem, p + q) # needle[q + 1])
  BY <1>4, <1>10
<1> QED
  BY <1>12, <1>13, <1>14 DEF b

\* A text without a NUL in it, and not empty.
IsNeedle(needle) ==
    needle \in Seq(Token) /\ needle # <<>> /\ \A i \in 1 .. Len(needle) : needle[i] # NUL

OccursAt(t, needle, p) == \A i \in DOMAIN needle : At(t, p + i - 1) = needle[i]

\* Over a string a needle is compared up to the NUL at most, and matches where it is.
LEMMA MatchFound ==
    ASSUME NEW s, Holds(s), NEW needle, IsNeedle(needle), NEW p \in 0 .. s.size - 1
    PROVE  LET m == Matched(s.mem, needle, p)
           IN  /\ m \in Nat /\ p + m < s.size /\ ~Outside(s.mem, p + m)
               /\ Complete(needle, m) <=> OccursAt(Held(s), needle, p)
<1> DEFINE m == Matched(s.mem, needle, p)
<1>1. /\ s.size \in Nat \ {0}
      /\ \A i \in 0 .. s.size - 1 : ByteAt(s.mem, i) = At(Held(s), i) /\ ~Outside(s.mem, i)
      /\ ByteAt(s.mem, s.size - 1) = NUL
  BY ReadAs
<1>2. /\ Len(needle) \in Nat /\ DOMAIN needle = 1 .. Len(needle)
      /\ \A i \in 1 .. Len(needle) : needle[i] # NUL
  BY DEF IsNeedle
<1>3. /\ m \in 0 .. Len(needle)
      /\ m = Len(needle) \/ Outside(s.mem, p + m) \/ ByteAt(s.mem, p + m) # needle[m + 1]
      /\ \A i \in 0 .. m - 1 : ByteAt(s.mem, p + i) = needle[i + 1]
  BY <1>2, MatchStops
<1> HIDE DEF m
<1>9. m \in Nat /\ m <= Len(needle) /\ Len(needle) \in Nat /\ p \in Nat /\ p < s.size
  <2> DEFINE l == Len(needle)
             z == s.size
  <2>1. m \in 0 .. l /\ l \in Nat
    BY <1>2, <1>3
  <2>2. p \in 0 .. z - 1 /\ z \in Nat
    BY <1>1
  <2> HIDE DEF l, z
  <2>3. m \in Nat /\ m <= l
    BY <2>1
  <2>4. p \in Nat /\ p < z
    BY <2>2
  <2> QED
    BY <2>1, <2>3, <2>4 DEF l, z
<1>4. p + m < s.size
  <2> SUFFICES ASSUME p + m >= s.size PROVE FALSE
    BY <1>1, <1>9
  <2> DEFINE i == s.size - 1 - p
  <2>1. i \in 0 .. m - 1 /\ p + i = s.size - 1 /\ i + 1 \in 1 .. Len(needle)
    BY <1>1, <1>2, <1>9
  <2> HIDE DEF i
  <2>2. ByteAt(s.mem, s.size - 1) = needle[i + 1]
    BY <1>3, <2>1
  <2> QED
    BY <1>1, <1>2, <2>1, <2>2
<1>5. p + m \in 0 .. s.size - 1 /\ ~Outside(s.mem, p + m)
  BY <1>1, <1>4, <1>9
<1>6. ASSUME m = Len(needle), NEW i \in 1 .. Len(needle) PROVE At(Held(s), p + i - 1) = needle[i]
  <2> DEFINE j == i - 1
  <2>1. j \in 0 .. m - 1 /\ j + 1 = i /\ p + i - 1 = p + j /\ p + j \in 0 .. s.size - 1
    BY <1>1, <1>2, <1>4, <1>6
  <2> HIDE DEF j
  <2>2. ByteAt(s.mem, p + j) = needle[j + 1]
    BY <1>3, <2>1
  <2> QED
    BY <1>1, <2>1, <2>2
<1>7. ASSUME m # Len(needle) PROVE \E i \in 1 .. Len(needle) : At(Held(s), p + i - 1) # needle[i]
  <2>1. ByteAt(s.mem, p + m) # needle[m + 1]
    BY <1>3, <1>5, <1>7
  <2>2. At(Held(s), p + m) # needle[m + 1]
    BY <1>1, <1>5, <2>1
  <2>3. m + 1 \in 1 .. Len(needle) /\ p + (m + 1) - 1 = p + m
    BY <1>7, <1>9
  <2> QED
    BY <2>2, <2>3
<1>8. Complete(needle, m) <=> OccursAt(Held(s), needle, p)
  BY <1>2, <1>6, <1>7 DEF Complete, OccursAt
<1> QED
  BY <1>4, <1>5, <1>8, <1>9 DEF m

\* A loop that keeps account of how far it has read.
IsReach(f, a, b, Stop, g, r) ==
    f = [p \in a .. b |-> IF p \in Stop THEN g[p] ELSE Further(f[p + 1], r[p])]

LEMMA ReachExists ==
    ASSUME NEW a \in Nat, NEW b \in Nat, a <= b, NEW Stop, b \in Stop, NEW g, NEW r
    PROVE  \E f : IsReach(f, a, b, Stop, g, r)
<1> DEFINE Bad == {d \in 0 .. b - a : ~ \E f : IsReach(f, b - d, b, Stop, g, r)}
<1>1. Bad = {}
  <2> SUFFICES ASSUME Bad # {} PROVE FALSE
    OBVIOUS
  <2>1. Bad \in SUBSET Nat
    OBVIOUS
  <2> DEFINE d == Least(Bad)
  <2>2. d \in Bad /\ \A e \in Bad : d <= e
    <3> HIDE DEF Bad
    <3> QED
      BY <2>1, LeastOf
  <2> HIDE DEF d
  <2>3. d \in 0 .. b - a /\ ~ \E f : IsReach(f, b - d, b, Stop, g, r)
    BY <2>2
  <2>4. CASE d = 0
    <3> DEFINE f == [p \in b .. b |-> g[p]]
    <3>1. \A p \in b .. b : p \in Stop
      OBVIOUS
    <3>2. f = [p \in b .. b |-> IF p \in Stop THEN g[p] ELSE Further(f[p + 1], r[p])]
      BY <3>1
    <3>3. b - d = b
      BY <2>4
    <3> QED
      BY <2>3, <3>2, <3>3 DEF IsReach
  <2>5. CASE d # 0
    <3> DEFINE c == b - d
               e == d - 1
    <3>1. e \in 0 .. b - a /\ ~(d <= e) /\ b - e = c + 1 /\ c \in Nat /\ c < b
      BY <2>3, <2>5
    <3>2. PICK f : IsReach(f, b - e, b, Stop, g, r)
      BY <2>2, <3>1
    <3>3. IsReach(f, c + 1, b, Stop, g, r)
      BY <3>1, <3>2
    <3> HIDE DEF c, e
    <3> DEFINE h == [p \in c .. b |->
                        IF p = c THEN IF c \in Stop THEN g[c] ELSE Further(f[c + 1], r[c])
                        ELSE f[p]]
               k == [p \in c .. b |-> IF p \in Stop THEN g[p] ELSE Further(h[p + 1], r[p])]
    <3>4. ASSUME NEW p \in c .. b PROVE h[p] = k[p]
      <4>1. CASE p = c
        <5>1. c + 1 \in c .. b /\ c + 1 # c
          BY <3>1
        <5>2. h[c + 1] = f[c + 1]
          BY <5>1
        <5> QED
          BY <4>1, <5>2
      <4>2. CASE p # c
        <5>1. p \in c + 1 .. b
          BY <3>1, <4>2
        <5>2. f[p] = IF p \in Stop THEN g[p] ELSE Further(f[p + 1], r[p])
          BY <3>3, <5>1 DEF IsReach
        <5>3. p \notin Stop => p + 1 \in c .. b /\ p + 1 # c
          BY <3>1, <5>1
        <5> QED
          BY <4>2, <5>2, <5>3
      <4> QED
        BY <4>1, <4>2
    <3>5. h = k
      <4>1. h = [p \in c .. b |-> h[p]] /\ k = [p \in c .. b |-> k[p]]
        OBVIOUS
      <4> HIDE DEF h, k
      <4> QED
        BY <3>4, <4>1
    <3>6. IsReach(h, c, b, Stop, g, r)
      BY <3>5 DEF IsReach
    <3> QED
      BY <2>3, <3>6 DEF c
  <2> QED
    BY <2>4, <2>5
<1> DEFINE d == b - a
<1>2. d \in 0 .. b - a /\ b - d = a
  OBVIOUS
<1> HIDE DEF d
<1> QED
  BY <1>1, <1>2

LEMMA FurtherIs ==
    ASSUME NEW found, NEW position, NEW x \in Int, NEW y \in Int
    PROVE  Further(Outcome(found, position, x), y)
            = Outcome(found, position, IF y > x THEN y ELSE x)
BY DEF Further, Outcome

\* It finds what is where it stops, and has read no further than it has at any position.
Reaches(f, a, b, Stop, g, r) ==
    \A p \in a .. b, q \in a .. b, bound \in Int :
        q \in Stop /\ p <= q /\ (\A i \in p .. q - 1 : i \notin Stop /\ r[i] \in Int /\ r[i] < bound)
        => \A found, position : \A read \in Int :
            read < bound /\ g[q] = Outcome(found, position, read)
            => \E x \in Int : x < bound /\ f[p] = Outcome(found, position, x)

LEMMA ReachStops ==
    ASSUME NEW a \in Nat, NEW b \in Nat, NEW Stop, NEW g, NEW r, NEW f,
           IsReach(f, a, b, Stop, g, r)
    PROVE  Reaches(f, a, b, Stop, g, r)
<1> SUFFICES ASSUME NEW p \in a .. b, NEW q \in a .. b, NEW bound \in Int,
                    q \in Stop, p <= q,
                    \A i \in p .. q - 1 : i \notin Stop /\ r[i] \in Int /\ r[i] < bound
             PROVE  \A found, position : \A read \in Int :
                        read < bound /\ g[q] = Outcome(found, position, read)
                        => \E x \in Int : x < bound /\ f[p] = Outcome(found, position, x)
  BY DEF Reaches
<1> TAKE found, position
<1> TAKE read \in Int
<1> HAVE read < bound /\ g[q] = Outcome(found, position, read)
<1> DEFINE Good(o) == \E x \in Int : x < bound /\ o = Outcome(found, position, x)
           Bad == {d \in 0 .. q - p : ~Good(f[q - d])}
<1>1. q \in a .. b
  OBVIOUS
<1>2. ASSUME NEW i \in a .. b
      PROVE  f[i] = IF i \in Stop THEN g[i] ELSE Further(f[i + 1], r[i])
  BY <1>2 DEF IsReach
<1>3. Bad = {}
  <2> SUFFICES ASSUME Bad # {} PROVE FALSE
    OBVIOUS
  <2>1. Bad \in SUBSET Nat
    BY <1>1
  <2> DEFINE d == Least(Bad)
  <2>2. d \in Bad /\ \A e \in Bad : d <= e
    <3> HIDE DEF Bad
    <3> QED
      BY <2>1, LeastOf
  <2> HIDE DEF d
  <2>3. d \in 0 .. q - p /\ ~Good(f[q - d])
    BY <2>2
  <2>4. d # 0
    <3>1. f[q] = g[q] /\ q - 0 = q
      BY <1>1, <1>2
    <3>2. Good(f[q])
      BY <3>1
    <3> QED
      BY <2>3, <3>1, <3>2
  <2> DEFINE e == d - 1
             i == q - d
  <2>5. e \in 0 .. q - p /\ ~(d <= e)
    BY <1>1, <2>3, <2>4
  <2>6. i \in p .. q - 1 /\ i \in a .. b /\ i + 1 = q - e
    BY <1>1, <2>3, <2>4
  <2>7. ~Good(f[i])
    BY <2>3
  <2> HIDE DEF e, i
  <2>8. Good(f[q - e])
    BY <2>2, <2>5
  <2>9. PICK x \in Int : x < bound /\ f[i + 1] = Outcome(found, position, x)
    BY <2>6, <2>8
  <2>10. f[i] = Further(f[i + 1], r[i]) /\ r[i] \in Int /\ r[i] < bound
    BY <1>2, <2>6
  <2> DEFINE y == IF r[i] > x THEN r[i] ELSE x
  <2>11. f[i] = Outcome(found, position, y)
    BY <2>9, <2>10, FurtherIs
  <2>12. y \in Int /\ y < bound
    BY <2>9, <2>10
  <2> QED
    BY <2>7, <2>11, <2>12
<1> DEFINE d == q - p
<1>4. d \in 0 .. q - p /\ q - d = p
  BY <1>1
<1> HIDE DEF d
<1>5. Good(f[q - d])
  BY <1>3, <1>4
<1> QED
  BY <1>4, <1>5

IsStringLoop(f, mem, needle, first, last) ==
    f = [p \in first .. Len(mem) |->
            LET m == Matched(mem, needle, p)
            IN  IF Complete(needle, m) THEN Outcome(TRUE, p, p + m - 1)
                ELSE IF Outside(mem, p + m) \/ AtLast(p, last) THEN Outcome(FALSE, p, p + m)
                ELSE Further(f[p + 1], p + m)]

\* What is found at a position, the first occurrence or else the last.
StopsAt(c, s, needle, first, last, q) ==
    /\ q = last \/ OccursAt(Held(s), needle, q)
    /\ \A r \in first .. q - 1 : ~OccursAt(Held(s), needle, r)
    /\ c.found <=> OccursAt(Held(s), needle, q)
    /\ c.position = q /\ c.read < s.size

LEMMA StringStops ==
    ASSUME NEW s, Holds(s), NEW needle, IsNeedle(needle), ~Refused(s.size, needle),
           NEW first \in Nat, NEW last \in Nat, first <= last, last < s.size
    PROVE  \E q \in first .. last :
            StopsAt(SearchString(s.mem, s.size, needle, first, last), s, needle, first, last, q)
<1> DEFINE b == Len(s.mem)
           z == s.size
           M(p) == Matched(s.mem, needle, p)
           Here(p) == Complete(needle, M(p))
           Stop == {p \in first .. b : Here(p) \/ Outside(s.mem, p + M(p)) \/ AtLast(p, last)}
           g == [p \in first .. b |-> IF Here(p) THEN Outcome(TRUE, p, p + M(p) - 1)
                                      ELSE Outcome(FALSE, p, p + M(p))]
           r == [p \in first .. b |-> p + M(p)]
           h == CHOOSE f : IsStringLoop(f, s.mem, needle, first, last)
<1>1. b \in Nat /\ z \in Nat \ {0} /\ z <= b /\ last < z
  BY ReadAs
<1>2. \A p \in 0 .. z - 1 :
        /\ M(p) \in Nat /\ p + M(p) < z /\ ~Outside(s.mem, p + M(p))
        /\ Here(p) <=> OccursAt(Held(s), needle, p)
  BY MatchFound
<1>3. ASSUME NEW f
      PROVE  IsReach(f, first, b, Stop, g, r) <=> IsStringLoop(f, s.mem, needle, first, last)
  <2>1. ASSUME NEW p \in first .. b
        PROVE  (IF p \in Stop THEN g[p] ELSE Further(f[p + 1], r[p]))
                = (LET m == Matched(s.mem, needle, p)
                   IN  IF Complete(needle, m) THEN Outcome(TRUE, p, p + m - 1)
                       ELSE IF Outside(s.mem, p + m) \/ AtLast(p, last) THEN Outcome(FALSE, p, p + m)
                       ELSE Further(f[p + 1], p + m))
    OBVIOUS
  <2> HIDE DEF Stop, g, r
  <2> QED
    BY <2>1 DEF IsReach, IsStringLoop
<1>4. Len(needle) \in Nat /\ Stop \in SUBSET (first .. b) /\ last \in Stop
  BY <1>1 DEF IsNeedle, AtLast
<1>5. b \in Stop
  <2>1. M(b) \in 0 .. Len(needle)
    BY <1>4, MatchStops
  <2>2. M(b) \in Nat
    <3> HIDE DEF M
    <3> QED
      BY <1>4, <2>1
  <2>3. b + M(b) >= Len(s.mem)
    <3> HIDE DEF M
    <3> QED
      BY <1>1, <2>2
  <2>4. Outside(s.mem, b + M(b))
    BY <2>3 DEF Outside
  <2> QED
    BY <1>1, <2>4
<1>6. SearchString(s.mem, s.size, needle, first, last) = h[first]
  BY DEF SearchString, IsStringLoop
<1>7. first <= b /\ first \in first .. b /\ last \in first .. b
  BY <1>1
<1>8. \A p \in Stop : p \in first .. b
  OBVIOUS
<1>9. \A p \in first .. last : p \in 0 .. z - 1 /\ p \in first .. b
  BY <1>1
<1>10. \A p \in first .. last : p \in Stop <=> OccursAt(Held(s), needle, p) \/ p = last
  BY <1>2, <1>9 DEF AtLast
<1>11. \A p \in first .. last :
        /\ g[p] = IF OccursAt(Held(s), needle, p) THEN Outcome(TRUE, p, p + M(p) - 1)
                  ELSE Outcome(FALSE, p, p + M(p))
        /\ r[p] = p + M(p) /\ r[p] \in Int /\ r[p] < z
  <2> SUFFICES ASSUME NEW p \in first .. last
               PROVE  /\ g[p] = IF OccursAt(Held(s), needle, p) THEN Outcome(TRUE, p, p + M(p) - 1)
                                ELSE Outcome(FALSE, p, p + M(p))
                      /\ r[p] = p + M(p) /\ r[p] \in Int /\ r[p] < z
    OBVIOUS
  <2>1. p \in 0 .. z - 1 /\ p \in first .. b
    BY <1>9
  <2>2. g[p] = IF Here(p) THEN Outcome(TRUE, p, p + M(p) - 1) ELSE Outcome(FALSE, p, p + M(p))
    <3> HIDE DEF M, Here
    <3> QED
      BY <2>1
  <2>3. r[p] = p + M(p)
    BY <2>1
  <2>4. /\ M(p) \in Nat /\ p + M(p) < z
        /\ Here(p) <=> OccursAt(Held(s), needle, p)
    BY <1>2, <2>1
  <2> HIDE DEF M, Here, g, r, z, b
  <2>5. p \in Int
    OBVIOUS
  <2>6. g[p] = IF OccursAt(Held(s), needle, p) THEN Outcome(TRUE, p, p + M(p) - 1)
               ELSE Outcome(FALSE, p, p + M(p))
    BY <2>2, <2>4, Zenon
  <2>7. r[p] \in Int /\ r[p] < z
    <3>1. M(p) \in Nat /\ p + M(p) < z
      BY <2>4
    <3> QED
      BY <2>3, <2>5, <3>1
  <2> QED
    BY <2>3, <2>6, <2>7
<1> HIDE DEF b, Stop, g, r
<1>12. \E f : IsStringLoop(f, s.mem, needle, first, last)
  <2>1. \E f : IsReach(f, first, b, Stop, g, r)
    BY <1>1, <1>5, <1>7, ReachExists
  <2> QED
    BY <1>3, <2>1
<1>13. IsStringLoop(h, s.mem, needle, first, last)
  BY <1>12
<1> HIDE DEF h
<1>14. IsReach(h, first, b, Stop, g, r)
  BY <1>3, <1>13
<1>15. PICK q \in first .. last : q \in Stop /\ \A i \in first .. q - 1 : i \notin Stop
  BY <1>4, FirstStop
<1>16. \A i \in first .. q - 1 : i \in first .. last /\ i # last
  BY <1>15
<1>17. q = last \/ OccursAt(Held(s), needle, q)
  BY <1>10, <1>15
<1>18. \A i \in first .. q - 1 : ~OccursAt(Held(s), needle, i)
  BY <1>10, <1>15, <1>16
<1> DEFINE found == IF OccursAt(Held(s), needle, q) THEN TRUE ELSE FALSE
           read == IF OccursAt(Held(s), needle, q) THEN q + M(q) - 1 ELSE q + M(q)
<1>19. g[q] = Outcome(found, q, read)
  BY <1>11, <1>15
<1>20. read \in Int /\ read < z
  <2>1. M(q) \in Nat /\ q + M(q) < z
    BY <1>2, <1>9, <1>15
  <2> HIDE DEF M
  <2> QED
    BY <1>1, <2>1
<1>21. \A i \in first .. q - 1 : r[i] \in Int /\ r[i] < z
  BY <1>11, <1>16
<1> HIDE DEF found, read
<1>22. \E x \in Int : x < z /\ h[first] = Outcome(found, q, x)
  <2>1. z \in Int /\ q \in first .. b /\ first <= q
    BY <1>1, <1>9, <1>15
  <2> HIDE DEF z
  <2>2. Reaches(h, first, b, Stop, g, r)
    BY <1>1, <1>14, ReachStops
  <2>3. \A i \in first .. q - 1 : i \notin Stop /\ r[i] \in Int /\ r[i] < z
    BY <1>15, <1>21
  <2>4. \A f1, p1 : \A r1 \in Int :
            r1 < z /\ g[q] = Outcome(f1, p1, r1)
            => \E x \in Int : x < z /\ h[first] = Outcome(f1, p1, x)
    BY <1>7, <1>15, <2>1, <2>2, <2>3 DEF Reaches
  <2> QED
    BY <1>19, <1>20, <2>4
<1>23. PICK x \in Int : x < z /\ h[first] = Outcome(found, q, x)
  BY <1>22
<1>24. /\ h[first].found <=> OccursAt(Held(s), needle, q)
       /\ h[first].position = q /\ h[first].read < s.size
  <2>1. h[first].found = found /\ h[first].position = q /\ h[first].read = x
    BY <1>23 DEF Outcome
  <2> QED
    BY <1>23, <2>1 DEF found
<1> QED
  BY <1>6, <1>15, <1>17, <1>18, <1>24 DEF StopsAt

\* Over a string it finds the first occurrence that starts in the bounds, wherever it ends.
LEMMA StringFound ==
    ASSUME NEW s, Holds(s), NEW needle, IsNeedle(needle), NEW b, b.buf = Held(s),
           b.first \in 0 .. Len(Held(s)), b.last \in 0 .. Len(Held(s)), b.first <= b.last
    PROVE  LET c == SearchString(s.mem, s.size, needle, b.first, b.last)
               all == Occurrences(b, needle)
               refused == Refused(s.size, needle)
           IN  /\ c.found <=> ~refused /\ all # {}
               /\ c.position = IF refused THEN 0 ELSE IF c.found THEN Least(all) ELSE b.last
               /\ c.read < s.size
<1> DEFINE c == SearchString(s.mem, s.size, needle, b.first, b.last)
           all == Occurrences(b, needle)
           first == b.first
           last == b.last
<1>1. s.size \in Nat \ {0} /\ Len(Held(s)) = s.size - 1
  BY ReadAs
<1>2. first \in Nat /\ last \in Nat /\ first <= last /\ last < s.size
  BY <1>1
<1>3. CASE Refused(s.size, needle)
  <2>1. c = Outcome(FALSE, 0, -1)
    BY <1>3 DEF SearchString
  <2> HIDE DEF c
  <2>2. ~c.found /\ c.position = 0 /\ c.read = -1
    BY <2>1 DEF Outcome
  <2>3. c.read < s.size
    BY <1>1, <2>2
  <2> QED
    BY <1>3, <2>2, <2>3 DEF c
<1>4. CASE ~Refused(s.size, needle)
  <2>1. \A p : p \in all <=> p \in first .. last /\ OccursAt(Held(s), needle, p)
    BY DEF Occurrences, OccursAt
  <2>2. PICK q \in first .. last : StopsAt(c, s, needle, first, last, q)
    <3> HIDE DEF first, last
    <3>1. \E q \in first .. last :
            StopsAt(SearchString(s.mem, s.size, needle, first, last), s, needle, first, last, q)
      BY <1>2, <1>4, StringStops
    <3> QED
      BY <3>1 DEF first, last
  <2> HIDE DEF c, first, last, all
  <2>5. /\ q = last \/ OccursAt(Held(s), needle, q)
        /\ \A r \in first .. q - 1 : ~OccursAt(Held(s), needle, r)
        /\ c.found <=> OccursAt(Held(s), needle, q)
        /\ c.position = q /\ c.read < s.size
    BY <2>2 DEF StopsAt
  <2>3. CASE OccursAt(Held(s), needle, q)
    <3>1. c.found /\ c.position = q
      BY <2>3, <2>5
    <3>2. q \in all /\ all \in SUBSET Nat
      BY <1>2, <2>1, <2>3
    <3>3. ASSUME NEW r \in all PROVE q <= r
      <4>1. r \in first .. last /\ r \notin first .. q - 1
        BY <2>1, <2>5
      <4> QED
        BY <1>2, <4>1
    <3>4. Least(all) \in all /\ \A r \in all : Least(all) <= r
      BY <3>2, LeastOf
    <3>5. Least(all) = q
      <4>1. Least(all) \in Nat /\ q \in Nat /\ q <= Least(all) /\ Least(all) <= q
        BY <3>2, <3>3, <3>4
      <4> QED
        BY <4>1
    <3> QED
      BY <1>4, <2>5, <3>1, <3>2, <3>5 DEF c, all, last
  <2>4. CASE ~OccursAt(Held(s), needle, q)
    <3>1. ~c.found /\ c.position = q
      BY <2>4, <2>5
    <3>2. q = last
      BY <2>4, <2>5
    <3>3. ASSUME NEW r \in all PROVE FALSE
      <4>1. r \in first .. last /\ OccursAt(Held(s), needle, r)
        BY <2>1, <3>3
      <4>2. r = last \/ r \in first .. q - 1
        BY <1>2, <3>2, <4>1
      <4> QED
        BY <2>4, <2>5, <3>2, <4>1, <4>2
    <3>4. all = {}
      BY <3>3
    <3> QED
      BY <1>4, <2>5, <3>1, <3>2, <3>4 DEF c, all, last
  <2> QED
    BY <2>3, <2>4
<1> QED
  BY <1>3, <1>4

-----------------------------------------------------------------------------
(* The comparison.                                                         *)

IsSameLoop(f, lhs, rhs, size) ==
    f = [p \in 0 .. size |->
            IF p = size THEN Outcome(TRUE, p, p - 1)
            ELSE IF ByteAt(lhs, p) # ByteAt(rhs, p) THEN Outcome(FALSE, p, p)
            ELSE f[p + 1]]

LEMMA SameStops ==
    ASSUME NEW lhs, NEW rhs, NEW size \in Nat
    PROVE  Same(lhs, rhs, size).found <=> \A p \in 0 .. size - 1 : ByteAt(lhs, p) = ByteAt(rhs, p)
<1> DEFINE Stop == {p \in 0 .. size : p = size \/ ByteAt(lhs, p) # ByteAt(rhs, p)}
           g == [p \in 0 .. size |-> IF p = size THEN Outcome(TRUE, p, p - 1)
                                     ELSE Outcome(FALSE, p, p)]
           h == CHOOSE f : IsSameLoop(f, lhs, rhs, size)
<1>1. ASSUME NEW f PROVE IsLoop(f, 0, size, Stop, g) <=> IsSameLoop(f, lhs, rhs, size)
  <2>1. ASSUME NEW p \in 0 .. size
        PROVE  (IF p \in Stop THEN g[p] ELSE f[p + 1])
                = (IF p = size THEN Outcome(TRUE, p, p - 1)
                   ELSE IF ByteAt(lhs, p) # ByteAt(rhs, p) THEN Outcome(FALSE, p, p)
                   ELSE f[p + 1])
    OBVIOUS
  <2> HIDE DEF Stop, g
  <2> QED
    BY <2>1 DEF IsLoop, IsSameLoop
<1>2. 0 \in Nat /\ size \in Nat /\ 0 <= size /\ Stop \in SUBSET (0 .. size) /\ size \in Stop
  OBVIOUS
<1>3. \A p \in 0 .. size : g[p].found <=> p = size
  BY DEF Outcome
<1>4. \A p \in 0 .. size : p \in Stop <=> p = size \/ ByteAt(lhs, p) # ByteAt(rhs, p)
  OBVIOUS
<1> HIDE DEF Stop, g
<1>5. \E f : IsSameLoop(f, lhs, rhs, size)
  BY <1>1, <1>2, LoopExists
<1>6. IsSameLoop(h, lhs, rhs, size)
  BY <1>5
<1>7. Same(lhs, rhs, size) = h[0]
  BY DEF Same, IsSameLoop
<1> HIDE DEF h
<1>8. IsLoop(h, 0, size, Stop, g)
  BY <1>1, <1>6
<1>9. PICK q \in 0 .. size : q \in Stop /\ (\A p \in 0 .. q - 1 : p \notin Stop) /\ h[0] = g[q]
  BY <1>2, <1>8, LoopFinds
<1>10. Same(lhs, rhs, size).found <=> q = size
  BY <1>3, <1>7, <1>9
<1>11. ASSUME q = size, NEW p \in 0 .. size - 1 PROVE ByteAt(lhs, p) = ByteAt(rhs, p)
  <2>1. p \in 0 .. q - 1 /\ p \in 0 .. size
    BY <1>11
  <2> QED
    BY <1>4, <1>9, <2>1
<1>12. ASSUME q # size PROVE \E p \in 0 .. size - 1 : ByteAt(lhs, p) # ByteAt(rhs, p)
  <2>1. q \in 0 .. size - 1 /\ q \in 0 .. size
    BY <1>9, <1>12
  <2> QED
    BY <1>4, <1>9, <1>12, <2>1
<1> QED
  BY <1>10, <1>11, <1>12

\* Two strings compare equal when they hold the same text.
LEMMA EqualIs ==
    ASSUME NEW l, Holds(l), NEW r, Holds(r)
    PROVE  Equal(l, r) <=> Held(l) = Held(r)
<1>1. /\ l.size \in Nat \ {0} /\ Len(Held(l)) = l.size - 1
      /\ \A p \in 0 .. l.size - 1 : ByteAt(l.mem, p) = At(Held(l), p)
  BY ReadAs
<1>2. /\ r.size \in Nat \ {0} /\ Len(Held(r)) = r.size - 1
      /\ \A p \in 0 .. r.size - 1 : ByteAt(r.mem, p) = At(Held(r), p)
  BY ReadAs
<1>3. Held(l) \in Seq(Byte) /\ Held(r) \in Seq(Byte)
  BY HeldIs DEF Holds
<1>4. ASSUME Held(l) = Held(r) PROVE Equal(l, r)
  <2>1. l.size = r.size
    BY <1>1, <1>2, <1>4
  <2>2. \A p \in 0 .. l.size - 1 : ByteAt(l.mem, p) = ByteAt(r.mem, p)
    BY <1>1, <1>2, <1>4, <2>1
  <2>3. Same(l.mem, r.mem, l.size).found
    BY <1>1, <2>2, SameStops
  <2> QED
    BY <2>1, <2>3 DEF Equal
<1>5. ASSUME Equal(l, r) PROVE Held(l) = Held(r)
  <2>1. l.size = r.size /\ Same(l.mem, r.mem, l.size).found
    BY <1>5 DEF Equal
  <2>2. \A p \in 0 .. l.size - 1 : ByteAt(l.mem, p) = ByteAt(r.mem, p)
    BY <1>1, <2>1, SameStops
  <2>3. \A p \in 0 .. l.size - 1 : At(Held(l), p) = At(Held(r), p)
    BY <1>1, <1>2, <2>1, <2>2
  <2>4. ASSUME NEW i \in 1 .. Len(Held(l)) PROVE Held(l)[i] = Held(r)[i]
    <3> DEFINE p == i - 1
    <3>1. p \in 0 .. l.size - 1 /\ p + 1 = i /\ p < Len(Held(l)) /\ p < Len(Held(r))
      BY <1>1, <1>2, <2>1
    <3> HIDE DEF p
    <3>2. At(Held(l), p) = Held(l)[p + 1] /\ At(Held(r), p) = Held(r)[p + 1]
      BY <3>1 DEF At
    <3> QED
      BY <2>3, <3>1, <3>2
  <2>5. Len(Held(l)) = Len(Held(r))
    BY <1>1, <1>2, <2>1
  <2> QED
    BY <1>3, <2>4, <2>5, SeqEqual
<1> QED
  BY <1>4, <1>5

-----------------------------------------------------------------------------
LEMMA NeedlesAre == \A needle \in Needles : IsNeedle(needle)
<1> SUFFICES ASSUME NEW needle \in Needles PROVE IsNeedle(needle)
  OBVIOUS
<1>1. needle \in Text /\ needle # <<>>
  BY StringsAssumption
<1>2. needle \in Seq(Word \cup {SP, LF}) /\ Len(needle) \in Nat
  BY <1>1, LenProperties DEF Text
<1>3. \A i \in 1 .. Len(needle) : needle[i] \in Word \cup {SP, LF}
  BY <1>2
<1>4. NUL \notin Word \cup {SP, LF} /\ Word \cup {SP, LF} \subseteq Token
  BY RbAssumption DEF Token
<1>5. needle \in Seq(Token)
  BY <1>2, <1>4, SeqMonotonic
<1> QED
  BY <1>1, <1>3, <1>4, <1>5 DEF IsNeedle

LEMMA SearchesAre ==
    ASSUME NEW t, NEW b \in SearchesOf(t)
    PROVE  b.buf = t /\ b.first \in 0 .. Len(t) /\ b.last \in 0 .. Len(t) /\ b.first <= b.last
BY DEF SearchesOf

\* The searches of a character and of a string find the least position between their
\* bounds (buffer.c:224, buffer.c:251), and two strings compare equal when their texts are
\* equal (buffer.c:164), whatever older bytes are in their blocks.
THEOREM StringsFindTheLeast == Chunk > 1 => (Spec => []FindsTheLeast)
<1>1. StringsInv => FindsTheLeast
  <2> SUFFICES ASSUME StringsInv PROVE FindsTheLeast
    OBVIOUS
  <2>1. \A n \in DOMAIN str : Holds(str[n])
    BY DEF StringsInv
  <2>2. ASSUME NEW n \in DOMAIN str, NEW needle \in Needles, NEW b \in SearchesOf(Held(str[n]))
        PROVE  LET c == FoundChar(str[n], b, needle)
                   s == FoundString(str[n], b, needle)
                   all == Occurrences(b, needle)
                   refused == Refused(str[n].size, needle)
               IN  /\ c.found <=> Finds(b, Char(needle))
                   /\ c.position = IF c.found THEN Position(b, Char(needle)) ELSE b.last
                   /\ s.found <=> ~refused /\ all # {}
                   /\ s.position = IF refused THEN 0 ELSE IF s.found THEN Least(all) ELSE b.last
    <3>1. b.buf = Held(str[n]) /\ b.first \in 0 .. Len(Held(str[n]))
          /\ b.last \in 0 .. Len(Held(str[n])) /\ b.first <= b.last
      BY SearchesAre
    <3> QED
      BY <2>1, <3>1, NeedlesAre, CharFound, StringFound DEF FoundChar, FoundString
  <2>3. ASSUME NEW n \in DOMAIN str, NEW m \in DOMAIN str
        PROVE  Equal(str[n], str[m]) <=> Held(str[n]) = Held(str[m])
    BY <2>1, EqualIs
  <2> QED
    BY <2>2, <2>3 DEF FindsTheLeast
<1> QED
  BY <1>1, InvHolds, PTL

\* Neither search reads behind the NUL of its text: the position they stop at is compared
\* for equality only (buffer.c:241, buffer.c:296), and is always met.
THEOREM StringsReadInside == Chunk > 1 => (Spec => []ReadsInside)
<1>1. StringsInv => ReadsInside
  <2> SUFFICES ASSUME StringsInv PROVE ReadsInside
    OBVIOUS
  <2>1. \A n \in DOMAIN str : Holds(str[n])
    BY DEF StringsInv
  <2>2. ASSUME NEW n \in DOMAIN str, NEW needle \in Needles, NEW b \in SearchesOf(Held(str[n]))
        PROVE  /\ FoundChar(str[n], b, needle).read < str[n].size
               /\ FoundString(str[n], b, needle).read < str[n].size
    <3>1. b.buf = Held(str[n]) /\ b.first \in 0 .. Len(Held(str[n]))
          /\ b.last \in 0 .. Len(Held(str[n])) /\ b.first <= b.last
      BY SearchesAre
    <3> QED
      BY <2>1, <3>1, NeedlesAre, CharFound, StringFound DEF FoundChar, FoundString
  <2> QED
    BY <2>2 DEF ReadsInside
<1> QED
  BY <1>1, InvHolds, PTL
=============================================================================
