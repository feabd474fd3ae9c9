--------------------------- MODULE Transfer_proof ---------------------------
(* What send_all, read_all and the buffer of a file guarantee, for any     *)
(* files, block size and number of transfers.                              *)
EXTENDS Transfer, TLAPS

(* The buffer is a number of blocks, and so is what was read, except at    *)
(* the end of the file: this is why a test for equality with the size of   *)
(* the buffer is enough.                                                   *)
BufferPart ==
  /\ NoOverrun
  /\ file_size = offset
  /\ \E k \in 0..Len(text) : Len(text) = k * Block
  /\ offset = Len(file) \/ \E m \in 0..offset : offset = m * Block

(* A file of one block is in the buffer once it is read, with a 0 after    *)
(* it if it is shorter.                                                    *)
SmallPart ==
  Len(file) <= Block =>
    \/ offset = 0 /\ text = Times(Block, Nul)
    \/ /\ offset = Len(file) /\ Len(file) <= Len(text)
       /\ \A i \in 1..Len(file) : text[i] = file[i]
       /\ Len(file) < Block => Len(text) = Block /\ text[Len(file) + 1] = Nul

(* Where the two loops are between calls.                                  *)
LoopPart ==
  /\ data <= goal /\ (sender = "idle" => data = goal)
  /\ Len(stored) <= want /\ (reader = "idle" => Len(stored) = want)

(* What a faithful connection has done with the bytes sent.                *)
OrderPart ==
  FaithfulMode =>
    /\ base \in 0..data /\ errno = FALSE
    /\ Len(stored) + Len(wire) = data
    /\ \A i \in 1..Len(stored) : stored[i] = i
    /\ \A i \in 1..Len(wire) : wire[i] = Len(stored) + i

(* How far the two programs have come with a file, in bytes.               *)
Whole == begun + IntSize + announced

PhasePart ==
  FaithfulMode =>
    /\ begun >= 0
    /\ transfers = 0 => sends = "rest" /\ receives = "rest" /\ goal = 0 /\ want = 0
    /\ sends = "load" => receives = "length" /\ goal = begun
    /\ sends = "length" => goal = begun + IntSize
    /\ sends = "rest" /\ transfers > 0 => goal = Whole
    /\ receives = "length" => want = begun + IntSize
    /\ receives = "content" => sends # "load" /\ want = Whole /\ at = begun + IntSize
    /\ receives = "rest" /\ transfers > 0 => want = Whole

(* Which file is in the buffer, and what was announced of it.              *)
FilePart ==
  /\ at <= Len(stored) /\ announced <= Len(text)
  /\ receives # "rest" => transfers > 0
  /\ Fetching => fds <= transfers
  /\ transfers > 0 =>
       /\ asked \in Files
       /\ (Fetching => transfers <= Limit) => file = asked
       /\ sends # "load" => AtEnd /\ announced \in Lengths

BasePart == TypeOK /\ BufferPart /\ SmallPart /\ LoopPart /\ FilePart

TransferInv == BasePart /\ OrderPart /\ PhasePart /\ SmallArrive

(* A step of one of the two loops, or one that stops a program.            *)
TransportNext ==
  \/ SendLoop \/ ReadLoop \/ Killed \/ SendInterrupted \/ ReadInterrupted
  \/ \E side \in Sides : Interrupt(side)

-----------------------------------------------------------------------------
(* Facts about sequences.                                                  *)
LEMMA TimesOf ==
  ASSUME NEW T, NEW b \in T, NEW n \in Nat
  PROVE  /\ Times(n, b) \in Seq(T) /\ Len(Times(n, b)) = n
         /\ \A i \in 1..n : Times(n, b)[i] = b
  BY DEF Times

LEMMA PartOf ==
  ASSUME NEW T, NEW s \in Seq(T), NEW m \in 1..Len(s) + 1, NEW n \in 0..Len(s), m <= n + 1
  PROVE  /\ SubSeq(s, m, n) \in Seq(T) /\ Len(SubSeq(s, m, n)) = n - m + 1
         /\ \A i \in 1..n - m + 1 : SubSeq(s, m, n)[i] = s[m + i - 1]
  OBVIOUS

LEMMA JoinOf ==
  ASSUME NEW T, NEW s \in Seq(T), NEW t \in Seq(T)
  PROVE  /\ s \o t \in Seq(T) /\ Len(s \o t) = Len(s) + Len(t)
         /\ \A i \in 1..Len(s) : (s \o t)[i] = s[i]
         /\ \A i \in 1..Len(t) : (s \o t)[Len(s) + i] = t[i]
  OBVIOUS

LEMMA JoinNumbers ==
  ASSUME NEW s \in Seq(Nat), NEW t \in Seq(Nat), NEW u, u = s \o t
  PROVE  /\ u \in Seq(Nat) /\ Len(u) = Len(s) + Len(t)
         /\ \A i \in 1..Len(s) : u[i] = s[i]
         /\ \A i \in 1..Len(t) : u[Len(s) + i] = t[i]
  OBVIOUS

(* What lies below a multiple of b is at least b below it if it is one.    *)
LEMMA NextMultiple ==
  ASSUME NEW b \in Nat \ {0}, NEW m \in Nat, NEW k \in Nat, m * b < k * b
  PROVE  m * b + b <= k * b
  <1>1. m < k
    <2>1. SUFFICES ASSUME k <= m PROVE FALSE
      OBVIOUS
    <2>2. PICK d \in Nat : m = k + d
      BY <2>1
    <2>3. m * b = k * b + d * b /\ d * b \in Nat /\ k * b \in Nat
      BY <2>2
    <2>4. QED BY <2>3
  <1>2. PICK d \in Nat : k = m + 1 + d
    BY <1>1
  <1>3. k * b = m * b + b + d * b /\ d * b \in Nat /\ m * b \in Nat
    BY <1>2
  <1>4. QED BY <1>3

-----------------------------------------------------------------------------
(* The buffer of a file.                                                   *)
LEMMA ChunkOf ==
  ASSUME TypeOK, offset < Len(file)
  PROVE  /\ Chunk \in Seq(Char) /\ Len(Chunk) \in 1..Block
         /\ offset + Len(Chunk) <= Len(file)
         /\ offset + Len(Chunk) = Len(file) \/ Len(Chunk) = Block
         /\ \A i \in 1..Len(Chunk) : Chunk[i] = file[offset + i]
  <1> DEFINE end == IF offset + Block < Len(file) THEN offset + Block ELSE Len(file)
  <1>1. /\ file \in Seq(Char) /\ Len(file) \in Nat /\ offset \in Nat /\ Block \in Nat \ {0}
        /\ end \in 0..Len(file) /\ end >= offset + 1 /\ end <= offset + Block
        /\ end = Len(file) \/ end = offset + Block
    BY FileBufferAssumption DEF TypeOK, FileBufferTypeOK
  <1>2. /\ Chunk \in Seq(Char) /\ Len(Chunk) = end - (offset + 1) + 1
        /\ \A i \in 1..end - (offset + 1) + 1 : Chunk[i] = file[offset + 1 + i - 1]
    <2> HIDE DEF end
    <2>1. offset + 1 \in 1..Len(file) + 1 /\ offset + 1 <= end + 1
      BY <1>1
    <2>2. Chunk = SubSeq(file, offset + 1, end)
      BY DEF Chunk, end
    <2>3. QED BY <1>1, <2>1, <2>2, PartOf
  <1> HIDE DEF end
  <1>3. QED BY <1>1, <1>2

LEMMA FilledOf ==
  ASSUME TypeOK, offset < Len(file)
  PROVE  /\ Filled \in Seq(Char \cup {Unset}) /\ Len(Filled) = Len(text)
         /\ \A i \in 1..Len(text) : Filled[i] = IF i <= Len(Chunk) THEN Chunk[i] ELSE text[i]
  <1>1. text \in Seq(Char \cup {Unset}) /\ Chunk \in Seq(Char) /\ Len(text) \in Nat /\ Len(Chunk) \in Nat
    BY ChunkOf DEF TypeOK, FileBufferTypeOK
  <1>2. \A i \in 1..Len(text) : (IF i <= Len(Chunk) THEN Chunk[i] ELSE text[i]) \in Char \cup {Unset}
    BY <1>1
  <1>3. QED BY <1>1, <1>2 DEF Filled

(* What a step of the loop that reads a file makes of the buffer.          *)
LEMMA ReadOf ==
  ASSUME TypeOK, ReadBlock
  PROVE  /\ file' = file /\ offset' = offset + Len(Chunk)
         /\ offset < Len(file)
         /\ file_size' = file_size + Len(Chunk)
         /\ text' \in Seq(Char \cup {Unset})
         /\ Len(text') = IF file_size' = Len(text) THEN 2 * Len(text) ELSE Len(text)
         /\ \A i \in 1..Len(text) : text'[i] = IF i <= Len(Chunk) THEN Chunk[i] ELSE text[i]
  <1>1. /\ offset < Len(file) /\ offset' = offset + Len(Chunk) /\ file' = file
        /\ file_size' = file_size + Len(Chunk)
        /\ text' = IF file_size' = Len(text) THEN Filled \o Times(Len(text), Unset) ELSE Filled
    BY DEF ReadBlock
  <1>2. Len(text) \in Nat /\ Unset \in Char \cup {Unset}
    BY DEF TypeOK, FileBufferTypeOK
  <1>3. /\ Filled \in Seq(Char \cup {Unset}) /\ Len(Filled) = Len(text)
        /\ \A i \in 1..Len(text) : Filled[i] = IF i <= Len(Chunk) THEN Chunk[i] ELSE text[i]
    BY <1>1, FilledOf
  <1>4. Times(Len(text), Unset) \in Seq(Char \cup {Unset}) /\ Len(Times(Len(text), Unset)) = Len(text)
    BY <1>2, TimesOf
  <1>5. CASE file_size' = Len(text)
    <2> DEFINE more == Times(Len(text), Unset)
    <2>1. text' = Filled \o more
      BY <1>1, <1>5
    <2>2. more \in Seq(Char \cup {Unset}) /\ Len(more) = Len(text)
      BY <1>4
    <2> HIDE DEF more
    <2>3. /\ text' \in Seq(Char \cup {Unset}) /\ Len(text') = Len(Filled) + Len(more)
          /\ \A i \in 1..Len(Filled) : text'[i] = Filled[i]
      BY <1>3, <2>1, <2>2, JoinOf
    <2>4. QED BY <1>1, <1>2, <1>3, <1>5, <2>2, <2>3
  <1>6. CASE file_size' # Len(text)
    BY <1>1, <1>3, <1>6
  <1>7. QED BY <1>5, <1>6

(* A file is opened.                                                       *)
LEMMA OpenBuffer ==
  ASSUME NEW f \in Seq(Char), Open(f)
  PROVE  /\ FileBufferTypeOK' /\ BufferPart' /\ SmallPart'
         /\ file' = f /\ offset' = 0 /\ file_size' = 0
  <1>1. /\ Block \in Nat \ {0} /\ Nul \in Char \cup {Unset}
        /\ file' = f /\ offset' = 0 /\ file_size' = 0 /\ text' = Times(Block, Nul)
    BY FileBufferAssumption DEF Open
  <1>2. text' \in Seq(Char \cup {Unset}) /\ Len(text') = Block
    BY <1>1, TimesOf
  <1>3. Block = 1 * Block /\ 1 \in 0..Block
    BY <1>1
  <1>4. 0 = 0 * Block /\ 0 \in 0..0
    BY <1>1
  <1>5. BufferPart'
    BY <1>1, <1>2, <1>3, <1>4 DEF BufferPart, NoOverrun
  <1>6. Len(f) \in Nat
    OBVIOUS
  <1>7. FileBufferTypeOK'
    BY <1>1, <1>2, <1>6 DEF FileBufferTypeOK
  <1>8. SmallPart'
    BY <1>1 DEF SmallPart, Times
  <1>9. QED BY <1>1, <1>5, <1>7, <1>8

(* A block is read.                                                        *)
LEMMA ReadBuffer ==
  ASSUME TypeOK, BufferPart, SmallPart, ReadBlock
  PROVE  FileBufferTypeOK' /\ BufferPart' /\ SmallPart' /\ Len(text) <= Len(text')
  <1>1. /\ Block \in Nat \ {0} /\ file \in Seq(Char) /\ text \in Seq(Char \cup {Unset})
        /\ Len(file) \in Nat /\ Len(text) \in Nat /\ offset \in 0..Len(file)
        /\ file_size \in Nat /\ offset < Len(file)
    BY FileBufferAssumption DEF TypeOK, FileBufferTypeOK, ReadBlock
  <1>2. /\ Chunk \in Seq(Char) /\ Len(Chunk) \in 1..Block
        /\ offset + Len(Chunk) <= Len(file)
        /\ offset + Len(Chunk) = Len(file) \/ Len(Chunk) = Block
        /\ \A i \in 1..Len(Chunk) : Chunk[i] = file[offset + i]
    BY <1>1, ChunkOf
  <1>3. /\ file' = file /\ offset' = offset + Len(Chunk)
        /\ file_size' = file_size + Len(Chunk)
        /\ text' \in Seq(Char \cup {Unset})
        /\ Len(text') = IF file_size' = Len(text) THEN 2 * Len(text) ELSE Len(text)
        /\ \A i \in 1..Len(text) : text'[i] = IF i <= Len(Chunk) THEN Chunk[i] ELSE text[i]
    BY ReadOf
  <1>4. FileBufferTypeOK'
    BY <1>1, <1>2, <1>3 DEF FileBufferTypeOK
  <1>5. file_size' = offset' /\ Len(text) <= Len(text') /\ Len(text') >= Block
    BY <1>1, <1>2, <1>3 DEF BufferPart, NoOverrun
  <1>6. PICK k \in 0..Len(text) : Len(text) = k * Block
    BY DEF BufferPart
  <1>7. PICK m \in 0..offset : offset = m * Block
    BY <1>1 DEF BufferPart
  <1>8. offset + Block <= Len(text)
    <2>1. m * Block < k * Block
      BY <1>1, <1>6, <1>7 DEF BufferPart, NoOverrun
    <2>2. QED BY <1>1, <1>6, <1>7, <2>1, NextMultiple
  <1>9. file_size' < Len(text')
    BY <1>1, <1>2, <1>3, <1>5, <1>8
  <1>10. \E l \in 0..Len(text') : Len(text') = l * Block
    <2>1. CASE file_size' = Len(text)
      <3>1. 2 * Len(text) = (2 * k) * Block /\ 2 * k \in 0..2 * Len(text)
        BY <1>1, <1>6
      <3>2. QED BY <1>3, <2>1, <3>1
    <2>2. CASE file_size' # Len(text)
      BY <1>3, <1>6, <2>2
    <2>3. QED BY <2>1, <2>2
  <1>11. offset' = Len(file') \/ \E l \in 0..offset' : offset' = l * Block
    <2>1. CASE Len(Chunk) = Block
      <3>1. offset + Block = (m + 1) * Block /\ m + 1 \in 0..offset + Block
        BY <1>1, <1>7
      <3>2. QED BY <1>3, <2>1, <3>1
    <2>2. CASE offset + Len(Chunk) = Len(file)
      BY <1>3, <2>2
    <2>3. QED BY <1>2, <2>1, <2>2
  <1>12. BufferPart'
    BY <1>5, <1>9, <1>10, <1>11 DEF BufferPart, NoOverrun
  <1>13. SmallPart'
    <2>1. SUFFICES ASSUME Len(file) <= Block
          PROVE  /\ offset' = Len(file) /\ Len(file) <= Len(text')
                 /\ \A i \in 1..Len(file) : text'[i] = file[i]
                 /\ Len(file) < Block => Len(text') = Block /\ text'[Len(file) + 1] = Nul
      BY <1>3 DEF SmallPart
    <2>2. offset = 0 /\ text = Times(Block, Nul)
      BY <1>1, <2>1 DEF SmallPart
    <2>3. Len(text) = Block /\ \A i \in 1..Block : text[i] = Nul
      BY <1>1, <2>2, FileBufferAssumption, TimesOf
    <2>4. Len(Chunk) = Len(file)
      BY <1>1, <1>2, <2>1, <2>2
    <2>5. ASSUME NEW i \in 1..Len(file) PROVE text'[i] = file[i]
      <3>1. i \in 1..Len(Chunk) /\ i \in 1..Len(text) /\ i <= Len(Chunk)
        BY <1>1, <2>1, <2>3, <2>4
      <3>2. text'[i] = Chunk[i] /\ Chunk[i] = file[offset + i]
        BY <1>2, <1>3, <3>1
      <3>3. offset + i = i
        BY <2>2
      <3>4. QED BY <3>2, <3>3
    <2>6. ASSUME Len(file) < Block
          PROVE  Len(text') = Block /\ text'[Len(file) + 1] = Nul
      <3>1. file_size' = Len(file)
        BY <1>1, <1>3, <1>5, <2>2, <2>4
      <3>2. Len(text') = Block
        BY <1>1, <1>3, <2>3, <2>6, <3>1
      <3>3. Len(file) + 1 \in 1..Len(text) /\ Len(file) + 1 > Len(Chunk)
        BY <1>1, <2>3, <2>4, <2>6
      <3>4. QED BY <1>3, <2>3, <3>2, <3>3
    <2>7. QED BY <1>1, <1>3, <2>1, <2>2, <2>3, <2>4, <2>5, <2>6
  <1>14. QED BY <1>4, <1>5, <1>12, <1>13

-----------------------------------------------------------------------------
(* The loops of send_all and read_all.                                     *)
LEMMA ModeOf ==
  ASSUME mode \in Modes
  PROVE  /\ mode.sender \in {"client", "server"}
         /\ mode.sleepClears \in BOOLEAN /\ mode.mayFill \in BOOLEAN
  BY TransportAssumption DEF Mode

LEMMA TransportMode ==
  ASSUME TransportNext
  PROVE  mode' = mode /\ (FaithfulMode' <=> FaithfulMode)
  <1>1. mode' = mode
    BY DEF TransportNext, SendLoop, ReadLoop, SendTest, SendBytes, SendAgain, SendBroken,
       SendInterrupted, ReadTest, ReadBytes, ReadAgain, ReadEnd, ReadInterrupted, Interrupt, Killed
  <1>2. QED BY <1>1 DEF FaithfulMode, SendBlocks

(* What send puts into the buffers of the kernel.                          *)
LEMMA SentOf ==
  ASSUME TransportTypeOK, LoopPart, SendBytes
  PROVE  \E r \in 1..goal - data :
           /\ data' = data + r /\ data' <= goal
           /\ wire' \in Seq(Nat) /\ Len(wire') = Len(wire) + r
           /\ \A i \in 1..Len(wire) : wire'[i] = wire[i]
           /\ \A i \in 1..r : wire'[Len(wire) + i] = ByteAt(data + i)
  <1>1. /\ wire \in Seq(Nat) /\ base \in Nat /\ data \in Int /\ goal \in Nat
    BY DEF TransportTypeOK
  <1>2. PICK r \in 1..goal - data :
          wire' = wire \o [i \in 1..r |-> ByteAt(data + i)] /\ data' = data + r
    BY DEF SendBytes
  <1> DEFINE more == [i \in 1..r |-> ByteAt(data + i)]
  <1>3. \A i \in 1..r : ByteAt(data + i) \in Nat
    BY <1>1 DEF ByteAt
  <1>4. r \in Nat
    BY <1>1
  <1>5. more \in Seq(Nat) /\ Len(more) = r /\ \A i \in 1..r : more[i] = ByteAt(data + i)
    BY <1>3, <1>4
  <1>6. wire' = wire \o more
    BY <1>2
  <1> HIDE DEF more
  <1>7. /\ wire' \in Seq(Nat) /\ Len(wire') = Len(wire) + Len(more)
        /\ \A i \in 1..Len(wire) : wire'[i] = wire[i]
        /\ \A i \in 1..Len(more) : wire'[Len(wire) + i] = more[i]
    <2>1. wire \in Seq(Nat) /\ more \in Seq(Nat)
      BY <1>1, <1>5
    <2>2. QED BY <1>6, <2>1, JoinNumbers
  <1>8. data' <= goal
    BY <1>1, <1>2
  <1>9. QED BY <1>2, <1>5, <1>7, <1>8

(* What recv takes out of them.                                            *)
LEMMA TakenOf ==
  ASSUME TransportTypeOK, LoopPart, ReadBytes
  PROVE  \E r \in 1..Len(wire) :
           /\ r <= want - Len(stored)
           /\ wire' \in Seq(Nat) /\ Len(wire') = Len(wire) - r
           /\ \A i \in 1..Len(wire) - r : wire'[i] = wire[r + i]
           /\ stored' \in Seq(Nat)
           /\ errno => stored' = stored
           /\ ~errno => /\ Len(stored') = Len(stored) + r
                        /\ \A i \in 1..Len(stored) : stored'[i] = stored[i]
                        /\ \A i \in 1..r : stored'[Len(stored) + i] = wire[i]
  <1>1. wire \in Seq(Nat) /\ stored \in Seq(Nat) /\ want \in Nat /\ errno \in BOOLEAN
    BY DEF TransportTypeOK
  <1>2. PICK r \in 1..Len(wire) :
          /\ r <= want - Len(stored)
          /\ wire' = SubSeq(wire, r + 1, Len(wire))
          /\ stored' = IF errno THEN stored ELSE stored \o SubSeq(wire, 1, r)
    BY DEF ReadBytes
  <1> DEFINE taken == SubSeq(wire, 1, r)
  <1>3. Len(wire) \in Nat /\ r \in Nat /\ r + 1 \in 1..Len(wire) + 1 /\ r \in 0..Len(wire)
    BY <1>1
  <1>4. /\ taken \in Seq(Nat) /\ Len(taken) = r
        /\ \A i \in 1..r : taken[i] = wire[i]
    BY <1>1, <1>3
  <1>5. /\ wire' \in Seq(Nat) /\ Len(wire') = Len(wire) - r
        /\ \A i \in 1..Len(wire) - r : wire'[i] = wire[r + i]
    BY <1>1, <1>2, <1>3
  <1>6. CASE errno
    BY <1>1, <1>2, <1>5, <1>6
  <1>7. CASE ~errno
    <2>1. stored' = stored \o taken
      BY <1>2, <1>7
    <2> HIDE DEF taken
    <2>2. /\ stored' \in Seq(Nat) /\ Len(stored') = Len(stored) + Len(taken)
          /\ \A i \in 1..Len(stored) : stored'[i] = stored[i]
          /\ \A i \in 1..Len(taken) : stored'[Len(stored) + i] = taken[i]
      <3>1. stored \in Seq(Nat) /\ taken \in Seq(Nat)
        BY <1>1, <1>4
      <3>2. QED BY <2>1, <3>1, JoinNumbers
    <2>3. /\ Len(stored') = Len(stored) + r
          /\ \A i \in 1..r : stored'[Len(stored) + i] = wire[i]
      BY <1>4, <2>2
    <2>4. QED BY <1>2, <1>5, <1>7, <2>2, <2>3
  <1>8. QED BY <1>6, <1>7

(* A step of the loops keeps their variables typed and within the goals.   *)
LEMMA TransportStep ==
  ASSUME TransportTypeOK, LoopPart, TransportNext
  PROVE  TransportTypeOK' /\ LoopPart' /\ Len(stored) <= Len(stored')
  <1>1. /\ mode \in Modes /\ wire \in Seq(Nat) /\ stored \in Seq(Nat)
        /\ base \in Nat /\ data \in Int /\ goal \in Nat /\ want \in Nat
        /\ Len(stored) \in Nat /\ stop \subseteq Sides
    BY DEF TransportTypeOK
  <1>2. CASE SendTest
    BY <1>1, <1>2 DEF SendTest, TransportTypeOK, LoopPart, readVars
  <1>3. CASE SendBytes
    <2>1. data' <= goal /\ data' \in Int /\ wire' \in Seq(Nat)
      BY <1>1, <1>3, SentOf
    <2>2. sender' = "test" /\ UNCHANGED <<mode, base, goal, readVars, stop>>
      BY <1>3 DEF SendBytes
    <2>3. QED BY <1>1, <2>1, <2>2 DEF TransportTypeOK, LoopPart, readVars
  <1>4. CASE SendAgain
    BY <1>1, <1>4 DEF SendAgain, TransportTypeOK, LoopPart, readVars
  <1>5. CASE SendBroken \/ SendInterrupted \/ Killed
    BY <1>1, <1>5 DEF SendBroken, SendInterrupted, Killed, TransportTypeOK, LoopPart, readVars
  <1>6. CASE ReadTest
    BY <1>1, <1>6 DEF ReadTest, TransportTypeOK, LoopPart, sendVars
  <1>7. CASE ReadBytes
    <2>1. /\ wire' \in Seq(Nat) /\ stored' \in Seq(Nat)
          /\ Len(stored') <= want /\ Len(stored) <= Len(stored')
      BY <1>1, <1>7, TakenOf DEF LoopPart, TransportTypeOK
    <2>2. reader' = "test" /\ errno' \in BOOLEAN /\ UNCHANGED <<mode, sendVars, want, stop>>
      BY <1>7 DEF ReadBytes
    <2>3. QED BY <1>1, <2>1, <2>2 DEF TransportTypeOK, LoopPart, sendVars
  <1>8. CASE ReadAgain \/ ReadEnd \/ ReadInterrupted
    <2>1. /\ reader' \in {"test", "failed"} /\ errno' \in BOOLEAN
          /\ UNCHANGED <<mode, wire, sendVars, stored, want, stop>>
      BY <1>8, ModeOf, <1>1 DEF ReadAgain, ReadEnd, ReadInterrupted, TransportTypeOK
    <2>2. QED BY <1>1, <2>1 DEF TransportTypeOK, LoopPart, sendVars
  <1>9. CASE \E side \in Sides : Interrupt(side)
    BY <1>1, <1>9 DEF Interrupt, TransportTypeOK, LoopPart, sendVars, readVars
  <1>10. QED
    BY <1>2, <1>3, <1>4, <1>5, <1>6, <1>7, <1>8, <1>9 DEF TransportNext, SendLoop, ReadLoop

LEMMA CallSend ==
  ASSUME TransportTypeOK, LoopPart, NEW n \in Nat, SendAll(n)
  PROVE  /\ TransportTypeOK' /\ LoopPart'
         /\ sender = "idle" /\ goal' = goal + n /\ base' = data
         /\ UNCHANGED <<mode, wire, data, readVars, stop>>
  BY DEF SendAll, TransportTypeOK, LoopPart, readVars

LEMMA CallRead ==
  ASSUME TransportTypeOK, LoopPart, NEW n \in Nat, ReadAll(n)
  PROVE  /\ TransportTypeOK' /\ LoopPart'
         /\ reader = "idle" /\ want' = want + n /\ want = Len(stored)
         /\ UNCHANGED <<mode, wire, sendVars, stored, errno, stop>>
  BY DEF ReadAll, TransportTypeOK, LoopPart, sendVars

-----------------------------------------------------------------------------
(* The two programs.                                                       *)
LEMMA LengthsOf ==
  ASSUME TypeOK, BufferPart
  PROVE  Lengths \subseteq 0..Len(text)
  BY DEF Lengths, StringLengths, BufferPart, NoOverrun, TypeOK, FileBufferTypeOK

LEMMA ReceivedOf ==
  ASSUME TypeOK, FilePart
  PROVE  Received \in Seq(Char \cup {Unset})
  <1>1. /\ stored \in Seq(Nat) /\ at \in Nat /\ Len(stored) \in Nat /\ at <= Len(stored)
        /\ begun \in Int /\ announced \in Nat /\ announced <= Len(text)
        /\ IntSize \in Nat /\ text \in Seq(Char \cup {Unset}) /\ Len(text) \in Nat
    BY TransferAssumption DEF TypeOK, TransportTypeOK, FileBufferTypeOK, FilePart
  <1>2. ASSUME NEW i \in 1..Len(stored) - at
        PROVE  Meaning(stored[at + i]) \in Char \cup {Unset}
    <2>1. PICK b \in Nat : b = stored[at + i]
      BY <1>1
    <2>2. CASE b > begun + IntSize /\ b <= begun + IntSize + announced
      <3>1. b - begun - IntSize \in 1..Len(text)
        BY <1>1, <2>2
      <3>2. text[b - begun - IntSize] \in Char \cup {Unset}
        BY <1>1, <3>1
      <3>3. QED BY <2>1, <2>2, <3>2 DEF Meaning
    <2>3. CASE ~(b > begun + IntSize /\ b <= begun + IntSize + announced)
      BY <2>1, <2>3 DEF Meaning
    <2>4. QED BY <2>2, <2>3
  <1>3. Len(stored) - at \in Nat
    BY <1>1
  <1>4. QED BY <1>2, <1>3 DEF Received

(* The steps of the loops leave the programs where they are.               *)
LEMMA BaseFrame ==
  ASSUME BasePart, TransportNext, UNCHANGED <<bufferVars, programVars>>
  PROVE  BasePart'
  <1>1. TransportTypeOK' /\ LoopPart' /\ Len(stored) <= Len(stored')
    BY TransportStep DEF BasePart, TypeOK
  <1>2. mode' = mode
    BY TransportMode
  <1>3. UNCHANGED <<file, offset, text, file_size>>
    BY DEF bufferVars
  <1>4. UNCHANGED <<sends, receives, asked, begun, announced, at, copy, fds, transfers>>
    BY DEF programVars
  <1>5. TypeOK'
    BY <1>1, <1>3, <1>4 DEF BasePart, TypeOK, FileBufferTypeOK
  <1>6. BufferPart' /\ SmallPart'
    BY <1>3 DEF BasePart, BufferPart, NoOverrun, SmallPart
  <1>7. at' <= Len(stored')
    BY <1>1, <1>4 DEF BasePart, FilePart, TypeOK, TransportTypeOK
  <1>8. FilePart'
    BY <1>2, <1>3, <1>4, <1>7
    DEF BasePart, FilePart, Fetching, AtEnd, Lengths, StringLengths
  <1>9. QED BY <1>1, <1>5, <1>6, <1>8 DEF BasePart

LEMMA BaseBegin ==
  ASSUME BasePart, NEW f \in Files, Begin(f)
  PROVE  BasePart'
  <1>1. f \in Seq(Char) /\ <<>> \in Seq(Char) /\ IntSize \in Nat /\ Limit \in Nat /\ MaxTransfers \in Nat
    BY TransferAssumption
  <1>2. PICK g \in Seq(Char) : g = IF Fetching /\ fds = Limit THEN <<>> ELSE f
    BY <1>1
  <1>3. Open(g)
    BY <1>2 DEF Begin
  <1>4. FileBufferTypeOK' /\ BufferPart' /\ SmallPart' /\ file' = g /\ offset' = 0
    BY <1>3, OpenBuffer
  <1>5. ReadAll(IntSize)
    BY DEF Begin
  <1>6. /\ TransportTypeOK' /\ LoopPart'
        /\ UNCHANGED <<mode, wire, sendVars, stored, errno, stop>>
    BY <1>1, <1>5, CallRead DEF BasePart, TypeOK
  <1>7. /\ transfers' = transfers + 1 /\ transfers < MaxTransfers
        /\ fds' = IF Fetching /\ fds < Limit THEN fds + 1 ELSE fds
        /\ sends' = "load" /\ receives' = "length"
        /\ asked' = f /\ begun' = data /\ announced' = 0 /\ copy' = None /\ at' = at
    BY DEF Begin
  <1>8. /\ fds \in 0..Limit /\ transfers \in 0..MaxTransfers /\ at \in Nat /\ data \in Int
        /\ at <= Len(stored)
    BY DEF BasePart, TypeOK, FilePart, TransportTypeOK
  <1>9. TypeOK'
    <2>1. fds' \in 0..Limit /\ transfers' \in 0..MaxTransfers
      BY <1>1, <1>7, <1>8
    <2>2. QED BY <1>4, <1>6, <1>7, <1>8, <2>1 DEF TypeOK
  <1>10. FilePart'
    <2>1. mode' = mode /\ stored' = stored
      BY <1>6
    <2>2. announced' <= Len(text')
      BY <1>4, <1>7 DEF FileBufferTypeOK
    <2>3. Fetching => fds' <= transfers'
      BY <1>1, <1>7, <1>8 DEF BasePart, FilePart
    <2>4. (Fetching => transfers' <= Limit) => file' = f
      BY <1>1, <1>2, <1>4, <1>7, <1>8 DEF BasePart, FilePart
    <2>5. QED BY <1>1, <1>7, <1>8, <2>1, <2>2, <2>3, <2>4 DEF FilePart, Fetching
  <1>11. QED BY <1>4, <1>6, <1>9, <1>10 DEF BasePart

LEMMA BaseLoad ==
  ASSUME BasePart, Load
  PROVE  BasePart'
  <1>1. ReadBlock /\ sends = "load" /\ UNCHANGED <<transportVars, programVars>>
    BY DEF Load
  <1>2. FileBufferTypeOK' /\ BufferPart' /\ SmallPart' /\ Len(text) <= Len(text')
    BY <1>1, ReadBuffer DEF BasePart
  <1>3. file' = file
    BY <1>1 DEF ReadBlock
  <1>4. /\ UNCHANGED <<mode, wire, sender, base, data, goal, reader, stored, want, errno, stop>>
        /\ UNCHANGED <<sends, receives, asked, begun, announced, at, copy, fds, transfers>>
    BY <1>1 DEF transportVars, programVars
  <1>5. TypeOK' /\ LoopPart'
    BY <1>2, <1>4 DEF BasePart, TypeOK, TransportTypeOK, LoopPart
  <1>6. announced' <= Len(text')
    BY <1>2, <1>4 DEF BasePart, FilePart, TypeOK, FileBufferTypeOK
  <1>7. FilePart'
    BY <1>1, <1>3, <1>4, <1>6 DEF BasePart, FilePart, Fetching
  <1>8. QED BY <1>2, <1>5, <1>7 DEF BasePart

LEMMA BaseCalls ==
  ASSUME BasePart, SendLength \/ SendContent \/ ReadContent
  PROVE  BasePart'
  <1>1. UNCHANGED <<file, offset, text, file_size>>
    BY DEF SendLength, SendContent, ReadContent, bufferVars
  <1>2. FileBufferTypeOK' /\ BufferPart' /\ SmallPart'
    BY <1>1 DEF BasePart, TypeOK, FileBufferTypeOK, BufferPart, NoOverrun, SmallPart
  <1>3. /\ IntSize \in Nat /\ announced \in Nat /\ MaxLength \in Nat
        /\ TransportTypeOK /\ LoopPart /\ FilePart /\ TypeOK /\ Len(text) \in Nat
    BY TransferAssumption DEF BasePart, TypeOK, FileBufferTypeOK
  <1>4. CASE SendLength
    <2>1. /\ SendAll(IntSize) /\ AtEnd /\ announced' \in Lengths /\ sends' = "length"
          /\ UNCHANGED <<receives, asked, begun, at, copy, fds, transfers>>
      BY <1>4 DEF SendLength
    <2>2. TransportTypeOK' /\ LoopPart' /\ UNCHANGED <<mode, stored>>
      BY <1>3, <2>1, CallSend DEF readVars
    <2>3. announced' \in 0..Len(text)
      BY <2>1, LengthsOf DEF BasePart
    <2>4. TypeOK'
      BY <1>2, <1>3, <2>1, <2>2, <2>3 DEF TypeOK
    <2>5. announced' \in Lengths' /\ AtEnd'
      BY <1>1, <2>1, <2>2 DEF Lengths, StringLengths, Fetching, AtEnd
    <2>6. FilePart'
      BY <1>1, <1>3, <2>1, <2>2, <2>3, <2>5 DEF FilePart, Fetching
    <2>7. QED BY <1>2, <2>2, <2>4, <2>6 DEF BasePart
  <1>5. CASE SendContent
    <2>1. /\ SendAll(announced) /\ sends = "length" /\ sends' = "rest"
          /\ UNCHANGED <<receives, asked, begun, announced, at, copy, fds, transfers>>
      BY <1>5 DEF SendContent
    <2>2. TransportTypeOK' /\ LoopPart' /\ UNCHANGED <<mode, stored>>
      BY <1>3, <2>1, CallSend DEF readVars
    <2>3. TypeOK'
      BY <1>2, <1>3, <2>1, <2>2 DEF TypeOK
    <2>4. FilePart'
      BY <1>1, <1>3, <2>1, <2>2 DEF FilePart, Fetching, AtEnd, Lengths, StringLengths
    <2>5. QED BY <1>2, <2>2, <2>3, <2>4 DEF BasePart
  <1>6. CASE ReadContent
    <2>1. /\ receives = "length" /\ receives' = "content" /\ at' = Len(stored)
          /\ UNCHANGED <<sends, asked, begun, announced, copy, fds, transfers>>
          /\ \E n \in LengthsRead : ReadAll(n)
      BY <1>6 DEF ReadContent
    <2>2. PICK n \in Nat : ReadAll(n)
      BY <1>3, <2>1 DEF LengthsRead
    <2>3. TransportTypeOK' /\ LoopPart' /\ UNCHANGED <<mode, stored>>
      BY <1>3, <2>2, CallRead
    <2>4. Len(stored) \in Nat
      BY <1>3 DEF TransportTypeOK
    <2>5. TypeOK'
      BY <1>2, <1>3, <2>1, <2>3, <2>4 DEF TypeOK
    <2>6. FilePart'
      BY <1>1, <1>3, <2>1, <2>3, <2>4 DEF FilePart, Fetching, AtEnd, Lengths, StringLengths
    <2>7. QED BY <1>2, <2>3, <2>5, <2>6 DEF BasePart
  <1>7. QED BY <1>4, <1>5, <1>6

LEMMA BaseStore ==
  ASSUME BasePart, Store
  PROVE  BasePart'
  <1>1. /\ UNCHANGED <<file, offset, text, file_size>>
        /\ UNCHANGED <<mode, wire, sender, base, data, goal, reader, stored, want, errno, stop>>
        /\ UNCHANGED <<sends, asked, begun, announced, at, transfers>>
        /\ receives = "content" /\ receives' = "rest"
    BY DEF Store, bufferVars, transportVars
  <1>2. TransportTypeOK' /\ FileBufferTypeOK' /\ BufferPart' /\ SmallPart' /\ LoopPart'
    BY <1>1 DEF BasePart, TypeOK, TransportTypeOK, FileBufferTypeOK, BufferPart, NoOverrun,
                SmallPart, LoopPart
  <1> DEFINE new == [of |-> asked, as |-> Received, number |-> transfers]
  <1>3. new \in Stored
    <2>1. asked \in Files /\ transfers \in Nat
      BY <1>1, TransferAssumption DEF BasePart, FilePart, TypeOK
    <2>2. Received \in Seq(Char \cup {Unset})
      BY ReceivedOf DEF BasePart
    <2>3. QED BY <2>1, <2>2 DEF Stored
  <1>4. \/ copy' = new /\ UNCHANGED fds
        \/ ~Fetching /\ fds < Limit /\ copy' = new /\ fds' = fds + 1
        \/ copy' = None /\ UNCHANGED fds
    BY DEF Store
  <1> HIDE DEF new
  <1>5. copy' \in Stored \cup {None} /\ fds' \in 0..Limit /\ (Fetching => fds' = fds)
    BY <1>3, <1>4, TransferAssumption DEF BasePart, TypeOK
  <1>6. TypeOK'
    BY <1>1, <1>2, <1>5 DEF BasePart, TypeOK
  <1>7. FilePart'
    BY <1>1, <1>5 DEF BasePart, FilePart, Fetching, AtEnd, Lengths, StringLengths
  <1>8. QED BY <1>2, <1>6, <1>7 DEF BasePart

LEMMA NextCases ==
  ASSUME [Next]_vars
  PROVE  \/ \E f \in Files : Begin(f)
         \/ Load \/ SendLength \/ SendContent \/ ReadContent \/ Store
         \/ TransportNext /\ UNCHANGED <<bufferVars, programVars>>
         \/ UNCHANGED vars
  BY DEF Next, SenderStep, ReaderStep, Disturbance, TransportNext

LEMMA BaseStep ==
  ASSUME BasePart, [Next]_vars
  PROVE  BasePart'
  <1>1. CASE UNCHANGED vars
    <2>1. UNCHANGED <<file, offset, text, file_size>>
      BY <1>1 DEF vars, bufferVars
    <2>2. UNCHANGED <<mode, wire, sender, base, data, goal, reader, stored, want, errno, stop>>
      BY <1>1 DEF vars, transportVars
    <2>3. UNCHANGED <<sends, receives, asked, begun, announced, at, copy, fds, transfers>>
      BY <1>1 DEF vars, programVars
    <2>4. FileBufferTypeOK' /\ BufferPart' /\ SmallPart'
      BY <2>1 DEF BasePart, TypeOK, FileBufferTypeOK, BufferPart, NoOverrun, SmallPart
    <2>5. TransportTypeOK' /\ LoopPart'
      BY <2>2 DEF BasePart, TypeOK, TransportTypeOK, LoopPart
    <2>6. TypeOK'
      BY <2>3, <2>4, <2>5 DEF BasePart, TypeOK
    <2>7. FilePart'
      BY <2>1, <2>2, <2>3 DEF BasePart, FilePart, Fetching, AtEnd, Lengths, StringLengths
    <2>8. QED BY <2>4, <2>5, <2>6, <2>7 DEF BasePart
  <1>2. QED
    BY <1>1, NextCases, BaseBegin, BaseLoad, BaseCalls, BaseStore, BaseFrame

LEMMA BaseInit ==
  ASSUME Init
  PROVE  BasePart
  <1>1. /\ Block \in Nat \ {0} /\ Nul \in Char \cup {Unset} /\ Limit \in Nat /\ MaxTransfers \in Nat
        /\ <<>> \in Seq(Char) /\ <<>> \in Seq(Nat)
    BY FileBufferAssumption, TransferAssumption
  <1>2. text = Times(Block, Nul) /\ text \in Seq(Char \cup {Unset}) /\ Len(text) = Block
    BY <1>1, TimesOf DEF Init
  <1>3. file = <<>> /\ Len(file) = 0 /\ offset = 0 /\ file_size = 0 /\ Len(stored) = 0
    BY DEF Init, TransportInit
  <1>4. TransportTypeOK
    <2>1. errno \in BOOLEAN
      <3>1. TransportInit
        BY DEF Init
      <3>2. QED BY <3>1 DEF TransportInit
    <2>2. QED BY <1>1, <2>1 DEF Init, TransportInit, TransportTypeOK
  <1>5. TypeOK
    <2>1. FileBufferTypeOK
      BY <1>1, <1>2, <1>3 DEF FileBufferTypeOK
    <2>2. QED BY <1>1, <1>4, <2>1 DEF Init, TypeOK
  <1>6. BufferPart
    <2>1. Block = 1 * Block /\ 1 \in 0..Block
      BY <1>1
    <2>2. \E k \in 0..Len(text) : Len(text) = k * Block
      BY <1>2, <2>1
    <2>3. NoOverrun
      BY <1>1, <1>2, <1>3 DEF NoOverrun
    <2>4. QED BY <1>3, <2>2, <2>3 DEF BufferPart
  <1>7. SmallPart
    BY <1>2, <1>3 DEF SmallPart
  <1>8. LoopPart /\ FilePart
    BY <1>1, <1>2, <1>3 DEF Init, TransportInit, LoopPart, FilePart
  <1>9. QED BY <1>5, <1>6, <1>7, <1>8 DEF BasePart

-----------------------------------------------------------------------------
(* Faithful connections.                                                   *)
LEMMA FaithfulOf ==
  ASSUME mode \in Modes, FaithfulMode
  PROVE  /\ ~SendBlocks => RecvBlocks /\ ~mode.mayFill
         /\ RecvBlocks \/ mode.sleepClears
         /\ ~RecvBlocks => mode.sleepClears
  BY ModeOf DEF FaithfulMode, SendBlocks, RecvBlocks

(* send_all never moves back, and errno is never EAGAIN when recv has      *)
(* delivered something.                                                    *)
LEMMA OrderTransport ==
  ASSUME TransportTypeOK, LoopPart, OrderPart, TransportNext
  PROVE  OrderPart'
  <1>1. /\ mode \in Modes /\ wire \in Seq(Nat) /\ stored \in Seq(Nat)
        /\ base \in Nat /\ data \in Int /\ goal \in Nat /\ want \in Nat
        /\ Len(stored) \in Nat /\ Len(wire) \in Nat
    BY DEF TransportTypeOK
  <1>2. mode' = mode /\ (FaithfulMode' <=> FaithfulMode)
    BY TransportMode
  <1>3. SUFFICES ASSUME FaithfulMode
        PROVE  /\ base' \in 0..data' /\ errno' = FALSE
               /\ Len(stored') + Len(wire') = data'
               /\ \A i \in 1..Len(stored') : stored'[i] = i
               /\ \A i \in 1..Len(wire') : wire'[i] = Len(stored') + i
    BY <1>2 DEF OrderPart
  <1>4. /\ base \in 0..data /\ errno = FALSE
        /\ Len(stored) + Len(wire) = data
        /\ \A i \in 1..Len(stored) : stored[i] = i
        /\ \A i \in 1..Len(wire) : wire[i] = Len(stored) + i
    BY <1>3 DEF OrderPart
  <1>5. /\ ~SendBlocks => RecvBlocks /\ ~mode.mayFill
        /\ RecvBlocks \/ mode.sleepClears
        /\ ~RecvBlocks => mode.sleepClears
    BY <1>1, <1>3, FaithfulOf
  <1>6. CASE SendBytes
    <2>1. PICK r \in 1..goal - data :
            /\ data' = data + r
            /\ Len(wire') = Len(wire) + r
            /\ \A i \in 1..Len(wire) : wire'[i] = wire[i]
            /\ \A i \in 1..r : wire'[Len(wire) + i] = ByteAt(data + i)
      BY <1>6, SentOf
    <2>2. base' = base /\ stored' = stored /\ errno' = errno
      BY <1>6 DEF SendBytes, readVars
    <2>3. r \in Nat \ {0} /\ data \in Nat
      BY <1>1, <1>4
    <2>4. ASSUME NEW i \in 1..Len(wire') PROVE wire'[i] = Len(stored) + i
      <3>1. CASE i <= Len(wire)
        <4>1. i \in 1..Len(wire)
          BY <1>1, <2>1, <2>3, <3>1
        <4>2. QED BY <1>4, <2>1, <4>1
      <3>2. CASE i > Len(wire)
        <4>1. PICK j \in 1..r : i = Len(wire) + j
          <5>1. i - Len(wire) \in 1..r /\ i = Len(wire) + (i - Len(wire))
            BY <1>1, <2>1, <2>3, <3>2
          <5>2. QED BY <5>1
        <4>2. wire'[i] = ByteAt(data + j)
          BY <2>1, <4>1
        <4>3. ByteAt(data + j) = data + j
          BY <1>1, <1>4 DEF ByteAt
        <4>4. data + j = Len(stored) + i
          <5>1. Len(stored) + Len(wire) = data /\ Len(stored) \in Int /\ Len(wire) \in Int
            BY <1>1, <1>4
          <5>2. j \in Int /\ i \in Int /\ i = Len(wire) + j
            BY <2>3, <4>1
          <5>3. QED BY <5>1, <5>2
        <4>5. QED BY <4>2, <4>3, <4>4
      <3>3. QED BY <1>1, <2>1, <2>3, <3>1, <3>2
    <2>5. Len(stored) + Len(wire') = data' /\ base \in 0..data'
      BY <1>1, <1>4, <2>1, <2>3
    <2>6. QED BY <1>4, <2>2, <2>4, <2>5
  <1>7. CASE ReadBytes
    <2>1. PICK r \in 1..Len(wire) :
            /\ Len(wire') = Len(wire) - r
            /\ \A i \in 1..Len(wire) - r : wire'[i] = wire[r + i]
            /\ Len(stored') = Len(stored) + r
            /\ \A i \in 1..Len(stored) : stored'[i] = stored[i]
            /\ \A i \in 1..r : stored'[Len(stored) + i] = wire[i]
      BY <1>4, <1>7, TakenOf
    <2>2. base' = base /\ data' = data /\ errno' = FALSE
      BY <1>4, <1>7 DEF ReadBytes, sendVars
    <2>3. r \in Nat \ {0} /\ r <= Len(wire)
      BY <1>1
    <2>4. ASSUME NEW i \in 1..Len(stored') PROVE stored'[i] = i
      <3>1. CASE i <= Len(stored)
        <4>1. i \in 1..Len(stored)
          BY <1>1, <2>1, <2>3, <3>1
        <4>2. QED BY <1>4, <2>1, <4>1
      <3>2. CASE i > Len(stored)
        <4>1. PICK j \in 1..r : i = Len(stored) + j
          <5>1. i - Len(stored) \in 1..r /\ i = Len(stored) + (i - Len(stored))
            BY <1>1, <2>1, <2>3, <3>2
          <5>2. QED BY <5>1
        <4>2. j \in 1..Len(wire)
          BY <1>1, <2>3
        <4>3. stored'[i] = wire[j] /\ wire[j] = Len(stored) + j
          BY <1>4, <2>1, <4>1, <4>2
        <4>4. QED BY <4>1, <4>3
      <3>3. QED BY <1>1, <2>1, <2>3, <3>1, <3>2
    <2>5. ASSUME NEW i \in 1..Len(wire') PROVE wire'[i] = Len(stored') + i
      <3>1. i \in 1..Len(wire) - r /\ r + i \in 1..Len(wire)
        BY <1>1, <2>1, <2>3
      <3>2. wire'[i] = wire[r + i] /\ wire[r + i] = Len(stored) + (r + i)
        BY <1>4, <2>1, <3>1
      <3>3. QED BY <1>1, <2>1, <2>3, <3>2
    <2>6. Len(stored') + Len(wire') = data'
      <3>1. Len(stored) + Len(wire) = data /\ Len(stored) \in Int /\ Len(wire) \in Int
        BY <1>1, <1>4
      <3>2. Len(stored') = Len(stored) + r /\ Len(wire') = Len(wire) - r
        BY <2>1
      <3>3. Len(stored) + r \in Int /\ Len(wire) - r \in Int /\ r \in Int
        BY <2>3, <3>1
      <3>4. QED BY <2>2, <3>1, <3>2, <3>3
    <2>7. QED BY <1>4, <2>2, <2>4, <2>5, <2>6
  <1>8. CASE SendAgain
    <2>1. ~SendBlocks /\ ~Fits(1)
      BY <1>8 DEF SendAgain
    <2>2. ~mode.mayFill
      BY <1>5, <2>1
    <2>3. QED BY <2>1, <2>2 DEF Fits
  <1>9. CASE SendTest \/ SendBroken \/ SendInterrupted \/ Killed \/ ReadTest \/ ReadInterrupted
             \/ \E side \in Sides : Interrupt(side)
    <2>1. UNCHANGED <<wire, base, data, stored, errno>>
      BY <1>9 DEF SendTest, SendBroken, SendInterrupted, Killed, ReadTest, ReadInterrupted,
                  Interrupt, sendVars, readVars
    <2>2. QED BY <1>4, <2>1
  <1>10. CASE ReadAgain \/ ReadEnd
    <2>1. UNCHANGED <<wire, base, data, stored>>
      BY <1>10 DEF ReadAgain, ReadEnd, sendVars
    <2>2. errno' = FALSE
      BY <1>1, <1>4, <1>5, <1>10, ModeOf DEF ReadAgain, ReadEnd
    <2>3. QED BY <1>4, <2>1, <2>2
  <1>11. QED
    BY <1>6, <1>7, <1>8, <1>9, <1>10 DEF TransportNext, SendLoop, ReadLoop

(* The calls and the other steps of the programs move no byte.             *)
LEMMA OrderStep ==
  ASSUME BasePart, OrderPart, [Next]_vars
  PROVE  OrderPart'
  <1>1. TransportTypeOK /\ LoopPart /\ TypeOK
    BY DEF BasePart, TypeOK
  <1>2. CASE TransportNext
    BY <1>1, <1>2, OrderTransport
  <1>3. ASSUME UNCHANGED <<mode, wire, data, stored, errno>>, base' = base \/ base' = data
        PROVE  OrderPart'
    BY <1>1, <1>3 DEF OrderPart, FaithfulMode, SendBlocks, TransportTypeOK
  <1>4. CASE \E f \in Files : Begin(f)
    BY <1>3, <1>4 DEF Begin, ReadAll, sendVars
  <1>5. CASE Load \/ Store \/ UNCHANGED vars
    BY <1>3, <1>5 DEF Load, Store, vars, transportVars
  <1>6. CASE SendLength \/ SendContent
    BY <1>3, <1>6 DEF SendLength, SendContent, SendAll, readVars
  <1>7. CASE ReadContent
    BY <1>3, <1>7 DEF ReadContent, ReadAll, sendVars
  <1>8. QED BY <1>2, <1>4, <1>5, <1>6, <1>7, NextCases

LEMMA OrderInit ==
  ASSUME Init
  PROVE  OrderPart
  <1>1. /\ wire = <<>> /\ stored = <<>> /\ base = 0 /\ data = 0 /\ mode \in Modes
        /\ errno \in IF RecvBlocks \/ mode.sleepClears THEN {FALSE} ELSE BOOLEAN
    BY DEF Init, TransportInit
  <1>2. FaithfulMode => errno = FALSE
    BY <1>1, FaithfulOf
  <1>3. Len(stored) = 0 /\ Len(wire) = 0
    BY <1>1
  <1>4. QED BY <1>1, <1>2, <1>3 DEF OrderPart

(* The two ends of the queue a connection is meant to be.                  *)
QueueSent == IF FaithfulMode THEN data ELSE 0
QueueReceived == IF FaithfulMode THEN stored ELSE <<>>

LEMMA FirstOf ==
  ASSUME NEW s \in Seq(Nat), \A i \in 1..Len(s) : s[i] = i
  PROVE  s = [i \in 1..Len(s) |-> i]
  OBVIOUS

LEMMA QueueTransport ==
  ASSUME TransportTypeOK, LoopPart, OrderPart, OrderPart', TransportNext, TransportTypeOK'
  PROVE  Queue!Next \/ UNCHANGED <<QueueSent, QueueReceived>>
  <1>1. mode' = mode /\ (FaithfulMode' <=> FaithfulMode)
    BY TransportMode
  <1>2. CASE ~FaithfulMode
    BY <1>1, <1>2 DEF QueueSent, QueueReceived
  <1>3. CASE FaithfulMode
    <2>1. /\ QueueSent = data /\ QueueSent' = data' /\ QueueReceived = stored
          /\ QueueReceived' = stored'
      BY <1>1, <1>3 DEF QueueSent, QueueReceived
    <2>2. /\ data \in Nat /\ stored \in Seq(Nat) /\ stored' \in Seq(Nat)
          /\ Len(stored) \in Nat /\ Len(stored') \in Nat /\ Len(wire') \in Nat
          /\ errno = FALSE
          /\ Len(stored') + Len(wire') = data'
          /\ \A i \in 1..Len(stored') : stored'[i] = i
      BY <1>1, <1>3 DEF OrderPart, TransportTypeOK
    <2>3. CASE SendBytes
      <3>1. data' > data /\ data' \in Nat
        <4>1. PICK r \in 1..goal - data : data' = data + r
          BY <2>3, SentOf
        <4>2. r \in Nat \ {0}
          BY <2>2 DEF TransportTypeOK
        <4>3. QED BY <2>2, <4>1, <4>2
      <3>2. stored' = stored
        BY <2>3 DEF SendBytes, readVars
      <3>3. Queue!Put
        BY <2>1, <3>1, <3>2 DEF Queue!Put, QueueSent, QueueReceived
      <3>4. QED BY <3>3 DEF Queue!Next
    <2>4. CASE ReadBytes
      <3>1. Len(stored') > Len(stored)
        <4>1. PICK r \in 1..Len(wire) : Len(stored') = Len(stored) + r
          BY <2>2, <2>4, TakenOf
        <4>2. QED BY <2>2, <4>1 DEF TransportTypeOK
      <3>2. data' = data
        BY <2>4 DEF ReadBytes, sendVars
      <3>3. Len(stored') \in 1..data
        BY <2>2, <3>1, <3>2
      <3>4. stored' = Queue!FirstBytes(Len(stored'))
        BY <2>2, FirstOf DEF Queue!FirstBytes
      <3>5. Queue!Get
        BY <2>1, <3>1, <3>2, <3>3, <3>4 DEF Queue!Get, QueueSent, QueueReceived
      <3>6. QED BY <3>5 DEF Queue!Next
    <2>5. CASE SendAgain
      BY <1>3, <2>5, FaithfulOf DEF SendAgain, Fits, TransportTypeOK
    <2>6. CASE ~(SendBytes \/ ReadBytes \/ SendAgain)
      <3>1. UNCHANGED <<data, stored>>
        BY <2>6 DEF TransportNext, SendLoop, ReadLoop, SendTest, SendBroken, SendInterrupted,
           ReadTest, ReadAgain, ReadEnd, ReadInterrupted, Interrupt, Killed, sendVars, readVars
      <3>2. QED BY <2>1, <3>1
    <2>7. QED BY <2>3, <2>4, <2>5, <2>6
  <1>4. QED BY <1>2, <1>3

LEMMA QueueStep ==
  ASSUME BasePart, OrderPart, BasePart', OrderPart', [Next]_vars
  PROVE  [Queue!Next]_(Queue!queueVars)
  <1>1. Queue!Next \/ UNCHANGED <<QueueSent, QueueReceived>>
    <2>1. CASE TransportNext
      BY <2>1, QueueTransport DEF BasePart, TypeOK
    <2>2. CASE UNCHANGED <<mode, data, stored>>
      BY <2>2 DEF QueueSent, QueueReceived, FaithfulMode, SendBlocks
    <2>3. ASSUME (\E f \in Files : Begin(f)) \/ Load \/ Store \/ SendLength \/ SendContent
                 \/ ReadContent \/ UNCHANGED vars
          PROVE  UNCHANGED <<mode, data, stored>>
      BY <2>3 DEF Begin, Load, Store, SendLength, SendContent, ReadContent, SendAll, ReadAll,
                  vars, transportVars, sendVars, readVars
    <2>4. QED BY <2>1, <2>2, <2>3, NextCases
  <1>2. QED BY <1>1 DEF Queue!queueVars, QueueSent, QueueReceived

-----------------------------------------------------------------------------
(* The two programs agree on where the content of a file begins and ends.  *)
LEMMA LengthRead ==
  ASSUME BasePart, OrderPart, PhasePart, FaithfulMode, receives = "length", reader = "idle"
  PROVE  sends # "load" /\ Len(stored) = begun + IntSize /\ LengthsRead = {announced}
  <1>1. /\ stored \in Seq(Nat) /\ Len(stored) \in Nat /\ Len(wire) \in Nat /\ begun \in Int
        /\ data \in Int /\ goal \in Nat /\ IntSize \in Nat \ {0}
    BY TransferAssumption DEF BasePart, TypeOK, TransportTypeOK
  <1>2. /\ Len(stored) = want /\ data <= goal
        /\ Len(stored) + Len(wire) = data
        /\ \A i \in 1..Len(stored) : stored[i] = i
        /\ want = begun + IntSize
        /\ sends = "load" => goal = begun
    BY DEF BasePart, LoopPart, OrderPart, PhasePart
  <1>3. sends # "load"
    BY <1>1, <1>2
  <1>4. begun \in Nat
    BY <1>1 DEF PhasePart
  <1>5. ASSUME NEW i \in 1..IntSize
        PROVE  stored[Len(stored) - IntSize + i] = begun + i
    <2>1. Len(stored) - IntSize + i = begun + i /\ begun + i \in 1..Len(stored)
      BY <1>1, <1>2, <1>4
    <2>2. QED BY <1>2, <2>1
  <1>6. QED BY <1>2, <1>3, <1>5 DEF LengthsRead

(* A connection stays what it is.                                          *)
LEMMA ModeStays ==
  ASSUME [Next]_vars
  PROVE  mode' = mode /\ (FaithfulMode' <=> FaithfulMode)
  <1>1. TransportNext => mode' = mode
    BY TransportMode
  <1>2. (\E f \in Files : Begin(f)) \/ Load \/ SendLength \/ SendContent \/ ReadContent \/ Store
          \/ UNCHANGED vars => mode' = mode
    BY DEF Begin, Load, SendLength, SendContent, ReadContent, Store, SendAll, ReadAll, vars,
       transportVars
  <1>3. mode' = mode
    BY <1>1, <1>2, NextCases
  <1>4. QED BY <1>3 DEF FaithfulMode, SendBlocks

LEMMA PhaseStep ==
  ASSUME BasePart, OrderPart, PhasePart, [Next]_vars
  PROVE  PhasePart'
  <1>1. /\ Len(stored) \in Nat /\ begun \in Int /\ announced \in Nat
        /\ data \in Int /\ goal \in Nat /\ want \in Nat /\ IntSize \in Nat \ {0}
        /\ transfers \in Nat /\ TypeOK /\ TransportTypeOK /\ LoopPart
    BY TransferAssumption DEF BasePart, TypeOK, TransportTypeOK
  <1>2. ASSUME UNCHANGED <<mode, goal, want>>, UNCHANGED programVars
        PROVE  PhasePart'
    <2>1. UNCHANGED <<transfers, sends, receives, begun, announced, at>>
      BY <1>2 DEF programVars
    <2>2. (FaithfulMode' <=> FaithfulMode) /\ Whole' = Whole
      BY <1>2, <2>1 DEF FaithfulMode, SendBlocks, Whole
    <2>3. QED BY <1>2, <2>1, <2>2 DEF PhasePart
  <1>3. CASE TransportNext /\ UNCHANGED <<bufferVars, programVars>>
    <2>1. UNCHANGED <<mode, goal, want>>
      BY <1>3 DEF TransportNext, SendLoop, ReadLoop, SendTest, SendBytes, SendAgain, SendBroken,
         SendInterrupted, ReadTest, ReadBytes, ReadAgain, ReadEnd, ReadInterrupted, Interrupt,
         Killed, sendVars, readVars
    <2>2. QED BY <1>2, <1>3, <2>1
  <1>4. CASE Load \/ UNCHANGED vars
    <2>1. UNCHANGED <<mode, goal, want>> /\ UNCHANGED programVars
      BY <1>4 DEF Load, vars, transportVars
    <2>2. QED BY <1>2, <2>1
  <1>5. SUFFICES ASSUME FaithfulMode PROVE PhasePart'
    BY ModeStays DEF PhasePart
  <1>6. /\ begun >= 0
        /\ transfers = 0 => sends = "rest" /\ receives = "rest" /\ goal = 0 /\ want = 0
        /\ sends = "load" => receives = "length" /\ goal = begun
        /\ sends = "length" => goal = begun + IntSize
        /\ sends = "rest" /\ transfers > 0 => goal = begun + IntSize + announced
        /\ receives = "length" => want = begun + IntSize
        /\ receives = "content" =>
             /\ sends # "load" /\ want = begun + IntSize + announced
             /\ at = begun + IntSize
        /\ receives = "rest" /\ transfers > 0 => want = begun + IntSize + announced
    BY <1>5 DEF PhasePart, Whole
  <1>7. CASE \E f \in Files : Begin(f)
    <2>1. /\ ReadAll(IntSize) /\ sender = "idle"
          /\ sends = "rest" /\ receives = "rest"
          /\ transfers' = transfers + 1 /\ sends' = "load" /\ receives' = "length"
          /\ begun' = data /\ announced' = 0
      BY <1>7 DEF Begin
    <2>2. want' = want + IntSize /\ goal' = goal
      BY <1>1, <2>1, CallRead DEF sendVars
    <2>3. data = goal
      BY <2>1, <1>1 DEF LoopPart
    <2>4. goal = want /\ goal >= 0
      BY <1>1, <1>6, <2>1
    <2>5. QED BY <1>1, <2>1, <2>2, <2>3, <2>4 DEF PhasePart, Whole
  <1>8. CASE SendLength
    <2>1. /\ SendAll(IntSize) /\ sends = "load" /\ sends' = "length"
          /\ UNCHANGED <<receives, begun, at, transfers>>
      BY <1>8 DEF SendLength
    <2>2. goal' = goal + IntSize /\ want' = want
      BY <1>1, <2>1, CallSend DEF readVars
    <2>3. QED BY <1>1, <1>6, <2>1, <2>2 DEF PhasePart, Whole
  <1>9. CASE SendContent
    <2>1. /\ SendAll(announced) /\ sends = "length" /\ sends' = "rest"
          /\ UNCHANGED <<receives, begun, announced, at, transfers>>
      BY <1>9 DEF SendContent
    <2>2. goal' = goal + announced /\ want' = want
      BY <1>1, <2>1, CallSend DEF readVars
    <2>3. QED BY <1>1, <1>6, <2>1, <2>2 DEF PhasePart, Whole
  <1>10. CASE ReadContent
    <2>1. /\ receives = "length" /\ reader = "idle" /\ receives' = "content" /\ at' = Len(stored)
          /\ UNCHANGED <<sends, begun, announced, transfers>>
          /\ \E n \in LengthsRead : ReadAll(n)
      BY <1>10 DEF ReadContent
    <2>2. sends # "load" /\ Len(stored) = begun + IntSize /\ LengthsRead = {announced}
      BY <1>5, <2>1, LengthRead
    <2>3. ReadAll(announced)
      BY <2>1, <2>2
    <2>4. want' = want + announced /\ goal' = goal
      BY <1>1, <2>3, CallRead DEF sendVars
    <2>5. QED BY <1>1, <1>6, <2>1, <2>2, <2>4 DEF PhasePart, Whole
  <1>11. CASE Store
    <2>1. /\ receives = "content" /\ receives' = "rest"
          /\ UNCHANGED <<goal, want, sends, begun, announced, at, transfers>>
      BY <1>11 DEF Store, transportVars
    <2>2. QED BY <1>1, <1>6, <2>1 DEF PhasePart, Whole
  <1>12. QED BY <1>3, <1>4, <1>7, <1>8, <1>9, <1>10, <1>11, NextCases

(* A small file that was found is in the buffer as it is, and its length   *)
(* is the one announced.                                                   *)
LEMMA Announced ==
  ASSUME BasePart, Small(asked), transfers > 0, sends # "load",
         Fetching => transfers <= Limit
  PROVE  announced = Len(asked) /\ \A i \in 1..Len(asked) : text[i] = asked[i]
  <1>1. /\ file = asked /\ offset = Len(file) /\ announced \in Lengths
        /\ file_size = offset
    BY DEF BasePart, FilePart, AtEnd, BufferPart
  <1>2. /\ file \in Seq(Char) /\ Len(file) \in Nat /\ Len(text) \in Nat
        /\ Block \in Nat \ {0} /\ Nul \in Char /\ Unset \notin Char
    BY FileBufferAssumption DEF BasePart, TypeOK, FileBufferTypeOK
  <1>3. Len(file) <= Block
    BY <1>1, <1>2 DEF Small
  <1>4. /\ Len(file) <= Len(text)
        /\ \A i \in 1..Len(file) : text[i] = file[i]
        /\ Len(file) < Block => Len(text) = Block /\ text[Len(file) + 1] = Nul
    <2>1. CASE offset = 0 /\ text = Times(Block, Nul)
      <3>1. Len(text) = Block /\ text[1] = Nul
        BY <1>2, <2>1 DEF Times
      <3>2. QED BY <1>1, <1>2, <2>1, <3>1
    <2>2. CASE ~(offset = 0 /\ text = Times(Block, Nul))
      BY <1>3, <2>2 DEF BasePart, SmallPart
    <2>3. QED BY <2>1, <2>2
  <1>5. CASE ~Fetching
    BY <1>1, <1>4, <1>5 DEF Lengths
  <1>6. CASE Fetching
    <2>1. Len(file) < Block /\ \A i \in 1..Len(file) : file[i] # Nul
      BY <1>1, <1>6 DEF Small
    <2>2. /\ announced \in 0..Len(text)
          /\ \A i \in 1..announced : text[i] # Nul
          /\ announced < Len(text) => text[announced + 1] \in {Nul, Unset}
      BY <1>1, <1>6 DEF Lengths, StringLengths
    <2>3. ~(announced > Len(file))
      <3>1. SUFFICES ASSUME announced > Len(file) PROVE FALSE
        OBVIOUS
      <3>2. Len(file) + 1 \in 1..announced
        BY <1>2, <2>2, <3>1
      <3>3. QED BY <1>4, <2>1, <2>2, <3>2
    <2>4. ~(announced < Len(file))
      <3>1. SUFFICES ASSUME announced < Len(file) PROVE FALSE
        OBVIOUS
      <3>2. announced + 1 \in 1..Len(file) /\ announced < Len(text)
        BY <1>2, <1>4, <2>2, <3>1
      <3>3. text[announced + 1] = file[announced + 1] /\ file[announced + 1] \in Char
        BY <1>2, <1>4, <3>2
      <3>4. QED BY <1>2, <2>1, <2>2, <3>2, <3>3
    <2>5. announced = Len(file)
      BY <1>2, <2>2, <2>3, <2>4
    <2>6. QED BY <1>1, <1>4, <2>5
  <1>7. QED BY <1>5, <1>6

LEMMA SmallStore ==
  ASSUME BasePart, OrderPart, PhasePart, FaithfulMode, Small(asked), Store,
         Fetching => transfers <= Limit
  PROVE  Received = asked
  <1>1. /\ stored \in Seq(Nat) /\ Len(stored) \in Nat /\ begun \in Int /\ announced \in Nat
        /\ want \in Nat /\ at \in Nat /\ IntSize \in Nat \ {0} /\ Files \subseteq Seq(Char)
    BY TransferAssumption DEF BasePart, TypeOK, TransportTypeOK
  <1>2. /\ receives = "content" /\ reader = "idle"
    BY DEF Store
  <1>3. /\ transfers > 0 /\ asked \in Seq(Char)
    BY <1>1, <1>2 DEF BasePart, FilePart
  <1>4. /\ Len(stored) = begun + IntSize + announced /\ at = begun + IntSize /\ sends # "load"
        /\ \A i \in 1..Len(stored) : stored[i] = i
    BY <1>2 DEF BasePart, LoopPart, OrderPart, PhasePart, Whole
  <1>5. announced = Len(asked) /\ \A i \in 1..Len(asked) : text[i] = asked[i]
    BY <1>3, <1>4, Announced
  <1>6. Len(stored) - at = Len(asked)
    BY <1>1, <1>4, <1>5
  <1>7. ASSUME NEW i \in 1..Len(asked)
        PROVE  Meaning(stored[at + i]) = asked[i]
    <2>1. at + i \in 1..Len(stored)
      BY <1>1, <1>4, <1>5
    <2>2. stored[at + i] = at + i
      BY <1>4, <2>1
    <2>3. /\ at + i > begun + IntSize /\ at + i <= begun + IntSize + announced
          /\ at + i - begun - IntSize = i
      BY <1>1, <1>4, <1>5
    <2>4. Meaning(at + i) = text[i]
      <3>1. PICK b \in Nat : b = at + i
        BY <1>1
      <3>2. /\ b > begun + IntSize /\ b <= begun + IntSize + announced
            /\ b - begun - IntSize = i
        BY <1>1, <2>3, <3>1
      <3>3. Meaning(b) = text[i]
        BY <3>2 DEF Meaning
      <3>4. QED BY <3>1, <3>3
    <2>5. QED BY <1>5, <2>2, <2>4
  <1>8. Received = [i \in 1..Len(asked) |-> asked[i]]
    BY <1>6, <1>7 DEF Received
  <1>9. QED BY <1>3, <1>8

LEMMA SmallStep ==
  ASSUME BasePart, OrderPart, PhasePart, SmallArrive, [Next]_vars
  PROVE  SmallArrive'
  <1>1. ASSUME UNCHANGED <<mode, copy>> PROVE SmallArrive'
    BY <1>1 DEF SmallArrive, FaithfulMode, SendBlocks, Small, Fetching
  <1>2. CASE \E f \in Files : Begin(f)
    BY <1>2 DEF Begin, SmallArrive
  <1>3. CASE Store
    <2>1. mode' = mode
      BY ModeStays
    <2>2. CASE copy' = None
      BY <2>2 DEF SmallArrive
    <2>3. CASE copy' = [of |-> asked, as |-> Received, number |-> transfers]
      <3>1. copy'.of = asked /\ copy'.as = Received /\ copy'.number = transfers
        BY <2>3
      <3>2. SUFFICES ASSUME FaithfulMode, Small(asked), transfers <= Limit
            PROVE  Received = asked
        BY <2>1, <3>1 DEF SmallArrive, FaithfulMode, SendBlocks, Small, Fetching
      <3>3. QED BY <1>3, <3>2, SmallStore
    <2>4. QED BY <1>3, <2>2, <2>3 DEF Store
  <1>4. CASE Load \/ SendLength \/ SendContent \/ ReadContent \/ UNCHANGED vars
    BY <1>1, <1>4 DEF Load, SendLength, SendContent, ReadContent, SendAll, ReadAll, vars,
       transportVars, programVars
  <1>5. CASE TransportNext /\ UNCHANGED <<bufferVars, programVars>>
    BY <1>1, <1>5, ModeStays DEF programVars
  <1>6. QED BY <1>2, <1>3, <1>4, <1>5, NextCases

LEMMA LateInit ==
  ASSUME Init
  PROVE  PhasePart /\ SmallArrive
  BY DEF Init, TransportInit, PhasePart, SmallArrive

-----------------------------------------------------------------------------
(* Every reachable state of a transfer is one the parts describe.          *)
THEOREM TransferInvariance == Spec => []TransferInv
  <1>1. Init => TransferInv
    BY BaseInit, OrderInit, LateInit DEF TransferInv
  <1>2. TransferInv /\ [Next]_vars => TransferInv'
    BY BaseStep, OrderStep, PhaseStep, SmallStep DEF TransferInv
  <1>3. QED BY <1>1, <1>2, PTL DEF Spec

(* The variables of a transfer keep their types: what is delivered is made *)
(* of characters of the file and of memory that was not written, and the   *)
(* server never has more descriptors open than it may (Transfer).          *)
THEOREM TransferTyped == Spec => []TypeOK
  <1>1. TransferInv => TypeOK
    BY DEF TransferInv, BasePart
  <1>2. QED BY <1>1, TransferInvariance, PTL

(* GetMD5FileInfo never reads or hashes beyond its buffer and always has   *)
(* room for one more block, for files of every size: the sizes of buffer   *)
(* and file are multiples of a block until the end, so that the test for   *)
(* equality is never jumped over.                                          *)
THEOREM BufferHolds == Spec => []NoOverrun
  <1>1. TransferInv => NoOverrun
    BY DEF TransferInv, BasePart, BufferPart
  <1>2. QED BY <1>1, TransferInvariance, PTL

(* A file of one block or less, without a 0 where the server takes it for  *)
(* a string, arrives as it was over every faithful connection, for every   *)
(* content, block size, split of the bytes and number of earlier           *)
(* transfers, while the server has descriptors left.                       *)
THEOREM SmallFilesArrive == Spec => []SmallArrive
  <1>1. TransferInv => SmallArrive
    BY DEF TransferInv
  <1>2. QED BY <1>1, TransferInvariance, PTL

(* Over a faithful connection the bytes passed to send_all are delivered   *)
(* once each and in order by read_all, for every number and size of        *)
(* transfers, however the kernel splits them, and wherever either program  *)
(* is stopped: the loops implement a queue of bytes.                       *)
THEOREM LoopsAreQueue == Spec => AsQueue
  <1>1. Init => Queue!Init
    <2>1. Init => data = 0 /\ stored = <<>>
      BY DEF Init, TransportInit
    <2>2. QED BY <2>1 DEF Queue!Init
  <1>2. TransferInv /\ TransferInv' /\ [Next]_vars => [Queue!Next]_(Queue!queueVars)
    BY QueueStep DEF TransferInv
  <1>3. QED
    BY <1>1, <1>2, TransferInvariance, PTL DEF Spec, AsQueue, Queue!Spec
=============================================================================
