----------------------------- MODULE FileBuffer -----------------------------
(***************************************************************************)
(* GetMD5FileInfo: a file is read block by block into a buffer that grows. *)
(* Every block is read to the start of the buffer.                         *)
(***************************************************************************)
EXTENDS Integers, Sequences

CONSTANTS Block,      \* 4096
          Char,       \* what files consist of
          Nul,        \* the character 0
          Unset       \* memory that was never written

ASSUME FileBufferAssumption ==
  Block \in Nat \ {0} /\ Nul \in Char /\ Unset \notin Char

VARIABLES file,       \* what the descriptor reads
          offset,     \* its position
          text,       \* the buffer, of buff_size bytes
          file_size   \* the bytes read

bufferVars == <<file, offset, text, file_size>>

FileBufferTypeOK ==
  /\ file \in Seq(Char)
  /\ offset \in 0..Len(file)
  /\ text \in Seq(Char \cup {Unset})
  /\ file_size \in Nat

Times(n, b) == [i \in 1..n |-> b]

(* Mutant: the buffer is not cleared.                                      *)
OpenUncleared(f) ==
  /\ file' = f /\ offset' = 0
  /\ text' = Times(Block, Unset) /\ file_size' = 0

(* Mutant: the file is read from where the last one has ended.             *)
OpenUnrewound(f) ==
  /\ file' = f /\ UNCHANGED offset
  /\ text' = Times(Block, Nul) /\ file_size' = 0

(* A descriptor that is not open reads as an empty file.                   *)
Open(f) ==
  /\ file' = f /\ offset' = 0
  /\ text' = Times(Block, Nul) /\ file_size' = 0

(* The next block: a regular file is read short only at its end.           *)
Chunk == SubSeq(file, offset + 1,
                IF offset + Block < Len(file) THEN offset + Block ELSE Len(file))

(* The chunk read over the start of the buffer.                            *)
Filled == [i \in 1..Len(text) |-> IF i <= Len(Chunk) THEN Chunk[i] ELSE text[i]]

(* Mutant: the buffer grows when it has been exceeded.                     *)
ReadBlockLate ==
  /\ offset < Len(file)
  /\ offset' = offset + Len(Chunk)
  /\ file_size' = file_size + Len(Chunk)
  /\ text' = IF file_size' > Len(text) THEN Filled \o Times(Len(text), Unset) ELSE Filled
  /\ UNCHANGED file

ReadBlock ==
  /\ offset < Len(file)
  /\ offset' = offset + Len(Chunk)
  /\ file_size' = file_size + Len(Chunk)
  /\ text' = IF file_size' = Len(text) THEN Filled \o Times(Len(text), Unset) ELSE Filled
  /\ UNCHANGED file

AtEnd == offset = Len(file)

(* strlen over the buffer: up to the first 0, where memory that was never  *)
(* written may hold one.                                                   *)
StringLengths ==
  {n \in 0..Len(text) :
     /\ \A i \in 1..n : text[i] # Nul
     /\ n < Len(text) => text[n + 1] \in {Nul, Unset}}

(* What is read and hashed lies inside the buffer at all times, and one    *)
(* more block has room (GetMD5FileInfo).                                   *)
NoOverrun == file_size < Len(text) /\ Len(text) >= Block
=============================================================================
