------------------------------ MODULE Transfer ------------------------------
(***************************************************************************)
(* Files travel over a connection one after the other: from the server to  *)
(* a client that checks out (HandleRecieveFile, ReceiveFile) or from a     *)
(* client that pushes to the server (SendFile, HandleSendFile).  The       *)
(* sender reads the file into a buffer, sends a length and that many bytes *)
(* of the buffer; the reader reads the length and that many bytes.         *)
(***************************************************************************)
EXTENDS FileBuffer, Transport

CONSTANTS Files,        \* contents of the files on the sender's disk
          IntSize,      \* the bytes of a length
          Limit,        \* descriptors the server's process can still open
          None,         \* no file
          MaxLength,    \* bound: the lengths garbage may spell
          MaxTransfers  \* bound: files per connection

ASSUME TransferAssumption ==
  /\ Files \subseteq Seq(Char)
  /\ IntSize \in Nat \ {0} /\ Limit \in Nat
  /\ MaxLength \in Nat /\ MaxTransfers \in Nat

VARIABLES sends,      \* where the sending program is
          receives,   \* where the receiving program is
          asked,      \* the file that is transferred
          begun,      \* the last byte before its length
          announced,  \* the length sent
          at,         \* the bytes read before its content
          copy,       \* what the reader has stored last
          fds,        \* descriptors the server has left open
          transfers   \* how many files were begun

programVars == <<sends, receives, asked, begun, announced, at, copy, fds, transfers>>
vars == <<bufferVars, transportVars, programVars>>

Stored == [of : Files, as : Seq(Char \cup {Unset}), number : Nat]

TypeOK ==
  /\ FileBufferTypeOK /\ TransportTypeOK
  /\ sends \in {"rest", "load", "length", "content"}
  /\ receives \in {"rest", "length", "content"}
  /\ asked \in Files \cup {None}
  /\ begun \in Int /\ announced \in Nat /\ at \in Nat
  /\ copy \in Stored \cup {None}
  /\ fds \in 0..Limit /\ transfers \in 0..MaxTransfers

Init ==
  /\ TransportInit
  /\ file = <<>> /\ offset = 0 /\ text = Times(Block, Nul) /\ file_size = 0
  /\ sends = "rest" /\ receives = "rest"
  /\ asked = None /\ begun = 0 /\ announced = 0 /\ at = 0 /\ copy = None
  /\ fds = 0 /\ transfers = 0

Fetching == mode.sender = "server"

(* The client asks for a file, or goes on to the next one it pushes.  The  *)
(* server never closes the descriptor of a file it has served; with none   *)
(* left open fails, and so does every read.  A push ends with the first    *)
(* file that is refused.                                                   *)
Begin(f) ==
  /\ sends = "rest" /\ receives = "rest" /\ sender = "idle" /\ reader = "idle"
  /\ ~Fetching /\ transfers > 0 => copy # None
  /\ transfers < MaxTransfers /\ transfers' = transfers + 1
  /\ Open(IF Fetching /\ fds = Limit THEN <<>> ELSE f)
  /\ fds' = IF Fetching /\ fds < Limit THEN fds + 1 ELSE fds
  /\ ReadAll(IntSize)
  /\ sends' = "load" /\ receives' = "length"
  /\ asked' = f /\ begun' = data /\ announced' = 0 /\ copy' = None
  /\ UNCHANGED at

Load ==
  /\ sends = "load"
  /\ ReadBlock
  /\ UNCHANGED <<transportVars, programVars>>

(* The server sends the string in the buffer, the client the bytes read.   *)
Lengths == IF Fetching THEN StringLengths ELSE {file_size}

SendLength ==
  /\ sends = "load" /\ AtEnd
  /\ announced' \in Lengths
  /\ SendAll(IntSize)
  /\ sends' = "length"
  /\ UNCHANGED <<bufferVars, receives, asked, begun, at, copy, fds, transfers>>

SendContent ==
  /\ sends = "length"
  /\ SendAll(announced)
  /\ sends' = "rest"
  /\ UNCHANGED <<bufferVars, receives, asked, begun, announced, at, copy, fds, transfers>>

(* What the bytes read as a length say.                                    *)
LengthsRead ==
  IF \A i \in 1..IntSize : stored[Len(stored) - IntSize + i] = begun + i
  THEN {announced} ELSE 0..MaxLength

ReadContent ==
  /\ receives = "length" /\ reader = "idle"
  /\ \E n \in LengthsRead : ReadAll(n)
  /\ at' = Len(stored)
  /\ receives' = "content"
  /\ UNCHANGED <<bufferVars, sends, asked, begun, announced, copy, fds, transfers>>

Meaning(b) ==
  IF b > begun + IntSize /\ b <= begun + IntSize + announced
  THEN text[b - begun - IntSize] ELSE Unset

Received == [i \in 1..Len(stored) - at |-> Meaning(stored[at + i])]

(* The digest of a push was taken over the buffer.                         *)
Sent == SubSeq(text, 1, announced)

(* The client writes what it has read into the file.  The server compares  *)
(* digests first and looks for the project, which leaves a descriptor of   *)
(* its folder open and needs one.                                          *)
Store ==
  /\ receives = "content" /\ reader = "idle"
  /\ receives' = "rest"
  /\ LET new == [of |-> asked, as |-> Received, number |-> transfers] IN
       IF Fetching THEN copy' = new /\ UNCHANGED fds
       ELSE IF Received = Sent /\ fds < Limit
       THEN copy' = new /\ fds' = fds + 1
       ELSE copy' = None /\ UNCHANGED fds
  /\ UNCHANGED <<bufferVars, transportVars, sends, asked, begun, announced, at, transfers>>

SenderStep ==
  \/ (SendLoop /\ UNCHANGED <<bufferVars, programVars>>)
  \/ Load \/ SendLength \/ SendContent

ReaderStep ==
  \/ (ReadLoop /\ UNCHANGED <<bufferVars, programVars>>)
  \/ ReadContent \/ Store

Disturbance ==
  /\ Killed \/ SendInterrupted \/ ReadInterrupted \/ \E side \in Sides : Interrupt(side)
  /\ UNCHANGED <<bufferVars, programVars>>

Next == (\E f \in Files : Begin(f)) \/ SenderStep \/ ReaderStep \/ Disturbance

Spec == Init /\ [][Next]_vars

(* Both programs are scheduled.                                            *)
FairSpec == Spec /\ WF_vars(SenderStep) /\ WF_vars(ReaderStep)

-----------------------------------------------------------------------------
(* Below a block, and without a 0 where the server takes the content for a *)
(* string, a file is read whole.                                           *)
Small(f) == IF Fetching THEN Len(f) < Block /\ \A i \in 1..Len(f) : f[i] # Nul
            ELSE Len(f) <= Block

(* A small file arrives as it was, over every faithful connection and      *)
(* however it is split, as long as the server has descriptors left         *)
(* (GetMD5FileInfo, HandleRecieveFile, HandleSendFile).                    *)
SmallArrive ==
  copy # None /\ FaithfulMode /\ Small(copy.of) /\ copy.number <= Limit =>
    copy.as = copy.of

(* A program in read_all comes out of it, also when the other one is       *)
(* killed (read_all, over faithful connections).                           *)
Reading == reader \in {"test", "recv"}

ReadsEnd == (Reading /\ FaithfulMode) ~> ~Reading

(* utility.c: after the request, ReceiveFile reads the size and the        *)
(* content of the file.  On every platform it gets both, when errno is     *)
(* clean at first, no signal arrives and the server's end stays open.      *)
AllReadsEnd ==
  ~errno /\ [](stop = {} /\ sender # "closed") => (Reading ~> ~Reading)

(* utility.c: the answer to recv is the size and the content of the file.  *)
FilesArrive == copy # None => copy.as = copy.of
=============================================================================
