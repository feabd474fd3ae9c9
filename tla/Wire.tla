-------------------------------- MODULE Wire --------------------------------
(***************************************************************************)
(* The TCP connections between clients and server: a byte stream each way, *)
(* here a sequence of whole requests and a sequence of whole replies.      *)
(* Both programs write a request in several send() calls and may stop      *)
(* between two of them: what is cut off is then missing from the stream,   *)
(* or is a push or a send without its payload.                             *)
(***************************************************************************)
EXTENDS Store, FiniteSets

CONSTANTS Conn,     \* connections that can be in use at the same time
          Room,     \* how many files a .Manifest of one block can list
          Heap      \* what may lie in memory no one has written

ASSUME WireAssumption == None \notin Conn

(* handle_rollback, handle_destory and HandleRecieveFile use a name whose  *)
(* bytes or whose terminator they never wrote: TRUE is the name the client *)
(* sent, FALSE another one.  Checkout looks at a byte behind a path, and   *)
(* takes the path for a folder's if it finds a "/" there: FALSE.           *)
ASSUME HeapAssumption == Heap \subseteq BOOLEAN /\ Heap # {}

(* Both programs send and hash a file as GetMD5FileInfo leaves it: whole   *)
(* up to one block of 4096 bytes, beyond that the last block over the ones *)
(* before it.  The project has no more files than one block can list, so   *)
(* that no .Manifest and no .Update is longer.                             *)
ASSUME BlockAssumption == IsFiniteSet(File) /\ Cardinality(File) <= Room

(* None is the socket of a program that has shut its connection down: it   *)
(* sends nothing and each of its reads fails at once.                      *)
Socket == Conn \cup {None}

VARIABLES clientEnd,    \* connections whose client has not closed its end
          serverEnd,    \* accepted connections whose thread has not closed its end
          toServer,     \* per connection, the requests not read yet
          toClient      \* per connection, the replies not read yet

wireVars == <<clientEnd, serverEnd, toServer, toClient>>

(* "manifest" is a recv of .Manifest.  "payload" stands for payload bytes  *)
(* a handler did not read: ReceiveMessage takes them for a header.         *)
Request ==
  [op : {"cret", "crvs", "hist", "roll", "dest", "cplt", "fail", "manifest", "payload"}]
    \cup [op : {"recv"}, hash : Text]
    \cup [op : {"push"}, version : Nat, manifest : Manifest \cup {None}]
    \cup [op : {"send"}, hash : Text, content : Entry]

(* ok is FALSE for the status -1.  An empty file is the manifest None.     *)
Reply == [ok : BOOLEAN] \cup [manifest : ManifestFile] \cup [content : Text]

WireTypeOK ==
  /\ clientEnd \subseteq Conn
  /\ serverEnd \subseteq Conn
  /\ toServer \in [Socket -> Seq(Request)]
  /\ toClient \in [Socket -> Seq(Reply)]

WireInit ==
  /\ clientEnd = {} /\ serverEnd = {}
  /\ toServer = [k \in Socket |-> <<>>]
  /\ toClient = [k \in Socket |-> <<>>]

Free == Conn \ (clientEnd \cup serverEnd)

(* A request whose payload the sender did not finish.                      *)
Torn(m) == IF m.op = "push" THEN [m EXCEPT !.manifest = None]
           ELSE IF m.op = "send" THEN [m EXCEPT !.content = None]
           ELSE m

(* What a client stopped while sending may leave of the requests q.        *)
Cuts(q) ==
  {SubSeq(q, 1, n) : n \in 0..Len(q)}
    \cup {[SubSeq(q, 1, n) EXCEPT ![n] = Torn(q[n])] : n \in 1..Len(q)}

(* What toServer becomes when the client sends m on k.                     *)
Sent(k, m) == IF k \in serverEnd THEN [toServer EXCEPT ![k] = Append(@, m)]
              ELSE toServer

Connect(k, requests) ==
  /\ k \in Free
  /\ clientEnd' = clientEnd \cup {k}
  /\ serverEnd' = serverEnd \cup {k}
  /\ toServer' = [toServer EXCEPT ![k] = requests]
  /\ UNCHANGED toClient

(* The client's end closes; requests is what the server can still read.    *)
HangUp(k, requests) ==
  /\ clientEnd' = clientEnd \ {k}
  /\ toServer' = [toServer EXCEPT ![k] = IF k \in serverEnd THEN requests ELSE <<>>]
  /\ toClient' = [toClient EXCEPT ![k] = <<>>]
  /\ UNCHANGED serverEnd

(* The server has read the first request, leaves rest and sends replies.   *)
Respond(k, rest, replies) ==
  /\ toServer' = [toServer EXCEPT ![k] = rest]
  /\ toClient' = IF k \in clientEnd THEN [toClient EXCEPT ![k] = @ \o replies]
                 ELSE toClient
  /\ UNCHANGED <<clientEnd, serverEnd>>

Answer(k, reply) == Respond(k, Tail(toServer[k]), <<reply>>)

(* The server's end closes.  If it left bytes unread the connection is     *)
(* reset, which may destroy replies still on their way: the first n arrive.*)
Close(k, n) ==
  /\ serverEnd' = serverEnd \ {k}
  /\ toServer' = [toServer EXCEPT ![k] = <<>>]
  /\ toClient' = [toClient EXCEPT ![k] = SubSeq(@, 1, n)]
  /\ UNCHANGED clientEnd
=============================================================================
