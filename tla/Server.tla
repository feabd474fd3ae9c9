------------------------------- MODULE Server -------------------------------
(***************************************************************************)
(* WTFserver: one thread per connection, all of them under client_mutex    *)
(* from the first request of a connection to its end.  One project.        *)
(***************************************************************************)
EXTENDS Wire

VARIABLES client_mutex,     \* the connection whose thread holds the mutex, or None
          isPushing,        \* the flag of that thread
          srvMani,          \* <project>/.Manifest; None: no such project
          srvTmp,           \* <project>/~Manifest
          srvBlob,          \* the contents stored under their hash
          srvHist,          \* .History: the pushes completed
          currentPushHead   \* hashes received, newest first (in memory)

diskVars == <<srvMani, srvTmp, srvBlob, srvHist>>
serverVars == <<client_mutex, isPushing, diskVars, currentPushHead>>

HistoryEntry == [mani : ManifestFile, sent : Seq(Text)]

ServerTypeOK ==
  /\ client_mutex \in Conn \cup {None}
  /\ isPushing \in BOOLEAN
  /\ srvMani \in ManifestFile
  /\ srvTmp \in ManifestFile
  /\ srvBlob \subseteq Text
  /\ srvHist \in Seq(HistoryEntry)
  /\ currentPushHead \in Seq(Text)

IsProject == srvMani # None

Lock(k) ==
  /\ client_mutex = None /\ k \in serverEnd
  /\ client_mutex' = k
  /\ isPushing' = FALSE
  /\ UNCHANGED <<diskVars, currentPushHead, wireVars>>

(* The thread of k has received a request op.                              *)
Received(k, op) ==
  client_mutex = k /\ toServer[k] # <<>> /\ Head(toServer[k]).op = op

(* The answer is a success even when the project is there already.         *)
HandleCreate(k) ==
  /\ Received(k, "cret")
  /\ srvMani' = IF IsProject THEN srvMani ELSE EmptyManifest
  /\ Answer(k, [ok |-> TRUE])
  /\ UNCHANGED <<client_mutex, isPushing, srvTmp, srvBlob, srvHist, currentPushHead>>

(* Mutant: the mutex is given back after the answer.                       *)
HandleReceiveManifestUnlocked(k) ==
  /\ Received(k, "manifest")
  /\ \E found \in Heap : Answer(k, [manifest |-> IF found THEN srvMani ELSE None])
  /\ client_mutex' = None
  /\ UNCHANGED <<isPushing, diskVars, currentPushHead>>

(* A file that cannot be opened is answered with an empty one.  .Manifest  *)
(* arrives as it is because it fits one block (BlockAssumption).           *)
HandleReceiveManifest(k) ==
  /\ Received(k, "manifest")
  /\ \E found \in Heap : Answer(k, [manifest |-> IF found THEN srvMani ELSE None])
  /\ UNCHANGED serverVars

(* Mutant: no content at all for a file that is not there.                 *)
HandleReceiveFileMissing(k) ==
  /\ Received(k, "recv")
  /\ LET hash == Head(toServer[k]).hash
     IN Answer(k, [content |-> IF hash \in srvBlob THEN hash ELSE None])
  /\ UNCHANGED serverVars

HandleReceiveFile(k) ==
  /\ Received(k, "recv")
  /\ LET hash == Head(toServer[k]).hash
     IN Answer(k, [content |-> IF hash \in srvBlob THEN hash ELSE <<>>])
  /\ UNCHANGED serverVars

(* A push carries the client's version plus one, then the .Manifest.       *)
Acceptable(m) == ~isPushing /\ IsProject /\ srvMani.version = m.version - 1

(* Mutant: an accepted push is not acknowledged.                           *)
AcceptPushUnanswered(k) ==
  /\ Received(k, "push")
  /\ srvMani \in Manifest \cup {None}
  /\ LET m == Head(toServer[k])
     IN /\ Acceptable(m)
        /\ srvTmp' = IF m.manifest = None THEN Bad ELSE m.manifest
  /\ isPushing' = TRUE
  /\ Respond(k, Tail(toServer[k]), <<>>)
  /\ UNCHANGED <<client_mutex, srvMani, srvBlob, srvHist, currentPushHead>>

(* Mutant: the .Manifest is written in place, without ~Manifest.           *)
AcceptPushInPlace(k) ==
  /\ Received(k, "push")
  /\ srvMani \in Manifest \cup {None}
  /\ LET m == Head(toServer[k])
     IN /\ Acceptable(m)
        /\ srvMani' = IF m.manifest = None THEN Bad ELSE m.manifest
  /\ isPushing' = TRUE
  /\ Answer(k, [ok |-> TRUE])
  /\ UNCHANGED <<client_mutex, srvTmp, srvBlob, srvHist, currentPushHead>>

AcceptPush(k) ==
  /\ Received(k, "push")
  /\ srvMani \in Manifest \cup {None}
  /\ LET m == Head(toServer[k])
     IN /\ Acceptable(m)
        /\ srvTmp' = IF m.manifest = None THEN Bad ELSE m.manifest
  /\ isPushing' = TRUE
  /\ Answer(k, [ok |-> TRUE])
  /\ UNCHANGED <<client_mutex, srvMani, srvBlob, srvHist, currentPushHead>>

(* Mutant: the refused .Manifest is read, so that the session goes on.      *)
RejectPushRead(k) ==
  /\ Received(k, "push")
  /\ srvMani \in Manifest \cup {None}
  /\ ~Acceptable(Head(toServer[k]))
  /\ Respond(k, Tail(toServer[k]),
             IF isPushing \/ IsProject THEN <<[ok |-> FALSE]>> ELSE <<>>)
  /\ UNCHANGED serverVars

(* Refused without reading the .Manifest that follows, and without a word  *)
(* when there is no such project.                                          *)
RejectPush(k) ==
  /\ Received(k, "push")
  /\ srvMani \in Manifest \cup {None}
  /\ ~Acceptable(Head(toServer[k]))
  /\ Respond(k, <<[op |-> "payload"]>> \o Tail(toServer[k]),
             IF isPushing \/ IsProject THEN <<[ok |-> FALSE]>> ELSE <<>>)
  /\ UNCHANGED serverVars

(* The content received has the hash that was announced.                   *)
Stores(m) == m.content = m.hash /\ IsProject

(* Mutant: the hash is noted down before the content is checked.           *)
HandleSendFileUnchecked(k) ==
  /\ Received(k, "send") /\ isPushing
  /\ LET m == Head(toServer[k])
     IN /\ currentPushHead' = <<m.hash>> \o currentPushHead
        /\ srvBlob' = IF Stores(m) THEN srvBlob \cup {m.hash} ELSE srvBlob
        /\ Answer(k, [ok |-> Stores(m)])
  /\ UNCHANGED <<client_mutex, isPushing, srvMani, srvTmp, srvHist>>

HandleSendFile(k) ==
  /\ Received(k, "send") /\ isPushing
  /\ LET m == Head(toServer[k])
     IN /\ currentPushHead' = IF Stores(m) THEN <<m.hash>> \o currentPushHead
                              ELSE currentPushHead
        /\ srvBlob' = IF Stores(m) THEN srvBlob \cup {m.hash} ELSE srvBlob
        /\ Answer(k, [ok |-> Stores(m)])
  /\ UNCHANGED <<client_mutex, isPushing, srvMani, srvTmp, srvHist>>

(* Refused without reading the content that follows, if there is any.      *)
RefuseSend(k) ==
  /\ Received(k, "send") /\ ~isPushing
  /\ LET unread == IF Head(toServer[k]).content = <<>> THEN <<>> ELSE <<[op |-> "payload"]>>
     IN Respond(k, unread \o Tail(toServer[k]), <<[ok |-> FALSE]>>)
  /\ UNCHANGED serverVars

(* rename() of ~Manifest over .Manifest                                    *)
Publish ==
  /\ srvMani' = IF isPushing /\ srvTmp # None THEN srvTmp ELSE srvMani
  /\ srvTmp' = IF isPushing THEN None ELSE srvTmp
  /\ UNCHANGED srvBlob

HandleComplete(k) ==
  /\ Received(k, "cplt")
  /\ Publish
  /\ isPushing' = FALSE
  /\ srvHist' = Append(srvHist, [mani |-> srvMani', sent |-> currentPushHead])
  /\ Answer(k, [ok |-> isPushing])
  /\ UNCHANGED <<client_mutex, currentPushHead>>

(* Mutant: no answer when there is no such project.                        *)
HandleCurrentVersionSilent(k) ==
  /\ Received(k, "crvs")
  /\ srvMani \in Manifest \cup {None}
  /\ Respond(k, Tail(toServer[k]), IF IsProject THEN <<[ok |-> TRUE]>> ELSE <<>>)
  /\ UNCHANGED serverVars

HandleCurrentVersion(k) ==
  /\ Received(k, "crvs")
  /\ srvMani \in Manifest \cup {None}
  /\ Answer(k, [ok |-> IsProject])
  /\ UNCHANGED serverVars

HandleHistory(k) ==
  /\ Received(k, "hist")
  /\ Answer(k, [ok |-> IsProject])
  /\ UNCHANGED serverVars

(* Rollback never finds the version: it writes a node count and lines from *)
(* uninitialised variables over the .Manifest.                             *)
HandleRollback(k) ==
  /\ Received(k, "roll")
  /\ \E found \in Heap :
       /\ srvMani' \in IF found /\ IsProject THEN {Null, Bad} ELSE {srvMani}
       /\ srvTmp' = IF found /\ IsProject THEN None ELSE srvTmp
       /\ Answer(k, [ok |-> found /\ IsProject])
  /\ UNCHANGED <<client_mutex, isPushing, srvBlob, srvHist, currentPushHead>>

(* Mutant: only the .Manifest is removed.                                  *)
HandleDestroyManifest(k) ==
  /\ Received(k, "dest")
  /\ \E found \in Heap :
       /\ srvMani' = IF found THEN None ELSE srvMani
       /\ Answer(k, [ok |-> found /\ IsProject])
  /\ UNCHANGED <<client_mutex, isPushing, srvTmp, srvBlob, srvHist, currentPushHead>>

HandleDestroy(k) ==
  /\ Received(k, "dest")
  /\ \E found \in Heap :
       /\ IF found /\ IsProject
          THEN /\ srvMani' = None /\ srvTmp' = None
               /\ srvBlob' = {} /\ srvHist' = <<>>
          ELSE UNCHANGED diskVars
       /\ Answer(k, [ok |-> found /\ IsProject])
  /\ UNCHANGED <<client_mutex, isPushing, currentPushHead>>

(* Mutant: a connection that is closed without fail is not noticed.        *)
EndSessionOnFail(k) ==
  /\ client_mutex = k
  /\ \/ Received(k, "fail") /\ Close(k, Len(toClient[k]))
     \/ Received(k, "payload") /\ \E n \in 0..Len(toClient[k]) : Close(k, n)
  /\ client_mutex' = None
  /\ UNCHANGED <<isPushing, diskVars, currentPushHead>>

(* ReceiveMessage fails (end of stream, or payload bytes where a header    *)
(* should be) or the client sent fail.                                     *)
EndSession(k) ==
  /\ client_mutex = k
  /\ \/ toServer[k] = <<>> /\ k \notin clientEnd /\ Close(k, 0)
     \/ Received(k, "fail") /\ Close(k, Len(toClient[k]))
     \/ Received(k, "payload") /\ \E n \in 0..Len(toClient[k]) : Close(k, n)
  /\ client_mutex' = None
  /\ UNCHANGED <<isPushing, diskVars, currentPushHead>>

Serve(k) ==
  \/ Lock(k) \/ EndSession(k)
  \/ HandleCreate(k) \/ HandleDestroy(k) \/ HandleRollback(k)
  \/ HandleReceiveManifest(k) \/ HandleReceiveFile(k)
  \/ AcceptPush(k) \/ RejectPush(k)
  \/ HandleSendFile(k) \/ RefuseSend(k) \/ HandleComplete(k)
  \/ HandleCurrentVersion(k) \/ HandleHistory(k)

-----------------------------------------------------------------------------
(* The process ends, by a signal or by a fault, and is started again:      *)
(* memory and connections are lost, and any of the replies sent and not    *)
(* read yet with them; the disk is kept.                                   *)
StoppedWith(replies) ==
  /\ client_mutex' = None /\ isPushing' = FALSE /\ currentPushHead' = <<>>
  /\ serverEnd' = {}
  /\ toServer' = [k \in Socket |-> <<>>]
  /\ \E lost \in SUBSET serverEnd :
       toClient' = [k \in Socket |-> IF k \in lost THEN <<>> ELSE replies[k]]
  /\ UNCHANGED clientEnd

Stopped == StoppedWith(toClient)

(* The answer to the request under way has gone out.                       *)
Answered(k, ok) ==
  IF k \in clientEnd THEN [toClient EXCEPT ![k] = Append(@, [ok |-> ok])] ELSE toClient

Crash == Stopped /\ UNCHANGED diskVars

(* Stopped with .Manifest created and nothing in it, or not its name.      *)
CrashInCreate(k) ==
  /\ Received(k, "cret") /\ ~IsProject
  /\ srvMani' \in {Bad, EmptyManifest}
  /\ Stopped
  /\ UNCHANGED <<srvTmp, srvBlob, srvHist>>

(* Stopped after the answer and before the content is written: a file that *)
(* was not there before is left empty, and reads like one that is missing. *)
CrashInSend(k) ==
  /\ Received(k, "send") /\ isPushing /\ Stores(Head(toServer[k]))
  /\ StoppedWith(Answered(k, TRUE))
  /\ UNCHANGED diskVars

(* Stopped after the rename and before .History is written.                *)
CrashInComplete(k) ==
  /\ Received(k, "cplt")
  /\ Publish /\ UNCHANGED srvHist
  /\ Stopped \/ StoppedWith(Answered(k, isPushing))

(* Stopped after the answer, while remove_dir removes one file after the   *)
(* other in the order nftw finds them.                                     *)
CrashInDestroy(k) ==
  /\ Received(k, "dest") /\ TRUE \in Heap /\ IsProject
  /\ srvMani' \in {srvMani, None}
  /\ srvTmp' \in {srvTmp, None}
  /\ srvBlob' \in SUBSET srvBlob
  /\ srvHist' \in {srvHist, <<>>}
  /\ StoppedWith(Answered(k, TRUE))

(* ConstructStructureFromFile over a .Manifest that does not parse.        *)
ParseFault(k) ==
  /\ Received(k, "push") \/ Received(k, "crvs")
  /\ srvMani \in {Null, Bad}
  /\ Stopped /\ UNCHANGED diskVars
=============================================================================
