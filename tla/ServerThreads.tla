--------------------------- MODULE ServerThreads ---------------------------
(***************************************************************************)
(* The threads of WTFserver: main with its accept loop, self-pipe and      *)
(* joins, one handle_customer per connection, and SIGINT.  What a request  *)
(* does is left out (see Server): here it is one step that may answer.     *)
(***************************************************************************)
EXTENDS Naturals, Sequences

CONSTANTS Conn,         \* connections; each is opened once
          None,         \* nobody
          MaxRequests,  \* requests sent over one connection, at most
          MaxSignals    \* how often SIGINT is sent

ASSUME ThreadsAssumption == None \notin Conn /\ MaxRequests \in Nat /\ MaxSignals \in Nat

VARIABLES globalStop,   \* set by SIGINT's handler
          selfpipe,     \* TRUE: a byte is in the pipe (nobody reads it)
          mainPc,       \* where main is
          backlog,      \* connections not accepted yet, oldest first
          list,         \* from head_node: the nodes main has not joined
          client_mutex, \* the connection whose thread holds it, or None
          thread,       \* where the thread of a connection is
          client,       \* what the client of a connection does
          inbox,        \* requests it has sent that were not read
          asked,        \* requests it has sent
          signals,      \* SIGINTs delivered
          late          \* requests handled after the first SIGINT

mainVars == <<mainPc, backlog, list>>
stopVars == <<globalStop, selfpipe, signals>>
clientVars == <<client, inbox, asked>>
vars == <<stopVars, mainVars, client_mutex, thread, clientVars, late>>

(* recv: blocked in the read of a request; handle: all of it but the last  *)
(* bytes was read under a test of globalStop; closing: mutex given back.   *)
Inside == {"test", "recv", "rest", "handle", "unlock"}
ThreadStates == Inside \cup {"none", "created", "closing", "returned", "freed"}

TypeOK ==
  /\ globalStop \in BOOLEAN /\ selfpipe \in BOOLEAN
  /\ mainPc \in {"loop", "poll", "polled", "accept", "close", "join", "exited"}
  /\ backlog \in Seq(Conn) /\ list \in Seq(Conn)
  /\ client_mutex \in Conn \cup {None}
  /\ thread \in [Conn -> ThreadStates]
  /\ client \in [Conn -> {"off", "busy", "wait", "closed"}]
  /\ inbox \in [Conn -> Nat] /\ asked \in [Conn -> Nat]
  /\ signals \in Nat /\ late \in Nat

Init ==
  /\ globalStop = FALSE /\ selfpipe = FALSE /\ mainPc = "loop"
  /\ backlog = <<>> /\ list = <<>> /\ client_mutex = None
  /\ thread = [k \in Conn |-> "none"]
  /\ client = [k \in Conn |-> "off"]
  /\ inbox = [k \in Conn |-> 0] /\ asked = [k \in Conn |-> 0]
  /\ signals = 0 /\ late = 0

-----------------------------------------------------------------------------
(* main *)

MainGoes(from, to) == mainPc = from /\ mainPc' = to

TestStop ==
  /\ \/ globalStop /\ mainPc' = "close"
     \/ ~globalStop /\ \/ MainGoes("loop", "poll") \/ MainGoes("polled", "accept")
  /\ mainPc \in {"loop", "polled"}
  /\ UNCHANGED <<backlog, list, stopVars, client_mutex, thread, clientVars, late>>

Poll ==
  /\ MainGoes("poll", "polled")
  /\ backlog # <<>> \/ selfpipe
  /\ UNCHANGED <<backlog, list, stopVars, client_mutex, thread, clientVars, late>>

(* A node at the head of the list, and its thread.                         *)
Accept ==
  /\ MainGoes("accept", "loop")
  /\ IF backlog = <<>> THEN UNCHANGED <<backlog, list, thread>>
     ELSE /\ backlog' = Tail(backlog)
          /\ list' = <<Head(backlog)>> \o list
          /\ thread' = [thread EXCEPT ![Head(backlog)] = "created"]
  /\ UNCHANGED <<stopVars, client_mutex, clientVars, late>>

(* The listening socket is closed, which resets what nobody has accepted.  *)
CloseListener ==
  /\ MainGoes("close", "join")
  /\ backlog' = <<>>
  /\ client' = [k \in Conn |-> IF \E i \in DOMAIN backlog : backlog[i] = k
                               THEN "closed" ELSE client[k]]
  /\ UNCHANGED <<list, stopVars, client_mutex, thread, inbox, asked, late>>

(* Mutant: the data of a thread is freed without waiting for it.           *)
JoinFreeEarly ==
  /\ mainPc = "join" /\ list # <<>>
  /\ thread' = [thread EXCEPT ![Head(list)] = "freed"]
  /\ list' = Tail(list)
  /\ UNCHANGED <<mainPc, backlog, stopVars, client_mutex, clientVars, late>>

(* pthread_join of the next node, whose data is then freed.                *)
Join ==
  /\ mainPc = "join" /\ list # <<>>
  /\ thread[Head(list)] = "returned"
  /\ thread' = [thread EXCEPT ![Head(list)] = "freed"]
  /\ list' = Tail(list)
  /\ UNCHANGED <<mainPc, backlog, stopVars, client_mutex, clientVars, late>>

Exit ==
  /\ MainGoes("join", "exited") /\ list = <<>>
  /\ UNCHANGED <<backlog, list, stopVars, client_mutex, thread, clientVars, late>>

Main == TestStop \/ Poll \/ Accept \/ CloseListener \/ Join \/ Exit

-----------------------------------------------------------------------------
(* handle_customer *)

Goes(k, from, to) == thread[k] = from /\ thread' = [thread EXCEPT ![k] = to]

(* Mutant: pthread_mutex_trylock, and its result is not looked at.         *)
LockTried(k) ==
  /\ Goes(k, "created", "test")
  /\ client_mutex' = IF client_mutex = None THEN k ELSE client_mutex
  /\ UNCHANGED <<stopVars, mainVars, clientVars, late>>

Lock(k) ==
  /\ Goes(k, "created", "test") /\ client_mutex = None
  /\ client_mutex' = k
  /\ UNCHANGED <<stopVars, mainVars, clientVars, late>>

(* The test of the loop; read_all makes it once more before the first recv.*)
Test(k) ==
  /\ Goes(k, "test", IF globalStop THEN "unlock" ELSE "recv")
  /\ UNCHANGED <<stopVars, mainVars, client_mutex, clientVars, late>>

(* The socket is a blocking one (F_SETFD where F_SETFL was meant): recv    *)
(* returns when bytes are there or the client's end is closed.             *)
Recv(k) ==
  /\ \/ Goes(k, "recv", "rest") /\ inbox[k] > 0
     \/ Goes(k, "recv", "unlock") /\ inbox[k] = 0 /\ client[k] = "closed"
  /\ UNCHANGED <<stopVars, mainVars, client_mutex, clientVars, late>>

(* read_all tests globalStop before each further recv.                     *)
Rest(k) ==
  /\ Goes(k, "rest", IF globalStop THEN "unlock" ELSE "handle")
  /\ inbox' = [inbox EXCEPT ![k] = IF globalStop THEN @ ELSE @ - 1]
  /\ UNCHANGED <<stopVars, mainVars, client_mutex, client, asked, late>>

(* The handler changes what it has to change; send_all sends its answer    *)
(* only while globalStop is not set.                                       *)
Handle(k) ==
  /\ Goes(k, "handle", "test")
  /\ client' = IF globalStop \/ client[k] # "wait" THEN client
               ELSE [client EXCEPT ![k] = "busy"]
  /\ late' = IF globalStop THEN late + 1 ELSE late
  /\ UNCHANGED <<stopVars, mainVars, client_mutex, inbox, asked>>

(* Mutant: the thread leaves without pthread_mutex_unlock.                 *)
UnlockForgotten(k) ==
  /\ Goes(k, "unlock", "closing")
  /\ UNCHANGED <<client_mutex, stopVars, mainVars, clientVars, late>>

Unlock(k) ==
  /\ Goes(k, "unlock", "closing")
  /\ client_mutex' = None
  /\ UNCHANGED <<stopVars, mainVars, clientVars, late>>

Return(k) ==
  /\ Goes(k, "closing", "returned")
  /\ UNCHANGED <<stopVars, mainVars, client_mutex, clientVars, late>>

Customer(k) ==
  Lock(k) \/ Test(k) \/ Recv(k) \/ Rest(k) \/ Handle(k) \/ Unlock(k) \/ Return(k)

-----------------------------------------------------------------------------
(* The clients, seen from the server.                                      *)

(* connect succeeds as soon as the connection is in the backlog.           *)
Open(k) ==
  /\ client[k] = "off" /\ mainPc \notin {"join", "exited"}
  /\ client' = [client EXCEPT ![k] = "busy"]
  /\ backlog' = Append(backlog, k)
  /\ UNCHANGED <<mainPc, list, stopVars, client_mutex, thread, inbox, asked, late>>

Ask(k) ==
  /\ client[k] = "busy" /\ asked[k] < MaxRequests
  /\ client' = [client EXCEPT ![k] = "wait"]
  /\ asked' = [asked EXCEPT ![k] = @ + 1]
  /\ inbox' = [inbox EXCEPT ![k] = @ + 1]
  /\ UNCHANGED <<stopVars, mainVars, client_mutex, thread, late>>

(* The command is done, or sees that the server's end is closed, ...       *)
Finish(k) ==
  /\ \/ client[k] = "busy"
     \/ client[k] = "wait" /\ thread[k] \in {"returned", "freed"}
  /\ client' = [client EXCEPT ![k] = "closed"]
  /\ UNCHANGED <<stopVars, mainVars, client_mutex, thread, inbox, asked, late>>

(* ... or is killed while it waits.                                        *)
Abandon(k) ==
  /\ client[k] = "wait"
  /\ client' = [client EXCEPT ![k] = "closed"]
  /\ UNCHANGED <<stopVars, mainVars, client_mutex, thread, inbox, asked, late>>

(* SIGINT is delivered to main or to a thread.  A poll or a recv that the  *)
(* one it is delivered to is blocked in is interrupted (sa_flags is 0); one *)
(* that is just about to begin is not.                                     *)
Wakes(from) == mainPc' \in {from, IF from = "poll" THEN "polled" ELSE from}

Breaks(k) ==
  /\ thread[k] \in Inside \cup {"created", "closing"}
  /\ \E to \in {thread[k], "unlock"} :
       /\ to = thread[k] \/ thread[k] \in {"recv", "handle"}
       /\ thread' = [thread EXCEPT ![k] = to]

(* Mutant: the handler does not write to the pipe.                         *)
InterruptSilent ==
  /\ signals < MaxSignals /\ mainPc # "exited"
  /\ signals' = signals + 1 /\ globalStop' = TRUE /\ selfpipe' = selfpipe
  /\ \/ Wakes(mainPc) /\ UNCHANGED thread
     \/ UNCHANGED mainPc /\ \E k \in Conn : Breaks(k)
  /\ UNCHANGED <<backlog, list, client_mutex, clientVars, late>>

Interrupt ==
  /\ signals < MaxSignals /\ mainPc # "exited"
  /\ signals' = signals + 1 /\ globalStop' = TRUE /\ selfpipe' = TRUE
  /\ \/ Wakes(mainPc) /\ UNCHANGED thread
     \/ UNCHANGED mainPc /\ \E k \in Conn : Breaks(k)
  /\ UNCHANGED <<backlog, list, client_mutex, clientVars, late>>

-----------------------------------------------------------------------------
Next ==
  \/ Main \/ Interrupt
  \/ \E k \in Conn : Customer(k) \/ Open(k) \/ Ask(k) \/ Finish(k) \/ Abandon(k)

(* Threads run, and a command either goes on or ends.                      *)
Fairness ==
  /\ WF_vars(Main)
  /\ \A k \in Conn : WF_vars(Customer(k)) /\ WF_vars(Finish(k))

Spec == Init /\ [][Next]_vars
FairSpec == Spec /\ Fairness

-----------------------------------------------------------------------------
(* After SIGINT at most one more request takes effect, the one a thread    *)
(* was about to handle: the loop of handle_customer and read_all look at   *)
(* globalStop and the other connections are queued at the mutex.           *)
StopsServing == late <= 1

(* main frees a node's data only when its thread has returned, and leaves  *)
(* only when all have: no handler is cut off by the end of the process.    *)
NothingCutOff ==
  /\ client_mutex # None => thread[client_mutex] \in Inside
  /\ mainPc = "exited" => \A k \in Conn : thread[k] \in {"none", "freed"}

(* SIGINT ends the server, whichever thread gets it and at whatever moment *)
(* (on_sig_intp's write to the self-pipe wakes the poll), as long as       *)
(* clients end their commands.                                             *)
ServerStops == globalStop ~> mainPc = "exited"

(* A client that waits for an answer gets one or sees its connection end.  *)
WaitEnds == \A k \in Conn : client[k] = "wait" ~> client[k] # "wait"

(* The threads implement one session after the other (client_mutex).       *)
S == INSTANCE Sessions WITH
       waiting <- {k \in Conn : thread[k] = "created"},
       current <- client_mutex,
       over <- {k \in Conn : thread[k] \in {"closing", "returned", "freed"}}
OneAtATime == S!Spec

(* The inductive invariant.  The thread inside is the one with the mutex,  *)
(* and none is left that could handle a second request after SIGINT; a     *)
(* connection in the backlog is there once and has no thread; every thread *)
(* that lives is on the list main joins.                                   *)
BacklogOK ==
  /\ \A i \in DOMAIN backlog : thread[backlog[i]] = "none" /\ client[backlog[i]] # "off"
  /\ \A i, j \in DOMAIN backlog : backlog[i] = backlog[j] => i = j

Listed == \A k \in Conn : thread[k] \notin {"none", "freed"} => \E i \in DOMAIN list : list[i] = k

IInv ==
  /\ TypeOK /\ BacklogOK /\ Listed
  /\ \A k \in Conn : client[k] = "off" => thread[k] = "none"
  /\ \A k \in Conn : thread[k] = "rest" => inbox[k] > 0
  /\ \A k \in Conn : thread[k] \in Inside <=> client_mutex = k
  /\ late > 0 => globalStop /\ \A k \in Conn : thread[k] # "handle"
  /\ StopsServing
  /\ mainPc = "exited" => list = <<>>
=============================================================================
