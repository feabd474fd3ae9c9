------------------------ MODULE ServerThreads_proof ------------------------
(* What SIGINT and the mutex guarantee, for any number of connections.     *)
EXTENDS ServerThreads, TLAPS

(* Facts about sequences the steps of main need.                           *)
LEMMA TailOf ==
  ASSUME NEW T, NEW s \in Seq(T), s # <<>>
  PROVE  /\ Tail(s) \in Seq(T) /\ Head(s) \in T
         /\ Head(s) = s[1] /\ 1 \in DOMAIN s
         /\ \A i \in DOMAIN Tail(s) : i + 1 \in DOMAIN s /\ Tail(s)[i] = s[i + 1] /\ i \in Nat \ {0}
         /\ \A i \in DOMAIN s : i = 1 \/ (i - 1 \in DOMAIN Tail(s) /\ Tail(s)[i - 1] = s[i])
  OBVIOUS

LEMMA ConsOf ==
  ASSUME NEW T, NEW s \in Seq(T), NEW x \in T
  PROVE  /\ <<x>> \o s \in Seq(T)
         /\ 1 \in DOMAIN (<<x>> \o s) /\ (<<x>> \o s)[1] = x
         /\ \A i \in DOMAIN s : i + 1 \in DOMAIN (<<x>> \o s) /\ (<<x>> \o s)[i + 1] = s[i]
  OBVIOUS

LEMMA AppendOf ==
  ASSUME NEW T, NEW s \in Seq(T), NEW x \in T
  PROVE  /\ Append(s, x) \in Seq(T)
         /\ \A i \in DOMAIN Append(s, x) :
              \/ i \in DOMAIN s /\ Append(s, x)[i] = s[i]
              \/ i = Len(s) + 1 /\ Append(s, x)[i] = x
  OBVIOUS

-----------------------------------------------------------------------------
LEMMA InitInv ==
  ASSUME Init
  PROVE  IInv
  <1>1. TypeOK
    <2>1. <<>> \in Seq(Conn)
      OBVIOUS
    <2>2. thread \in [Conn -> ThreadStates] /\ client \in [Conn -> {"off", "busy", "wait", "closed"}]
      BY DEF Init, ThreadStates
    <2>3. inbox \in [Conn -> Nat] /\ asked \in [Conn -> Nat]
      BY DEF Init
    <2>4. QED BY <2>1, <2>2, <2>3 DEF Init, TypeOK
  <1>2. BacklogOK /\ Listed
    BY DEF Init, BacklogOK, Listed
  <1>3. \A k \in Conn : thread[k] \notin Inside /\ client_mutex # k /\ thread[k] # "rest"
    BY ThreadsAssumption DEF Init, Inside
  <1>4. QED BY <1>1, <1>2, <1>3 DEF Init, IInv, StopsServing

(* main accepts, closes its listener and joins.                            *)
LEMMA MainStep ==
  ASSUME IInv, Main
  PROVE  IInv'
  <1> USE DEF IInv
  <1>1. CASE TestStop \/ Poll \/ Exit
    <2>1. /\ mainPc' \in {"poll", "polled", "accept", "close", "exited"}
          /\ mainPc' = "exited" => list = <<>>
          /\ UNCHANGED <<backlog, list, stopVars, client_mutex, thread, clientVars, late>>
      BY <1>1 DEF TestStop, Poll, Exit, MainGoes
    <2>2. QED BY <2>1 DEF TypeOK, BacklogOK, Listed, StopsServing, stopVars, clientVars
  <1>2. CASE Accept
    <2>1. CASE backlog = <<>>
      BY <1>2, <2>1 DEF Accept, MainGoes, TypeOK, BacklogOK, Listed, StopsServing, stopVars, clientVars
    <2>2. CASE backlog # <<>>
      <3> DEFINE k == Head(backlog)
      <3>1. /\ backlog \in Seq(Conn) /\ list \in Seq(Conn) /\ k \in Conn
            /\ k = backlog[1] /\ 1 \in DOMAIN backlog /\ thread[k] = "none"
        BY <2>2, TailOf DEF TypeOK, BacklogOK
      <3>2. /\ mainPc = "accept" /\ mainPc' = "loop" /\ backlog' = Tail(backlog)
            /\ list' = <<k>> \o list /\ thread' = [thread EXCEPT ![k] = "created"]
            /\ UNCHANGED <<stopVars, client_mutex, clientVars, late>>
        BY <1>2, <2>2 DEF Accept, MainGoes
      <3>3. TypeOK'
        BY <3>1, <3>2, <2>2, TailOf, ConsOf DEF TypeOK, ThreadStates, stopVars, clientVars
      <3>4. BacklogOK'
        <4>1. ASSUME NEW i \in DOMAIN backlog' PROVE i + 1 \in DOMAIN backlog /\ backlog'[i] = backlog[i + 1] /\ i \in Nat \ {0}
          BY <4>1, <3>1, <3>2, <2>2, TailOf
        <4>2. ASSUME NEW i \in DOMAIN backlog' PROVE backlog'[i] # k /\ backlog'[i] \in Conn
          <5>1. i + 1 # 1 /\ i + 1 \in DOMAIN backlog
            BY <4>1
          <5>2. QED BY <4>1, <5>1, <3>1 DEF BacklogOK
        <4>3. ASSUME NEW i \in DOMAIN backlog'
              PROVE thread'[backlog'[i]] = "none" /\ client'[backlog'[i]] # "off"
          BY <4>1, <4>2, <3>1, <3>2 DEF BacklogOK, TypeOK, clientVars
        <4>4. ASSUME NEW i \in DOMAIN backlog', NEW j \in DOMAIN backlog', backlog'[i] = backlog'[j]
              PROVE  i = j
          <5>1. i + 1 = j + 1
            BY <4>1, <4>4 DEF BacklogOK
          <5>2. QED BY <5>1, <4>1
        <4>5. QED BY <4>3, <4>4 DEF BacklogOK
      <3>5. ASSUME NEW c \in Conn, thread'[c] \notin {"none", "freed"}
            PROVE  \E i \in DOMAIN list' : list'[i] = c
        <4>1. CASE c = k
          BY <4>1, <3>1, <3>2, ConsOf
        <4>2. CASE c # k
          <5>1. thread[c] \notin {"none", "freed"}
            BY <4>2, <3>1, <3>2, <3>5 DEF TypeOK
          <5>2. PICK i \in DOMAIN list : list[i] = c
            BY <5>1 DEF Listed
          <5>3. i + 1 \in DOMAIN list' /\ list'[i + 1] = c
            BY <5>2, <3>1, <3>2, ConsOf
          <5>4. QED BY <5>3
        <4>3. QED BY <4>1, <4>2
      <3>6. \A c \in Conn : /\ client'[c] = "off" => thread'[c] = "none"
                            /\ thread'[c] = "rest" => inbox'[c] > 0
        BY <3>1, <3>2 DEF BacklogOK, TypeOK, clientVars
      <3>7. \A c \in Conn : thread'[c] \in Inside <=> client_mutex' = c
        BY <3>1, <3>2 DEF TypeOK, Inside
      <3>8. late' > 0 => globalStop' /\ \A c \in Conn : thread'[c] # "handle"
        BY <3>1, <3>2 DEF TypeOK, stopVars
      <3>9. QED BY <3>2, <3>3, <3>4, <3>5, <3>6, <3>7, <3>8 DEF Listed, StopsServing
    <2>3. QED BY <2>1, <2>2
  <1>3. CASE CloseListener
    BY <1>3 DEF CloseListener, MainGoes, TypeOK, BacklogOK, Listed, StopsServing, stopVars
  <1>4. CASE Join
    <2> DEFINE k == Head(list)
    <2>1. /\ mainPc = "join" /\ list # <<>> /\ thread[k] = "returned"
          /\ thread' = [thread EXCEPT ![k] = "freed"] /\ list' = Tail(list)
          /\ UNCHANGED <<mainPc, backlog, stopVars, client_mutex, clientVars, late>>
      BY <1>4 DEF Join
    <2>2. k \in Conn /\ k = list[1] /\ list \in Seq(Conn)
      BY <2>1, TailOf DEF TypeOK
    <2>3. TypeOK'
      BY <2>1, <2>2, TailOf DEF TypeOK, ThreadStates, stopVars, clientVars
    <2>4. BacklogOK'
      BY <2>1, <2>2 DEF BacklogOK, TypeOK, clientVars
    <2>5. ASSUME NEW c \in Conn, thread'[c] \notin {"none", "freed"}
          PROVE  \E i \in DOMAIN list' : list'[i] = c
      <3>1. c # k /\ thread[c] \notin {"none", "freed"}
        BY <2>1, <2>2, <2>5 DEF TypeOK
      <3>2. PICK i \in DOMAIN list : list[i] = c
        BY <3>1 DEF Listed
      <3>3. i - 1 \in DOMAIN Tail(list) /\ Tail(list)[i - 1] = c
        BY <2>1, <2>2, <3>1, <3>2, TailOf
      <3>4. QED BY <2>1, <3>3
    <2>6. \A c \in Conn : thread'[c] \in Inside <=> client_mutex' = c
      BY <2>1, <2>2 DEF TypeOK, Inside
    <2>7. /\ late' > 0 => globalStop' /\ \A c \in Conn : thread'[c] # "handle"
          /\ \A c \in Conn : client'[c] = "off" => thread'[c] = "none"
          /\ \A c \in Conn : thread'[c] = "rest" => inbox'[c] > 0
      BY <2>1, <2>2 DEF TypeOK, stopVars, clientVars
    <2>8. QED BY <2>1, <2>3, <2>4, <2>5, <2>6, <2>7 DEF Listed, StopsServing
  <1>5. QED BY <1>1, <1>2, <1>3, <1>4 DEF Main

(* A thread goes from a state where it lives to another one, and takes or  *)
(* gives back the mutex as it enters or leaves Inside.                     *)
LEMMA CustomerStep ==
  ASSUME IInv, NEW k \in Conn, Customer(k)
  PROVE  IInv'
  <1>1. /\ thread[k] \notin {"none", "freed"}
        /\ \E to \in ThreadStates \ {"none", "freed"} : thread' = [thread EXCEPT ![k] = to]
        /\ UNCHANGED <<stopVars, mainVars, asked>>
    BY DEF Customer, Lock, Test, Recv, Rest, Handle, Unlock, Return, Goes, ThreadStates, Inside,
           clientVars
  <1>2. client' \in [Conn -> {"off", "busy", "wait", "closed"}]
        /\ \A c \in Conn : client'[c] = "off" <=> client[c] = "off"
    BY DEF IInv, TypeOK, Customer, Lock, Test, Recv, Rest, Handle, Unlock, Return, clientVars
  <1>3. inbox' \in [Conn -> Nat]
    <2>1. CASE Rest(k)
      <3>1. inbox[k] \in Nat /\ inbox[k] > 0
        BY <2>1 DEF Rest, Goes, IInv, TypeOK
      <3>2. QED BY <2>1, <3>1 DEF Rest, IInv, TypeOK
    <2>2. CASE ~Rest(k)
      BY <2>2 DEF IInv, TypeOK, Customer, Lock, Test, Recv, Handle, Unlock, Return, clientVars
    <2>3. QED BY <2>1, <2>2
  <1>4. /\ client_mutex' \in Conn \cup {None}
        /\ \A c \in Conn : thread'[c] \in Inside <=> client_mutex' = c
    BY ThreadsAssumption
       DEF IInv, TypeOK, Customer, Lock, Test, Recv, Rest, Handle, Unlock, Return, Goes, Inside
  <1>5. /\ late' \in Nat /\ late' <= 1
        /\ late' > 0 => globalStop' /\ \A c \in Conn : thread'[c] # "handle"
    <2>1. CASE Handle(k)
      <3>1. late = 0 /\ thread[k] = "handle" /\ thread' = [thread EXCEPT ![k] = "test"]
        BY <2>1 DEF Handle, Goes, IInv, TypeOK, StopsServing
      <3>2. \A c \in Conn : thread'[c] # "handle"
        BY <3>1 DEF IInv, TypeOK, Inside
      <3>3. QED BY <2>1, <3>1, <3>2 DEF Handle, stopVars
    <2>2. CASE Rest(k)
      BY <2>2 DEF Rest, Goes, IInv, TypeOK, StopsServing, stopVars
    <2>3. CASE ~Handle(k) /\ ~Rest(k)
      BY <2>3 DEF IInv, TypeOK, StopsServing, Customer, Lock, Test, Recv, Unlock, Return, Goes, stopVars
    <2>4. QED BY <2>1, <2>2, <2>3
  <1>6. TypeOK'
    BY <1>1, <1>2, <1>3, <1>4, <1>5 DEF IInv, TypeOK, stopVars, mainVars
  <1>7. BacklogOK' /\ Listed'
    <2>1. \A i \in DOMAIN backlog : backlog[i] \in Conn /\ thread[backlog[i]] = "none"
      BY DEF IInv, TypeOK, BacklogOK
    <2>2. \A c \in Conn \ {k} : thread'[c] = thread[c]
      BY <1>1 DEF IInv, TypeOK
    <2>3. \A i \in DOMAIN backlog : backlog[i] \in Conn \ {k}
      BY <1>1, <2>1
    <2>4. BacklogOK'
      BY <1>1, <1>2, <2>2, <2>3 DEF IInv, BacklogOK, mainVars
    <2>5. QED BY <1>1, <2>2, <2>4 DEF IInv, Listed, mainVars
  <1>8. \A c \in Conn : client'[c] = "off" => thread'[c] = "none"
    BY <1>1, <1>2 DEF IInv, TypeOK
  <1>10. \A c \in Conn : thread'[c] = "rest" => inbox'[c] > 0
    BY DEF IInv, TypeOK, Customer, Lock, Test, Recv, Rest, Handle, Unlock, Return, Goes, clientVars
  <1>9. QED BY <1>1, <1>4, <1>5, <1>6, <1>7, <1>8, <1>10 DEF IInv, StopsServing, mainVars

(* A client opens a connection.                                            *)
LEMMA OpenStep ==
  ASSUME IInv, NEW k \in Conn, Open(k)
  PROVE  IInv'
  <1>1. /\ client[k] = "off" /\ client' = [client EXCEPT ![k] = "busy"]
        /\ backlog' = Append(backlog, k) /\ thread[k] = "none"
        /\ UNCHANGED <<mainPc, list, stopVars, client_mutex, thread, inbox, asked, late>>
    BY DEF Open, IInv
  <1>2. TypeOK'
    BY <1>1, AppendOf DEF IInv, TypeOK, stopVars
  <1>3. BacklogOK'
    <2>1. ASSUME NEW i \in DOMAIN backlog'
          PROVE  \/ i \in DOMAIN backlog /\ backlog'[i] = backlog[i] /\ backlog[i] # k
                 \/ i = Len(backlog) + 1 /\ backlog'[i] = k
      BY <1>1, AppendOf DEF IInv, TypeOK, BacklogOK
    <2>2. \A i \in DOMAIN backlog : backlog[i] \in Conn
      BY DEF IInv, TypeOK
    <2>3. \A i \in DOMAIN backlog' : thread'[backlog'[i]] = "none" /\ client'[backlog'[i]] # "off"
      BY <1>1, <2>1, <2>2 DEF IInv, TypeOK, BacklogOK
    <2>4. \A i, j \in DOMAIN backlog' : backlog'[i] = backlog'[j] => i = j
      BY <2>1 DEF IInv, BacklogOK
    <2>5. QED BY <2>3, <2>4 DEF BacklogOK
  <1>4. QED BY <1>1, <1>2, <1>3 DEF IInv, TypeOK, Listed, StopsServing, stopVars

(* A client sends, ends or is killed.                                      *)
LEMMA ClientStep ==
  ASSUME IInv, NEW k \in Conn, Ask(k) \/ Finish(k) \/ Abandon(k)
  PROVE  IInv'
  <1>1. /\ client' \in [Conn -> {"off", "busy", "wait", "closed"}]
        /\ \A c \in Conn : client'[c] = "off" <=> client[c] = "off"
        /\ UNCHANGED <<stopVars, mainVars, client_mutex, thread, late>>
    BY DEF IInv, TypeOK, Ask, Finish, Abandon
  <1>2. /\ inbox' \in [Conn -> Nat] /\ asked' \in [Conn -> Nat]
        /\ \A c \in Conn : inbox'[c] >= inbox[c]
    <2>1. inbox \in [Conn -> Nat] /\ asked \in [Conn -> Nat]
      BY DEF IInv, TypeOK
    <2>2. CASE Ask(k)
      BY <2>1, <2>2 DEF Ask
    <2>3. CASE UNCHANGED <<inbox, asked>>
      BY <2>1, <2>3
    <2>4. QED BY <2>2, <2>3 DEF Finish, Abandon
  <1>3. TypeOK'
    BY <1>1, <1>2 DEF IInv, TypeOK, stopVars, mainVars
  <1>4. BacklogOK' /\ Listed'
    <2>1. \A i \in DOMAIN backlog : backlog[i] \in Conn
      BY DEF IInv, TypeOK
    <2>2. QED BY <1>1, <2>1 DEF IInv, BacklogOK, Listed, mainVars
  <1>5. \A c \in Conn : thread'[c] = "rest" => inbox'[c] > 0
    BY <1>1, <1>2 DEF IInv, TypeOK
  <1>6. QED BY <1>1, <1>3, <1>4, <1>5 DEF IInv, StopsServing, stopVars, mainVars

(* SIGINT leaves the thread that is hit where it is, or sends it from      *)
(* inside to inside.                                                       *)
LEMMA InterruptStep ==
  ASSUME IInv, Interrupt
  PROVE  IInv'
  <1>1. /\ globalStop' = TRUE /\ selfpipe' = TRUE /\ signals' = signals + 1
        /\ mainPc' \in {mainPc, "polled"} /\ mainPc # "exited"
        /\ UNCHANGED <<backlog, list, client_mutex, clientVars, late>>
    BY DEF Interrupt, Wakes
  <1>2. \/ thread' = thread
        \/ \E k \in Conn : /\ thread[k] \in {"recv", "handle"}
                           /\ thread' = [thread EXCEPT ![k] = "unlock"]
    BY DEF Interrupt, Breaks, IInv, TypeOK
  <1>7. /\ thread' \in [Conn -> ThreadStates]
        /\ \A k \in Conn : thread'[k] \in {"none", "freed"} <=> thread[k] \in {"none", "freed"}
        /\ \A k \in Conn : thread'[k] = "none" <=> thread[k] = "none"
    BY <1>2 DEF IInv, TypeOK, ThreadStates, Inside
  <1>3. TypeOK'
    BY <1>1, <1>7 DEF IInv, TypeOK, clientVars
  <1>4. BacklogOK' /\ Listed'
    <2>1. \A i \in DOMAIN backlog : backlog[i] \in Conn
      BY DEF IInv, TypeOK
    <2>2. QED BY <1>1, <1>7, <2>1 DEF IInv, BacklogOK, Listed, clientVars
  <1>5. /\ \A k \in Conn : client'[k] = "off" => thread'[k] = "none"
        /\ \A k \in Conn : thread'[k] \in Inside <=> client_mutex' = k
        /\ late' > 0 => globalStop' /\ \A k \in Conn : thread'[k] # "handle"
        /\ \A k \in Conn : thread'[k] = "rest" => inbox'[k] > 0
    BY <1>1, <1>2 DEF IInv, TypeOK, Inside, clientVars
  <1>6. QED BY <1>1, <1>3, <1>4, <1>5 DEF IInv, StopsServing

LEMMA NextInv ==
  ASSUME IInv, [Next]_vars
  PROVE  IInv'
  <1>1. CASE UNCHANGED vars
    BY <1>1 DEF vars, stopVars, mainVars, clientVars, IInv, TypeOK, BacklogOK, Listed, StopsServing
  <1>2. CASE Next
    BY <1>2, MainStep, InterruptStep, CustomerStep, OpenStep, ClientStep DEF Next
  <1>3. QED BY <1>1, <1>2

(* The invariant the other theorems of this module rest on.                *)
THEOREM ThreadsInvariance == Spec => []IInv
  BY InitInv, NextInv, PTL DEF Spec

(* After SIGINT at most one request is still handled (handle_customer's    *)
(* loop and read_all), however many connections wait at the mutex.         *)
THEOREM StopServes == Spec => []StopsServing
  <1>1. IInv => StopsServing
    BY DEF IInv
  <1>2. QED BY <1>1, ThreadsInvariance, PTL

(* No thread is cut off by the end of main, and the mutex is held by a     *)
(* thread that is inside its session (the joins of main).                  *)
THEOREM NoneCutOff == Spec => []NothingCutOff
  <1>1. IInv => NothingCutOff
    BY ThreadsAssumption DEF IInv, NothingCutOff, TypeOK, Listed
  <1>2. QED BY <1>1, ThreadsInvariance, PTL

(* A step that moves no thread into or out of "created", and none out of   *)
(* its session, leaves the variables of Sessions alone.                    *)
Ended == {"closing", "returned", "freed"}

LEMMA SameSessions ==
  ASSUME client_mutex' = client_mutex,
         \A c \in Conn : (thread'[c] = "created" <=> thread[c] = "created"),
         \A c \in Conn : (thread'[c] \in Ended <=> thread[c] \in Ended)
  PROVE  UNCHANGED S!sessions
  <1>1. {k \in Conn : thread'[k] = "created"} = {k \in Conn : thread[k] = "created"}
    OBVIOUS
  <1>2. {k \in Conn : thread'[k] \in Ended} = {k \in Conn : thread[k] \in Ended}
    OBVIOUS
  <1>3. QED BY <1>1, <1>2 DEF S!sessions, Ended

(* The safety part of OneAtATime: every step of the threads is a step of   *)
(* Sessions or leaves its variables alone.                                 *)
THEOREM ServesSessions == Spec => S!Init /\ [][S!Next]_(S!sessions)
  <1>1. Init => S!Init
    BY DEF Init, S!Init
  <1>2. ASSUME IInv, IInv', [Next]_vars
        PROVE  [S!Next]_(S!sessions)
    <2>1. CASE UNCHANGED <<thread, client_mutex>>
      BY <2>1 DEF S!sessions
    <2>2. CASE Accept /\ backlog # <<>>
      <3>1. /\ Head(backlog) \in Conn /\ thread[Head(backlog)] = "none"
            /\ thread' = [thread EXCEPT ![Head(backlog)] = "created"]
            /\ client_mutex' = client_mutex
        BY <1>2, <2>2, TailOf DEF Accept, IInv, TypeOK, BacklogOK
      <3>2. PICK k \in Conn : /\ thread[k] = "none"
                              /\ thread' = [thread EXCEPT ![k] = "created"]
        BY <3>1
      <3>3. k # client_mutex
        BY <1>2, <3>2 DEF IInv, Inside
      <3>4. {c \in Conn : thread'[c] = "created"} = {c \in Conn : thread[c] = "created"} \cup {k}
        BY <1>2, <3>2 DEF IInv, TypeOK
      <3>5. {c \in Conn : thread'[c] \in Ended} = {c \in Conn : thread[c] \in Ended}
        BY <1>2, <3>2 DEF IInv, TypeOK, Ended
      <3>6. S!Arrive(k)
        BY <3>1, <3>2, <3>3, <3>4, <3>5 DEF S!Arrive, Ended
      <3>7. QED BY <3>6 DEF S!Next
    <2>3. CASE Join
      <3>1. /\ Head(list) \in Conn /\ thread[Head(list)] = "returned"
            /\ thread' = [thread EXCEPT ![Head(list)] = "freed"]
            /\ client_mutex' = client_mutex
        BY <1>2, <2>3, TailOf DEF Join, IInv, TypeOK
      <3>2. \A c \in Conn : /\ thread'[c] = "created" <=> thread[c] = "created"
                            /\ thread'[c] \in Ended <=> thread[c] \in Ended
        BY <1>2, <3>1 DEF IInv, TypeOK, Ended
      <3>3. QED BY <3>1, <3>2, SameSessions
    <2>4. ASSUME NEW k \in Conn, Lock(k) PROVE S!Next
      <3>3. {c \in Conn : thread'[c] = "created"} = {c \in Conn : thread[c] = "created"} \ {k}
        BY <1>2, <2>4 DEF Lock, Goes, IInv, TypeOK
      <3>4. {c \in Conn : thread'[c] \in Ended} = {c \in Conn : thread[c] \in Ended}
        BY <1>2, <2>4 DEF Lock, Goes, IInv, TypeOK, Ended
      <3>1. S!Turn(k)
        BY <2>4, <3>3, <3>4 DEF S!Turn, Lock, Goes, Ended
      <3>2. QED BY <3>1 DEF S!Next
    <2>5. ASSUME NEW k \in Conn, Unlock(k) PROVE S!Next
      <3>1. client_mutex = k /\ client_mutex' = None /\ k # None
        BY <1>2, <2>5, ThreadsAssumption DEF Unlock, Goes, IInv, Inside
      <3>2. {c \in Conn : thread'[c] = "created"} = {c \in Conn : thread[c] = "created"}
        BY <1>2, <2>5 DEF Unlock, Goes, IInv, TypeOK
      <3>6. /\ thread'[k] \in Ended
            /\ \A c \in Conn \ {k} : thread'[c] = thread[c]
        BY <1>2, <2>5 DEF Unlock, Goes, IInv, TypeOK, Ended
      <3>5. {c \in Conn : thread'[c] \in Ended} = {c \in Conn : thread[c] \in Ended} \cup {k}
        BY <3>6
      <3>3. S!Leave
        BY <3>1, <3>2, <3>5 DEF S!Leave, Ended
      <3>4. QED BY <3>3 DEF S!Next
    <2>6. ASSUME NEW k \in Conn, Test(k) \/ Recv(k) \/ Rest(k) \/ Handle(k) \/ Return(k)
          PROVE  UNCHANGED S!sessions
      <3>1. /\ client_mutex' = client_mutex
            /\ \/ /\ thread[k] \in Inside
                  /\ \E to \in Inside : thread' = [thread EXCEPT ![k] = to]
               \/ thread[k] = "closing" /\ thread' = [thread EXCEPT ![k] = "returned"]
        BY <2>6 DEF Test, Recv, Rest, Handle, Return, Goes, Inside
      <3>2. \A c \in Conn : /\ thread'[c] = "created" <=> thread[c] = "created"
                            /\ thread'[c] \in Ended <=> thread[c] \in Ended
        BY <1>2, <3>1 DEF IInv, TypeOK, Inside, Ended
      <3>3. QED BY <3>1, <3>2, SameSessions
    <2>7. CASE Interrupt
      <3>1. /\ client_mutex' = client_mutex
            /\ \/ thread' = thread
               \/ \E k \in Conn : /\ thread[k] \in {"recv", "handle"}
                                  /\ thread' = [thread EXCEPT ![k] = "unlock"]
        BY <1>2, <2>7 DEF Interrupt, Breaks, IInv, TypeOK
      <3>2. \A c \in Conn : /\ thread'[c] = "created" <=> thread[c] = "created"
                            /\ thread'[c] \in Ended <=> thread[c] \in Ended
        BY <1>2, <3>1 DEF IInv, TypeOK, Ended
      <3>3. QED BY <3>1, <3>2, SameSessions
    <2>8. QED
      BY <1>2, <2>1, <2>2, <2>3, <2>4, <2>5, <2>6, <2>7
         DEF Next, Main, TestStop, Poll, Accept, CloseListener, Exit, Customer, Open, Ask,
             Finish, Abandon, vars
  <1>3. QED BY <1>1, <1>2, ThreadsInvariance, PTL DEF Spec
=============================================================================
