--------------------------- MODULE HostExecutorProofs ---------------------------
(***************************************************************************)
(* Proofs about HostExecutor, for any hosts, any threads and any number of *)
(* commands.                                                               *)
(***************************************************************************)
EXTENDS HostExecutor, TLAPS

(* Making the connection of a host, and losing it, keeps the types.        *)
LEMMA HostTypes ==
  ASSUME TypeOK, NEW h \in Hosts, ConnectionStep(h) \/ Drop(h) \/ ReconnectByPassword(h)
  PROVE  TypeOK'
<1>1. CASE ConnectionStep(h)
  <2>1. CASE CheckTimeout(h)
    BY <1>1, <2>1 DEF ConnectionStep, CheckTimeout, TypeOK, mainVars, threadVars
  <2>2. CASE Connected(h) \/ NotConnected(h) \/ Register(h)
    BY <1>1, <2>2 DEF ConnectionStep, Connected, NotConnected, Register, TypeOK,
                      mainVars, threadVars
  <2> QED
    BY <1>1, <2>1, <2>2 DEF ConnectionStep
<1>2. CASE Drop(h)
  BY <1>2 DEF Drop, TypeOK, mainVars, threadVars
<1>3. CASE ReconnectByPassword(h)
  BY <1>3 DEF ReconnectByPassword, Connect, TypeOK, mainVars, threadVars
<1> QED
  BY <1>1, <1>2, <1>3

(* The main thread and the timeout of the process keep the types.          *)
LEMMA MainTypes ==
  ASSUME TypeOK, MainStep \/ TimeoutHandler
  PROVE  TypeOK'
<1>1. CASE StartRound
  BY <1>1 DEF StartRound, Connect, TypeOK, threadVars, RETRY_CONNECTION_COUNT
<1>2. CASE EndRounds \/ RunFlows \/ Exit \/ TimeoutHandler
  BY <1>2 DEF EndRounds, RunFlows, Exit, TimeoutHandler, TypeOK, hostVars, threadVars
<1>3. ASSUME NEW h \in Hosts, CloseConnection(h)
      PROVE  TypeOK'
  BY <1>3 DEF CloseConnection, TypeOK, threadVars
<1> QED
  BY <1>1, <1>2, <1>3 DEF MainStep

(* A step of a thread keeps the types.                                     *)
LEMMA ThreadTypes ==
  ASSUME TypeOK, NEW t \in Threads,
         ThreadStep(t) \/ RemoteStep(t) \/ \E h \in Hosts : Call(t, h)
  PROVE  TypeOK'
<1> USE DEF TypeOK, hostVars, mainVars, Goto, Release
<1>1. ASSUME NEW h \in Hosts, Call(t, h)
      PROVE  TypeOK'
  BY <1>1, HostExecutorAssumption DEF Call, MaxRetries
<1>2. CASE UNCHANGED mainVars /\ (Acquire(t) \/ NotReachable(t) \/ Reconnected(t))
  BY <1>2 DEF Acquire, NotReachable, Reconnected
<1>3. CASE UNCHANGED mainVars /\ CheckTransport(t)
  BY <1>3 DEF CheckTransport, Connect
<1>4. CASE UNCHANGED mainVars /\ Retry(t)
  BY <1>4 DEF Retry, Connect, MaxRetries
<1>5. CASE UNCHANGED mainVars /\ (Executed(t) \/ RaiseException(t) \/ TimeOut(t))
  BY <1>5 DEF Executed, RaiseException, TimeOut
<1>6. CASE UNCHANGED mainVars /\ (ConnectionLost(t) \/ ReadToTheEnd(t) \/ ExitStatus(t))
  BY <1>6 DEF ConnectionLost, ReadToTheEnd, ExitStatus
<1> QED
  BY <1>1, <1>2, <1>3, <1>4, <1>5, <1>6 DEF ThreadStep, RemoteStep

(* The types hold initially.                                               *)
LEMMA InitTypes ==
  ASSUME Init
  PROVE  TypeOK
<1>1. round \in 0..RETRY_CONNECTION_COUNT /\ calls \in 0..MaxCalls /\ 0 \in 0..(MaxRetries - 1)
  BY HostExecutorAssumption DEF Init, RETRY_CONNECTION_COUNT, MaxRetries
<1>2. try \in [Threads -> 0..(MaxRetries - 1)]
  BY <1>1 DEF Init
<1>3. /\ lock \in [Hosts -> Threads \cup {NoThread}]
      /\ late \in [Hosts -> BOOLEAN]
      /\ exceeded \in BOOLEAN
  BY DEF Init
<1> QED
  BY <1>1, <1>2, <1>3 DEF Init, TypeOK

(* The type invariant of the host executors.                               *)
THEOREM TypeCorrect == Spec => []TypeOK
<1>1. Init => TypeOK
  BY InitTypes
<1>2. TypeOK /\ [Next]_vars => TypeOK'
  <2> SUFFICES ASSUME TypeOK, [Next]_vars
               PROVE  TypeOK'
    OBVIOUS
  <2>1. CASE UNCHANGED vars
    BY <2>1 DEF vars, mainVars, hostVars, threadVars, TypeOK
  <2> QED
    BY <2>1, HostTypes, MainTypes, ThreadTypes DEF Next
<1> QED
  BY <1>1, <1>2, PTL DEF Spec
-----------------------------------------------------------------------------
(* The thread that uses the connection of a host holds its lock.           *)
LockInv == \A t \in Threads : UsesClient(t) => lock[host[t]] = t

(* While the flows run, it is the one that makes a new connection, and     *)
(* waits for it; before, no thread runs a command.                         *)
Waits(t) == at[t] \in {"reconnect", "retry"}

ConnectInv(h) ==
  phase = "work" /\ conn[h] # "none" =>
    lock[h] \in Threads /\ Waits(lock[h]) /\ host[lock[h]] = h

ClientInv ==
  /\ TypeOK /\ LockInv
  /\ \A h \in Hosts : ConnectInv(h)
  /\ phase # "work" => \A t \in Threads : at[t] = "idle"

(* The invariant is what keeps a connection from being shared.             *)
LEMMA ClientInvSuffices == ClientInv => ClientNotShared
<1> SUFFICES ASSUME ClientInv
             PROVE  ClientNotShared
  OBVIOUS
<1>1. ASSUME NEW t \in Threads, NEW u \in Threads, UsesClient(t), UsesClient(u), host[t] = host[u]
      PROVE  t = u
  BY <1>1 DEF ClientInv, LockInv
<1>2. ASSUME NEW t \in Threads, at[t] \in {"exec", "read", "status"}
      PROVE  conn[host[t]] = "none"
  <2>1. phase = "work" /\ lock[host[t]] = t /\ host[t] \in Hosts /\ ~Waits(t)
    BY <1>2 DEF ClientInv, TypeOK, LockInv, UsesClient, Waits
  <2> QED
    BY <2>1 DEF ClientInv, ConnectInv
<1> QED
  BY <1>1, <1>2 DEF ClientNotShared

(* The steps of the connections keep the invariant.                        *)
LEMMA HostKeepsInv ==
  ASSUME ClientInv, NEW h \in Hosts, ConnectionStep(h) \/ Drop(h) \/ ReconnectByPassword(h)
  PROVE  ClientInv'
<1>1. TypeOK /\ TypeOK'
  BY HostTypes DEF ClientInv
<1>2. phase' = phase /\ UNCHANGED threadVars
  BY DEF ConnectionStep, Drop, ReconnectByPassword, mainVars
<1>3. ASSUME NEW g \in Hosts
      PROVE  ConnectInv(g)'
  <2>1. CASE phase # "work"
    BY <1>2, <2>1 DEF ConnectInv
  <2>2. CASE phase = "work"
    <3>1. conn'[g] # "none" => conn[g] # "none"
      BY <1>1, <2>2 DEF ConnectionStep, Connected, NotConnected, Register, CheckTimeout,
                        Drop, ReconnectByPassword, TypeOK
    <3> QED
      BY <1>2, <3>1 DEF ClientInv, ConnectInv, Waits, threadVars
  <2> QED
    BY <2>1, <2>2
<1> QED
  BY <1>1, <1>2, <1>3 DEF ClientInv, LockInv, UsesClient, threadVars

(* So do the steps of the main thread, which joins the connecting threads  *)
(* before the flows run.                                                   *)
LEMMA MainKeepsInv ==
  ASSUME ClientInv, MainStep \/ TimeoutHandler
  PROVE  ClientInv'
<1>1. TypeOK /\ TypeOK' /\ UNCHANGED threadVars
  BY MainTypes DEF ClientInv, MainStep, StartRound, EndRounds, RunFlows, Exit, CloseConnection,
                   TimeoutHandler
<1>2. phase' = "work" => \/ phase = "work" /\ conn' = conn
                         \/ \A h \in Hosts : conn'[h] = "none"
  BY DEF MainStep, StartRound, EndRounds, RunFlows, Exit, CloseConnection, TimeoutHandler,
         Joined, hostVars
<1>3. ASSUME NEW g \in Hosts
      PROVE  ConnectInv(g)'
  BY <1>1, <1>2 DEF ClientInv, ConnectInv, Waits, threadVars
<1>4. phase' # "work" => phase # "work"
  BY DEF MainStep, StartRound, EndRounds, RunFlows, Exit, CloseConnection, TimeoutHandler
<1> QED
  BY <1>1, <1>3, <1>4 DEF ClientInv, LockInv, UsesClient, threadVars

(* The steps of a thread keep the invariant: it takes the lock of a host   *)
(* that is free, gives up only its own, and only it replaces the client.   *)
LEMMA ThreadKeepsInv ==
  ASSUME ClientInv, NEW t \in Threads,
         ThreadStep(t) \/ RemoteStep(t) \/ \E h \in Hosts : Call(t, h)
  PROVE  ClientInv'
<1>1. TypeOK /\ TypeOK'
  BY ThreadTypes DEF ClientInv
<1>2. phase = "work" /\ phase' = phase
  BY <1>1 DEF ClientInv, ThreadStep, RemoteStep, Call, Acquire, CheckTransport, NotReachable,
              Reconnected, Executed, Retry, RaiseException, TimeOut, ConnectionLost,
              ReadToTheEnd, ExitStatus, mainVars
<1>3. CASE \E h \in Hosts : Call(t, h)
  <2>1. PICK h \in Hosts : Call(t, h)
    BY <1>3
  <2>2. at[t] = "idle" /\ at' = [at EXCEPT ![t] = "wait"] /\ host' = [host EXCEPT ![t] = h]
        /\ conn' = conn /\ lock' = lock
    BY <2>1 DEF Call, Goto, hostVars
  <2>3. LockInv'
    BY <1>1, <2>2 DEF ClientInv, LockInv, UsesClient, TypeOK
  <2>4. ASSUME NEW g \in Hosts
        PROVE  ConnectInv(g)'
    BY <1>1, <1>2, <2>2 DEF ClientInv, ConnectInv, Waits, TypeOK
  <2> QED
    BY <1>1, <1>2, <2>3, <2>4 DEF ClientInv
<1>4. CASE Acquire(t)
  <2>1. lock[host[t]] = NoThread /\ lock' = [lock EXCEPT ![host[t]] = t]
        /\ at' = [at EXCEPT ![t] = "locked"] /\ conn' = conn /\ host' = host
    BY <1>4 DEF Acquire, Goto, hostVars
  <2>2. LockInv'
    BY <1>1, <2>1, HostExecutorAssumption DEF ClientInv, LockInv, UsesClient, TypeOK
  <2>3. ASSUME NEW g \in Hosts
        PROVE  ConnectInv(g)'
    <3>1. ConnectInv(g)
      BY DEF ClientInv
    <3>2. CASE g = host[t]
      BY <1>1, <1>2, <2>1, <3>1, <3>2, HostExecutorAssumption DEF ConnectInv, TypeOK
    <3>3. CASE g # host[t]
      <4>1. lock'[g] = lock[g]
        BY <1>1, <2>1, <3>3 DEF TypeOK
      <4>2. lock[g] \in Threads /\ host[lock[g]] = g => lock[g] # t
        BY <3>3
      <4> QED
        BY <1>1, <1>2, <2>1, <3>1, <4>1, <4>2 DEF ConnectInv, Waits, TypeOK
    <3> QED
      BY <3>2, <3>3
  <2> QED
    BY <1>1, <1>2, <2>2, <2>3 DEF ClientInv
<1>5. ASSUME UsesClient(t), host' = host,
             \/ /\ lock' = [lock EXCEPT ![host[t]] = NoThread] /\ conn' = conn
                /\ at' = [at EXCEPT ![t] = "idle"] /\ (Waits(t) => conn[host[t]] = "none")
             \/ /\ lock' = lock /\ conn' = conn
                /\ at' \in {[at EXCEPT ![t] = there] : there \in {"exec", "read", "status"}}
                /\ (Waits(t) => conn[host[t]] = "none")
             \/ /\ lock' = lock
                /\ conn' = [h \in Hosts |-> IF h \in {host[t]} THEN "connect" ELSE conn[h]]
                /\ at' \in {[at EXCEPT ![t] = there] : there \in {"reconnect", "retry"}}
      PROVE  ClientInv'
  <2>1. lock[host[t]] = t /\ host[t] \in Hosts
    BY <1>1, <1>5 DEF ClientInv, LockInv, TypeOK
  <2>2. \A u \in Threads : u # t => at'[u] = at[u]
    BY <1>1, <1>5 DEF TypeOK
  <2>3. \A g \in Hosts : g # host[t] => lock'[g] = lock[g] /\ conn'[g] = conn[g]
    BY <1>1, <1>5 DEF TypeOK
  <2>4. LockInv'
    <3> SUFFICES ASSUME NEW u \in Threads, UsesClient(u)'
                 PROVE  lock'[host[u]] = u
      BY <1>5 DEF LockInv
    <3>1. CASE u = t
      BY <1>1, <1>5, <2>1, <3>1 DEF UsesClient, TypeOK
    <3>2. CASE u # t
      <4>1. UsesClient(u) /\ lock[host[u]] = u /\ host[u] \in Hosts
        BY <1>1, <2>2, <3>2 DEF ClientInv, LockInv, UsesClient, TypeOK
      <4> QED
        BY <2>1, <2>3, <3>2, <4>1
    <3> QED
      BY <3>1, <3>2
  <2>5. ASSUME NEW g \in Hosts
        PROVE  ConnectInv(g)'
    <3>1. ConnectInv(g)
      BY DEF ClientInv
    <3>2. CASE g # host[t]
      <4>1. lock'[g] = lock[g] /\ conn'[g] = conn[g]
        BY <2>3, <3>2
      <4>2. lock[g] \in Threads /\ host[lock[g]] = g => at'[lock[g]] = at[lock[g]]
        BY <2>2, <3>2
      <4> QED
        BY <1>2, <1>5, <3>1, <4>1, <4>2 DEF ConnectInv, Waits
    <3>3. CASE g = host[t] /\ conn' = conn /\ (Waits(t) => conn[host[t]] = "none")
      BY <1>2, <2>1, <3>1, <3>3 DEF ConnectInv
    <3>4. CASE g = host[t] /\ lock' = lock
               /\ at' \in {[at EXCEPT ![t] = there] : there \in {"reconnect", "retry"}}
      BY <1>1, <1>5, <2>1, <3>4 DEF ConnectInv, Waits, TypeOK
    <3> QED
      BY <1>5, <3>2, <3>3, <3>4
  <2> QED
    BY <1>1, <1>2, <2>4, <2>5 DEF ClientInv
<1>6. CASE NotReachable(t) \/ Reconnected(t) \/ Executed(t) \/ RaiseException(t)
  BY <1>5, <1>6 DEF NotReachable, Reconnected, Executed, RaiseException, Release, Goto,
                    UsesClient, Waits, hostVars
<1>7. CASE TimeOut(t) \/ ConnectionLost(t) \/ ReadToTheEnd(t) \/ ExitStatus(t)
  BY <1>5, <1>7 DEF TimeOut, ConnectionLost, ReadToTheEnd, ExitStatus, Release, Goto,
                    UsesClient, Waits, hostVars
<1>8. CASE Retry(t)
  BY <1>5, <1>8 DEF Retry, Connect, Goto, UsesClient
<1>9. CASE CheckTransport(t)
  BY <1>5, <1>9 DEF CheckTransport, Connect, Release, Goto, UsesClient, Waits, hostVars
<1> QED
  BY <1>3, <1>4, <1>6, <1>7, <1>8, <1>9 DEF ThreadStep, RemoteStep

(* The invariant holds initially.                                          *)
LEMMA InitClientInv == Init => ClientInv
<1> SUFFICES ASSUME Init
             PROVE  ClientInv
  OBVIOUS
<1>1. TypeOK
  BY InitTypes
<1> QED
  BY <1>1 DEF Init, ClientInv, LockInv, ConnectInv, UsesClient

(* So does a step that changes nothing.                                    *)
LEMMA StutterKeepsInv == ClientInv /\ UNCHANGED vars => ClientInv'
BY DEF vars, mainVars, hostVars, threadVars, ClientInv, TypeOK, LockInv, ConnectInv, Waits,
       UsesClient

(* For any number of threads and hosts, a connection serves one command at *)
(* a time, and is not replaced under it.                                   *)
THEOREM ClientNotSharedHolds == Spec => []ClientNotShared
<1>1. Init => ClientInv
  BY InitClientInv
<1>2. ClientInv /\ [Next]_vars => ClientInv'
  <2> SUFFICES ASSUME ClientInv, [Next]_vars
               PROVE  ClientInv'
    OBVIOUS
  <2>1. CASE UNCHANGED vars
    BY <2>1, StutterKeepsInv
  <2> QED
    BY <2>1, HostKeepsInv, MainKeepsInv, ThreadKeepsInv DEF Next
<1> QED
  BY <1>1, <1>2, ClientInvSuffices, PTL DEF Spec
-----------------------------------------------------------------------------
(* An open connection is known to atexit, and an exit function that closes *)
(* it is still to run when the process is timing out; a connection made    *)
(* after that is being closed, or is.                                      *)
ExitInv(h) ==
  /\ conn[h] = "check" => h \in registered
  /\ client[h] \in {"active", "inactive"} /\ conn[h] = "none" =>
       h \in registered /\ main # "exited" /\ (main = "closing" => h \in toClose)
  /\ late[h] => exceeded /\ (conn[h] # "none" \/ isConnected[h] = "False")

(* The host of a command that runs is connected.                           *)
RunInv(t) == at[t] \in {"exec", "read", "status"} => isConnected[host[t]] = "True"

TimeoutInv ==
  /\ ClientInv
  /\ exceeded <=> main # "run"
  /\ \A h \in Hosts : ExitInv(h)
  /\ \A t \in Threads : RunInv(t)

(* The steps of the connections keep the invariant of the timeout.         *)
LEMMA HostKeepsTimeoutInv ==
  ASSUME TimeoutInv, NEW h \in Hosts, ConnectionStep(h) \/ Drop(h) \/ ReconnectByPassword(h)
  PROVE  TimeoutInv'
<1>1. TypeOK /\ ClientInv /\ ClientInv'
  BY HostKeepsInv DEF TimeoutInv, ClientInv
<1>2. /\ UNCHANGED threadVars /\ main' = main /\ exceeded' = exceeded /\ toClose' = toClose
      /\ main # "exited" /\ phase' = phase
  BY DEF ConnectionStep, Drop, ReconnectByPassword, Joined, mainVars
<1>3. ASSUME NEW g \in Hosts
      PROVE  ExitInv(g)'
  <2>1. ExitInv(g) /\ ExitInv(h) /\ (exceeded <=> main # "run")
    BY DEF TimeoutInv
  <2>2. CASE ConnectionStep(h)
    <3>1. CASE Connected(h) \/ NotConnected(h)
      BY <1>1, <1>2, <2>1, <3>1 DEF Connected, NotConnected, ExitInv, TypeOK
    <3>2. CASE Register(h)
      BY <1>1, <1>2, <2>1, <3>2 DEF Register, ExitInv, TypeOK
    <3>3. CASE CheckTimeout(h) /\ exceeded
      BY <1>1, <1>2, <2>1, <3>3 DEF CheckTimeout, ExitInv, TypeOK
    <3>4. CASE CheckTimeout(h) /\ ~exceeded
      BY <1>1, <1>2, <2>1, <3>4 DEF CheckTimeout, ExitInv, TypeOK
    <3> QED
      BY <2>2, <3>1, <3>2, <3>3, <3>4 DEF ConnectionStep
  <2>3. CASE Drop(h)
    BY <1>1, <1>2, <2>1, <2>3 DEF Drop, ExitInv, TypeOK
  <2>4. CASE ReconnectByPassword(h)
    BY <1>1, <1>2, <2>1, <2>4 DEF ReconnectByPassword, Connect, ExitInv, TypeOK
  <2> QED
    BY <2>2, <2>3, <2>4
<1>4. ASSUME NEW t \in Threads
      PROVE  RunInv(t)'
  <2> SUFFICES ASSUME at[t] \in {"exec", "read", "status"}
               PROVE  isConnected'[host[t]] = "True"
    BY <1>2 DEF RunInv, threadVars
  <2>1. conn[host[t]] = "none" /\ isConnected[host[t]] = "True" /\ host[t] \in Hosts
    BY <1>1, ClientInvSuffices DEF TimeoutInv, RunInv, ClientNotShared, TypeOK
  <2> QED
    BY <1>1, <2>1 DEF ConnectionStep, Connected, NotConnected, Register, CheckTimeout, Drop,
                      ReconnectByPassword, TypeOK
<1> QED
  BY <1>1, <1>2, <1>3, <1>4 DEF TimeoutInv

(* So do the main thread, the handler of the timeout and the exit          *)
(* functions.                                                              *)
LEMMA MainKeepsTimeoutInv ==
  ASSUME TimeoutInv, MainStep \/ TimeoutHandler
  PROVE  TimeoutInv'
<1>1. TypeOK /\ ClientInv /\ ClientInv'
  BY MainKeepsInv DEF TimeoutInv, ClientInv
<1>2. UNCHANGED threadVars /\ isConnected' = isConnected /\ late' = late /\ registered' = registered
  BY DEF MainStep, StartRound, EndRounds, RunFlows, Exit, CloseConnection, TimeoutHandler, hostVars
<1>3. exceeded' <=> main' # "run"
  BY DEF TimeoutInv, MainStep, StartRound, EndRounds, RunFlows, Exit, CloseConnection,
         TimeoutHandler, Joined
<1>4. ASSUME NEW g \in Hosts
      PROVE  ExitInv(g)'
  <2>1. ExitInv(g) /\ (exceeded <=> main # "run")
    BY DEF TimeoutInv
  <2>2. CASE StartRound
    BY <1>1, <2>1, <2>2 DEF StartRound, Connect, ExitInv, TypeOK
  <2>3. CASE EndRounds \/ RunFlows \/ TimeoutHandler \/ Exit
    BY <1>1, <2>1, <2>3 DEF EndRounds, RunFlows, TimeoutHandler, Exit, hostVars, ExitInv, TypeOK
  <2>4. ASSUME NEW h \in Hosts, CloseConnection(h)
        PROVE  ExitInv(g)'
    BY <1>1, <2>1, <2>4 DEF CloseConnection, ExitInv, TypeOK
  <2> QED
    BY <2>2, <2>3, <2>4 DEF MainStep
<1>5. ASSUME NEW t \in Threads
      PROVE  RunInv(t)'
  BY <1>2 DEF TimeoutInv, RunInv, threadVars
<1> QED
  BY <1>1, <1>3, <1>4, <1>5 DEF TimeoutInv

(* And the threads, which never make a command run on a late connection.   *)
LEMMA ThreadKeepsTimeoutInv ==
  ASSUME TimeoutInv, NEW t \in Threads,
         ThreadStep(t) \/ RemoteStep(t) \/ \E h \in Hosts : Call(t, h)
  PROVE  TimeoutInv'
<1>1. TypeOK /\ ClientInv /\ ClientInv'
  BY ThreadKeepsInv DEF TimeoutInv, ClientInv
<1> USE DEF ThreadStep, RemoteStep, Call, Acquire, CheckTransport, NotReachable, Reconnected,
            Executed, Retry, RaiseException, TimeOut, ConnectionLost, ReadToTheEnd, ExitStatus
<1>2. /\ UNCHANGED mainVars /\ registered' = registered /\ isConnected' = isConnected
      /\ late' = late
  BY DEF hostVars
<1>3. \/ client' = client /\ conn' = conn
      \/ Connect({host[t]})
  BY DEF hostVars
<1>4. /\ \/ host' = host
         \/ at'[t] = "wait" /\ \A u \in Threads : u # t => host'[u] = host[u]
      /\ \A u \in Threads : u # t => at'[u] = at[u]
      /\ at'[t] \in {"exec", "read", "status"} =>
           host' = host /\ (isConnected[host[t]] = "True" \/ at[t] \in {"exec", "read", "status"})
  BY <1>1 DEF TypeOK, Goto, Release
<1>5. ASSUME NEW g \in Hosts
      PROVE  ExitInv(g)'
  <2>1. ExitInv(g)
    BY DEF TimeoutInv
  <2>2. CASE client' = client /\ conn' = conn
    BY <1>2, <2>1, <2>2 DEF ExitInv, mainVars
  <2>3. CASE Connect({host[t]})
    BY <1>1, <1>2, <2>1, <2>3 DEF Connect, ExitInv, TypeOK, mainVars
  <2> QED
    BY <1>3, <2>2, <2>3
<1>6. ASSUME NEW u \in Threads
      PROVE  RunInv(u)'
  <2>1. RunInv(u)
    BY DEF TimeoutInv
  <2> QED
    BY <1>2, <1>4, <2>1 DEF RunInv
<1> QED
  BY <1>1, <1>2, <1>5, <1>6 DEF TimeoutInv, mainVars

(* The invariant of the timeout holds in every reachable state.            *)
LEMMA TimeoutInvHolds == Spec => []TimeoutInv
<1>1. Init => TimeoutInv
  BY InitClientInv DEF Init, TimeoutInv, ExitInv, RunInv
<1>2. TimeoutInv /\ [Next]_vars => TimeoutInv'
  <2> SUFFICES ASSUME TimeoutInv, [Next]_vars
               PROVE  TimeoutInv'
    OBVIOUS
  <2>1. CASE UNCHANGED vars
    <3>1. ClientInv'
      BY <2>1, StutterKeepsInv DEF TimeoutInv
    <3> QED
      BY <2>1, <3>1 DEF vars, mainVars, hostVars, threadVars, TimeoutInv, ExitInv, RunInv
  <2> QED
    BY <2>1, HostKeepsTimeoutInv, MainKeepsTimeoutInv, ThreadKeepsTimeoutInv DEF Next
<1> QED
  BY <1>1, <1>2, PTL DEF Spec

(* Whenever the process times out, no command is run over a connection     *)
(* that was made afterwards.                                               *)
THEOREM NoLateCommandHolds == Spec => []NoLateCommand
<1>1. TimeoutInv => NoLateCommand
  <2> SUFFICES ASSUME TimeoutInv, NEW t \in Threads, at[t] \in {"exec", "read", "status"}
               PROVE  ~late[host[t]]
    BY DEF NoLateCommand
  <2>1. conn[host[t]] = "none" /\ isConnected[host[t]] = "True" /\ host[t] \in Hosts
    BY ClientInvSuffices DEF TimeoutInv, ClientInv, RunInv, ClientNotShared, TypeOK
  <2> QED
    BY <2>1 DEF TimeoutInv, ExitInv
<1> QED
  BY <1>1, TimeoutInvHolds, PTL

(* Whenever the process times out, it leaves no connection open behind it  *)
(* but those that are being made when it exits.                            *)
THEOREM ClosedAtExitHolds == Spec => []ClosedAtExit
<1>1. TimeoutInv => ClosedAtExit
  BY DEF TimeoutInv, ExitInv, ClosedAtExit
<1> QED
  BY <1>1, TimeoutInvHolds, PTL
-----------------------------------------------------------------------------
(* While the flows run, a connection is made again only for a host that    *)
(* was connected.                                                          *)
AgainInv ==
  phase = "work" => \A h \in Hosts : conn[h] # "none" => isConnected[h] = "True"

ReachInv == TimeoutInv /\ AgainInv

(* The steps of connections and of the main thread keep this invariant.    *)
LEMMA OthersKeepAgain ==
  ASSUME ReachInv,
         \/ MainStep \/ TimeoutHandler
         \/ \E h \in Hosts : ConnectionStep(h) \/ Drop(h) \/ ReconnectByPassword(h)
  PROVE  AgainInv'
<1>1. TypeOK
  BY DEF ReachInv, TimeoutInv, ClientInv
<1>2. ASSUME NEW h \in Hosts, ConnectionStep(h)
      PROVE  AgainInv'
  <2>1. phase' = phase
    BY <1>2 DEF ConnectionStep, mainVars
  <2>2. CASE Connected(h) \/ NotConnected(h)
    BY <1>1, <2>1, <2>2 DEF ReachInv, AgainInv, TypeOK, Connected, NotConnected
  <2>3. CASE Register(h) \/ CheckTimeout(h)
    BY <1>1, <2>1, <2>3 DEF ReachInv, AgainInv, TypeOK, Register, CheckTimeout
  <2> QED
    BY <1>2, <2>2, <2>3 DEF ConnectionStep
<1>3. ASSUME NEW h \in Hosts, Drop(h) \/ ReconnectByPassword(h)
      PROVE  AgainInv'
  BY <1>3 DEF ReachInv, AgainInv, Drop, ReconnectByPassword, mainVars
<1>4. CASE MainStep \/ TimeoutHandler
  <2>1. CASE RunFlows
    BY <2>1 DEF RunFlows, Joined, AgainInv, hostVars
  <2>2. CASE StartRound \/ EndRounds \/ Exit \/ TimeoutHandler
    BY <2>2 DEF StartRound, EndRounds, Exit, TimeoutHandler, ReachInv, AgainInv, hostVars
  <2>3. CASE \E h \in Hosts : CloseConnection(h)
    BY <2>3 DEF CloseConnection, ReachInv, AgainInv
  <2> QED
    BY <1>4, <2>1, <2>2, <2>3 DEF MainStep
<1> QED
  BY <1>2, <1>3, <1>4

(* A thread replaces the client of a host that is connected: it looked at  *)
(* is_connected first, or its command was running.                         *)
LEMMA ThreadsKeepAgain ==
  ASSUME ReachInv, NEW t \in Threads,
         ThreadStep(t) \/ RemoteStep(t) \/ \E h \in Hosts : Call(t, h)
  PROVE  AgainInv'
<1>1. TypeOK /\ RunInv(t)
  BY DEF ReachInv, TimeoutInv, ClientInv
<1>2. isConnected' = isConnected /\ phase' = phase
  BY DEF ThreadStep, RemoteStep, Call, Acquire, CheckTransport, NotReachable, Reconnected,
         Executed, Retry, RaiseException, TimeOut, ConnectionLost, ReadToTheEnd, ExitStatus,
         mainVars, hostVars
<1>3. conn' = conn \/ (Connect({host[t]}) /\ isConnected[host[t]] = "True")
  BY <1>1 DEF ThreadStep, RemoteStep, Call, Acquire, CheckTransport, NotReachable, Reconnected,
              Executed, Retry, RaiseException, TimeOut, ConnectionLost, ReadToTheEnd, ExitStatus,
              hostVars, RunInv
<1> QED
  BY <1>2, <1>3 DEF ReachInv, AgainInv, Connect

(* The invariant holds in every reachable state.                           *)
LEMMA ReachInvHolds == Spec => []ReachInv
<1>1. Init => AgainInv
  BY DEF Init, AgainInv
<1>2. TimeoutInv /\ AgainInv /\ [Next]_vars => AgainInv'
  <2> SUFFICES ASSUME ReachInv, [Next]_vars
               PROVE  AgainInv'
    BY DEF ReachInv
  <2>1. CASE UNCHANGED vars
    BY <2>1 DEF ReachInv, AgainInv, vars, mainVars, hostVars
  <2> QED
    BY <2>1, OthersKeepAgain, ThreadsKeepAgain DEF Next
<1> QED
  BY <1>1, <1>2, TimeoutInvHolds, PTL DEF Spec, ReachInv

(* A host that is found not reachable while the flows run is given up for  *)
(* good, whatever the number of threads that use it: no thread is          *)
(* reconnecting it and none gets to run a command on it (execute_cmd).     *)
THEOREM UnreachableStaysHolds == Spec => UnreachableStays
<1> DEFINE Stays(h) ==
      phase = "work" /\ isConnected[h] = "False" =>
        /\ isConnected'[h] = "False"
        /\ \A t \in Threads : at'[t] = "exec" /\ host[t] = h => at[t] = "exec"
<1>1. ASSUME ReachInv, [Next]_vars, NEW h \in Hosts, phase = "work", isConnected[h] = "False"
      PROVE  /\ isConnected'[h] = "False"
             /\ \A t \in Threads : at'[t] = "exec" /\ host[t] = h => at[t] = "exec"
  <2>1. TypeOK /\ conn[h] = "none"
    BY <1>1 DEF ReachInv, TimeoutInv, ClientInv, AgainInv
  <2>2. CASE \E g \in Hosts : ConnectionStep(g)
    <3>1. PICK g \in Hosts : ConnectionStep(g)
      BY <2>2
    <3>2. g # h /\ at' = at
      BY <2>1, <3>1 DEF ConnectionStep, Connected, NotConnected, Register, CheckTimeout, threadVars
    <3>3. isConnected'[h] = isConnected[h]
      BY <2>1, <3>1, <3>2 DEF ConnectionStep, Connected, NotConnected, Register, CheckTimeout, TypeOK
    <3> QED
      BY <1>1, <3>2, <3>3
  <2>3. CASE \/ MainStep \/ TimeoutHandler \/ UNCHANGED vars
             \/ \E g \in Hosts : Drop(g) \/ ReconnectByPassword(g)
    <3>1. isConnected' = isConnected /\ at' = at
      BY <2>3 DEF MainStep, StartRound, EndRounds, RunFlows, Exit, CloseConnection, TimeoutHandler,
                  Drop, ReconnectByPassword, vars, hostVars, threadVars
    <3> QED
      BY <1>1, <3>1
  <2>4. ASSUME NEW t \in Threads, ThreadStep(t) \/ RemoteStep(t) \/ \E g \in Hosts : Call(t, g)
        PROVE  /\ isConnected' = isConnected
               /\ \A u \in Threads : at'[u] = "exec" /\ host[u] = h => at[u] = "exec"
    <3>1. isConnected' = isConnected
      BY <2>4 DEF ThreadStep, RemoteStep, Call, Acquire, CheckTransport, NotReachable, Reconnected,
                  Executed, Retry, RaiseException, TimeOut, ConnectionLost, ReadToTheEnd, ExitStatus,
                  hostVars
    <3>2. \E there : at' = [at EXCEPT ![t] = there] /\ (there = "exec" => isConnected[host[t]] = "True")
      BY <2>4 DEF ThreadStep, RemoteStep, Call, Acquire, CheckTransport, NotReachable, Reconnected,
                  Executed, Retry, RaiseException, TimeOut, ConnectionLost, ReadToTheEnd, ExitStatus,
                  Goto, Release
    <3> QED
      BY <1>1, <2>1, <3>1, <3>2 DEF TypeOK
  <2> QED
    BY <1>1, <2>2, <2>3, <2>4 DEF Next
<1>2. ReachInv /\ [Next]_vars => [\A h \in Hosts : Stays(h)]_vars
  BY <1>1
<1> QED
  BY <1>2, ReachInvHolds, PTL DEF Spec, UnreachableStays
-----------------------------------------------------------------------------
(* What a call waits for.  The holder of an executor's lock is at work on  *)
(* that host; when the flows run every host was tried; and a client is new *)
(* only as long as its connection is being made.                           *)

HolderInv(h) == lock[h] # NoThread => UsesClient(lock[h]) /\ host[lock[h]] = h

TriedInv(h) ==
  isConnected[h] = "None" => phase = "connect" /\ (round = 0 \/ conn[h] = "connect")

NewInv(h) ==
  /\ client[h] = "new" => conn[h] = "connect"
  /\ client[h] = "None" => isConnected[h] = "None"

WaitInv == TypeOK /\ LockInv /\ \A h \in Hosts : HolderInv(h) /\ TriedInv(h) /\ NewInv(h)

(* The steps of the connections and of the main thread keep it.            *)
LEMMA OthersKeepWaitInv ==
  ASSUME WaitInv, TypeOK', NEW h \in Hosts,
         \/ ConnectionStep(h) \/ Drop(h) \/ ReconnectByPassword(h)
         \/ MainStep \/ TimeoutHandler \/ UNCHANGED vars
  PROVE  WaitInv'
<1> USE DEF WaitInv
<1>1. UNCHANGED threadVars => LockInv' /\ \A g \in Hosts : HolderInv(g)'
  BY DEF threadVars, LockInv, HolderInv, UsesClient
<1>2. CASE ConnectionStep(h)
  <2>1. UNCHANGED <<mainVars, threadVars>>
        /\ \A g \in Hosts : g # h => UNCHANGED <<isConnected[g], client[g], conn[g]>>
    BY <1>2 DEF ConnectionStep, Connected, NotConnected, Register, CheckTimeout, TypeOK
  <2>2. TriedInv(h)' /\ NewInv(h)'
    BY <1>2, <2>1 DEF ConnectionStep, Connected, NotConnected, Register, CheckTimeout, TypeOK,
                      TriedInv, NewInv, mainVars
  <2>3. \A g \in Hosts : TriedInv(g)' /\ NewInv(g)'
    BY <2>1, <2>2 DEF TriedInv, NewInv, mainVars
  <2> QED
    BY <1>1, <2>1, <2>3
<1>3. CASE Drop(h)
  BY <1>1, <1>3 DEF Drop, TriedInv, NewInv, TypeOK, mainVars
<1>4. CASE ReconnectByPassword(h)
  BY <1>1, <1>4 DEF ReconnectByPassword, Connect, TriedInv, NewInv, TypeOK, mainVars
<1>5. CASE MainStep
  <2>1. CASE StartRound
    BY <1>1, <2>1 DEF StartRound, Connect, HostsToConnect, TriedInv, NewInv, TypeOK
  <2>2. CASE EndRounds
    BY <1>1, <2>2 DEF EndRounds, Joined, HostsToConnect, TriedInv, NewInv, TypeOK,
                      RETRY_CONNECTION_COUNT, hostVars
  <2>3. CASE RunFlows \/ Exit
    BY <1>1, <2>3 DEF RunFlows, Exit, TriedInv, NewInv, hostVars
  <2>4. ASSUME NEW g \in Hosts, CloseConnection(g)
        PROVE  WaitInv'
    BY <1>1, <2>4 DEF CloseConnection, TriedInv, NewInv, TypeOK
  <2> QED
    BY <1>5, <2>1, <2>2, <2>3, <2>4 DEF MainStep
<1>6. CASE TimeoutHandler \/ UNCHANGED vars
  BY <1>1, <1>6 DEF TimeoutHandler, vars, mainVars, hostVars, TriedInv, NewInv
<1> QED
  BY <1>2, <1>3, <1>4, <1>5, <1>6

(* So do the threads: a thread takes a lock that is free and gives back    *)
(* only its own; a new client is that of a host that was connected.        *)
LEMMA ThreadsKeepWaitInv ==
  ASSUME WaitInv, TypeOK', TimeoutInv, NEW t \in Threads,
         ThreadStep(t) \/ RemoteStep(t) \/ \E h \in Hosts : Call(t, h)
  PROVE  WaitInv'
<1> USE HostExecutorAssumption DEF WaitInv, TypeOK
<1> DEFINE g == host[t]
<1>1. UNCHANGED mainVars /\ UNCHANGED isConnected
  BY DEF ThreadStep, RemoteStep, Call, Acquire, CheckTransport, NotReachable, Reconnected, Executed,
         Retry, RaiseException, TimeOut, ConnectionLost, ReadToTheEnd, ExitStatus, hostVars
<1>2. (\A h \in Hosts : TriedInv(h)' /\ NewInv(h)')
  <2>1. CASE UNCHANGED <<client, conn>>
    BY <1>1, <2>1 DEF TriedInv, NewInv, mainVars
  <2>2. CASE Connect({g}) /\ isConnected[g] = "True"
    BY <1>1, <2>2 DEF Connect, TriedInv, NewInv, mainVars
  <2>3. Retry(t) => isConnected[g] = "True"
    BY DEF Retry, TimeoutInv, RunInv
  <2> QED
    BY <2>1, <2>2, <2>3 DEF ThreadStep, RemoteStep, Call, Acquire, CheckTransport, NotReachable,
         Reconnected, Executed, Retry, RaiseException, TimeOut, ConnectionLost, ReadToTheEnd,
         ExitStatus, hostVars
<1>3. LockInv' /\ \A h \in Hosts : HolderInv(h)'
  <2>1. ASSUME NEW h \in Hosts, Call(t, h)
        PROVE  LockInv' /\ \A k \in Hosts : HolderInv(k)'
    BY <2>1 DEF Call, Goto, LockInv, HolderInv, UsesClient
  <2>2. CASE Acquire(t)
    BY <2>2 DEF Acquire, Goto, LockInv, HolderInv, UsesClient
  <2>3. CASE Release(t) /\ UsesClient(t) /\ UNCHANGED host
    <3>1. lock[g] = t
      BY <2>3 DEF LockInv
    <3>2. \A u \in Threads : u # t => at'[u] = at[u]
      BY <2>3 DEF Release, Goto
    <3>3. ~UsesClient(t)' /\ lock' = [lock EXCEPT ![g] = NoThread]
      BY <2>3 DEF Release, Goto, UsesClient
    <3>4. LockInv'
      BY <2>3, <3>1, <3>2, <3>3 DEF LockInv, UsesClient
    <3>5. ASSUME NEW h \in Hosts, lock'[h] # NoThread
          PROVE  UsesClient(lock[h])' /\ host'[lock'[h]] = h
      <4>1. h # g /\ lock'[h] = lock[h] /\ lock[h] \in Threads
        BY <3>3, <3>5
      <4>2. UsesClient(lock[h]) /\ host[lock[h]] = h
        BY <4>1, <3>5 DEF HolderInv
      <4>3. lock[h] # t
        BY <4>1, <4>2
      <4> QED
        BY <2>3, <3>2, <4>1, <4>2, <4>3 DEF UsesClient
    <3> QED
      BY <3>4, <3>5 DEF HolderInv
  <2>4. CASE UNCHANGED <<lock, host>> /\ UsesClient(t) /\ \E l \in {"exec", "reconnect", "retry", "read", "status"} : Goto(t, l)
    BY <2>4 DEF Goto, LockInv, HolderInv, UsesClient
  <2>5. UsesClient(t) \/ Acquire(t) \/ \E h \in Hosts : Call(t, h)
    BY DEF ThreadStep, RemoteStep, CheckTransport, NotReachable, Reconnected, Executed,
         Retry, RaiseException, TimeOut, ConnectionLost, ReadToTheEnd, ExitStatus, UsesClient
  <2> QED
    BY <2>1, <2>2, <2>3, <2>4, <2>5 DEF ThreadStep, RemoteStep, CheckTransport, NotReachable,
         Reconnected, Executed, Retry, RaiseException, TimeOut, ConnectionLost, ReadToTheEnd,
         ExitStatus
<1> QED
  BY <1>2, <1>3

(* A thread of a host can take a step of its own, by the conditions of the *)
(* actions: somebody else is waited for only at the lock, for a connection *)
(* that is being made, and for the exit status of a host that is there.    *)
CanGoOn(t) ==
  LET h == host[t] IN
  \/ at[t] = "wait" /\ lock[h] = NoThread
  \/ at[t] = "locked" /\ isConnected[h] = "False"
  \/ at[t] = "locked" /\ isConnected[h] = "True" /\ client[h] \in {"active", "inactive", "closed"}
  \/ Waits(t) /\ conn[h] = "none" /\ isConnected[h] \in {"True", "False"}
  \/ at[t] \in {"exec", "read"}
  \/ at[t] = "status" /\ client[h] # "active"

(* Until the process exits a call has somebody on its host who can go on,  *)
(* or a connection in the making, or a host that owes an exit status.      *)
NoCallHangs ==
  \A t \in Threads :
    at[t] # "idle" =>
      \/ conn[host[t]] # "none"
      \/ \E u \in Threads : host[u] = host[t] /\ (CanGoOn(u) \/ at[u] = "status")

(* For any hosts and threads, what CallEnds leaves as the only reason for  *)
(* a call of execute_cmd to hang is the only one: no two threads wait for  *)
(* each other, and none for a lock that nobody will give back.             *)
THEOREM NoCallHangsHolds == Spec => []NoCallHangs
<1>1. Init => WaitInv
  BY InitTypes DEF Init, WaitInv, LockInv, HolderInv, TriedInv, NewInv, UsesClient
<1>2. WaitInv /\ TypeOK' /\ TimeoutInv /\ [Next]_vars => WaitInv'
  <2> SUFFICES ASSUME WaitInv, TypeOK', TimeoutInv, [Next]_vars
               PROVE  WaitInv'
    OBVIOUS
  <2>1. CASE \E t \in Threads : ThreadStep(t) \/ RemoteStep(t) \/ \E h \in Hosts : Call(t, h)
    BY <2>1, ThreadsKeepWaitInv
  <2>2. CASE \E h \in Hosts : ConnectionStep(h) \/ Drop(h) \/ ReconnectByPassword(h)
    BY <2>2, OthersKeepWaitInv
  <2>3. ASSUME Hosts # {}, MainStep \/ TimeoutHandler \/ UNCHANGED vars
        PROVE  WaitInv'
    BY <2>3, OthersKeepWaitInv
  <2>4. ASSUME Hosts = {}, MainStep \/ TimeoutHandler \/ UNCHANGED vars
        PROVE  WaitInv'
    BY <2>4 DEF WaitInv, LockInv, TypeOK
  <2> QED
    BY <2>1, <2>2, <2>3, <2>4 DEF Next
<1>3. WaitInv /\ TimeoutInv => NoCallHangs
  <2> SUFFICES ASSUME WaitInv, TimeoutInv, NEW t \in Threads, at[t] # "idle",
                      conn[host[t]] = "none"
               PROVE  \E u \in Threads : host[u] = host[t] /\ (CanGoOn(u) \/ at[u] = "status")
    BY DEF NoCallHangs
  <2>1. PICK h \in Hosts : h = host[t]
    BY DEF WaitInv, TypeOK
  <2>2. isConnected[h] \in {"True", "False"} /\ client[h] \in {"active", "inactive", "closed"}
    <3>1. phase = "work"
      BY DEF TimeoutInv, ClientInv
    <3> QED
      BY <2>1, <3>1 DEF WaitInv, TypeOK, TriedInv, NewInv
  <2>3. ASSUME NEW u \in Threads, host[u] = h, UsesClient(u)
        PROVE  CanGoOn(u) \/ at[u] = "status"
    <3>1. at[u] \in {"locked", "reconnect", "exec", "retry", "read", "status"}
      BY <2>3 DEF WaitInv, TypeOK, UsesClient
    <3> QED
      BY <2>1, <2>2, <2>3, <3>1 DEF CanGoOn, Waits
  <2>4. CASE UsesClient(t)
    BY <2>1, <2>3, <2>4
  <2>5. CASE ~UsesClient(t) /\ lock[h] = NoThread
    BY <2>1, <2>5 DEF UsesClient, CanGoOn, WaitInv, TypeOK
  <2>6. CASE lock[h] # NoThread
    <3>1. lock[h] \in Threads /\ UsesClient(lock[h]) /\ host[lock[h]] = h
      BY <2>6 DEF WaitInv, TypeOK, HolderInv
    <3> QED
      BY <2>1, <2>3, <3>1
  <2> QED
    BY <2>4, <2>5, <2>6
<1> QED
  BY <1>1, <1>2, <1>3, TypeCorrect, TimeoutInvHolds, PTL DEF Spec
=============================================================================
