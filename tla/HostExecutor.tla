------------------------------ MODULE HostExecutor ------------------------------
(***************************************************************************)
(* The SSH connections of the host executors: how they are made before the *)
(* flows run, how the threads of the operations run commands over them,    *)
(* reconnect and retry, and how the 24 hours' timeout of the process       *)
(* closes them while all of that goes on.  Local executors have no         *)
(* connection and are left out.                                            *)
(***************************************************************************)
EXTENDS Naturals

CONSTANTS
  Hosts,       \* the remote hosts
  Threads,     \* threads that run commands
  NoThread,    \* nobody holds the lock of an executor
  MaxCalls     \* bound: commands run in all

RETRY_CONNECTION_COUNT == 3
MaxRetries == 3

ASSUME HostExecutorAssumption == NoThread \notin Threads /\ MaxCalls \in Nat

VARIABLES
  phase,        \* the hosts are connected, may get a password, or are in use
  round,        \* connection rounds started
  main,         \* the main thread runs, closes connections, or has exited
  exceeded,     \* HostExecutor.running_timeout_exceeded
  registered,   \* hosts whose close_connection is registered with atexit
  toClose,      \* the exit functions that are still to run
  isConnected,  \* is_connected, a boolean or None
  client,       \* the connection _client stands for
  conn,         \* how far connect_ssh_client is
  late,         \* history: the connection was made after the timeout
  lock,         \* the holder of _threadLock
  at,           \* where each thread is in execute_cmd
  host,         \* the host of its command
  try,          \* retry_count of _run_cmd_with_retry
  calls         \* commands run

mainVars == <<phase, round, main, exceeded, toClose>>
hostVars == <<registered, isConnected, client, conn, late>>
threadVars == <<lock, at, host, try, calls>>
vars == <<mainVars, hostVars, threadVars>>

Init ==
  /\ phase = "connect" /\ round = 0
  /\ main = "run" /\ exceeded = FALSE /\ registered = {} /\ toClose = {}
  /\ isConnected = [h \in Hosts |-> "None"]
  /\ client = [h \in Hosts |-> "None"]
  /\ conn = [h \in Hosts |-> "none"]
  /\ late = [h \in Hosts |-> FALSE]
  /\ lock = [h \in Hosts |-> NoThread]
  /\ at = [t \in Threads |-> "idle"]
  /\ host \in [Threads -> Hosts]
  /\ try = [t \in Threads |-> 0]
  /\ calls = 0
-----------------------------------------------------------------------------
(* connect_ssh_client, one call at a time for a host.                      *)

(* A new client for each of the hosts; the old ones are not closed.        *)
Connect(S) ==
  /\ client' = [h \in Hosts |-> IF h \in S THEN "new" ELSE client[h]]
  /\ conn' = [h \in Hosts |-> IF h \in S THEN "connect" ELSE conn[h]]

Connected(h) ==
  /\ conn[h] = "connect"
  /\ client' = [client EXCEPT ![h] = "active"]
  /\ isConnected' = [isConnected EXCEPT ![h] = "True"]
  /\ late' = [late EXCEPT ![h] = exceeded]
  /\ conn' = [conn EXCEPT ![h] = "register"]
  /\ UNCHANGED registered

(* handle_connect_exception.                                               *)
NotConnected(h) ==
  /\ conn[h] = "connect"
  /\ client' = [client EXCEPT ![h] = "closed"]
  /\ isConnected' = [isConnected EXCEPT ![h] = "False"]
  /\ conn' = [conn EXCEPT ![h] = "none"]
  /\ UNCHANGED <<registered, late>>

Register(h) ==
  /\ conn[h] = "register"
  /\ registered' = registered \cup {h}
  /\ conn' = [conn EXCEPT ![h] = "check"]
  /\ UNCHANGED <<isConnected, client, late>>

(* Mutant: the flag is not looked at.                                      *)
CheckNoTimeout(h) ==
  /\ conn[h] = "check"
  /\ conn' = [conn EXCEPT ![h] = "none"]
  /\ UNCHANGED <<registered, late, client, isConnected>>

(* A connection that was made while the process was timing out is closed.  *)
CheckTimeout(h) ==
  /\ conn[h] = "check"
  /\ conn' = [conn EXCEPT ![h] = "none"]
  /\ IF exceeded
     THEN /\ client' = [client EXCEPT ![h] = "closed"]
          /\ isConnected' = [isConnected EXCEPT ![h] = "False"]
     ELSE UNCHANGED <<client, isConnected>>
  /\ UNCHANGED <<registered, late>>

ConnectionStep(h) ==
  /\ main # "exited"
  /\ Connected(h) \/ NotConnected(h) \/ Register(h) \/ CheckTimeout(h)
  /\ UNCHANGED <<mainVars, threadVars>>

(* The remote end goes away, and the transport finds out.                  *)
Drop(h) ==
  /\ main # "exited" /\ client[h] = "active" /\ conn[h] = "none"
  /\ client' = [client EXCEPT ![h] = "inactive"]
  /\ UNCHANGED <<mainVars, registered, isConnected, conn, late, threadVars>>
-----------------------------------------------------------------------------
(* The main thread.                                                        *)

Joined == main = "run" /\ \A h \in Hosts : conn[h] = "none"

HostsToConnect == {h \in Hosts : isConnected[h] # "True"}

StartRound ==
  /\ Joined /\ phase = "connect"
  /\ HostsToConnect # {} /\ round < RETRY_CONNECTION_COUNT
  /\ round' = round + 1
  /\ Connect(HostsToConnect)
  /\ UNCHANGED <<phase, main, exceeded, toClose, registered, isConnected, late, threadVars>>

EndRounds ==
  /\ Joined /\ phase = "connect"
  /\ HostsToConnect = {} \/ round = RETRY_CONNECTION_COUNT
  /\ phase' = "password"
  /\ UNCHANGED <<round, main, exceeded, toClose, hostVars, threadVars>>

(* The user gives the password of a host that is not connected.            *)
ReconnectByPassword(h) ==
  /\ Joined /\ phase = "password" /\ h \in HostsToConnect
  /\ Connect({h})
  /\ UNCHANGED <<mainVars, registered, isConnected, late, threadVars>>

RunFlows ==
  /\ Joined /\ phase = "password"
  /\ phase' = "work"
  /\ UNCHANGED <<round, main, exceeded, toClose, hostVars, threadVars>>

(* Mutant: the handler closes the connections, and sets no flag.           *)
TimeoutHandlerCloseOnly ==
  /\ main = "run"
  /\ main' = "closing"
  /\ toClose' = registered
  /\ UNCHANGED <<phase, round, exceeded, hostVars, threadVars>>

(* SIGALRM, at any time; an exit function that is registered while the     *)
(* others run is not run.                                                  *)
TimeoutHandler ==
  /\ main = "run"
  /\ main' = "closing"
  /\ exceeded' = TRUE
  /\ toClose' = registered
  /\ UNCHANGED <<phase, round, hostVars, threadVars>>

(* close_connection of one host; a client that is still connecting is not  *)
(* stopped by it.                                                          *)
CloseConnection(h) ==
  /\ main = "closing" /\ h \in toClose
  /\ toClose' = toClose \ {h}
  /\ client' = IF client[h] = "new" THEN client ELSE [client EXCEPT ![h] = "closed"]
  /\ UNCHANGED <<phase, round, main, exceeded, registered, isConnected, conn, late, threadVars>>

Exit ==
  /\ main = "closing" /\ toClose = {}
  /\ main' = "exited"
  /\ UNCHANGED <<phase, round, exceeded, toClose, hostVars, threadVars>>

MainStep ==
  \/ StartRound \/ EndRounds \/ RunFlows \/ Exit
  \/ \E h \in Hosts : CloseConnection(h)
-----------------------------------------------------------------------------
(* execute_cmd of a thread.                                                *)

Goto(t, there) == at' = [at EXCEPT ![t] = there]

(* The call ends, with an answer or an exception, and the lock is free.    *)
Release(t) ==
  /\ Goto(t, "idle")
  /\ lock' = [lock EXCEPT ![host[t]] = NoThread]

Call(t, h) ==
  /\ main # "exited" /\ phase = "work" /\ at[t] = "idle" /\ calls < MaxCalls
  /\ Goto(t, "wait")
  /\ host' = [host EXCEPT ![t] = h]
  /\ try' = [try EXCEPT ![t] = 0]
  /\ calls' = calls + 1
  /\ UNCHANGED <<mainVars, hostVars, lock>>

(* Mutant: the lock is taken without waiting for it.                       *)
AcquireNow(t) ==
  /\ at[t] = "wait"
  /\ lock' = [lock EXCEPT ![host[t]] = t]
  /\ Goto(t, "locked")
  /\ UNCHANGED <<hostVars, host, try, calls>>

Acquire(t) ==
  /\ at[t] = "wait" /\ lock[host[t]] = NoThread
  /\ lock' = [lock EXCEPT ![host[t]] = t]
  /\ Goto(t, "locked")
  /\ UNCHANGED <<hostVars, host, try, calls>>

(* A connection whose transport ended is made again; the transport of a    *)
(* closed client is None.                                                  *)
CheckTransport(t) ==
  /\ at[t] = "locked" /\ isConnected[host[t]] = "True"
  /\ \/ /\ client[host[t]] = "active"
        /\ Goto(t, "exec")
        /\ UNCHANGED <<hostVars, lock>>
     \/ /\ client[host[t]] = "inactive"
        /\ Connect({host[t]})
        /\ Goto(t, "reconnect")
        /\ UNCHANGED <<registered, isConnected, late, lock>>
     \/ /\ client[host[t]] = "closed"
        /\ Release(t)
        /\ UNCHANGED hostVars
  /\ UNCHANGED <<host, try, calls>>

NotReachable(t) ==
  /\ \/ at[t] = "locked"
     \/ at[t] \in {"reconnect", "retry"} /\ conn[host[t]] = "none"
  /\ isConnected[host[t]] = "False"
  /\ Release(t)
  /\ UNCHANGED <<hostVars, host, try, calls>>

(* Mutant: the retry goes on although the connection was not made.         *)
ReconnectedAnyhow(t) ==
  /\ at[t] \in {"reconnect", "retry"} /\ conn[host[t]] = "none"
  /\ IF isConnected[host[t]] = "True"
     THEN Goto(t, "exec") /\ UNCHANGED <<client, conn>>
     ELSE Goto(t, "retry") /\ Connect({host[t]})
  /\ UNCHANGED <<registered, isConnected, late, lock, host, try, calls>>

Reconnected(t) ==
  /\ at[t] \in {"reconnect", "retry"} /\ conn[host[t]] = "none"
  /\ isConnected[host[t]] = "True"
  /\ Goto(t, "exec")
  /\ UNCHANGED <<hostVars, lock, host, try, calls>>

(* exec_command returns its channels, and the command runs on the host.    *)
Executed(t) ==
  /\ at[t] = "exec" /\ client[host[t]] = "active"
  /\ Goto(t, "read")
  /\ UNCHANGED <<hostVars, lock, host, try, calls>>

(* Mutant: the retries are not counted.                                    *)
RetryForever(t) ==
  /\ at[t] = "exec" /\ client[host[t]] # "closed"
  /\ Connect({host[t]})
  /\ Goto(t, "retry")
  /\ UNCHANGED <<registered, isConnected, late, lock, host, try, calls>>

(* Mutant: the last exception is retried, too.                             *)
RetryOnceMore(t) ==
  /\ at[t] = "exec" /\ client[host[t]] # "closed" /\ try[t] < MaxRetries
  /\ try' = [try EXCEPT ![t] = @ + 1]
  /\ Connect({host[t]})
  /\ Goto(t, "retry")
  /\ UNCHANGED <<registered, isConnected, late, lock, host, calls>>

(* An SSHException, perhaps after the host got the command: a new          *)
(* connection is made after a second, in place of one that may be open.    *)
Retry(t) ==
  /\ at[t] = "exec" /\ client[host[t]] # "closed" /\ try[t] < MaxRetries - 1
  /\ try' = [try EXCEPT ![t] = @ + 1]
  /\ Connect({host[t]})
  /\ Goto(t, "retry")
  /\ UNCHANGED <<registered, isConnected, late, lock, host, calls>>

(* The last SSHException is raised, and so is that of a closed client.     *)
RaiseException(t) ==
  /\ at[t] = "exec"
  /\ client[host[t]] = "closed" \/ try[t] = MaxRetries - 1
  /\ Release(t)
  /\ UNCHANGED <<hostVars, host, try, calls>>

(* Both streams end, or the connection does.                               *)
ReadToTheEnd(t) ==
  /\ at[t] = "read"
  /\ Goto(t, "status")
  /\ UNCHANGED <<hostVars, lock, host, try, calls>>

TimeOut(t) ==
  /\ at[t] = "read"
  /\ Release(t)
  /\ UNCHANGED <<hostVars, host, try, calls>>

(* recv_exit_status has no timeout: it waits for the host, or for the end  *)
(* of the connection, which makes the exit code -1.                        *)
ConnectionLost(t) ==
  /\ at[t] = "status" /\ client[host[t]] # "active"
  /\ Release(t)
  /\ UNCHANGED <<hostVars, host, try, calls>>

ExitStatus(t) ==
  /\ at[t] = "status" /\ client[host[t]] = "active"
  /\ Release(t)
  /\ UNCHANGED <<hostVars, host, try, calls>>

(* What a thread does by itself; the second is up to the remote host.      *)
ThreadStep(t) ==
  /\ main # "exited"
  /\ \/ Acquire(t) \/ CheckTransport(t) \/ NotReachable(t) \/ Reconnected(t)
     \/ Executed(t) \/ Retry(t) \/ RaiseException(t) \/ TimeOut(t) \/ ConnectionLost(t)
  /\ UNCHANGED mainVars

RemoteStep(t) ==
  /\ main # "exited"
  /\ ReadToTheEnd(t) \/ ExitStatus(t)
  /\ UNCHANGED mainVars

Next ==
  \/ MainStep \/ TimeoutHandler
  \/ \E h \in Hosts : ConnectionStep(h) \/ Drop(h) \/ ReconnectByPassword(h)
  \/ \E t \in Threads : ThreadStep(t) \/ RemoteStep(t) \/ \E h \in Hosts : Call(t, h)

Spec == Init /\ [][Next]_vars

(* connect has a timeout, and so has the reading of a command's output;    *)
(* nothing makes the host send an exit status.                             *)
FairSpec ==
  /\ Spec /\ WF_vars(MainStep)
  /\ \A h \in Hosts : WF_vars(ConnectionStep(h))
  /\ \A t \in Threads : WF_vars(ThreadStep(t))
-----------------------------------------------------------------------------
TypeOK ==
  /\ phase \in {"connect", "password", "work"} /\ round \in 0..RETRY_CONNECTION_COUNT
  /\ main \in {"run", "closing", "exited"} /\ exceeded \in BOOLEAN
  /\ registered \subseteq Hosts /\ toClose \subseteq registered
  /\ isConnected \in [Hosts -> {"None", "True", "False"}]
  /\ client \in [Hosts -> {"None", "new", "active", "inactive", "closed"}]
  /\ conn \in [Hosts -> {"none", "connect", "register", "check"}]
  /\ late \in [Hosts -> BOOLEAN]
  /\ lock \in [Hosts -> Threads \cup {NoThread}]
  /\ at \in [Threads -> {"idle", "wait", "locked", "reconnect", "exec", "retry", "read", "status"}]
  /\ host \in [Threads -> Hosts]
  /\ try \in [Threads -> 0..(MaxRetries - 1)]
  /\ calls \in 0..MaxCalls

UsesClient(t) == at[t] \notin {"idle", "wait"}

(* A connection serves one command at a time, and is not replaced while it *)
(* does: no thread reads the answer of another's, or from a client that    *)
(* was just made.                                                          *)
ClientNotShared ==
  /\ \A t, u \in Threads :
       UsesClient(t) /\ UsesClient(u) /\ host[t] = host[u] => t = u
  /\ \A t \in Threads : at[t] \in {"exec", "read", "status"} => conn[host[t]] = "none"

(* A host that was found not reachable while the flows run stays so: its   *)
(* later commands all raise HostNotReachable, none of them is run.         *)
UnreachableStays ==
  [][\A h \in Hosts :
       phase = "work" /\ isConnected[h] = "False" =>
         /\ isConnected'[h] = "False"
         /\ \A t \in Threads : at'[t] = "exec" /\ host[t] = h => at[t] = "exec"]_vars

(* No command is started over a connection that was made after the timeout *)
(* of the process.                                                         *)
NoLateCommand ==
  \A t \in Threads : at[t] \in {"exec", "read", "status"} => ~late[host[t]]

(* When the process exits, it has closed the connections of its executors, *)
(* save those that are being made at that moment.                          *)
ClosedAtExit ==
  main = "exited" =>
    \A h \in Hosts : conn[h] = "none" => client[h] \notin {"active", "inactive"}

(* A call of execute_cmd ends, with an answer or an exception, unless it   *)
(* or another on its host waits for an exit status that does not come.     *)
CallEnds ==
  \A t \in Threads :
    at[t] = "wait" ~>
      \/ at[t] = "idle" \/ main = "exited"
      \/ \E u \in Threads : at[u] = "status" /\ host[u] = host[t]
=============================================================================
