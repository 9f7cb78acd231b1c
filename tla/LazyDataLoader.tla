---------------------------- MODULE LazyDataLoader ----------------------------
(***************************************************************************)
(* tools/lazy_global_data_loader.py: a function decorated with             *)
(* lazy_global_data_loader runs once and its result, data or exception, is *)
(* kept in my_data_db for every thread until the cluster is done.  The     *)
(* second check of the database, made with the lock, looks for the name of *)
(* the function among the names of the classes, so it never finds it.      *)
(***************************************************************************)
EXTENDS Naturals, FiniteSets

CONSTANTS
  Threads,      \* one thread for each target host of an operation
  Classes,      \* the classes that own decorated functions
  Names,        \* the names of decorated functions
  Items,        \* the decorated functions: pairs of class and name
  MaxOps,       \* bound: operations run on a cluster
  MaxCalls,     \* bound: lazy data a thread asks for in an operation
  MaxClusters,  \* bound: clusters of the process
  NoThread      \* nobody holds the lock

ASSUME LazyAssumption ==
  /\ Items # {} /\ Items \subseteq Classes \X Names /\ Classes \cap Names = {}
  /\ NoThread \notin Threads
  /\ MaxOps \in Nat /\ MaxCalls \in Nat /\ MaxClusters \in Nat

VARIABLES
  cluster,  \* clusters done
  op,       \* operations of the cluster started
  pc,       \* where each thread is
  calls,    \* lazy data each thread has asked for in this operation
  item,     \* the item each thread asks for
  mine,     \* the load a thread made itself and how it ended
  lock,     \* the holder of LazyDataLoader.threadLock
  db,       \* my_data_db: the load each item comes from and what it holds
  nloads,   \* history: loads made in the process
  base,     \* history: nloads when this cluster began
  loadOps,  \* history: the operations of this cluster that loaded an item
  answers   \* history: what the calls of this cluster returned or raised

mainVars == <<cluster, op>>
callVars == <<calls, item>>
historyVars == <<nloads, base, loadOps>>
vars == <<mainVars, pc, callVars, mine, lock, db, historyVars, answers>>

(* A value is numbered by the load that made it.  An exception is the one  *)
(* raised (UnExpectedSystemOutput) or a LazyDataLoaderPreviousLoadProblem  *)
(* that wraps it, which the runner unwraps.                                *)
Value == [load: Nat, kind: {"none", "data", "exception"}]
Nothing == [load |-> 0, kind |-> "none"]
Outcomes == {"data", "exception"}
Answer == [item: Items, op: 0..MaxOps, value: Value]

Loaded(i) == db[i].load # 0

Init ==
  /\ cluster = 0 /\ op = 0
  /\ pc = [t \in Threads |-> "idle"]
  /\ calls = [t \in Threads |-> 0]
  /\ item \in [Threads -> {CHOOSE i \in Items : TRUE}]
  /\ mine = [t \in Threads |-> Nothing]
  /\ lock = NoThread
  /\ db = [i \in Items |-> Nothing]
  /\ nloads = 0 /\ base = 0
  /\ loadOps = [i \in Items |-> {}]
  /\ answers = {}
-----------------------------------------------------------------------------
(* The main thread: operations one after the other, all threads joined.    *)

StartOperation ==
  /\ cluster < MaxClusters /\ op < MaxOps
  /\ \A t \in Threads : pc[t] = "idle"
  /\ op' = op + 1
  /\ pc' = [t \in Threads |-> "running"]
  /\ calls' = [t \in Threads |-> 0]
  /\ UNCHANGED <<cluster, item, mine, lock, db, historyVars, answers>>

(* Mutant: the data outlives the cluster.                                  *)
EndClusterKeepsData ==
  /\ cluster < MaxClusters /\ op > 0
  /\ \A t \in Threads : pc[t] = "idle"
  /\ cluster' = cluster + 1 /\ op' = 0
  /\ base' = nloads
  /\ loadOps' = [i \in Items |-> {}]
  /\ answers' = {}
  /\ UNCHANGED <<pc, callVars, mine, lock, db, nloads>>

(* Mutant: a cleaned entry keeps a field of its own.                       *)
EndClusterStripsData ==
  /\ cluster < MaxClusters /\ op > 0
  /\ \A t \in Threads : pc[t] = "idle"
  /\ cluster' = cluster + 1 /\ op' = 0
  /\ db' = [i \in Items |-> [load |-> 0]]
  /\ base' = nloads
  /\ loadOps' = [i \in Items |-> {}]
  /\ answers' = {}
  /\ UNCHANGED <<pc, callVars, mine, lock, nloads>>

(* clean_lazy, in the finally clause of the loop over the clusters.        *)
EndCluster ==
  /\ cluster < MaxClusters /\ op > 0
  /\ \A t \in Threads : pc[t] = "idle"
  /\ cluster' = cluster + 1 /\ op' = 0
  /\ db' = [i \in Items |-> Nothing]
  /\ base' = nloads
  /\ loadOps' = [i \in Items |-> {}]
  /\ answers' = {}
  /\ UNCHANGED <<pc, callVars, mine, lock, nloads>>
-----------------------------------------------------------------------------
(* A call of get_common_data.                                              *)

Goto(t, l) == pc' = [pc EXCEPT ![t] = l]

Give(t, v) ==
  answers' = answers \cup {[item |-> item[t], op |-> op, value |-> v]}

Ask(t, i) ==
  /\ pc[t] = "running" /\ calls[t] < MaxCalls
  /\ item' = [item EXCEPT ![t] = i]
  /\ calls' = [calls EXCEPT ![t] = @ + 1]
  /\ Goto(t, "check")
  /\ UNCHANGED <<mainVars, mine, lock, db, historyVars, answers>>

Check(t) ==
  /\ pc[t] = "check"
  /\ Goto(t, IF Loaded(item[t]) THEN "read" ELSE "lock")
  /\ UNCHANGED <<mainVars, callVars, mine, lock, db, historyVars, answers>>

(* Mutant: the lock does not keep anybody out.                             *)
AcquireHeld(t) ==
  /\ pc[t] = "lock"
  /\ lock' = t
  /\ Goto(t, "recheck")
  /\ UNCHANGED <<mainVars, callVars, mine, db, historyVars, answers>>

Acquire(t) ==
  /\ pc[t] = "lock" /\ lock = NoThread
  /\ lock' = t
  /\ Goto(t, "recheck")
  /\ UNCHANGED <<mainVars, callVars, mine, db, historyVars, answers>>

(* data_name is looked for in my_data_db itself, whose keys are classes.   *)
Recheck(t) ==
  /\ pc[t] = "recheck"
  /\ Goto(t, IF item[t][2] \in {i[1] : i \in {j \in Items : Loaded(j)}}
             THEN "release" ELSE "load")
  /\ UNCHANGED <<mainVars, callVars, mine, lock, db, historyVars, answers>>

(* Mutant: an exception is raised but not kept.                            *)
LoadForgetsFailure(t) ==
  /\ pc[t] = "load"
  /\ \E k \in Outcomes :
       /\ mine' = [mine EXCEPT ![t] = [load |-> nloads + 1, kind |-> k]]
       /\ db' = IF k = "data" THEN [db EXCEPT ![item[t]] = [load |-> nloads + 1, kind |-> k]] ELSE db
  /\ nloads' = nloads + 1
  /\ loadOps' = [loadOps EXCEPT ![item[t]] = @ \cup {op}]
  /\ Goto(t, "release")
  /\ UNCHANGED <<mainVars, callVars, lock, base, answers>>

(* _load_data: the function ends, and what it returned or raised is kept.  *)
Load(t) ==
  /\ pc[t] = "load"
  /\ \E k \in Outcomes :
       /\ mine' = [mine EXCEPT ![t] = [load |-> nloads + 1, kind |-> k]]
       /\ db' = [db EXCEPT ![item[t]] = [load |-> nloads + 1, kind |-> k]]
  /\ nloads' = nloads + 1
  /\ loadOps' = [loadOps EXCEPT ![item[t]] = @ \cup {op}]
  /\ Goto(t, "release")
  /\ UNCHANGED <<mainVars, callVars, lock, base, answers>>

Raises(t) == mine[t].kind = "exception"

(* Mutant: the lock is not released in a finally clause.                   *)
ReleaseOnSuccess(t) ==
  /\ pc[t] = "release"
  /\ lock' = IF Raises(t) THEN lock ELSE NoThread
  /\ IF Raises(t) THEN Give(t, mine[t]) /\ Goto(t, "running")
                  ELSE Goto(t, "read") /\ UNCHANGED answers
  /\ mine' = [mine EXCEPT ![t] = Nothing]
  /\ UNCHANGED <<mainVars, callVars, db, historyVars>>

(* The finally clause; an exception of this thread's own load goes on to   *)
(* the caller, who never reads the database.                               *)
Release(t) ==
  /\ pc[t] = "release"
  /\ lock' = NoThread
  /\ IF Raises(t) THEN Give(t, mine[t]) /\ Goto(t, "running")
                  ELSE Goto(t, "read") /\ UNCHANGED answers
  /\ mine' = [mine EXCEPT ![t] = Nothing]
  /\ UNCHANGED <<mainVars, callVars, db, historyVars>>

(* Mutant: an exception is raised once and leaves a tag in its place.      *)
ReadRaisesOnce(t) ==
  /\ pc[t] = "read"
  /\ Give(t, db[item[t]])
  /\ db' = [db EXCEPT ![item[t]].kind = "data"]
  /\ Goto(t, "running")
  /\ UNCHANGED <<mainVars, callVars, mine, lock, historyVars>>

(* The item is read without the lock and returned, or raised if it is an   *)
(* exception.                                                              *)
Read(t) ==
  /\ pc[t] = "read"
  /\ Give(t, db[item[t]])
  /\ Goto(t, "running")
  /\ UNCHANGED <<mainVars, callVars, mine, lock, db, historyVars>>

(* The validation of this host ends, on its own or with the exception.     *)
Finish(t) ==
  /\ pc[t] = "running"
  /\ Goto(t, "idle")
  /\ UNCHANGED <<mainVars, callVars, mine, lock, db, historyVars, answers>>

ThreadStep(t) ==
  \/ \E i \in Items : Ask(t, i)
  \/ Check(t) \/ Acquire(t) \/ Recheck(t) \/ Load(t) \/ Release(t) \/ Read(t)
  \/ Finish(t)

Next == StartOperation \/ EndCluster \/ \E t \in Threads : ThreadStep(t)

Spec == Init /\ [][Next]_vars

(* A thread runs until it ends, and gets the lock as long as it is free.   *)
Fairness == \A t \in Threads : WF_vars(ThreadStep(t))

FairSpec == Spec /\ Fairness
-----------------------------------------------------------------------------
TypeOK ==
  /\ cluster \in 0..MaxClusters /\ op \in 0..MaxOps
  /\ pc \in [Threads -> {"idle", "running", "check", "lock", "recheck", "load", "release", "read"}]
  /\ calls \in [Threads -> 0..MaxCalls]
  /\ item \in [Threads -> Items]
  /\ mine \in [Threads -> Value]
  /\ lock \in Threads \cup {NoThread}
  /\ db \in [Items -> Value]
  /\ nloads \in Nat /\ base \in Nat
  /\ loadOps \in [Items -> SUBSET (0..MaxOps)]
  /\ answers \in SUBSET Answer

(* Although several threads may load the same item, they all do it in one  *)
(* operation of the cluster: a later operation, which starts when they are *)
(* joined, finds the item loaded even if the load raised.                  *)
LoadedInOneOperation == \A i \in Items : \A m, n \in loadOps[i] : m = n

(* Once the operation that loaded an item is over its value is settled:    *)
(* all later operations of the cluster are told the same.                  *)
SettledAnswer ==
  \A a, b \in answers :
    /\ a.item = b.item
    /\ a.op \notin loadOps[a.item] /\ b.op \notin loadOps[b.item]
    => a.value = b.value

(* What a call returns or raises was loaded on the cluster under test,     *)
(* never on the one before.                                                *)
FreshAnswer == \A a \in answers : a.value.load > base

(* At most one decorated function runs at a time, in the whole process.    *)
OneLoadAtATime == \A s, t \in Threads : pc[s] = "load" /\ pc[t] = "load" => s = t

(* The exception of a load that its thread has not yet raised.             *)
Raised == {[item |-> item[t], value |-> mine[t]] : t \in {u \in Threads : Raises(u)}}

Shared == INSTANCE SharedLazyData WITH value <- db, raised <- Raised

(* Every step of the threads is a step of SharedLazyData or is not seen by *)
(* the callers: repeated loads stay within one operation, an exception     *)
(* reaches the call that met it, and the end of a cluster forgets all.     *)
SharedData == Shared!Spec

(* Every call returns or raises: the lock is released whatever happens.    *)
CallsReturn == \A t \in Threads : pc[t] = "check" ~> pc[t] = "running"

(* The comment of the module: "use for one time loading any reused & shard *)
(* data amonge diffrent therds".  Until the database is cleaned an item    *)
(* stays what its first load made of it.                                   *)
LoadedOnce ==
  [][\A i \in Items : Loaded(i) => db'[i] \in {db[i], Nothing}]_vars
=============================================================================
