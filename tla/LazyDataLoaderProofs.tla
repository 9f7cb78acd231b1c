-------------------------- MODULE LazyDataLoaderProofs --------------------------
(***************************************************************************)
(* Proofs about LazyDataLoader, for any number of threads, items,          *)
(* operations and clusters.                                                *)
(***************************************************************************)
EXTENDS LazyDataLoader, TLAPS

(* The type invariant of the lazy loader holds in every reachable state.   *)
THEOREM TypeCorrect == Spec => []TypeOK
<1>1. Init => TypeOK
  BY LazyAssumption DEF Init, TypeOK, Value, Nothing
<1>2. TypeOK /\ [Next]_vars => TypeOK'
  <2> SUFFICES ASSUME TypeOK, [Next]_vars
               PROVE  TypeOK'
    OBVIOUS
  <2> USE LazyAssumption DEF TypeOK, mainVars, callVars, historyVars
  <2>1. CASE StartOperation
    BY <2>1 DEF StartOperation
  <2>2. CASE EndCluster
    BY <2>2 DEF EndCluster, Value, Nothing
  <2> USE DEF Goto
  <2>3. ASSUME NEW t \in Threads, NEW i \in Items, Ask(t, i)
        PROVE  TypeOK'
    BY <2>3 DEF Ask, Value, Nothing
  <2>4. ASSUME NEW t \in Threads, Check(t)
        PROVE  TypeOK'
    BY <2>4 DEF Check
  <2>5. ASSUME NEW t \in Threads, Acquire(t)
        PROVE  TypeOK'
    BY <2>5 DEF Acquire
  <2>6. ASSUME NEW t \in Threads, Recheck(t)
        PROVE  TypeOK'
    BY <2>6 DEF Recheck
  <2>7. ASSUME NEW t \in Threads, Load(t)
        PROVE  TypeOK'
    <3>1. PICK k \in Outcomes :
            /\ mine' = [mine EXCEPT ![t] = [load |-> nloads + 1, kind |-> k]]
            /\ db' = [db EXCEPT ![item[t]] = [load |-> nloads + 1, kind |-> k]]
      BY <2>7 DEF Load
    <3>2. [load |-> nloads + 1, kind |-> k] \in Value
      BY DEF Value, Outcomes
    <3> QED
      BY <2>7, <3>1, <3>2 DEF Load
  <2>8. ASSUME NEW t \in Threads, Release(t)
        PROVE  TypeOK'
    <3>1. answers' \in SUBSET Answer
      <4>1. CASE Raises(t)
        BY <2>8, <4>1 DEF Release, Give, Answer
      <4>2. CASE ~Raises(t)
        BY <2>8, <4>2 DEF Release
      <4> QED
        BY <4>1, <4>2
    <3>2. pc' \in [Threads -> {"idle", "running", "check", "lock", "recheck", "load",
                              "release", "read"}]
      BY <2>8 DEF Release
    <3>3. Nothing \in Value
      BY DEF Nothing, Value
    <3> QED
      BY <2>8, <3>1, <3>2, <3>3 DEF Release
  <2>9. ASSUME NEW t \in Threads, Read(t)
        PROVE  TypeOK'
    BY <2>9 DEF Read, Give, Answer
  <2>10. ASSUME NEW t \in Threads, Finish(t)
         PROVE  TypeOK'
    BY <2>10 DEF Finish
  <2>11. CASE UNCHANGED vars
    BY <2>11 DEF vars
  <2> QED
    BY <2>1, <2>2, <2>3, <2>4, <2>5, <2>6, <2>7, <2>8, <2>9, <2>10, <2>11
    DEF Next, ThreadStep
<1> QED
  BY <1>1, <1>2, PTL DEF Spec

-----------------------------------------------------------------------------
(* The inductive invariant.  Who is on the way to load an item found it    *)
(* missing, so no operation but the present one has loaded it; an item is  *)
(* in the database as soon as some operation loaded it; an answer was      *)
(* given when its item had been loaded, and it is what the database still  *)
(* holds unless it was given in the operation that loads the item.         *)

LockInv == \A t \in Threads : pc[t] \in {"recheck", "load", "release"} => lock = t

MissInv ==
  \A t \in Threads : pc[t] \in {"lock", "recheck", "load"} => loadOps[item[t]] \subseteq {op}

DbInv ==
  \A i \in Items :
    /\ db[i].load = 0 => loadOps[i] = {}
    /\ db[i].load # 0 => loadOps[i] # {} /\ db[i].load > base
    /\ loadOps[i] \subseteq 0..op

HitInv ==
  \A t \in Threads :
    /\ pc[t] = "release" => op \in loadOps[item[t]] /\ mine[t].load > base
    /\ pc[t] = "read" => Loaded(item[t])

Settled(a) == a.op \notin loadOps[a.item] => a.value = db[a.item]

AnswerInv ==
  \A a \in answers :
    /\ a.value.load > base /\ a.op <= op
    /\ \E n \in loadOps[a.item] : n <= a.op
    /\ Settled(a)

LazyInv ==
  /\ TypeOK /\ base <= nloads
  /\ LockInv /\ MissInv /\ DbInv /\ HitInv /\ AnswerInv /\ LoadedInOneOperation

(* What the steps that leave the database and the history alone preserve.  *)
LEMMA Frame ==
  ASSUME LazyInv, TypeOK',
         UNCHANGED <<op, db, nloads, base, loadOps, answers>>,
         LockInv', MissInv', HitInv'
  PROVE  LazyInv'
BY DEF LazyInv, DbInv, AnswerInv, Settled, LoadedInOneOperation

(* The main thread keeps the invariant.                                    *)
LEMMA MainStepInv ==
  ASSUME LazyInv, TypeOK', StartOperation \/ EndCluster
  PROVE  LazyInv'
<1> USE LazyAssumption DEF LazyInv, TypeOK
<1>1. CASE StartOperation
  <2> USE <1>1 DEF StartOperation, historyVars
  <2>1. LockInv' /\ MissInv' /\ HitInv'
    BY DEF LockInv, MissInv, HitInv
  <2>2. DbInv'
    BY DEF DbInv
  <2>3. AnswerInv'
    <3> SUFFICES ASSUME NEW a \in answers
                 PROVE  /\ a.value.load > base /\ a.op <= op + 1
                        /\ \E n \in loadOps[a.item] : n <= a.op
                        /\ Settled(a)
      BY DEF AnswerInv, Settled
    <3> QED
      BY DEF AnswerInv, Answer
  <2> QED
    BY <2>1, <2>2, <2>3 DEF LoadedInOneOperation
<1>2. CASE EndCluster
  <2> USE <1>2 DEF EndCluster
  <2>1. LockInv' /\ MissInv' /\ HitInv'
    BY DEF LockInv, MissInv, HitInv
  <2>2. DbInv'
    BY DEF DbInv, Nothing
  <2>3. AnswerInv' /\ LoadedInOneOperation'
    BY DEF AnswerInv, LoadedInOneOperation
  <2> QED
    BY <2>1, <2>2, <2>3
<1> QED
  BY <1>1, <1>2

(* So do the steps of a call that neither load nor answer.                 *)
LEMMA CallStepInv ==
  ASSUME LazyInv, TypeOK', NEW t \in Threads,
         (\E i \in Items : Ask(t, i)) \/ Check(t) \/ Acquire(t) \/ Recheck(t) \/ Finish(t)
  PROVE  LazyInv'
<1> USE LazyAssumption DEF LazyInv, TypeOK, mainVars, historyVars, callVars, Goto
<1>1. ASSUME NEW i \in Items, Ask(t, i)
      PROVE  LazyInv'
  BY <1>1, Frame DEF Ask, LockInv, MissInv, HitInv, Loaded
<1>2. CASE Check(t)
  <2>1. ~Loaded(item[t]) => loadOps[item[t]] = {}
    BY DEF DbInv, Loaded, Value
  <2> QED
    BY <1>2, <2>1, Frame DEF Check, LockInv, MissInv, HitInv, Loaded
<1>3. CASE Acquire(t)
  BY <1>3, Frame DEF Acquire, LockInv, MissInv, HitInv, Loaded
<1>4. CASE Recheck(t)
  <2>1. item[t][2] \notin {i[1] : i \in {j \in Items : Loaded(j)}}
    BY DEF Loaded
  <2> QED
    BY <1>4, <2>1, Frame DEF Recheck, LockInv, MissInv, HitInv, Loaded
<1>5. CASE Finish(t)
  BY <1>5, Frame DEF Finish, LockInv, MissInv, HitInv, Loaded
<1> QED
  BY <1>1, <1>2, <1>3, <1>4, <1>5

(* A load keeps it: it is made in the operation of the first one.          *)
LEMMA LoadInv ==
  ASSUME LazyInv, TypeOK', NEW t \in Threads, Load(t)
  PROVE  LazyInv'
<1> USE LazyAssumption DEF LazyInv, TypeOK, mainVars, historyVars, callVars, Goto
<1>1. PICK k \in Outcomes :
        /\ mine' = [mine EXCEPT ![t] = [load |-> nloads + 1, kind |-> k]]
        /\ db' = [db EXCEPT ![item[t]] = [load |-> nloads + 1, kind |-> k]]
  BY DEF Load
<1>2. /\ op' = op /\ base' = base /\ nloads' = nloads + 1 /\ answers' = answers
      /\ item' = item /\ lock' = lock /\ pc[t] = "load"
      /\ pc' = [pc EXCEPT ![t] = "release"]
  BY DEF Load
<1>3. loadOps[item[t]] \subseteq {op}
  BY <1>2 DEF MissInv
<1>4. loadOps' = [loadOps EXCEPT ![item[t]] = {op}]
  <2>1. loadOps[item[t]] \cup {op} = {op}
    BY <1>3
  <2> QED
    BY <2>1 DEF Load
<1>5. LockInv'
  BY <1>2 DEF LockInv
<1>6. MissInv'
  BY <1>2, <1>4 DEF MissInv
<1>7. DbInv'
  <2> SUFFICES ASSUME NEW i \in Items
               PROVE  /\ db'[i].load = 0 => loadOps'[i] = {}
                      /\ db'[i].load # 0 => loadOps'[i] # {} /\ db'[i].load > base
                      /\ loadOps'[i] \subseteq 0..op
    BY <1>2 DEF DbInv
  <2>1. CASE i = item[t]
    BY <1>1, <1>4, <2>1
  <2>2. CASE i # item[t]
    BY <1>1, <1>4, <2>2 DEF DbInv
  <2> QED
    BY <2>1, <2>2
<1>8. HitInv'
  BY <1>1, <1>2, <1>4 DEF HitInv, Loaded
<1>9. AnswerInv'
  <2> SUFFICES ASSUME NEW a \in answers
               PROVE  /\ a.value.load > base /\ a.op <= op
                      /\ \E n \in loadOps'[a.item] : n <= a.op
                      /\ a.op \notin loadOps'[a.item] => a.value = db'[a.item]
    BY <1>2 DEF AnswerInv, Settled
  <2>0. a.item \in Items /\ a.op \in Nat
    BY DEF Answer
  <2>1. CASE a.item = item[t]
    <3>1. PICK n \in loadOps[item[t]] : n <= a.op /\ a.op <= op
      BY <2>1 DEF AnswerInv
    <3>2. a.op = op
      <4>1. n = op /\ op \in Nat
        BY <1>3
      <4>2. op <= a.op /\ a.op <= op
        BY <3>1, <4>1
      <4> HIDE DEF TypeOK, LazyInv
      <4> QED
        BY <2>0, <4>1, <4>2
    <3> QED
      BY <1>4, <2>0, <2>1, <3>2 DEF AnswerInv
  <2>2. CASE a.item # item[t]
    BY <1>1, <1>4, <2>0, <2>2 DEF AnswerInv, Settled
  <2> QED
    BY <2>1, <2>2
<1>10. LoadedInOneOperation'
  BY <1>4 DEF LoadedInOneOperation
<1> QED
  BY <1>2, <1>5, <1>6, <1>7, <1>8, <1>9, <1>10

(* A call that ends adds one answer, which the database supports.          *)
LEMMA GiveInv ==
  ASSUME LazyInv, TypeOK', NEW t \in Threads, NEW v \in Value, Give(t, v),
         UNCHANGED <<op, db, nloads, base, loadOps, item>>,
         v.load > base, loadOps[item[t]] # {},
         op \notin loadOps[item[t]] => v = db[item[t]],
         LockInv', MissInv', HitInv'
  PROVE  LazyInv'
<1> USE DEF LazyInv, TypeOK
<1>1. AnswerInv'
  <2> SUFFICES ASSUME NEW a \in answers'
               PROVE  /\ a.value.load > base /\ a.op <= op
                      /\ \E n \in loadOps[a.item] : n <= a.op
                      /\ Settled(a)
    BY DEF AnswerInv, Settled
  <2>1. CASE a \in answers
    BY <2>1 DEF AnswerInv
  <2>2. CASE a = [item |-> item[t], op |-> op, value |-> v]
    <3>1. \A n \in loadOps[item[t]] : n <= op
      BY DEF DbInv
    <3> QED
      BY <2>2, <3>1 DEF Settled
  <2> QED
    BY <2>1, <2>2 DEF Give
<1> QED
  BY <1>1 DEF DbInv, LoadedInOneOperation

(* An answer keeps it, with an exception or what the item holds.           *)
LEMMA AnswerStepInv ==
  ASSUME LazyInv, TypeOK', NEW t \in Threads, Release(t) \/ Read(t)
  PROVE  LazyInv'
<1> USE LazyAssumption DEF LazyInv, TypeOK, mainVars, historyVars, callVars, Goto
<1>1. CASE Release(t)
  <2>1. LockInv'
    BY <1>1 DEF Release, LockInv
  <2>2. MissInv'
    BY <1>1 DEF Release, MissInv
  <2>3. op \in loadOps[item[t]] /\ mine[t].load > base
    BY <1>1 DEF Release, HitInv
  <2>4. HitInv'
    <3>1. Loaded(item[t])
      BY <2>3 DEF DbInv, Loaded
    <3> QED
      BY <1>1, <3>1 DEF Release, HitInv, Loaded
  <2>5. CASE Raises(t)
    BY <1>1, <2>1, <2>2, <2>3, <2>4, <2>5, GiveInv DEF Release
  <2>6. CASE ~Raises(t)
    BY <1>1, <2>1, <2>2, <2>4, <2>6, Frame DEF Release
  <2> QED
    BY <2>5, <2>6
<1>2. CASE Read(t)
  <2>1. LockInv' /\ MissInv' /\ HitInv'
    BY <1>2 DEF Read, LockInv, MissInv, HitInv, Loaded
  <2>2. Loaded(item[t])
    BY <1>2 DEF Read, HitInv
  <2>3. db[item[t]] \in Value /\ db[item[t]].load > base /\ loadOps[item[t]] # {}
    BY <2>2 DEF DbInv, Loaded
  <2> QED
    BY <1>2, <2>1, <2>3, GiveInv DEF Read
<1> QED
  BY <1>1, <1>2

(* The inductive invariant holds in every reachable state.                 *)
THEOREM Inductive == Spec => []LazyInv
<1>1. Init => LazyInv
  <2> SUFFICES ASSUME Init PROVE LazyInv
    OBVIOUS
  <2>1. TypeOK
    BY LazyAssumption DEF Init, TypeOK, Value, Nothing
  <2> QED
    BY <2>1 DEF Init, LazyInv, LockInv, MissInv, DbInv, HitInv, AnswerInv,
                LoadedInOneOperation, Nothing
<1>2. LazyInv /\ TypeOK' /\ [Next]_vars => LazyInv'
  <2> SUFFICES ASSUME LazyInv, TypeOK', [Next]_vars
               PROVE  LazyInv'
    OBVIOUS
  <2>1. CASE UNCHANGED vars
    BY <2>1, Frame DEF vars, mainVars, callVars, historyVars, LazyInv, LockInv, MissInv,
                       HitInv, Loaded
  <2>2. CASE StartOperation \/ EndCluster
    BY <2>2, MainStepInv
  <2>3. ASSUME NEW t \in Threads, ThreadStep(t)
        PROVE  LazyInv'
    BY <2>3, CallStepInv, LoadInv, AnswerStepInv DEF ThreadStep
  <2> QED
    BY <2>1, <2>2, <2>3 DEF Next
<1> QED
  BY <1>1, <1>2, TypeCorrect, PTL DEF Spec

(* All loads of an item on a cluster are made in one operation.            *)
THEOREM LoadedInOneOperationHolds == Spec => []LoadedInOneOperation
BY Inductive, PTL DEF LazyInv

(* After the operation that loads an item, all calls are told the same.    *)
THEOREM SettledAnswerHolds == Spec => []SettledAnswer
<1>1. LazyInv => SettledAnswer
  BY DEF LazyInv, AnswerInv, Settled, SettledAnswer
<1> QED
  BY <1>1, Inductive, PTL

(* No call is told what was loaded on an earlier cluster.                  *)
THEOREM FreshAnswerHolds == Spec => []FreshAnswer
<1>1. LazyInv => FreshAnswer
  BY DEF LazyInv, AnswerInv, FreshAnswer
<1> QED
  BY <1>1, Inductive, PTL

(* The lock keeps decorated functions from running at the same time.       *)
THEOREM OneLoadAtATimeHolds == Spec => []OneLoadAtATime
<1>1. LazyInv => OneLoadAtATime
  BY DEF LazyInv, LockInv, OneLoadAtATime
<1> QED
  BY <1>1, Inductive, PTL

-----------------------------------------------------------------------------
(* Who works with the lock, and what is raised.  A thread has an exception *)
(* of its own only until it releases the lock, and the lock is held only   *)
(* by a thread that is at work.                                            *)

AtWork(t) == pc[t] \in {"recheck", "load", "release"}

HolderInv == lock # NoThread => AtWork(lock)

OwnInv == \A t \in Threads : Raises(t) => pc[t] = "release"

(* Both hold always.                                                       *)
LEMMA HolderInvariant == Spec => [](HolderInv /\ OwnInv)
<1>1. Init => HolderInv /\ OwnInv
  BY DEF Init, HolderInv, OwnInv, Raises, Nothing
<1>2. TypeOK /\ LockInv /\ HolderInv /\ OwnInv /\ [Next]_vars => HolderInv' /\ OwnInv'
  <2> SUFFICES ASSUME TypeOK, LockInv, HolderInv, OwnInv, [Next]_vars
               PROVE  HolderInv' /\ OwnInv'
    OBVIOUS
  <2> USE LazyAssumption DEF TypeOK, HolderInv, OwnInv, AtWork, Raises, LockInv
  <2>1. CASE StartOperation \/ EndCluster
    BY <2>1 DEF StartOperation, EndCluster, callVars
  <2>2. CASE UNCHANGED vars
    BY <2>2 DEF vars
  <2>3. ASSUME NEW t \in Threads,
               (\E i \in Items : Ask(t, i)) \/ Check(t) \/ Acquire(t) \/ Recheck(t) \/ Finish(t)
        PROVE  HolderInv' /\ OwnInv'
    BY <2>3 DEF Ask, Check, Acquire, Recheck, Finish, Goto
  <2>4. ASSUME NEW t \in Threads, Load(t)
        PROVE  HolderInv' /\ OwnInv'
    BY <2>4 DEF Load, Goto
  <2>5. ASSUME NEW t \in Threads, Release(t)
        PROVE  HolderInv' /\ OwnInv'
    <3>1. mine' = [mine EXCEPT ![t] = Nothing] /\ lock' = NoThread
      BY <2>5 DEF Release
    <3>2. \A u \in Threads : u # t => pc'[u] = pc[u]
      BY <2>5 DEF Release, Goto
    <3> QED
      BY <3>1, <3>2 DEF Nothing
  <2>6. ASSUME NEW t \in Threads, Read(t)
        PROVE  HolderInv' /\ OwnInv'
    BY <2>6 DEF Read, Goto
  <2> QED
    BY <2>1, <2>2, <2>3, <2>4, <2>5, <2>6 DEF Next, ThreadStep
<1>3. LazyInv => TypeOK /\ LockInv
  BY DEF LazyInv
<1> QED
  BY <1>1, <1>2, <1>3, Inductive, PTL DEF Spec

(* Somebody can go on, by the conditions of the actions: the main thread,  *)
(* or a thread that does not wait for the lock or finds it free.           *)
NeverStuck ==
  cluster < MaxClusters =>
    \/ (\A t \in Threads : pc[t] = "idle") /\ (op < MaxOps \/ op > 0)
    \/ \E t \in Threads : pc[t] # "idle" /\ (pc[t] = "lock" => lock = NoThread)

(* The threads that queue for LazyDataLoader.threadLock wait for one that  *)
(* is loading and waits for nobody.  A cluster has at least one operation. *)
THEOREM NeverStuckHolds ==
  ASSUME MaxOps > 0
  PROVE  Spec => []NeverStuck
<1>1. LazyInv /\ HolderInv => NeverStuck
  BY LazyAssumption DEF LazyInv, TypeOK, HolderInv, AtWork, NeverStuck
<1> QED
  BY <1>1, Inductive, HolderInvariant, PTL

-----------------------------------------------------------------------------
(* One thread loads an item once.                                          *)

(* The only thread still misses the item it is about to load.              *)
OwnMissInv == \A t \in Threads : pc[t] \in {"lock", "recheck", "load"} => ~Loaded(item[t])

(* The comment of the module is true of one thread: what the run finds     *)
(* against it, a value that a second load replaces, needs two threads.     *)
THEOREM LoadedOnceHolds ==
  ASSUME \A s, t \in Threads : s = t
  PROVE  Spec => LoadedOnce
<1>1. Init => OwnMissInv
  BY DEF Init, OwnMissInv
<1>2. TypeOK /\ OwnMissInv /\ [Next]_vars => OwnMissInv'
  <2> SUFFICES ASSUME TypeOK, OwnMissInv, [Next]_vars
               PROVE  OwnMissInv'
    OBVIOUS
  <2> USE DEF TypeOK, OwnMissInv
  <2>1. CASE StartOperation \/ EndCluster
    BY <2>1 DEF StartOperation, EndCluster
  <2>2. CASE UNCHANGED vars
    BY <2>2 DEF vars, callVars, Loaded
  <2>3. ASSUME NEW t \in Threads, ThreadStep(t)
        PROVE  OwnMissInv'
    <3>1. (\A s \in Threads : s = t)
      OBVIOUS
    <3>2. CASE (\E i \in Items : Ask(t, i)) \/ Load(t) \/ Release(t) \/ Read(t) \/ Finish(t)
      BY <3>1, <3>2 DEF Ask, Load, Release, Read, Finish, Goto
    <3>3. CASE Check(t) \/ Acquire(t) \/ Recheck(t)
      BY <3>1, <3>3 DEF Check, Acquire, Recheck, Goto, callVars, Loaded
    <3> QED
      BY <2>3, <3>2, <3>3 DEF ThreadStep
  <2> QED
    BY <2>1, <2>2, <2>3 DEF Next
<1>3. TypeOK /\ OwnMissInv /\ [Next]_vars
      => [\A i \in Items : Loaded(i) => db'[i] \in {db[i], Nothing}]_vars
  <2> SUFFICES ASSUME TypeOK, OwnMissInv, Next, NEW i \in Items, Loaded(i)
               PROVE  db'[i] \in {db[i], Nothing}
    OBVIOUS
  <2>1. CASE StartOperation \/ EndCluster
    BY <2>1 DEF StartOperation, EndCluster
  <2>2. ASSUME NEW t \in Threads, ThreadStep(t), ~Load(t)
        PROVE  db'[i] \in {db[i], Nothing}
    BY <2>2 DEF ThreadStep, Ask, Check, Acquire, Recheck, Release, Read, Finish
  <2>3. ASSUME NEW t \in Threads, Load(t)
        PROVE  db'[i] \in {db[i], Nothing}
    BY <2>3 DEF Load, OwnMissInv, TypeOK
  <2> QED
    BY <2>1, <2>2, <2>3 DEF Next
<1> QED
  BY <1>1, <1>2, <1>3, TypeCorrect, PTL DEF Spec, LoadedOnce

-----------------------------------------------------------------------------
(* LazyDataLoader implements SharedLazyData.                               *)

(* No exception is on its way when no thread is about to release the lock. *)
LEMMA NothingRaised ==
  ASSUME OwnInv, \A t \in Threads : pc[t] # "release"
  PROVE  Raised = {}
BY DEF OwnInv, Raised

(* Only the holder of the lock has an exception on its way.                *)
LEMMA HolderRaises ==
  ASSUME LazyInv, OwnInv, NEW t \in Threads, pc[t] = "release"
  PROVE  Raised = IF Raises(t) THEN {[item |-> item[t], value |-> mine[t]]} ELSE {}
<1>1. \A u \in Threads : Raises(u) => u = t
  BY DEF LazyInv, LockInv, OwnInv
<1> QED
  BY <1>1 DEF Raised

(* A step that moves no value, no exception and no answer is not seen.     *)
LEMMA SharedStutter ==
  ASSUME UNCHANGED <<op, db, loadOps, nloads, answers>>, Raised' = Raised
  PROVE  UNCHANGED Shared!vars
BY DEF Shared!vars

(* An operation begins, or a cluster ends, in SharedLazyData as well.      *)
LEMMA SharedMainStep ==
  ASSUME LazyInv, OwnInv, OwnInv', StartOperation \/ EndCluster
  PROVE  Shared!Next
<1>1. (\A t \in Threads : pc[t] # "release") /\ \A t \in Threads : pc'[t] # "release"
  BY DEF StartOperation, EndCluster
<1>2. Raised = {} /\ Raised' = {}
  BY <1>1, NothingRaised DEF Raised, OwnInv
<1>3. CASE StartOperation
  <2>1. Shared!NextOperation
    BY <1>2, <1>3 DEF StartOperation, Shared!NextOperation, historyVars
  <2> QED
    BY <2>1 DEF Shared!Next
<1>4. CASE EndCluster
  <2>1. Shared!Forget
    BY <1>2, <1>4 DEF EndCluster, Shared!Forget
  <2> QED
    BY <2>1 DEF Shared!Next
<1> QED
  BY <1>3, <1>4

(* A load is one of SharedLazyData.                                        *)
LEMMA SharedLoad ==
  ASSUME LazyInv, OwnInv, OwnInv', NEW t \in Threads, Load(t)
  PROVE  Shared!Next
<1> USE DEF LazyInv, TypeOK
<1>1. PICK k \in Outcomes :
        /\ mine' = [mine EXCEPT ![t] = [load |-> nloads + 1, kind |-> k]]
        /\ db' = [db EXCEPT ![item[t]] = [load |-> nloads + 1, kind |-> k]]
  BY DEF Load
<1>2. PICK i \in Items : i = item[t]
  OBVIOUS
<1>3. /\ pc[t] = "load" /\ pc' = [pc EXCEPT ![t] = "release"] /\ UNCHANGED <<op, item, answers>>
      /\ nloads' = nloads + 1 /\ loadOps' = [loadOps EXCEPT ![i] = @ \cup {op}]
  BY <1>2 DEF Load, Goto, mainVars, callVars
<1>4. loadOps[i] \subseteq {op} /\ loadOps' = [loadOps EXCEPT ![i] = {op}]
  <2>1. loadOps[i] \subseteq {op}
    BY <1>2, <1>3 DEF MissInv
  <2>2. loadOps[i] \cup {op} = {op}
    BY <2>1
  <2> QED
    BY <1>3, <2>1, <2>2
<1>5. \A u \in Threads : pc[u] # "release"
  BY <1>3 DEF LockInv
<1>6. Raised = {}
  BY <1>5, NothingRaised
<1>7. Raised' = IF k = "exception" THEN {[item |-> i, value |-> [load |-> nloads + 1, kind |-> k]]} ELSE {}
  <2>1. \A u \in Threads : Raises(u)' => u = t
    BY <1>3, <1>5 DEF OwnInv
  <2>2. Raises(t)' <=> k = "exception"
    BY <1>1 DEF Raises
  <2>3. item'[t] = i /\ mine'[t] = [load |-> nloads + 1, kind |-> k]
    BY <1>1, <1>2, <1>3
  <2> QED
    BY <2>1, <2>2, <2>3 DEF Raised
<1>8. Shared!Load(i, k)
  BY <1>1, <1>2, <1>3, <1>4, <1>6, <1>7 DEF Shared!Load
<1> QED
  BY <1>8 DEF Shared!Next

(* Every other step of a thread is one of it or is not seen by it.         *)
LEMMA SharedThreadStep ==
  ASSUME LazyInv, OwnInv, OwnInv', NEW t \in Threads, ThreadStep(t)
  PROVE  Shared!Next \/ UNCHANGED Shared!vars
<1> USE DEF LazyInv, TypeOK
<1>1. ASSUME NEW i \in Items, Ask(t, i)
      PROVE  UNCHANGED Shared!vars
  <2>1. UNCHANGED <<op, mine, db, loadOps, nloads, answers>> /\ ~Raises(t)
        /\ \A u \in Threads : u # t => item'[u] = item[u]
    BY <1>1 DEF Ask, mainVars, historyVars, OwnInv
  <2>2. {u \in Threads : Raises(u)}' = {u \in Threads : Raises(u)}
    BY <2>1 DEF Raises
  <2>3. Raised' = Raised
    BY <2>1, <2>2 DEF Raised
  <2> QED
    BY <2>1, <2>3, SharedStutter
<1>2. CASE Check(t) \/ Acquire(t) \/ Recheck(t) \/ Finish(t)
  <2>1. UNCHANGED <<op, mine, item, db, loadOps, nloads, answers>>
    BY <1>2 DEF Check, Acquire, Recheck, Finish, mainVars, callVars, historyVars
  <2>2. Raised' = Raised
    BY <2>1 DEF Raised, Raises
  <2> QED
    BY <2>1, <2>2, SharedStutter
<1>3. CASE Load(t)
  BY <1>3, SharedLoad
<1>4. CASE Release(t)
  <2>1. /\ pc[t] = "release" /\ UNCHANGED <<op, db, loadOps, nloads, item>>
        /\ mine' = [mine EXCEPT ![t] = Nothing]
    BY <1>4 DEF Release, mainVars, callVars, historyVars
  <2>2. \A u \in Threads : ~Raises(u)'
    BY <2>1 DEF LockInv, OwnInv, Raises, Nothing
  <2>3. Raised' = {}
    BY <2>2 DEF Raised
  <2>4. CASE Raises(t)
    <3>1. Raised = {[item |-> item[t], value |-> mine[t]]}
      BY <2>1, <2>4, HolderRaises
    <3>2. answers' = answers \cup {[item |-> item[t], op |-> op, value |-> mine[t]]}
      BY <1>4, <2>4 DEF Release, Give
    <3>3. Shared!Raise
      BY <2>1, <2>3, <3>1, <3>2 DEF Shared!Raise, Shared!Told
    <3> QED
      BY <3>3 DEF Shared!Next
  <2>5. CASE ~Raises(t)
    <3>1. Raised = {}
      BY <2>1, <2>5, HolderRaises
    <3>2. UNCHANGED answers
      BY <1>4, <2>5 DEF Release
    <3> QED
      BY <2>1, <2>3, <3>1, <3>2, SharedStutter
  <2> QED
    BY <2>4, <2>5
<1>5. CASE Read(t)
  <2>1. /\ pc[t] = "read" /\ UNCHANGED <<op, mine, item, db, loadOps, nloads>>
        /\ answers' = answers \cup {[item |-> item[t], op |-> op, value |-> db[item[t]]]}
    BY <1>5 DEF Read, Give, mainVars, callVars, historyVars
  <2>2. Raised' = Raised
    BY <2>1 DEF Raised, Raises
  <2>3. PICK i \in Items : i = item[t] /\ loadOps[i] # {}
    BY <2>1 DEF HitInv, DbInv, Loaded
  <2>4. Shared!Reply(i)
    BY <2>1, <2>2, <2>3 DEF Shared!Reply, Shared!Told
  <2> QED
    BY <2>4 DEF Shared!Next
<1> QED
  BY <1>1, <1>2, <1>3, <1>4, <1>5 DEF ThreadStep

(* With any number of threads, items and clusters the loader implements    *)
(* SharedLazyData: what callers see are loads within one operation, each   *)
(* exception raised to the call that met it before the next load.          *)
THEOREM SharedDataHolds == Spec => SharedData
<1>1. Init => Shared!Init
  <2> SUFFICES ASSUME Init PROVE Shared!Init
    OBVIOUS
  <2>1. Raised = {}
    BY DEF Init, Raised, Raises, Nothing
  <2> QED
    BY <2>1 DEF Init, Shared!Init
<1>2. LazyInv /\ OwnInv /\ OwnInv' /\ [Next]_vars => [Shared!Next]_Shared!vars
  <2> SUFFICES ASSUME LazyInv, OwnInv, OwnInv', [Next]_vars
               PROVE  [Shared!Next]_Shared!vars
    OBVIOUS
  <2>1. CASE UNCHANGED vars
    <3>1. UNCHANGED <<op, mine, item, db, loadOps, nloads, answers>>
      BY <2>1 DEF vars, mainVars, callVars, historyVars
    <3>2. Raised' = Raised
      BY <3>1 DEF Raised, Raises
    <3> QED
      BY <3>1, <3>2, SharedStutter
  <2> QED
    BY <2>1, SharedMainStep, SharedThreadStep DEF Next
<1> QED
  BY <1>1, <1>2, Inductive, HolderInvariant, PTL DEF Spec, SharedData, Shared!Spec
=============================================================================
