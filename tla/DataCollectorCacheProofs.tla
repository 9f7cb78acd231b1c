------------------------ MODULE DataCollectorCacheProofs ------------------------
(***************************************************************************)
(* Proofs about DataCollectorCache, for any number of validators, source   *)
(* hosts, collectors, operations and flows.                                *)
(***************************************************************************)
EXTENDS DataCollectorCache, TLAPS

(* The type invariant of the cache holds in every reachable state.         *)
THEOREM TypeCorrect == Spec => []TypeOK
<1>1. Init => TypeOK
  BY CacheAssumption DEF Init, TypeOK, Entry, NoEntry, Key, Worker
<1>2. TypeOK /\ [Next]_vars => TypeOK'
  <2> SUFFICES ASSUME TypeOK, [Next]_vars
               PROVE  TypeOK'
    OBVIOUS
  <2> USE CacheAssumption DEF TypeOK
  <2>1. CASE StartOperation
    BY <2>1 DEF StartOperation, workerVars, cacheVars
  <2>2. CASE EndFlow
    BY <2>2 DEF EndFlow, validatorVars, workerVars, Entry, NoEntry
  <2>3. ASSUME NEW v \in Validators, NEW r \in Requests, CollectAllData(v, r)
        PROVE  TypeOK'
    BY <2>3 DEF CollectAllData, mainVars, cacheVars, Entry, NoEntry, Worker
  <2>4. ASSUME NEW v \in Validators, Collected(v)
        PROVE  TypeOK'
    BY <2>4 DEF Collected, mainVars, cacheVars
  <2>5. ASSUME NEW v \in Validators, FinishValidation(v)
        PROVE  TypeOK'
    BY <2>5 DEF FinishValidation, mainVars, workerVars, cacheVars
  <2> USE DEF mainVars, validatorVars, cacheVars, Goto
  <2>6. ASSUME NEW w \in Worker, Check(w)
        PROVE  TypeOK'
    BY <2>6 DEF Check
  <2>7. ASSUME NEW w \in Worker, Acquire(w)
        PROVE  TypeOK'
    BY <2>7 DEF Acquire
  <2>8. ASSUME NEW w \in Worker, Recheck(w)
        PROVE  TypeOK'
    BY <2>8 DEF Recheck
  <2>9. ASSUME NEW w \in Worker, Collect(w)
        PROVE  TypeOK'
    <3>1. KeyOf(w) \in Key
      BY DEF KeyOf, Key, Worker
    <3>2. PICK n \in Nat : /\ n = nloads + 1
                          /\ \/ cache' = [cache EXCEPT ![KeyOf(w)].data = n]
                             \/ cache' = [cache EXCEPT ![KeyOf(w)].exception = n]
      BY <2>9 DEF Collect
    <3>3. cache' \in [Key -> Entry]
      <4>1. CASE cache' = [cache EXCEPT ![KeyOf(w)].data = n]
        BY <4>1 DEF Entry
      <4>2. CASE cache' = [cache EXCEPT ![KeyOf(w)].exception = n]
        BY <4>2 DEF Entry
      <4> QED
        BY <3>2, <4>1, <4>2
    <3> QED
      BY <2>9, <3>1, <3>3 DEF Collect
  <2>10. ASSUME NEW w \in Worker, StoreBashCmdLines(w)
         PROVE  TypeOK'
    <3>1. cache' \in [Key -> Entry]
      BY <2>10 DEF StoreBashCmdLines, Entry
    <3> QED
      BY <2>10, <3>1 DEF StoreBashCmdLines
  <2>11. ASSUME NEW w \in Worker, StoreValidationLog(w)
         PROVE  TypeOK'
    <3>1. cache' \in [Key -> Entry]
      BY <2>11 DEF StoreValidationLog, Entry
    <3> QED
      BY <2>11, <3>1 DEF StoreValidationLog
  <2>12. ASSUME NEW w \in Worker, AssertLoaded(w)
         PROVE  TypeOK'
    BY <2>12 DEF AssertLoaded
  <2>13. ASSUME NEW w \in Worker, Read(w)
         PROVE  TypeOK'
    <3>1. KeyOf(w) \in Key
      BY DEF KeyOf, Key, Worker
    <3> QED
      BY <2>13, <3>1 DEF Read
  <2>14. CASE UNCHANGED vars
    BY <2>14 DEF vars, workerVars
  <2> QED
    BY <2>1, <2>2, <2>3, <2>4, <2>5, <2>6, <2>7, <2>8, <2>9, <2>10, <2>11, <2>12, <2>13, <2>14
    DEF Next, ValidatorStep, WorkerStep
<1> QED
  BY <1>1, <1>2, PTL DEF Spec

-----------------------------------------------------------------------------
(* The inductive invariant.  The lock has at most one holder; a loader     *)
(* found the entry empty and is the only one to write it; an entry that    *)
(* is not empty was loaded once, and is whole unless its loader is still   *)
(* between its assignments; whoever is about to read found it whole.       *)

Holding == {"recheck", "collect", "bash", "log"}

OneOutcome(e) == e.data = 0 <=> e.exception # 0

WholeEntry(e) ==
  /\ OneOutcome(e)
  /\ e.bash_cmd_lines = Content(e) /\ e.validation_log = Content(e)
  /\ Content(e) > base

Empty(k) == cache[k] = NoEntry /\ loads[k] = 0

LockInv == \A w \in Worker : wpc[w] \in Holding <=> lock = w

JoinInv == \A w \in Worker : vpc[w[1]] # "joining" => wpc[w] = "off"

Loading(w) ==
  LET e == cache[KeyOf(w)] IN
  OneOutcome(e) /\ Content(e) = mine[w] /\ mine[w] > base /\ e.validation_log = 0

PhaseInv ==
  \A w \in Worker :
    /\ wpc[w] = "collect" => Empty(KeyOf(w))
    /\ wpc[w] = "bash" => Loading(w) /\ cache[KeyOf(w)].bash_cmd_lines = 0
    /\ wpc[w] = "log" => Loading(w) /\ cache[KeyOf(w)].bash_cmd_lines = mine[w]
    /\ wpc[w] = "read" => WholeEntry(cache[KeyOf(w)])

LoadedBy(w, k) == wpc[w] \in {"bash", "log"} /\ KeyOf(w) = k

KeyInv ==
  \A k \in Key :
    \/ Empty(k)
    \/ /\ loads[k] = 1
       /\ WholeEntry(cache[k]) \/ \E w \in Worker : LoadedBy(w, k)

AnswerInv == \A a \in answers : a.entry = cache[a.key] /\ WholeEntry(a.entry)

CacheInv ==
  /\ TypeOK
  /\ base <= nloads
  /\ LockInv /\ JoinInv /\ PhaseInv /\ KeyInv /\ AnswerInv

(* The invariant holds at first.                                           *)
LEMMA CacheInvInit == Init => CacheInv
<1> SUFFICES ASSUME Init PROVE CacheInv
  OBVIOUS
<1>1. TypeOK
  BY CacheAssumption DEF Init, TypeOK, Entry, NoEntry, Key, Worker
<1>2. base <= nloads /\ LockInv /\ JoinInv /\ PhaseInv /\ KeyInv /\ AnswerInv
  BY CacheAssumption
  DEF Init, LockInv, Holding, JoinInv, PhaseInv, KeyInv, Empty, AnswerInv
<1> QED
  BY <1>1, <1>2 DEF CacheInv

(* The steps that neither write the cache nor move a thread into or out of *)
(* the lock: the main thread's and the validators'.                        *)
LEMMA ControlStep ==
  ASSUME CacheInv, TypeOK',
         \/ StartOperation \/ EndFlow
         \/ \E v \in Validators : ValidatorStep(v)
         \/ UNCHANGED vars
  PROVE  CacheInv'
<1> USE DEF CacheInv
<1>1. CASE StartOperation
  <2>1. UNCHANGED <<wpc, mine, lock, cache, loads, nloads, base, answers, req>>
    BY <1>1 DEF StartOperation, workerVars, cacheVars
  <2>2. JoinInv'
    BY <1>1 DEF StartOperation, JoinInv, TypeOK, Worker, workerVars
  <2> QED
    BY <2>1, <2>2 DEF LockInv, PhaseInv, KeyInv, AnswerInv, Empty, Loading, KeyOf, LoadedBy, WholeEntry, Content, OneOutcome
<1>2. CASE EndFlow
  <2>1. \A w \in Worker : wpc'[w] = "off" /\ wpc[w] = "off"
    BY <1>2 DEF EndFlow, JoinInv, workerVars, Worker
  <2>2. JoinInv' /\ LockInv' /\ PhaseInv'
    BY <2>1, <1>2 DEF EndFlow, JoinInv, LockInv, PhaseInv, Holding, workerVars, validatorVars
  <2>3. KeyInv' /\ AnswerInv' /\ base' <= nloads'
    BY <1>2 DEF EndFlow, KeyInv, Empty, AnswerInv, NoEntry, TypeOK, Key
  <2> QED
    BY <2>2, <2>3
<1>3. ASSUME NEW v \in Validators, NEW r \in Requests, CollectAllData(v, r)
      PROVE  CacheInv'
  <2>1. UNCHANGED <<lock, cache, loads, nloads, base, answers>>
    BY <1>3 DEF CollectAllData, cacheVars
  <2>2. \A w \in Worker : w[1] = v => wpc[w] = "off"
    BY <1>3 DEF CollectAllData, JoinInv
  <2>3. \A w \in Worker : w[1] = v => wpc'[w] \in {"off", "check"}
    BY <2>2, <1>3 DEF CollectAllData, TypeOK
  <2>4. \A w \in Worker : w[1] # v => wpc'[w] = wpc[w] /\ mine'[w] = mine[w] /\ KeyOf(w)' = KeyOf(w)
    BY <1>3 DEF CollectAllData, TypeOK, KeyOf, Worker
  <2>5. LockInv'
    BY <2>1, <2>2, <2>3, <2>4 DEF LockInv, Holding
  <2>6. JoinInv'
    BY <1>3, <2>2, <2>4 DEF CollectAllData, JoinInv, TypeOK, Worker
  <2>7. PhaseInv'
    <3> SUFFICES ASSUME NEW w \in Worker
                 PROVE  /\ wpc'[w] = "collect" => Empty(KeyOf(w))'
                        /\ wpc'[w] = "bash" => Loading(w)' /\ cache'[KeyOf(w)'].bash_cmd_lines = 0
                        /\ wpc'[w] = "log" => Loading(w)' /\ cache'[KeyOf(w)'].bash_cmd_lines = mine'[w]
                        /\ wpc'[w] = "read" => WholeEntry(cache[KeyOf(w)])'
      BY DEF PhaseInv
    <3>1. CASE w[1] = v
      BY <3>1, <2>3
    <3>2. CASE w[1] # v
      BY <3>2, <2>1, <2>4 DEF PhaseInv, Empty, Loading, WholeEntry, Content, OneOutcome
    <3> QED
      BY <3>1, <3>2
  <2>8. KeyInv'
    <3>1. \A w \in Worker, k \in Key : LoadedBy(w, k) => LoadedBy(w, k)'
      BY <2>2, <2>4 DEF LoadedBy
    <3> QED
      BY <2>1, <3>1 DEF KeyInv, Empty, WholeEntry, Content, OneOutcome
  <2> QED
    BY <2>1, <2>5, <2>6, <2>7, <2>8 DEF AnswerInv, WholeEntry, Content, OneOutcome
<1>4. ASSUME NEW v \in Validators, Collected(v)
      PROVE  CacheInv'
  <2>1. UNCHANGED <<mine, lock, cache, loads, nloads, base, answers, req>>
    BY <1>4 DEF Collected, cacheVars
  <2>2. \A w \in Worker : w[1] = v => wpc[w] \in {"off", "done", "died"} /\ wpc'[w] = "off"
    BY <1>4 DEF Collected, Ended, TypeOK, Worker
  <2>3. \A w \in Worker : w[1] # v => wpc'[w] = wpc[w]
    BY <1>4 DEF Collected, TypeOK
  <2>4. JoinInv'
    BY <1>4, <2>2, <2>3 DEF Collected, JoinInv, TypeOK, Worker
  <2>5. LockInv'
    BY <2>1, <2>2, <2>3 DEF LockInv, Holding
  <2>6. PhaseInv'
    BY <2>1, <2>2, <2>3 DEF PhaseInv, Empty, Loading, KeyOf, WholeEntry, Content, OneOutcome
  <2>7. KeyInv'
    <3>1. \A w \in Worker, k \in Key : LoadedBy(w, k) => LoadedBy(w, k)'
      BY <2>1, <2>2, <2>3 DEF LoadedBy, KeyOf
    <3> QED
      BY <2>1, <3>1 DEF KeyInv, Empty, WholeEntry, Content, OneOutcome
  <2> QED
    BY <2>1, <2>4, <2>5, <2>6, <2>7 DEF AnswerInv, WholeEntry, Content, OneOutcome
<1>5. ASSUME NEW v \in Validators, FinishValidation(v)
      PROVE  CacheInv'
  <2>1. UNCHANGED <<wpc, mine, lock, cache, loads, nloads, base, answers, req>>
    BY <1>5 DEF FinishValidation, workerVars, cacheVars
  <2>2. JoinInv'
    BY <1>5, <2>1 DEF FinishValidation, JoinInv, TypeOK, Worker
  <2> QED
    BY <2>1, <2>2 DEF LockInv, PhaseInv, KeyInv, AnswerInv, Empty, Loading, KeyOf, LoadedBy, WholeEntry, Content, OneOutcome
<1>6. CASE UNCHANGED vars
  <2>1. UNCHANGED <<vpc, wpc, mine, lock, cache, loads, nloads, base, answers, req>>
    BY <1>6 DEF vars, validatorVars, workerVars, cacheVars
  <2> QED
    BY <2>1 DEF LockInv, JoinInv, PhaseInv, KeyInv, AnswerInv, Empty, Loading, KeyOf, LoadedBy, WholeEntry, Content, OneOutcome
<1> QED
  BY <1>1, <1>2, <1>3, <1>4, <1>5, <1>6 DEF ValidatorStep

(* A collector thread's step: it is the thread's own, so the invariant     *)
(* about the other threads is disturbed only through the cache and the     *)
(* lock, and the lock keeps all of them away from an entry being filled.   *)
LEMMA CollectorStep ==
  ASSUME CacheInv, TypeOK', NEW w \in Worker, WorkerStep(w)
  PROVE  CacheInv'
<1> USE DEF CacheInv
<1>0. PICK k \in Key : k = KeyOf(w) /\ cache[k] \in Entry /\ vpc[w[1]] = "joining" /\ wpc[w] # "off"
  BY DEF KeyOf, Key, Worker, TypeOK, JoinInv, WorkerStep, Check, Acquire, Recheck, Collect,
         StoreBashCmdLines, StoreValidationLog, AssertLoaded, Read
<1>1. /\ UNCHANGED <<vpc, req>>
      /\ \A x \in Worker : KeyOf(x)' = KeyOf(x)
      /\ \A x \in Worker : x # w => wpc'[x] = wpc[x] /\ mine'[x] = mine[x]
  BY <1>0 DEF WorkerStep, Check, Acquire, Recheck, Collect, StoreBashCmdLines, StoreValidationLog,
         AssertLoaded, Read, Goto, validatorVars, TypeOK, KeyOf
<1>2. JoinInv'
  BY <1>0, <1>1 DEF JoinInv
<1>3. ~(\E x \in Worker : x # w /\ wpc[x] \in Holding) \/ wpc[w] \notin Holding
  BY <1>0 DEF LockInv
<1>4. ASSUME UNCHANGED <<cache, loads, nloads, base, mine>>, wpc'[w] \notin {"collect", "bash", "log", "read"},
             wpc[w] \notin {"bash", "log"}
      PROVE  PhaseInv' /\ KeyInv'
  <2>1. PhaseInv'
    BY <1>0, <1>1, <1>4 DEF PhaseInv, Empty, Loading, WholeEntry, Content, OneOutcome
  <2>2. \A x \in Worker, j \in Key : LoadedBy(x, j) => LoadedBy(x, j)'
    BY <1>0, <1>1, <1>4 DEF LoadedBy
  <2> QED
    BY <1>0, <1>4, <2>1, <2>2 DEF KeyInv, Empty, WholeEntry, Content, OneOutcome
<1>5. ASSUME UNCHANGED <<cache, base, answers>>
      PROVE  AnswerInv'
  BY <1>0, <1>5 DEF AnswerInv, WholeEntry, Content, OneOutcome
<1>6. CASE Check(w)
  <2>1. UNCHANGED <<lock, cache, loads, nloads, base, mine, answers>> /\ wpc'[w] \in {"died", "assert", "lock"}
    BY <1>0, <1>6 DEF Check, Goto, cacheVars, TypeOK
  <2>2. LockInv'
    BY <1>0, <1>1, <1>6, <2>1 DEF LockInv, Holding, Check
  <2> QED
    BY <1>0, <1>2, <1>4, <1>5, <1>6, <2>1, <2>2 DEF Check
<1>7. CASE Acquire(w)
  <2>1. UNCHANGED <<cache, loads, nloads, base, mine, answers>> /\ wpc'[w] = "recheck"
    BY <1>0, <1>7 DEF Acquire, Goto, cacheVars, TypeOK
  <2>2. LockInv'
    BY <1>0, <1>1, <1>7, <2>1, CacheAssumption DEF LockInv, Holding, Acquire
  <2> QED
    BY <1>0, <1>2, <1>4, <1>5, <1>7, <2>1, <2>2 DEF Acquire
<1>8. CASE Recheck(w)
  <2>1. UNCHANGED <<cache, loads, nloads, base, mine, answers>>
    BY <1>0, <1>8 DEF Recheck, Goto, cacheVars
  <2>2. CASE Filled(k)
    <3>1. wpc'[w] \in {"died", "assert"} /\ lock' = NoWorker
      BY <1>0, <1>8, <2>2 DEF Recheck, Goto, TypeOK
    <3>2. LockInv'
      BY <1>0, <1>1, <1>8, <3>1, CacheAssumption DEF LockInv, Holding, Recheck
    <3> QED
      BY <1>0, <1>2, <1>4, <1>5, <1>8, <2>1, <3>1, <3>2 DEF Recheck
  <2>3. CASE ~Filled(k)
    <3>1. wpc'[w] = "collect" /\ UNCHANGED lock
      BY <1>0, <1>8, <2>3 DEF Recheck, Goto, TypeOK
    <3>2. LockInv'
      BY <1>0, <1>1, <1>8, <3>1 DEF LockInv, Holding, Recheck
    <3>3. Empty(k)
      <4>1. ~\E x \in Worker : LoadedBy(x, k)
        BY <1>0, <1>3, <1>8 DEF LoadedBy, Holding, Recheck
      <4>2. ~WholeEntry(cache[k])
        BY <2>3, <1>0 DEF WholeEntry, Filled, OneOutcome
      <4> QED
        BY <4>1, <4>2, <1>0 DEF KeyInv
    <3>4. PhaseInv'
      BY <1>0, <1>1, <2>1, <3>1, <3>3 DEF PhaseInv, Empty, Loading, WholeEntry, Content, OneOutcome
    <3>5. \A x \in Worker, j \in Key : LoadedBy(x, j) => LoadedBy(x, j)'
      BY <1>0, <1>1, <1>8 DEF LoadedBy, Recheck
    <3>6. KeyInv'
      BY <1>0, <2>1, <3>5 DEF KeyInv, Empty, WholeEntry, Content, OneOutcome
    <3> QED
      BY <1>0, <1>2, <1>5, <2>1, <3>2, <3>4, <3>6
  <2> QED
    BY <1>0, <2>2, <2>3
<1>9. CASE AssertLoaded(w)
  <2>1. UNCHANGED <<lock, cache, loads, nloads, base, mine, answers>> /\ wpc'[w] \in {"died", "read"}
    BY <1>0, <1>9 DEF AssertLoaded, Goto, cacheVars, TypeOK
  <2>2. LockInv'
    BY <1>0, <1>1, <1>9, <2>1 DEF LockInv, Holding, AssertLoaded
  <2>3. CASE wpc'[w] = "died"
    BY <1>0, <1>2, <1>4, <1>5, <1>9, <2>1, <2>2, <2>3 DEF AssertLoaded
  <2>4. CASE wpc'[w] = "read"
    <3>1. Filled(k) /\ ~Torn(k)
      BY <1>0, <1>9, <2>4 DEF AssertLoaded, Goto, TypeOK
    <3>2. WholeEntry(cache[k])
      <4>1. ~Empty(k)
        BY <1>0, <3>1 DEF Empty, Filled, NoEntry
      <4>2. ASSUME NEW x \in Worker, LoadedBy(x, k)
            PROVE  FALSE
        BY <1>0, <3>1, <4>2 DEF LoadedBy, PhaseInv, Loading, Torn
      <4> QED
        BY <1>0, <4>1, <4>2 DEF KeyInv
    <3>3. PhaseInv'
      BY <1>0, <1>1, <2>1, <2>4, <3>2 DEF PhaseInv, Empty, Loading, WholeEntry, Content, OneOutcome
    <3>4. \A x \in Worker, j \in Key : LoadedBy(x, j) => LoadedBy(x, j)'
      BY <1>0, <1>1, <1>9 DEF LoadedBy, AssertLoaded
    <3>5. KeyInv'
      BY <1>0, <2>1, <3>4 DEF KeyInv, Empty, WholeEntry, Content, OneOutcome
    <3> QED
      BY <1>0, <1>2, <1>5, <2>1, <2>2, <3>3, <3>5
  <2> QED
    BY <1>0, <2>1, <2>3, <2>4
<1>10. CASE Read(w)
  <2>1. UNCHANGED <<lock, cache, loads, nloads, base, mine>> /\ wpc'[w] = "done"
    BY <1>0, <1>10 DEF Read, Goto, cacheVars, TypeOK
  <2>2. LockInv'
    BY <1>0, <1>1, <1>10, <2>1 DEF LockInv, Holding, Read
  <2>3. AnswerInv'
    <3>1. answers' = answers \cup {[caller |-> w, key |-> k, entry |-> cache[k]]} /\ WholeEntry(cache[k])
      BY <1>0, <1>10 DEF Read, PhaseInv
    <3> QED
      BY <1>0, <2>1, <3>1 DEF AnswerInv, WholeEntry, Content, OneOutcome
  <2> QED
    BY <1>0, <1>2, <1>4, <1>10, <2>1, <2>2, <2>3 DEF Read
<1>11. ASSUME wpc[w] \in Holding, wpc'[w] \in {"bash", "log", "assert"},
              \A j \in Key : j # k => cache'[j] = cache[j] /\ loads'[j] = loads[j],
              UNCHANGED base
       PROVE  /\ \A x \in Worker : x # w => wpc'[x] \notin Holding
              /\ \A j \in Key : j # k => /\ WholeEntry(cache[j])' <=> WholeEntry(cache[j])
                                         /\ Empty(j)' <=> Empty(j)
              /\ \A x \in Worker, j \in Key : j # k => (LoadedBy(x, j) => LoadedBy(x, j)')
  <2>1. \A x \in Worker : x # w => wpc'[x] \notin Holding
    BY <1>0, <1>1, <1>3, <1>11
  <2>2. \A j \in Key : j # k => /\ WholeEntry(cache[j])' <=> WholeEntry(cache[j])
                                /\ Empty(j)' <=> Empty(j)
    BY <1>0, <1>11 DEF WholeEntry, Content, OneOutcome, Empty
  <2>3. \A x \in Worker, j \in Key : j # k => (LoadedBy(x, j) => LoadedBy(x, j)')
    BY <1>0, <1>1 DEF LoadedBy
  <2> QED
    BY <1>0, <2>1, <2>2, <2>3
<1>12. ASSUME wpc[w] \in Holding, \A x \in Worker : x # w => wpc'[x] \notin Holding,
              wpc'[w] \in {"bash", "log"}, UNCHANGED lock
       PROVE  LockInv'
  BY <1>0, <1>12 DEF LockInv, Holding
<1>13. CASE Collect(w)
  <2>1. Empty(k) /\ wpc[w] = "collect"
    BY <1>0, <1>13 DEF Collect, PhaseInv
  <2>2. /\ wpc'[w] = "bash" /\ mine'[w] = nloads + 1 /\ nloads' = nloads + 1
        /\ UNCHANGED <<lock, base, answers>>
        /\ \A j \in Key : j # k => cache'[j] = cache[j] /\ loads'[j] = loads[j]
        /\ loads'[k] = 1
    BY <1>0, <1>13, <2>1 DEF Collect, Goto, TypeOK, Empty
  <2>3. /\ OneOutcome(cache'[k]) /\ Content(cache'[k]) = nloads + 1
        /\ cache'[k].validation_log = 0 /\ cache'[k].bash_cmd_lines = 0
    <3>1. CASE cache' = [cache EXCEPT ![k].data = nloads + 1]
      <4>1. cache'[k] = [NoEntry EXCEPT !.data = nloads + 1]
        BY <1>0, <2>1, <3>1 DEF TypeOK, Empty
      <4> QED
        BY <1>0, <4>1 DEF NoEntry, OneOutcome, Content, TypeOK
    <3>2. CASE cache' = [cache EXCEPT ![k].exception = nloads + 1]
      <4>1. cache'[k] = [NoEntry EXCEPT !.exception = nloads + 1]
        BY <1>0, <2>1, <3>2 DEF TypeOK, Empty
      <4> QED
        BY <1>0, <4>1 DEF NoEntry, OneOutcome, Content, TypeOK
    <3> QED
      BY <1>0, <1>13, <3>1, <3>2 DEF Collect
  <2>4. LockInv'
    BY <1>0, <1>11, <1>12, <2>1, <2>2 DEF Holding
  <2>5. PhaseInv'
    <3>1. Loading(w)'
      BY <1>0, <1>1, <2>2, <2>3 DEF Loading, TypeOK
    <3>2. \A x \in Worker : x # w /\ wpc'[x] = "read" => WholeEntry(cache[KeyOf(x)])'
      <4> SUFFICES ASSUME NEW x \in Worker, x # w, wpc'[x] = "read"
                   PROVE  WholeEntry(cache[KeyOf(x)])'
        OBVIOUS
      <4>1. WholeEntry(cache[KeyOf(x)]) /\ KeyOf(x) \in Key
        BY <1>0, <1>1 DEF PhaseInv, KeyOf, Key, Worker, TypeOK
      <4>2. KeyOf(x) # k
        BY <1>0, <2>1, <4>1 DEF Empty, NoEntry, WholeEntry, OneOutcome
      <4> QED
        BY <1>0, <1>1, <2>2, <4>1, <4>2 DEF WholeEntry, Content, OneOutcome
    <3> QED
      BY <1>0, <1>1, <1>11, <2>1, <2>2, <2>3, <3>1, <3>2 DEF PhaseInv, Holding
  <2>6. KeyInv'
    <3>1. LoadedBy(w, k)'
      BY <1>0, <1>1, <2>2 DEF LoadedBy
    <3>2. ASSUME NEW j \in Key, j # k
          PROVE  \/ Empty(j)'
                 \/ loads'[j] = 1 /\ (WholeEntry(cache[j])' \/ \E x \in Worker : LoadedBy(x, j)')
      <4>1. /\ WholeEntry(cache[j])' <=> WholeEntry(cache[j])
            /\ Empty(j)' <=> Empty(j)
            /\ \A x \in Worker : LoadedBy(x, j) => LoadedBy(x, j)'
        BY <1>0, <1>11, <2>1, <2>2, <3>2 DEF Holding
      <4> QED
        BY <1>0, <2>2, <3>2, <4>1 DEF KeyInv
    <3> QED
      BY <1>0, <2>2, <3>1, <3>2 DEF KeyInv
  <2>7. AnswerInv'
    <3> SUFFICES ASSUME NEW a \in answers PROVE a.entry = cache'[a.key] /\ WholeEntry(a.entry)'
      BY <1>0, <2>2 DEF AnswerInv
    <3>1. a.entry = cache[a.key] /\ WholeEntry(a.entry) /\ a.key \in Key
      BY <1>0 DEF AnswerInv, TypeOK
    <3>2. a.key # k
      BY <1>0, <2>1, <3>1 DEF Empty, NoEntry, WholeEntry, OneOutcome
    <3> QED
      BY <1>0, <2>2, <3>1, <3>2 DEF WholeEntry, Content, OneOutcome
  <2> QED
    BY <1>0, <1>2, <2>2, <2>4, <2>5, <2>6, <2>7 DEF TypeOK
<1>14. ASSUME wpc[w] \in {"bash", "log"},
              \A j \in Key : j # k => cache'[j] = cache[j],
              Content(cache'[k]) = Content(cache[k]), UNCHANGED <<base, loads, answers>>,
              ~WholeEntry(cache[k])
       PROVE  /\ AnswerInv'
              /\ \A x \in Worker : x # w /\ wpc'[x] = "read" => WholeEntry(cache[KeyOf(x)])'
              /\ loads[k] = 1
  <2>1. AnswerInv'
    <3> SUFFICES ASSUME NEW a \in answers
                 PROVE  a.entry = cache'[a.key] /\ WholeEntry(a.entry)'
      BY <1>14 DEF AnswerInv
    <3>1. a.entry = cache[a.key] /\ WholeEntry(a.entry) /\ a.key \in Key
      BY DEF AnswerInv, TypeOK
    <3> QED
      BY <1>14, <3>1 DEF WholeEntry, Content, OneOutcome
  <2>2. ASSUME NEW x \in Worker, x # w, wpc'[x] = "read"
        PROVE  WholeEntry(cache[KeyOf(x)])'
    <3>1. WholeEntry(cache[KeyOf(x)]) /\ KeyOf(x) \in Key
      BY <1>1, <2>2 DEF PhaseInv, KeyOf, Key, Worker, TypeOK
    <3> QED
      BY <1>1, <1>14, <2>2, <3>1 DEF WholeEntry, Content, OneOutcome
  <2>3. loads[k] = 1
    <3>1. ~Empty(k)
      BY <1>0, <1>14 DEF PhaseInv, Loading, Empty, NoEntry, OneOutcome
    <3> QED
      BY <3>1 DEF KeyInv
  <2> QED
    BY <2>1, <2>2, <2>3
<1>15. CASE StoreBashCmdLines(w)
  <2>1. /\ wpc[w] = "bash" /\ wpc'[w] = "log" /\ UNCHANGED <<lock, loads, nloads, base, mine, answers>>
        /\ \A j \in Key : j # k => cache'[j] = cache[j]
    BY <1>0, <1>15 DEF StoreBashCmdLines, Goto, TypeOK
  <2>2. OneOutcome(cache[k]) /\ Content(cache[k]) = mine[w] /\ mine[w] > base /\ cache[k].validation_log = 0
    BY <1>0, <2>1 DEF PhaseInv, Loading
  <2>3. cache'[k] = [cache[k] EXCEPT !.bash_cmd_lines = mine[w]]
    BY <1>0, <1>15 DEF StoreBashCmdLines, TypeOK
  <2>4. OneOutcome(cache'[k]) /\ Content(cache'[k]) = mine[w] /\ cache'[k].validation_log = 0
        /\ cache'[k].bash_cmd_lines = mine[w]
    BY <1>0, <2>2, <2>3 DEF OneOutcome, Content, Entry
  <2>5. ~WholeEntry(cache[k])
    BY <2>2, <1>0 DEF WholeEntry, TypeOK
  <2>6. /\ AnswerInv' /\ loads[k] = 1
        /\ \A x \in Worker : x # w /\ wpc'[x] = "read" => WholeEntry(cache[KeyOf(x)])'
    BY <1>14, <2>1, <2>2, <2>4, <2>5
  <2>7. LockInv'
    BY <1>11, <1>12, <2>1 DEF Holding
  <2>8. PhaseInv'
    <3>1. Loading(w)' /\ cache'[KeyOf(w)'].bash_cmd_lines = mine'[w]
      BY <1>0, <1>1, <2>1, <2>2, <2>4 DEF Loading
    <3>2. \A x \in Worker : x # w => wpc'[x] \notin Holding
      BY <1>11, <2>1 DEF Holding
    <3> QED
      BY <2>1, <2>6, <3>1, <3>2 DEF PhaseInv, Holding
  <2>9. KeyInv'
    <3>1. LoadedBy(w, k)'
      BY <1>0, <1>1, <2>1 DEF LoadedBy
    <3>2. ASSUME NEW j \in Key, j # k
          PROVE  \/ Empty(j)'
                 \/ loads'[j] = 1 /\ (WholeEntry(cache[j])' \/ \E x \in Worker : LoadedBy(x, j)')
      <4>1. /\ WholeEntry(cache[j])' <=> WholeEntry(cache[j])
            /\ Empty(j)' <=> Empty(j)
            /\ \A x \in Worker : LoadedBy(x, j) => LoadedBy(x, j)'
        BY <1>11, <2>1, <3>2 DEF Holding
      <4> QED
        BY <2>1, <3>2, <4>1 DEF KeyInv
    <3> QED
      BY <2>1, <2>6, <3>1, <3>2 DEF KeyInv
  <2> QED
    BY <1>2, <2>1, <2>6, <2>7, <2>8, <2>9
<1>16. CASE StoreValidationLog(w)
  <2>1. /\ wpc[w] = "log" /\ wpc'[w] = "assert" /\ lock' = NoWorker
        /\ UNCHANGED <<loads, nloads, base, mine, answers>>
        /\ \A j \in Key : j # k => cache'[j] = cache[j]
    BY <1>0, <1>16 DEF StoreValidationLog, Goto, TypeOK
  <2>2. OneOutcome(cache[k]) /\ Content(cache[k]) = mine[w] /\ mine[w] > base
        /\ cache[k].validation_log = 0 /\ cache[k].bash_cmd_lines = mine[w]
    BY <1>0, <2>1 DEF PhaseInv, Loading
  <2>3. cache'[k] = [cache[k] EXCEPT !.validation_log = mine[w]]
    BY <1>0, <1>16 DEF StoreValidationLog, TypeOK
  <2>4. WholeEntry(cache'[k]) /\ Content(cache'[k]) = mine[w]
    BY <1>0, <2>2, <2>3 DEF WholeEntry, OneOutcome, Content, Entry
  <2>5. ~WholeEntry(cache[k])
    BY <2>2, <1>0 DEF WholeEntry, TypeOK
  <2>6. /\ AnswerInv' /\ loads[k] = 1
        /\ \A x \in Worker : x # w /\ wpc'[x] = "read" => WholeEntry(cache[KeyOf(x)])'
    BY <1>14, <2>1, <2>2, <2>4, <2>5
  <2>7. \A x \in Worker : x # w => wpc'[x] \notin Holding
    BY <1>11, <2>1 DEF Holding
  <2>8. LockInv'
    BY <2>1, <2>7, CacheAssumption DEF LockInv, Holding
  <2>9. PhaseInv'
    BY <2>1, <2>6, <2>7 DEF PhaseInv, Holding
  <2>10. KeyInv'
    <3>1. WholeEntry(cache[k])'
      BY <2>1, <2>4 DEF WholeEntry, OneOutcome, Content
    <3>2. ASSUME NEW j \in Key, j # k
          PROVE  \/ Empty(j)'
                 \/ loads'[j] = 1 /\ (WholeEntry(cache[j])' \/ \E x \in Worker : LoadedBy(x, j)')
      <4>1. /\ WholeEntry(cache[j])' <=> WholeEntry(cache[j])
            /\ Empty(j)' <=> Empty(j)
            /\ \A x \in Worker : LoadedBy(x, j) => LoadedBy(x, j)'
        BY <1>11, <2>1, <3>2 DEF Holding
      <4> QED
        BY <2>1, <3>2, <4>1 DEF KeyInv
    <3> QED
      BY <2>1, <2>6, <3>1, <3>2 DEF KeyInv
  <2> QED
    BY <1>2, <2>1, <2>6, <2>8, <2>9, <2>10
<1> QED
  BY <1>6, <1>7, <1>8, <1>9, <1>10, <1>13, <1>15, <1>16 DEF WorkerStep

(* It holds always.                                                        *)
LEMMA CacheInvariant == Spec => []CacheInv
<1>1. CacheInv /\ TypeOK' /\ [Next]_vars => CacheInv'
  BY ControlStep, CollectorStep DEF Next
<1> QED
  BY CacheInvInit, TypeCorrect, <1>1, PTL DEF Spec

(* collect_data runs at most once per key and flow, for any number of      *)
(* threads: the double-checked locking of run_DataCollector_many_to_one.   *)
THEOREM LoadedOnceHolds == Spec => []LoadedOnce
<1>1. CacheInv => LoadedOnce
  BY DEF CacheInv, KeyInv, Empty, LoadedOnce, TypeOK
<1> QED
  BY CacheInvariant, <1>1, PTL

(* All threads that ask for the same data in a flow get the same entry.    *)
THEOREM OneAnswerHolds == Spec => []OneAnswer
<1>1. CacheInv => OneAnswer
  BY DEF CacheInv, AnswerInv, OneAnswer
<1> QED
  BY CacheInvariant, <1>1, PTL

(* Every answer is one whole collection, though the entry is filled by     *)
(* three assignments that other threads can see between.                   *)
THEOREM WholeAnswerHolds == Spec => []WholeAnswer
<1>1. CacheInv => WholeAnswer
  BY DEF CacheInv, AnswerInv, WholeAnswer, WholeEntry, OneOutcome
<1> QED
  BY CacheInvariant, <1>1, PTL

(* No answer was collected before the flow it is given in.                 *)
THEOREM FreshAnswerHolds == Spec => []FreshAnswer
<1>1. CacheInv => FreshAnswer
  BY DEF CacheInv, AnswerInv, FreshAnswer, WholeEntry
<1> QED
  BY CacheInvariant, <1>1, PTL
-----------------------------------------------------------------------------
(* What the callers see: the collection an entry stands for, and that of   *)
(* each answer.                                                            *)
Value == [k \in Key |-> Content(cache[k])]

Told == {[caller |-> a.caller, key |-> a.key, load |-> Content(a.entry)] : a \in answers}

(* A step that leaves the entries' values and the answers alone is no step *)
(* of the abstract specification.                                          *)
LEMMA AbstractStutter ==
  ASSUME \A k \in Key : Content(cache'[k]) = Content(cache[k]), UNCHANGED <<nloads, answers>>
  PROVE  UNCHANGED Abstract!vars
<1>1. Value' = Value
  BY DEF Value
<1>2. Told' = Told
  BY DEF Told
<1> QED
  BY <1>1, <1>2 DEF Abstract!vars, Value, Told

(* The cache starts as the abstract specification does.                    *)
LEMMA AbstractInit ==
  ASSUME Init
  PROVE  Abstract!Init
BY DEF Init, Abstract!Init, Content, NoEntry

(* A collector thread loads a key that has no value, fills the rest of the *)
(* entry without a change to it, or is told the value that is there.       *)
LEMMA AbstractWorkerStep ==
  ASSUME CacheInv, NEW w \in Worker, WorkerStep(w)
  PROVE  Abstract!Next \/ UNCHANGED Abstract!vars
<1> USE DEF CacheInv
<1> DEFINE k == KeyOf(w)
<1>1. k \in Key /\ \A j \in Key : cache[j] \in Entry
  BY DEF KeyOf, Key, Worker, TypeOK
<1>2. CASE Check(w) \/ Acquire(w) \/ Recheck(w) \/ AssertLoaded(w)
  <2>1. UNCHANGED <<cache, nloads, answers>>
    BY <1>2 DEF Check, Acquire, Recheck, AssertLoaded, cacheVars
  <2> QED
    BY <2>1, AbstractStutter
<1>3. CASE StoreBashCmdLines(w)
  <2>1. cache' = [cache EXCEPT ![k].bash_cmd_lines = mine[w]] /\ UNCHANGED <<nloads, answers>>
    BY <1>3 DEF StoreBashCmdLines
  <2>2. \A j \in Key : Content(cache'[j]) = Content(cache[j])
    BY <1>1, <2>1 DEF Content, Entry, TypeOK
  <2> QED
    BY <2>1, <2>2, AbstractStutter
<1>4. CASE StoreValidationLog(w)
  <2>1. cache' = [cache EXCEPT ![k].validation_log = mine[w]] /\ UNCHANGED <<nloads, answers>>
    BY <1>4 DEF StoreValidationLog
  <2>2. \A j \in Key : Content(cache'[j]) = Content(cache[j])
    BY <1>1, <2>1 DEF Content, Entry, TypeOK
  <2> QED
    BY <2>1, <2>2, AbstractStutter
<1>5. CASE Collect(w)
  <2>1. /\ nloads' = nloads + 1 /\ UNCHANGED answers
        /\ \/ cache' = [cache EXCEPT ![k].data = nloads + 1]
           \/ cache' = [cache EXCEPT ![k].exception = nloads + 1]
    BY <1>5 DEF Collect
  <2>2. cache[k] = NoEntry /\ nloads \in Nat
    BY <1>5 DEF Collect, PhaseInv, Empty, TypeOK
  <2>3. Content(cache[k]) = 0 /\ Content(cache'[k]) = nloads + 1
    BY <1>1, <2>1, <2>2 DEF Content, NoEntry, TypeOK
  <2>4. \A j \in Key : j # k => cache'[j] = cache[j]
    BY <2>1 DEF TypeOK
  <2>5. Value[k] = 0 /\ Value' = [Value EXCEPT ![k] = nloads + 1]
    BY <1>1, <2>3, <2>4 DEF Value
  <2>6. Told' = Told
    BY <2>1 DEF Told
  <2>7. Abstract!Load(k)
    BY <2>1, <2>5, <2>6 DEF Abstract!Load, Value, Told
  <2> QED
    BY <1>1, <2>7 DEF Abstract!Next
<1>6. CASE Read(w)
  <2>1. /\ UNCHANGED <<cache, nloads>>
        /\ answers' = answers \cup {[caller |-> w, key |-> k, entry |-> cache[k]]}
    BY <1>6 DEF Read, cacheVars
  <2>2. Content(cache[k]) # 0
    BY <1>1, <1>6 DEF Read, PhaseInv, WholeEntry, OneOutcome, Content, TypeOK, Entry
  <2>3. Value' = Value /\ Value[k] = Content(cache[k])
    BY <1>1, <2>1 DEF Value
  <2>4. Told' = Told \cup {[caller |-> w, key |-> k, load |-> Value[k]]}
    <3> DEFINE told(a) == [caller |-> a.caller, key |-> a.key, load |-> Content(a.entry)]
               new == [caller |-> w, key |-> k, entry |-> cache[k]]
    <3>1. told(new) = [caller |-> w, key |-> k, load |-> Value[k]]
      BY <2>3
    <3>2. Told = {told(a) : a \in answers} /\ Told' = {told(a) : a \in answers'}
      BY DEF Told
    <3>3. answers' = answers \cup {new}
      BY <2>1
    <3> HIDE DEF told, new
    <3>4. {told(a) : a \in answers \cup {new}} = {told(a) : a \in answers} \cup {told(new)}
      OBVIOUS
    <3> QED
      BY <3>1, <3>2, <3>3, <3>4
  <2>5. PICK j \in Key : j = k
    BY <1>1
  <2> HIDE DEF k
  <2>6. /\ Value[j] # 0
        /\ Told' = Told \cup {[caller |-> w, key |-> j, load |-> Value[j]]}
        /\ Value' = Value /\ nloads' = nloads
    BY <2>1, <2>2, <2>3, <2>4, <2>5
  <2>7. Abstract!Reply(w, j)
    BY <2>6 DEF Abstract!Reply, Value, Told
  <2> QED
    BY <2>5, <2>7 DEF Abstract!Next
<1> QED
  BY <1>2, <1>3, <1>4, <1>5, <1>6 DEF WorkerStep

(* So does every other step: the end of a flow forgets, the rest is not    *)
(* seen.                                                                   *)
LEMMA AbstractStep ==
  ASSUME CacheInv, [Next]_vars
  PROVE  [Abstract!Next]_Abstract!vars
<1>1. CASE EndFlow
  <2>1. Value' = [k \in Key |-> 0] /\ Told' = {} /\ UNCHANGED nloads
    BY <1>1 DEF EndFlow, Value, Told, Content, NoEntry
  <2>2. Abstract!Forget
    BY <2>1 DEF Abstract!Forget, Value, Told
  <2> QED
    BY <2>2 DEF Abstract!Next
<1>2. CASE StartOperation \/ (\E v \in Validators : ValidatorStep(v)) \/ UNCHANGED vars
  <2>1. UNCHANGED <<cache, nloads, answers>>
    BY <1>2 DEF StartOperation, ValidatorStep, CollectAllData, Collected, FinishValidation,
                cacheVars, vars
  <2> QED
    BY <2>1, AbstractStutter
<1> QED
  BY <1>1, <1>2, AbstractWorkerStep DEF Next

(* The cache implements collect-once: with any number of threads, keys and *)
(* flows its steps are those of ManyToOneCollect or are not seen by the    *)
(* validations (run_DataCollector_many_to_one).                            *)
THEOREM CollectOnceHolds == Spec => CollectOnce
<1>1. Init => Abstract!Init
  BY AbstractInit
<1>2. CacheInv /\ [Next]_vars => [Abstract!Next]_Abstract!vars
  BY AbstractStep
<1> QED
  BY <1>1, <1>2, CacheInvariant, PTL DEF Spec, CollectOnce, Abstract!Spec
-----------------------------------------------------------------------------
(* Which collector threads die.  A thread that waits for the assertion has *)
(* a whole entry, and a whole entry does not change before the flow ends:  *)
(* so only the look without the lock can come upon an entry in the making. *)

AssertInv == \A w \in Worker : wpc[w] = "assert" => WholeEntry(cache[KeyOf(w)])

(* An entry that is filled and not torn is whole: its loader is done.      *)
LEMMA FilledIsWhole ==
  ASSUME CacheInv, NEW k \in Key, Filled(k), ~Torn(k)
  PROVE  WholeEntry(cache[k])
<1> USE DEF CacheInv
<1>1. ~Empty(k)
  BY DEF Empty, Filled, NoEntry
<1>2. ASSUME NEW x \in Worker, LoadedBy(x, k)
      PROVE  FALSE
  BY <1>2 DEF LoadedBy, PhaseInv, Loading, Torn
<1> QED
  BY <1>1, <1>2 DEF KeyInv

(* A whole entry has all that a reader looks for.                          *)
LEMMA WholeIsFilled ==
  ASSUME CacheInv, NEW k \in Key, WholeEntry(cache[k])
  PROVE  Filled(k) /\ ~Torn(k)
<1>1. base \in Nat /\ cache[k] \in Entry
  BY DEF CacheInv, TypeOK
<1> QED
  BY <1>1 DEF WholeEntry, Content, OneOutcome, Filled, Torn, Entry

(* Until the flow ends nobody writes an entry that is whole.               *)
LEMMA WholeStays ==
  ASSUME CacheInv, [Next]_vars, ~EndFlow, NEW k \in Key, WholeEntry(cache[k])
  PROVE  cache'[k] = cache[k] /\ base' = base
<1> USE DEF CacheInv
<1>1. ASSUME NEW w \in Worker, WorkerStep(w)
      PROVE  cache'[k] = cache[k] /\ base' = base
  <2>0. base \in Nat /\ nloads \in Nat /\ KeyOf(w) \in Key
    BY DEF TypeOK, KeyOf, Key, Worker
  <2>1. CASE Check(w) \/ Acquire(w) \/ Recheck(w) \/ AssertLoaded(w) \/ Read(w)
    BY <2>1 DEF Check, Acquire, Recheck, AssertLoaded, Read, cacheVars
  <2>2. CASE Collect(w)
    <3>1. KeyOf(w) # k
      BY <2>0, <2>2 DEF Collect, PhaseInv, Empty, NoEntry, WholeEntry, Content
    <3> QED
      BY <2>0, <2>2, <3>1 DEF Collect, TypeOK
  <2>3. CASE StoreBashCmdLines(w)
    <3>1. KeyOf(w) # k
      BY <2>0, <2>3 DEF StoreBashCmdLines, PhaseInv, Loading, WholeEntry, Content
    <3> QED
      BY <2>0, <2>3, <3>1 DEF StoreBashCmdLines, TypeOK
  <2>4. CASE StoreValidationLog(w)
    <3>1. KeyOf(w) # k
      BY <2>0, <2>4 DEF StoreValidationLog, PhaseInv, Loading, WholeEntry, Content
    <3> QED
      BY <2>0, <2>4, <3>1 DEF StoreValidationLog, TypeOK
  <2> QED
    BY <1>1, <2>1, <2>2, <2>3, <2>4 DEF WorkerStep
<1>2. CASE StartOperation \/ (\E v \in Validators : ValidatorStep(v)) \/ UNCHANGED vars
  BY <1>2 DEF StartOperation, ValidatorStep, CollectAllData, Collected, FinishValidation,
              cacheVars, vars
<1> QED
  BY <1>1, <1>2 DEF Next

(* A thread that asked keeps its question till it has ended.               *)
LEMMA QuestionStays ==
  ASSUME CacheInv, [Next]_vars, NEW w \in Worker, wpc[w] # "off"
  PROVE  KeyOf(w)' = KeyOf(w)
<1>1. vpc[w[1]] = "joining"
  BY DEF CacheInv, JoinInv
<1>2. ASSUME NEW v \in Validators, NEW r \in Requests, CollectAllData(v, r)
      PROVE  KeyOf(w)' = KeyOf(w)
  BY <1>1, <1>2 DEF CollectAllData, KeyOf, CacheInv, TypeOK, Worker
<1>3. CASE UNCHANGED req
  BY <1>3 DEF KeyOf
<1> QED
  BY <1>2, <1>3 DEF Next, StartOperation, EndFlow, ValidatorStep, Collected, FinishValidation,
     WorkerStep, Check, Acquire, Recheck, Collect, StoreBashCmdLines, StoreValidationLog,
     AssertLoaded, Read, validatorVars, vars

(* Who comes to the assertion has just filled the entry or found it whole. *)
LEMMA ArrivesAtWhole ==
  ASSUME CacheInv, NEW w \in Worker, WorkerStep(w), wpc'[w] = "assert"
  PROVE  WholeEntry(cache[KeyOf(w)])'
<1> USE DEF CacheInv
<1> DEFINE k == KeyOf(w)
<1>1. k \in Key /\ cache[k] \in Entry /\ base \in Nat
  BY DEF TypeOK, KeyOf, Key, Worker
<1>2. CASE Check(w) \/ Recheck(w)
  <2>1. UNCHANGED <<cache, base, req>> /\ Filled(k) /\ ~Torn(k)
    BY <1>2 DEF Check, Recheck, Goto, cacheVars, validatorVars, TypeOK
  <2>2. WholeEntry(cache[k])
    BY <1>1, <2>1, FilledIsWhole
  <2> QED
    BY <2>1, <2>2 DEF WholeEntry, Content, OneOutcome, KeyOf
<1>3. CASE StoreValidationLog(w)
  <2>1. UNCHANGED <<req, base>> /\ cache'[k] = [cache[k] EXCEPT !.validation_log = mine[w]]
    BY <1>1, <1>3 DEF StoreValidationLog, validatorVars, TypeOK
  <2>2. /\ OneOutcome(cache[k]) /\ Content(cache[k]) = mine[w] /\ mine[w] > base
        /\ cache[k].bash_cmd_lines = mine[w]
    BY <1>3 DEF StoreValidationLog, PhaseInv, Loading
  <2>3. OneOutcome(cache'[k]) /\ Content(cache'[k]) = mine[w]
        /\ cache'[k].bash_cmd_lines = mine[w] /\ cache'[k].validation_log = mine[w]
    BY <1>1, <2>1, <2>2 DEF OneOutcome, Content, Entry
  <2> QED
    BY <2>1, <2>2, <2>3 DEF WholeEntry, Content, OneOutcome, KeyOf
<1>4. CASE Acquire(w) \/ Collect(w) \/ StoreBashCmdLines(w) \/ AssertLoaded(w) \/ Read(w)
  BY <1>4 DEF Acquire, Collect, StoreBashCmdLines, AssertLoaded, Read, Goto, TypeOK
<1> QED
  BY <1>2, <1>3, <1>4 DEF WorkerStep

(* The threads a step does not move; a validator's call starts its own.    *)
LEMMA NobodyElseMoves ==
  ASSUME CacheInv, [Next]_vars, NEW w \in Worker, ~WorkerStep(w)
  PROVE  wpc'[w] = wpc[w] \/ wpc'[w] \in {"off", "check"}
<1>1. ASSUME NEW x \in Worker, x # w, WorkerStep(x)
      PROVE  wpc'[w] = wpc[w]
  BY <1>1 DEF WorkerStep, Check, Acquire, Recheck, Collect, StoreBashCmdLines, StoreValidationLog,
         AssertLoaded, Read, Goto, CacheInv, TypeOK
<1>2. ASSUME NEW v \in Validators, ValidatorStep(v)
      PROVE  wpc'[w] = wpc[w] \/ wpc'[w] \in {"off", "check"}
  BY <1>2 DEF ValidatorStep, CollectAllData, Collected, FinishValidation, workerVars
<1>3. CASE StartOperation \/ EndFlow \/ UNCHANGED vars
  BY <1>3 DEF StartOperation, EndFlow, vars, workerVars
<1> QED
  BY <1>1, <1>2, <1>3 DEF Next

(* What is known of the threads that look at the entry holds always.       *)
LEMMA AssertInvariant == Spec => []AssertInv
<1>1. Init => AssertInv
  BY DEF Init, AssertInv
<1>2. CacheInv /\ AssertInv /\ [Next]_vars => AssertInv'
  <2> SUFFICES ASSUME CacheInv, AssertInv, [Next]_vars, NEW w \in Worker, wpc'[w] = "assert"
               PROVE  WholeEntry(cache[KeyOf(w)])'
    BY DEF AssertInv
  <2>1. CASE WorkerStep(w)
    BY <2>1, ArrivesAtWhole
  <2>2. CASE ~WorkerStep(w)
    <3>1. wpc[w] = "assert"
      BY <2>2, NobodyElseMoves
    <3>2. KeyOf(w)' = KeyOf(w) /\ KeyOf(w) \in Key /\ WholeEntry(cache[KeyOf(w)])
      BY <3>1, QuestionStays DEF AssertInv, KeyOf, Key, Worker, CacheInv, TypeOK
    <3>3. ~EndFlow
      BY <3>1 DEF EndFlow, CacheInv, JoinInv, Worker
    <3> QED
      BY <3>2, <3>3, WholeStays DEF WholeEntry, Content, OneOutcome
  <2> QED
    BY <2>1, <2>2
<1> QED
  BY <1>1, <1>2, CacheInvariant, PTL DEF Spec

(* A collector thread dies at the first look only, and only while a thread *)
(* of another validator is at the assignments to the same entry.           *)
DiesAtTheFirstLook ==
  \A w \in Worker : wpc[w] # "died" /\ wpc'[w] = "died" =>
    /\ wpc[w] = "check"
    /\ \E x \in Worker : x[1] # w[1] /\ LoadedBy(x, KeyOf(w))

(* The look that run_DataCollector_many_to_one takes without the lock is   *)
(* the only place its assertions can fail at, with any number of threads:  *)
(* neither the look with the lock nor the assertion after it ever does.    *)
THEOREM DiesAtTheFirstLookHolds == Spec => [][DiesAtTheFirstLook]_vars
<1>1. CacheInv /\ AssertInv /\ [Next]_vars => DiesAtTheFirstLook
  <2> SUFFICES ASSUME CacheInv, AssertInv, [Next]_vars,
                      NEW w \in Worker, wpc[w] # "died", wpc'[w] = "died"
               PROVE  /\ wpc[w] = "check"
                      /\ \E x \in Worker : x[1] # w[1] /\ LoadedBy(x, KeyOf(w))
    BY DEF DiesAtTheFirstLook
  <2> DEFINE k == KeyOf(w)
  <2>1. WorkerStep(w) /\ k \in Key
    BY NobodyElseMoves DEF KeyOf, Key, Worker, CacheInv, TypeOK
  <2>2. Check(w) \/ Recheck(w) \/ AssertLoaded(w)
    BY <2>1 DEF WorkerStep, Acquire, Collect, StoreBashCmdLines, StoreValidationLog, Read, Goto,
                CacheInv, TypeOK
  <2>3. ~AssertLoaded(w)
    <3> SUFFICES ASSUME AssertLoaded(w) PROVE FALSE
      OBVIOUS
    <3>1. WholeEntry(cache[k])
      BY DEF AssertLoaded, AssertInv
    <3>2. Filled(k) /\ ~Torn(k)
      BY <2>1, <3>1, WholeIsFilled
    <3> QED
      BY <3>2 DEF AssertLoaded, Goto, CacheInv, TypeOK
  <2>4. Torn(k) /\ wpc[w] \in {"check", "recheck"}
    BY <2>2, <2>3 DEF Check, Recheck, Goto, CacheInv, TypeOK
  <2>5. PICK x \in Worker : LoadedBy(x, k)
    <3>1. ~Empty(k)
      BY <2>4 DEF Torn, Filled, Empty, NoEntry
    <3>2. ~WholeEntry(cache[k])
      BY <2>1, <2>4, WholeIsFilled
    <3> QED
      BY <2>1, <3>1, <3>2 DEF CacheInv, KeyInv
  <2>6. wpc[w] = "check"
    BY <2>4, <2>5 DEF LoadedBy, CacheInv, LockInv, Holding
  <2>7. x[1] # w[1]
    <3> SUFFICES ASSUME x[1] = w[1] PROVE FALSE
      OBVIOUS
    <3>1. x[2] = w[2]
      BY <2>5 DEF LoadedBy, KeyOf
    <3>2. x = w
      BY <3>1 DEF Worker
    <3> QED
      BY <2>5, <2>6, <3>2 DEF LoadedBy
  <2> QED
    BY <2>5, <2>6, <2>7
<1> QED
  BY <1>1, CacheInvariant, AssertInvariant, PTL DEF Spec

(* With one validator no collector thread dies: what the run of the torn   *)
(* entry finds needs two of them.                                          *)
THEOREM NoWorkerDiesHolds ==
  ASSUME \A u, v \in Validators : u = v
  PROVE  Spec => []NoWorkerDies
<1>1. Init => NoWorkerDies
  BY DEF Init, NoWorkerDies
<1>2. NoWorkerDies /\ [DiesAtTheFirstLook]_vars => NoWorkerDies'
  <2>1. ASSUME NoWorkerDies, DiesAtTheFirstLook
        PROVE  NoWorkerDies'
    BY <2>1 DEF NoWorkerDies, DiesAtTheFirstLook, Worker
  <2>2. ASSUME NoWorkerDies, UNCHANGED vars
        PROVE  NoWorkerDies'
    BY <2>2 DEF NoWorkerDies, vars, workerVars
  <2> QED
    BY <2>1, <2>2
<1> QED
  BY <1>1, <1>2, DiesAtTheFirstLookHolds, PTL DEF Spec

-----------------------------------------------------------------------------
(* Somebody can go on, by the conditions of the actions: the main thread,  *)
(* a validator, a collector thread that is not at the lock, or one that is *)
(* and finds it free.                                                      *)
NeverStuck ==
  flow < MaxFlows =>
    \/ (\A v \in Validators : vpc[v] = "idle") /\ (op < MaxOps \/ op > 0)
    \/ \E v \in Validators :
         vpc[v] = "running" \/ (vpc[v] = "joining" /\ \A h \in Hosts : Ended(<<v, h>>))
    \/ \E w \in Worker : ~Ended(w) /\ (wpc[w] = "lock" => lock = NoWorker)

(* Joining collector threads that wait for one lock never waits in a ring: *)
(* whoever holds DataCollector.threadLock is at work and waits for nobody. *)
(* A flow has at least one operation.                                      *)
THEOREM NeverStuckHolds ==
  ASSUME MaxOps > 0
  PROVE  Spec => []NeverStuck
<1>1. CacheInv => NeverStuck
  <2> SUFFICES ASSUME CacheInv, NEW v \in Validators, vpc[v] = "joining",
                      NEW h \in Hosts, ~Ended(<<v, h>>)
               PROVE  \E w \in Worker : ~Ended(w) /\ (wpc[w] = "lock" => lock = NoWorker)
    BY CacheAssumption DEF NeverStuck, CacheInv, TypeOK
  <2>1. <<v, h>> \in Worker
    BY DEF Worker
  <2>2. CASE lock = NoWorker
    BY <2>1, <2>2
  <2>3. CASE lock # NoWorker
    <3>1. lock \in Worker /\ wpc[lock] \in Holding
      BY <2>3 DEF CacheInv, TypeOK, LockInv
    <3> QED
      BY <3>1 DEF Holding, Ended
  <2> QED
    BY <2>2, <2>3
<1> QED
  BY <1>1, CacheInvariant, PTL
=================================================================================
