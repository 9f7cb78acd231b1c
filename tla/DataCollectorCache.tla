--------------------------- MODULE DataCollectorCache ---------------------------
(***************************************************************************)
(* The many-to-one data collectors of HealthCheckCommon: every thread of a *)
(* validation (one per target host) may ask for data that is collected on  *)
(* the few single-type hosts (a manager, the undercloud, ...).  The first  *)
(* thread to ask collects, all the others read what it left in             *)
(* ParallelRunner.data_collector_db.  The check of the dictionary is made  *)
(* without the lock, then again with it (double-checked locking), and the  *)
(* loader fills an entry with three separate assignments.                  *)
(***************************************************************************)
EXTENDS Naturals, FiniteSets

CONSTANTS
  Validators,   \* target hosts of the validation, one thread each
  Hosts,        \* the hosts a collector runs on
  Requests,     \* collector class, clean-command flag and keyword arguments
  HandleError,  \* the requests whose collector class has handle_error set
  MaxOps,       \* bound: operations of a flow
  MaxCalls,     \* bound: collectors one validator runs in an operation
  MaxFlows,     \* bound: flows run in the process
  NoWorker      \* nobody holds the lock

Worker == Validators \X Hosts
Key == Requests \X Hosts

ASSUME CacheAssumption ==
  /\ Hosts # {} /\ Requests # {} /\ HandleError \subseteq Requests
  /\ NoWorker \notin Worker
  /\ MaxOps \in Nat /\ MaxCalls \in Nat /\ MaxFlows \in Nat

VARIABLES
  flow,       \* flows completed
  op,         \* operations of the flow started
  connected,  \* the hosts with an open connection
  vpc,        \* where each validator thread is
  calls,      \* collectors each validator has run in this operation
  req,        \* the collector each validator runs
  wpc,        \* where each collector thread is
  mine,       \* the load each collector thread made, 0 if it made none
  lock,       \* the holder of DataCollector.threadLock
  cache,      \* data_collector_db: the load each field of an entry comes from
  loads,      \* history: calls of collect_data for each key in this flow
  nloads,     \* history: calls of collect_data in the process
  base,       \* history: nloads when this flow began
  printed,    \* what each collector thread put in its dataPrinter
  answers     \* history: what the collector threads of this flow were given

mainVars == <<flow, op, connected>>
validatorVars == <<vpc, calls, req>>
cacheVars == <<cache, loads, nloads, base>>
workerVars == <<wpc, mine>>
vars == <<mainVars, validatorVars, workerVars, lock, cacheVars, printed, answers>>

(* An entry of data_collector_db.  A field that is not in the dictionary   *)
(* is 0, any other holds the number of the load that wrote it.             *)
Entry == [data: Nat, exception: Nat, bash_cmd_lines: Nat, validation_log: Nat]
NoEntry == [data |-> 0, exception |-> 0, bash_cmd_lines |-> 0, validation_log |-> 0]

KeyOf(w) == <<req[w[1]], w[2]>>

(* is_current_data_collector_db_empty: an entry without data or exception  *)
(* is empty; one with data or exception must have the other two fields,    *)
(* or the check itself raises.                                             *)
Filled(k) == cache[k].data # 0 \/ cache[k].exception # 0
Torn(k) == Filled(k) /\ (cache[k].bash_cmd_lines = 0 \/ cache[k].validation_log = 0)

Init ==
  /\ flow = 0 /\ op = 0
  /\ connected \in SUBSET Hosts
  /\ vpc = [v \in Validators |-> "idle"]
  /\ calls = [v \in Validators |-> 0]
  /\ req \in [Validators -> {CHOOSE r \in Requests : TRUE}]
  /\ wpc = [w \in Worker |-> "off"]
  /\ mine = [w \in Worker |-> 0]
  /\ lock = NoWorker
  /\ cache = [k \in Key |-> NoEntry]
  /\ loads = [k \in Key |-> 0]
  /\ nloads = 0 /\ base = 0
  /\ printed = [w \in Worker |-> NoEntry]
  /\ answers = {}

-----------------------------------------------------------------------------
(* The main thread: one operation of the flow after the other, a thread    *)
(* for each target host, all of them joined before the next operation.     *)

StartOperation ==
  /\ flow < MaxFlows /\ op < MaxOps
  /\ \A v \in Validators : vpc[v] = "idle"
  /\ op' = op + 1
  /\ vpc' = [v \in Validators |-> "running"]
  /\ calls' = [v \in Validators |-> 0]
  /\ UNCHANGED <<flow, connected, req, workerVars, lock, cacheVars, printed, answers>>

(* Mutant: the cache outlives the flow.                                    *)
EndFlowKeepsCache ==
  /\ flow < MaxFlows /\ op > 0
  /\ \A v \in Validators : vpc[v] = "idle"
  /\ flow' = flow + 1
  /\ op' = 0
  /\ base' = nloads
  /\ answers' = {}
  /\ UNCHANGED <<connected, validatorVars, workerVars, lock, cache, loads, nloads, printed>>

(* Mutant: emptying the cache leaves entries without their last two fields. *)
EndFlowStripsEntries ==
  /\ flow < MaxFlows /\ op > 0
  /\ \A v \in Validators : vpc[v] = "idle"
  /\ flow' = flow + 1
  /\ op' = 0
  /\ cache' = [k \in Key |-> [data |-> 0, exception |-> 0]]
  /\ loads' = [k \in Key |-> 0]
  /\ base' = nloads
  /\ answers' = {}
  /\ UNCHANGED <<connected, validatorVars, workerVars, lock, nloads, printed>>

(* run_validation_flows_on_all_host clears data_collector_db when the last *)
(* operation of the flow is over.                                          *)
EndFlow ==
  /\ flow < MaxFlows /\ op > 0
  /\ \A v \in Validators : vpc[v] = "idle"
  /\ flow' = flow + 1
  /\ op' = 0
  /\ cache' = [k \in Key |-> NoEntry]
  /\ loads' = [k \in Key |-> 0]
  /\ base' = nloads
  /\ answers' = {}
  /\ UNCHANGED <<connected, validatorVars, workerVars, lock, nloads, printed>>

-----------------------------------------------------------------------------
(* A validator thread: collect_all_data starts one collector thread per    *)
(* connected host, each with the validator's own dataPrinter, and joins    *)
(* them.  It raises, and ends the thread, when every host failed.          *)

CollectAllData(v, r) ==
  /\ vpc[v] = "running" /\ calls[v] < MaxCalls
  /\ vpc' = [vpc EXCEPT ![v] = "joining"]
  /\ calls' = [calls EXCEPT ![v] = @ + 1]
  /\ req' = [req EXCEPT ![v] = r]
  /\ wpc' = [w \in Worker |-> IF w[1] = v /\ w[2] \in connected THEN "check" ELSE wpc[w]]
  /\ mine' = [w \in Worker |-> IF w[1] = v THEN 0 ELSE mine[w]]
  /\ printed' = [w \in Worker |-> IF w[1] = v THEN NoEntry ELSE printed[w]]
  /\ UNCHANGED <<mainVars, lock, cacheVars, answers>>

Ended(w) == wpc[w] \in {"off", "done", "died"}

Failed(v) ==
  (Hosts \ connected) \cup {h \in connected : printed[<<v, h>>].exception # 0}

Collected(v) ==
  /\ vpc[v] = "joining"
  /\ \A h \in Hosts : Ended(<<v, h>>)
  /\ vpc' = [vpc EXCEPT ![v] = IF Failed(v) = Hosts /\ req[v] \in HandleError
                                  THEN "idle" ELSE "running"]
  /\ wpc' = [w \in Worker |-> IF w[1] = v THEN "off" ELSE wpc[w]]
  /\ UNCHANGED <<mainVars, calls, req, mine, lock, cacheVars, printed, answers>>

FinishValidation(v) ==
  /\ vpc[v] = "running"
  /\ vpc' = [vpc EXCEPT ![v] = "idle"]
  /\ UNCHANGED <<mainVars, calls, req, workerVars, lock, cacheVars, printed, answers>>

-----------------------------------------------------------------------------
(* A collector thread: run_DataCollector_many_to_one.                      *)

Goto(w, pc) == wpc' = [wpc EXCEPT ![w] = pc]

(* Mutant: the first check does not look at the last two fields and its    *)
(* answer is read at once.                                                 *)
CheckOutcomeOnly(w) ==
  /\ wpc[w] = "check"
  /\ Goto(w, IF Filled(KeyOf(w)) THEN "read" ELSE "lock")
  /\ UNCHANGED <<mainVars, validatorVars, mine, lock, cacheVars, printed, answers>>

Check(w) ==
  /\ wpc[w] = "check"
  /\ Goto(w, IF Torn(KeyOf(w)) THEN "died"
             ELSE IF Filled(KeyOf(w)) THEN "assert" ELSE "lock")
  /\ UNCHANGED <<mainVars, validatorVars, mine, lock, cacheVars, printed, answers>>

(* Mutant: the lock is no lock.                                            *)
AcquireHeld(w) ==
  /\ wpc[w] = "lock"
  /\ lock' = w
  /\ Goto(w, "recheck")
  /\ UNCHANGED <<mainVars, validatorVars, mine, cacheVars, printed, answers>>

Acquire(w) ==
  /\ wpc[w] = "lock" /\ lock = NoWorker
  /\ lock' = w
  /\ Goto(w, "recheck")
  /\ UNCHANGED <<mainVars, validatorVars, mine, cacheVars, printed, answers>>

(* Mutant: who gets the lock collects without a second look.               *)
RecheckNever(w) ==
  /\ wpc[w] = "recheck"
  /\ Goto(w, "collect")
  /\ UNCHANGED <<mainVars, validatorVars, mine, lock, cacheVars, printed, answers>>

(* Mutant: the lock is not given back when there is nothing to collect.    *)
RecheckKeepsLock(w) ==
  /\ wpc[w] = "recheck"
  /\ Goto(w, IF Torn(KeyOf(w)) THEN "died" ELSE IF Filled(KeyOf(w)) THEN "assert" ELSE "collect")
  /\ UNCHANGED <<mainVars, validatorVars, mine, lock, cacheVars, printed, answers>>

Recheck(w) ==
  /\ wpc[w] = "recheck"
  /\ IF Filled(KeyOf(w))
     THEN /\ Goto(w, IF Torn(KeyOf(w)) THEN "died" ELSE "assert")
          /\ lock' = NoWorker
     ELSE Goto(w, "collect") /\ UNCHANGED lock
  /\ UNCHANGED <<mainVars, validatorVars, mine, cacheVars, printed, answers>>

(* collect_data ends, with data or with an exception, which is published   *)
(* before the two fields the finally clause adds.                          *)
Collect(w) ==
  LET k == KeyOf(w) IN
  /\ wpc[w] = "collect"
  /\ nloads' = nloads + 1
  /\ loads' = [loads EXCEPT ![k] = @ + 1]
  /\ \/ cache' = [cache EXCEPT ![k].data = nloads + 1]
     \/ cache' = [cache EXCEPT ![k].exception = nloads + 1]
  /\ mine' = [mine EXCEPT ![w] = nloads + 1]
  /\ Goto(w, "bash")
  /\ UNCHANGED <<mainVars, validatorVars, lock, base, printed, answers>>

StoreBashCmdLines(w) ==
  /\ wpc[w] = "bash"
  /\ cache' = [cache EXCEPT ![KeyOf(w)].bash_cmd_lines = mine[w]]
  /\ Goto(w, "log")
  /\ UNCHANGED <<mainVars, validatorVars, mine, lock, loads, nloads, base, printed, answers>>

(* The last assignment; leaving the with block gives the lock back.        *)
StoreValidationLog(w) ==
  /\ wpc[w] = "log"
  /\ cache' = [cache EXCEPT ![KeyOf(w)].validation_log = mine[w]]
  /\ lock' = NoWorker
  /\ Goto(w, "assert")
  /\ UNCHANGED <<mainVars, validatorVars, mine, loads, nloads, base, printed, answers>>

AssertLoaded(w) ==
  /\ wpc[w] = "assert"
  /\ Goto(w, IF Filled(KeyOf(w)) /\ ~Torn(KeyOf(w)) THEN "read" ELSE "died")
  /\ UNCHANGED <<mainVars, validatorVars, mine, lock, cacheVars, printed, answers>>

(* printer.add_data, with the data or with the exception of the entry.     *)
Read(w) ==
  LET k == KeyOf(w) IN
  /\ wpc[w] = "read"
  /\ printed' = [printed EXCEPT ![w] = cache[k]]
  /\ answers' = answers \cup {[caller |-> w, key |-> k, entry |-> cache[k]]}
  /\ Goto(w, "done")
  /\ UNCHANGED <<mainVars, validatorVars, mine, lock, cacheVars>>

WorkerStep(w) ==
  \/ Check(w) \/ Acquire(w) \/ Recheck(w) \/ Collect(w)
  \/ StoreBashCmdLines(w) \/ StoreValidationLog(w) \/ AssertLoaded(w) \/ Read(w)

ValidatorStep(v) ==
  (\E r \in Requests : CollectAllData(v, r)) \/ Collected(v) \/ FinishValidation(v)

Next ==
  \/ StartOperation \/ EndFlow
  \/ \E v \in Validators : ValidatorStep(v)
  \/ \E w \in Worker : WorkerStep(w)

Spec == Init /\ [][Next]_vars

(* Threads run to their end and the lock is granted as long as it is free; *)
(* which collectors a validation calls, and how often, is its own choice.  *)
Fairness ==
  /\ WF_vars(StartOperation \/ EndFlow)
  /\ \A w \in Worker : WF_vars(WorkerStep(w))
  /\ \A v \in Validators : WF_vars(ValidatorStep(v))

FairSpec == Spec /\ Fairness
-----------------------------------------------------------------------------
TypeOK ==
  /\ flow \in 0..MaxFlows /\ op \in 0..MaxOps
  /\ connected \in SUBSET Hosts
  /\ vpc \in [Validators -> {"idle", "running", "joining"}]
  /\ calls \in [Validators -> 0..MaxCalls]
  /\ req \in [Validators -> Requests]
  /\ wpc \in [Worker -> {"off", "check", "lock", "recheck", "collect", "bash", "log",
                        "assert", "read", "done", "died"}]
  /\ mine \in [Worker -> Nat]
  /\ lock \in Worker \cup {NoWorker}
  /\ cache \in [Key -> Entry]
  /\ loads \in [Key -> Nat]
  /\ nloads \in Nat /\ base \in Nat
  /\ printed \in [Worker -> Entry]
  /\ answers \in SUBSET [caller: Worker, key: Key, entry: Entry]

(* Whatever the interleaving of the validations of a flow, collect_data    *)
(* runs at most once for a collector, its arguments and a host: the second *)
(* check, made with the lock, sees what another thread collected meanwhile.*)
LoadedOnce == \A k \in Key : loads[k] <= 1

(* Two threads that asked for the same data in one flow were told the same,*)
(* to the last field, even when the first answer was an exception.         *)
OneAnswer == \A a, b \in answers : a.key = b.key => a.entry = b.entry

(* An answer is one collection: either data or an exception, with the      *)
(* command lines and the log of the very call that produced it.            *)
Content(e) == IF e.data # 0 THEN e.data ELSE e.exception
WholeAnswer ==
  \A a \in answers :
    /\ a.entry.data = 0 <=> a.entry.exception # 0
    /\ a.entry.bash_cmd_lines = Content(a.entry)
    /\ a.entry.validation_log = Content(a.entry)

(* A validation never decides on what an earlier flow collected: the cache *)
(* lives as long as the flow, so every answer was collected during it.     *)
FreshAnswer == \A a \in answers : Content(a.entry) > base

(* The check of the cache holds that an entry with data or an exception    *)
(* has its two other fields, and raises AssertionError, which nothing in a *)
(* collector thread catches, when it has not.                              *)
NoWorkerDies == \A w \in Worker : wpc[w] # "died"

(* All threads come back and the flows of the process end: joining the     *)
(* collectors of a validator never waits for ever, whoever holds the lock. *)
FlowsEnd == <>(flow = MaxFlows)

(* The cache implements collect-once: an entry has its value as soon as    *)
(* its data or exception is there.                                         *)
Abstract ==
  INSTANCE ManyToOneCollect WITH
    Caller <- Worker,
    value <- [k \in Key |-> Content(cache[k])],
    answers <- {[caller |-> a.caller, key |-> a.key, load |-> Content(a.entry)] : a \in answers}

(* Every step of the threads is a step of ManyToOneCollect or leaves its   *)
(* state alone: what the validations see is one collection per key.        *)
CollectOnce == Abstract!Spec
=============================================================================
