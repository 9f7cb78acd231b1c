-------------------------- MODULE SystemOperationFlow --------------------------
(***************************************************************************)
(* A flow of system operations (log collection, file tracking, ...): the   *)
(* runner takes one operation after the other, decides for each host from  *)
(* the outcome of the operation's prerequisite whether it runs there, and  *)
(* runs it on those hosts, in parallel or one by one.                      *)
(***************************************************************************)
EXTENDS DynamicPrerequisite

VARIABLES
  debug,   \* tools.user_params.debug: exceptions are raised, not reported
  step,    \* the operation the runner is at
  phase,   \* it decides where to run the operation, runs it, or was aborted
  thread,  \* how far each operation is on each host
  ret,     \* what run_system_operation returned, until it is reported
  report   \* what the printer holds for each operation and host

vars == <<debug, rank, step, phase, thread, ret, passed, report>>

Init ==
  /\ debug \in BOOLEAN
  /\ rank \in {r \in [Hosts -> 1..Cardinality(Hosts)] : \A g, h \in Hosts : r[g] = r[h] => g = h}
  /\ step = 1 /\ phase = "select"
  /\ thread = Everywhere("off")
  /\ ret = Everywhere("none")
  /\ passed = Everywhere("none")
  /\ report = Everywhere("none")
-----------------------------------------------------------------------------
(* The runner.                                                             *)

(* The instances of the next operation are chosen before any of them runs. *)
Select ==
  /\ phase = "select" /\ step <= Len(Flow)
  /\ IF ToRun(step) = {}
     THEN step' = step + 1 /\ UNCHANGED <<phase, thread>>
     ELSE /\ phase' = "run"
          /\ thread' = [thread EXCEPT ![step] =
                          [h \in Hosts |-> IF h \in ToRun(step) THEN "ready" ELSE "off"]]
          /\ UNCHANGED step
  /\ UNCHANGED <<debug, rank, ret, passed, report>>

(* Mutant: the runner goes on as soon as one thread is over.               *)
EndOperationEarly ==
  /\ phase = "run"
  /\ \E h \in Hosts : thread[step][h] = "over"
  /\ step' = step + 1 /\ phase' = "select"
  /\ UNCHANGED <<debug, rank, thread, ret, passed, report>>

(* Mutant: the runner waits for the report of each host.                   *)
EndOperationReported ==
  /\ phase = "run"
  /\ \A h \in ToRun(step) : report[step][h] # "none"
  /\ step' = step + 1 /\ phase' = "select"
  /\ UNCHANGED <<debug, rank, thread, ret, passed, report>>

(* All threads of the operation are joined.                                *)
EndOperation ==
  /\ phase = "run"
  /\ \A h \in Hosts : thread[step][h] \in {"off", "over"}
  /\ step' = step + 1 /\ phase' = "select"
  /\ UNCHANGED <<debug, rank, thread, ret, passed, report>>
-----------------------------------------------------------------------------
(* run_validation_on_one_host, for an operation k on a host.               *)

(* In serial an instance waits for those before it in the list.            *)
MyTurn(k, h) ==
  Flow[k].inParallel \/
  \A g \in Hosts : rank[g] < rank[h] => thread[k][g] \in {"off", "over"}

Goto(k, h, t) == thread' = [thread EXCEPT ![k][h] = t]

(* run_system_operation returns, and _set_passed takes what it returned,   *)
(* or it raises.                                                           *)
RunSystemOperation(k, h) ==
  /\ phase # "aborted" /\ thread[k][h] = "ready" /\ MyTurn(k, h)
  /\ \E o \in Outcome \cup {"exception"} :
       /\ ret' = [ret EXCEPT ![k][h] = o]
       /\ passed' = IF o = "exception" THEN passed ELSE [passed EXCEPT ![k][h] = o]
  /\ Goto(k, h, "ran")
  /\ UNCHANGED <<debug, rank, step, phase, report>>

Returned(k, h) == phase # "aborted" /\ thread[k][h] = "ran" /\ ret[k][h] \in {"true", "false"}

Raised(k, h) == phase # "aborted" /\ thread[k][h] = "ran" /\ ret[k][h] \notin {"true", "false"}

(* print_failed or print_ok.                                               *)
ReportResult(k, h) ==
  /\ Returned(k, h)
  /\ report' = [report EXCEPT ![k][h] = IF ret[k][h] = "true" THEN "ok" ELSE "failed"]
  /\ ret' = [ret EXCEPT ![k][h] = "none"]
  /\ Goto(k, h, "over")
  /\ UNCHANGED <<debug, rank, step, phase, passed>>

(* Mutant: what an operation raised becomes its outcome.                   *)
ReportExceptionAsOutcome(k, h) ==
  /\ Raised(k, h) /\ ~debug
  /\ passed' = [passed EXCEPT ![k][h] = ret[k][h]]
  /\ report' = [report EXCEPT ![k][h] = "problem"]
  /\ ret' = [ret EXCEPT ![k][h] = "none"]
  /\ Goto(k, h, "over")
  /\ UNCHANGED <<debug, rank, step, phase>>

(* Mutant: an operation that raised keeps the outcome it has.              *)
ReportExceptionOnly(k, h) ==
  /\ Raised(k, h) /\ ~debug
  /\ report' = [report EXCEPT ![k][h] = "problem"]
  /\ ret' = [ret EXCEPT ![k][h] = "none"]
  /\ Goto(k, h, "over")
  /\ UNCHANGED <<debug, rank, step, phase, passed>>

(* An exception, or the assertion that the value is a boolean.             *)
ReportException(k, h) ==
  /\ Raised(k, h) /\ ~debug
  /\ passed' = [passed EXCEPT ![k][h] = "false"]
  /\ report' = [report EXCEPT ![k][h] = "problem"]
  /\ ret' = [ret EXCEPT ![k][h] = "none"]
  /\ Goto(k, h, "over")
  /\ UNCHANGED <<debug, rank, step, phase>>

(* In debug mode the exception goes on: it ends the thread of the host, or *)
(* the whole flow when the operation runs serially in the main thread.     *)
RaiseException(k, h) ==
  /\ Raised(k, h) /\ debug
  /\ ret' = [ret EXCEPT ![k][h] = "none"]
  /\ Goto(k, h, "over")
  /\ phase' = IF Flow[k].inParallel THEN phase ELSE "aborted"
  /\ UNCHANGED <<debug, rank, step, passed, report>>

HostStep(h) ==
  \E k \in Step : \/ RunSystemOperation(k, h) \/ ReportResult(k, h)
                  \/ ReportException(k, h) \/ RaiseException(k, h)

Next == Select \/ EndOperation \/ \E h \in Hosts : HostStep(h)

Spec == Init /\ [][Next]_vars

(* The main thread goes on, and an operation ends on every host: commands  *)
(* have timeouts.                                                          *)
FairSpec == Spec /\ WF_vars(Select \/ EndOperation) /\ \A h \in Hosts : WF_vars(HostStep(h))
-----------------------------------------------------------------------------
TypeOK ==
  /\ debug \in BOOLEAN
  /\ rank \in [Hosts -> Nat]
  /\ step \in 1..(Len(Flow) + 1)
  /\ phase \in {"select", "run", "aborted"} /\ (phase = "run" => step <= Len(Flow))
  /\ thread \in [Step -> [Hosts -> {"off", "ready", "ran", "over"}]]
  /\ ret \in [Step -> [Hosts -> Outcome \cup {"exception"}]]
  /\ passed \in [Step -> [Hosts -> Outcome]]
  /\ report \in [Step -> [Hosts -> {"none", "ok", "failed", "problem"}]]

Over(k) == k < step

Ran(k) == {h \in Hosts : thread[k][h] # "off"}

(* When an operation is over every host it ran on has a boolean outcome    *)
(* and a report that agrees with it, and no other host has either; only    *)
(* debug mode lets an operation end without.                               *)
EveryRunReported ==
  \A k \in Step, h \in Hosts : Over(k) /\ ~debug =>
    IF h \in Ran(k)
    THEN /\ passed[k][h] = "true" <=> report[k][h] = "ok"
         /\ passed[k][h] = "false" <=> report[k][h] \in {"failed", "problem"}
         /\ report[k][h] # "none"
    ELSE passed[k][h] = "none" /\ report[k][h] = "none"

(* What runs has a prerequisite that passed: nowhere down the chain does   *)
(* an operation run whose prerequisite failed, raised or was itself        *)
(* skipped on all hosts, nor on any when all must pass.                    *)
PrerequisitePassed ==
  ~debug =>
  \A k \in Step, j \in Step :
    Ran(k) # {} /\ j \in Prerequisites(k) /\ ~Flow[k].runIfFailed =>
      IF Flow[k].multipleHosts /\ ~Flow[k].passIfAny
      THEN \A g \in Flow[j].on : passed[j][g] = "true"
      ELSE \E g \in Flow[j].on : passed[j][g] = "true"

(* An operation meant for failures runs on all its hosts when the one it   *)
(* depends on passed nowhere, whether it failed or never ran.              *)
RunsIfFailed ==
  \A k \in Step :
    Over(k) /\ Flow[k].runIfFailed /\ Prerequisites(k) # {}
    /\ (\A j \in Prerequisites(k), h \in Hosts : ~Truthy(passed[j][h]))
    => Ran(k) = Flow[k].on

(* The outcomes a decision was taken on stand: nothing changes them, or    *)
(* the reports, once the operation is over.                                *)
OutcomesStand ==
  [][\A k \in Step : Over(k) => passed'[k] = passed[k] /\ report'[k] = report[k]]_vars

(* What the threads of an operation do is seen when it is over: each flow  *)
(* is one that runs its operations at once, one after the other.           *)
Seen(f) == [k \in Step |-> IF Over(k) THEN f[k] ELSE [h \in Hosts |-> "none"]]

Serial == INSTANCE SerialFlow WITH passed <- Seen(passed), report <- Seen(report)

(* Whatever the threads of the hosts do in parallel, and whatever order    *)
(* they end in, the outcomes and reports are those of a flow in which each *)
(* operation ran in one step where the earlier outcomes let it.            *)
OneAfterTheOther == Serial!Spec

(* A flow ends, in debug mode perhaps with an exception.                   *)
FlowEnds == <>(step = Len(Flow) + 1 \/ phase = "aborted")

(* operations.py: "if this an operation depend on prerequisite that run on *)
(* all hosts - depend on "this" host".                                     *)
DependsOnThisHost ==
  \A k \in Step : \A j \in Prerequisites(k) : \A h \in Flow[k].on :
    Over(k) /\ ~debug /\ Flow[j].on = Hosts /\ ~Flow[k].multipleHosts /\ ~Flow[k].runIfFailed
    => (h \in Ran(k) <=> passed[j][h] = "true")
=============================================================================
