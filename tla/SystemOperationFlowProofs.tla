----------------------- MODULE SystemOperationFlowProofs -----------------------
(***************************************************************************)
(* Proofs about SystemOperationFlow, for any flow and any set of hosts.    *)
(***************************************************************************)
EXTENDS SystemOperationFlow, FiniteSetTheorems, WellFoundedInduction, TLAPS

(* A flow is a sequence of operations, numbered from one.                  *)
LEMMA StepIsInterval == Step = 1..Len(Flow) /\ Len(Flow) \in Nat
BY FlowAssumption DEF Step

(* An operation of a flow runs on some hosts, and its flags are booleans.  *)
LEMMA OperationTypes ==
  ASSUME NEW k \in Step
  PROVE  /\ Flow[k].on \subseteq Hosts /\ Flow[k].on # {}
         /\ Flow[k].name \in STRING /\ Flow[k].runIfFailed \in BOOLEAN
<1> DEFINE S == [name: STRING, on: (SUBSET Hosts) \ {{}}, prerequisite: STRING \cup {NoName},
                 multipleHosts: BOOLEAN, passIfAny: BOOLEAN, runIfFailed: BOOLEAN,
                 inParallel: BOOLEAN]
<1>1. Flow \in Seq(S)
  BY FlowAssumption
<1>2. Flow[k] \in S
  <2> HIDE DEF S
  <2> QED
    BY <1>1, StepIsInterval
<1> QED
  BY <1>2

(* A step of an operation on a host keeps the types.                       *)
LEMMA HostStepTypes ==
  ASSUME TypeOK, NEW k \in Step, NEW h \in Hosts,
         \/ RunSystemOperation(k, h) \/ ReportResult(k, h)
         \/ ReportException(k, h) \/ RaiseException(k, h)
  PROVE  TypeOK'
<1> USE StepIsInterval DEF TypeOK, Goto
<1>1. CASE RunSystemOperation(k, h)
  <2>1. PICK o \in Outcome \cup {"exception"} :
          /\ ret' = [ret EXCEPT ![k][h] = o]
          /\ passed' = IF o = "exception" THEN passed ELSE [passed EXCEPT ![k][h] = o]
    BY <1>1 DEF RunSystemOperation
  <2>2. passed' \in [Step -> [Hosts -> Outcome]]
    <3>1. CASE o = "exception"
      BY <2>1, <3>1
    <3>2. CASE o # "exception"
      BY <2>1, <3>2
    <3> QED
      BY <3>1, <3>2
  <2> QED
    BY <1>1, <2>1, <2>2 DEF RunSystemOperation
<1>2. CASE ReportResult(k, h)
  BY <1>2 DEF ReportResult, Outcome
<1>3. CASE ReportException(k, h)
  BY <1>3 DEF ReportException, Outcome
<1>4. CASE RaiseException(k, h)
  BY <1>4 DEF RaiseException, Outcome
<1> QED
  BY <1>1, <1>2, <1>3, <1>4

(* Choosing the hosts of the next operation keeps the types.               *)
LEMMA SelectTypes ==
  ASSUME TypeOK, Select
  PROVE  TypeOK'
<1> USE StepIsInterval
<1>1. step \in 1..Len(Flow) /\ step + 1 \in 1..(Len(Flow) + 1)
  BY DEF Select, TypeOK
<1>2. CASE ToRun(step) = {}
  <2>1. step' = step + 1 /\ phase' = "select" /\ thread' = thread
    BY <1>2 DEF Select
  <2> QED
    BY <1>1, <2>1 DEF Select, TypeOK
<1>3. CASE ToRun(step) # {}
  <2>1. /\ phase' = "run" /\ step' = step
        /\ thread' = [thread EXCEPT ![step] =
                        [h \in Hosts |-> IF h \in ToRun(step) THEN "ready" ELSE "off"]]
    BY <1>3 DEF Select
  <2>2. [h \in Hosts |-> IF h \in ToRun(step) THEN "ready" ELSE "off"]
          \in [Hosts -> {"off", "ready", "ran", "over"}]
    OBVIOUS
  <2>3. thread' \in [Step -> [Hosts -> {"off", "ready", "ran", "over"}]]
    BY <2>1, <2>2 DEF TypeOK
  <2> QED
    BY <1>1, <2>1, <2>3 DEF Select, TypeOK
<1> QED
  BY <1>2, <1>3

(* The types hold initially.                                               *)
LEMMA InitTypes ==
  ASSUME Init
  PROVE  TypeOK
<1>1. rank \in [Hosts -> Nat]
  BY DEF Init
<1>2. step \in 1..(Len(Flow) + 1) /\ phase = "select"
  BY StepIsInterval DEF Init
<1> QED
  BY <1>1, <1>2 DEF Init, TypeOK, Everywhere, Outcome

(* The type invariant of the runner holds in every reachable state.        *)
THEOREM TypeCorrect == Spec => []TypeOK
<1>1. Init => TypeOK
  BY InitTypes
<1>2. TypeOK /\ [Next]_vars => TypeOK'
  <2> SUFFICES ASSUME TypeOK, [Next]_vars
               PROVE  TypeOK'
    OBVIOUS
  <2>1. CASE EndOperation
    BY <2>1, StepIsInterval DEF EndOperation, TypeOK
  <2>2. ASSUME NEW h \in Hosts, HostStep(h)
        PROVE  TypeOK'
    BY <2>2, HostStepTypes DEF HostStep
  <2>3. CASE UNCHANGED vars
    BY <2>3 DEF vars, TypeOK
  <2> QED
    BY <2>1, <2>2, <2>3, SelectTypes DEF Next
<1> QED
  BY <1>1, <1>2, PTL DEF Spec
-----------------------------------------------------------------------------
(* What holds of an operation on a host while its thread is at each point. *)
ThreadInv(k, h) ==
  /\ thread[k][h] = "off" =>
       passed[k][h] = "none" /\ report[k][h] = "none"
  /\ thread[k][h] = "ready" =>
       passed[k][h] = "none" /\ report[k][h] = "none"
  /\ thread[k][h] = "ran" =>
       /\ report[k][h] = "none"
       /\ passed[k][h] = IF ret[k][h] = "exception" THEN "none" ELSE ret[k][h]
  /\ thread[k][h] = "over" /\ ~debug =>
       /\ passed[k][h] = "true" <=> report[k][h] = "ok"
       /\ passed[k][h] = "false" <=> report[k][h] \in {"failed", "problem"}
       /\ report[k][h] # "none"
  /\ thread[k][h] = "over" /\ debug =>
       IF report[k][h] = "none" THEN passed[k][h] \in {"none", "other"}
       ELSE /\ report[k][h] # "problem"
            /\ passed[k][h] = IF report[k][h] = "ok" THEN "true" ELSE "false"

(* Only the threads of the operation the runner is at are not yet over.    *)
PhaseInv(k, h) ==
  /\ (k > step \/ (k = step /\ phase = "select")) => thread[k][h] = "off"
  /\ k < step => thread[k][h] \in {"off", "over"}

FlowInv ==
  /\ TypeOK
  /\ \A k \in Step, h \in Hosts : ThreadInv(k, h) /\ PhaseInv(k, h)

(* A thread at work belongs to the operation the runner is at.             *)
LEMMA AtWorkIsCurrent ==
  ASSUME FlowInv, NEW k \in Step, NEW h \in Hosts, thread[k][h] \in {"ready", "ran"}
  PROVE  k = step /\ phase # "select"
<1>1. PhaseInv(k, h) /\ k \in Nat /\ step \in Nat
  BY StepIsInterval DEF FlowInv, TypeOK
<1> QED
  BY <1>1 DEF PhaseInv

(* A step of an operation on a host keeps the invariant, there and for     *)
(* every other operation and host.                                         *)
LEMMA HostStepKeepsInv ==
  ASSUME FlowInv, NEW k \in Step, NEW h \in Hosts,
         \/ RunSystemOperation(k, h) \/ ReportResult(k, h)
         \/ ReportException(k, h) \/ RaiseException(k, h)
  PROVE  FlowInv'
<1>1. TypeOK /\ TypeOK'
  BY HostStepTypes DEF FlowInv
<1>2. step' = step /\ debug' = debug /\ phase' \in {phase, "aborted"}
  BY DEF RunSystemOperation, ReportResult, ReportException, RaiseException
<1>3. thread[k][h] \in {"ready", "ran"} /\ thread[k][h] # "off"
  BY DEF RunSystemOperation, ReportResult, ReportException, RaiseException, Returned, Raised
<1>4. k = step /\ phase # "select"
  BY <1>3, AtWorkIsCurrent
<1> SUFFICES ASSUME NEW j \in Step, NEW g \in Hosts
             PROVE  ThreadInv(j, g)' /\ PhaseInv(j, g)'
  BY <1>1 DEF FlowInv
<1>5. ThreadInv(j, g) /\ PhaseInv(j, g)
  BY DEF FlowInv
<1>6. CASE j # k \/ g # h
  <2>1. /\ thread'[j][g] = thread[j][g] /\ ret'[j][g] = ret[j][g]
        /\ passed'[j][g] = passed[j][g] /\ report'[j][g] = report[j][g]
    <3>1. CASE RunSystemOperation(k, h)
      BY <3>1, <1>1, <1>6 DEF RunSystemOperation, Goto, TypeOK
    <3>2. CASE ReportResult(k, h)
      BY <3>2, <1>1, <1>6 DEF ReportResult, Goto, TypeOK
    <3>3. CASE ReportException(k, h)
      BY <3>3, <1>1, <1>6 DEF ReportException, Goto, TypeOK
    <3>4. CASE RaiseException(k, h)
      BY <3>4, <1>1, <1>6 DEF RaiseException, Goto, TypeOK
    <3> QED
      BY <3>1, <3>2, <3>3, <3>4
  <2>2. ThreadInv(j, g)'
    BY <1>2, <1>5, <2>1 DEF ThreadInv
  <2>3. PhaseInv(j, g)'
    BY <1>2, <1>4, <1>5, <2>1 DEF PhaseInv
  <2> QED
    BY <2>2, <2>3
<1>7. CASE j = k /\ g = h
  <2>1. ThreadInv(k, h)
    BY <1>5, <1>7
  <2>2. ThreadInv(k, h)'
    <3>1. CASE RunSystemOperation(k, h)
      <4>1. PICK o \in Outcome \cup {"exception"} :
              /\ ret' = [ret EXCEPT ![k][h] = o]
              /\ passed' = IF o = "exception" THEN passed ELSE [passed EXCEPT ![k][h] = o]
        BY <3>1 DEF RunSystemOperation
      <4>2. /\ ret'[k][h] = o
            /\ passed'[k][h] = IF o = "exception" THEN passed[k][h] ELSE o
        BY <4>1, <1>1 DEF TypeOK
      <4>3. thread[k][h] = "ready" /\ thread'[k][h] = "ran" /\ report' = report
        BY <3>1, <1>1 DEF RunSystemOperation, Goto, TypeOK
      <4> QED
        BY <2>1, <4>2, <4>3 DEF ThreadInv
    <3>2. CASE ReportResult(k, h)
      <4>1. /\ thread[k][h] = "ran" /\ ret[k][h] \in {"true", "false"}
            /\ thread'[k][h] = "over" /\ passed' = passed
            /\ ret[k][h] # "exception"
            /\ report'[k][h] = IF ret[k][h] = "true" THEN "ok" ELSE "failed"
        BY <3>2, <1>1 DEF ReportResult, Returned, Goto, TypeOK
      <4> QED
        BY <2>1, <4>1 DEF ThreadInv
    <3>3. CASE ReportException(k, h)
      <4>1. /\ ~debug' /\ thread'[k][h] = "over" /\ passed'[k][h] = "false"
            /\ report'[k][h] = "problem"
        BY <3>3, <1>1 DEF ReportException, Goto, TypeOK
      <4> QED
        BY <4>1 DEF ThreadInv
    <3>4. CASE RaiseException(k, h)
      <4>1. /\ debug' /\ thread[k][h] = "ran" /\ thread'[k][h] = "over"
            /\ passed' = passed /\ report' = report
            /\ ret[k][h] \in {"none", "other", "exception"}
        BY <3>4, <1>1 DEF RaiseException, Raised, Goto, TypeOK, Outcome
      <4> QED
        BY <2>1, <4>1 DEF ThreadInv
    <3> QED
      BY <3>1, <3>2, <3>3, <3>4
  <2>3. PhaseInv(k, h)'
    BY <1>1, <1>2, <1>4, StepIsInterval DEF PhaseInv, TypeOK
  <2> QED
    BY <1>7, <2>2, <2>3
<1> QED
  BY <1>6, <1>7

(* The runner keeps the invariant when it starts the next operation and    *)
(* when it has joined the threads of the last one.                         *)
LEMMA RunnerKeepsInv ==
  ASSUME FlowInv, Select \/ EndOperation
  PROVE  FlowInv'
<1> USE StepIsInterval
<1>1. TypeOK /\ TypeOK'
  <2>1. CASE Select
    BY <2>1, SelectTypes DEF FlowInv
  <2>2. CASE EndOperation
    BY <2>2 DEF EndOperation, FlowInv, TypeOK
  <2> QED
    BY <2>1, <2>2 DEF FlowInv
<1>2. debug' = debug /\ ret' = ret /\ passed' = passed /\ report' = report
  BY DEF Select, EndOperation
<1> SUFFICES ASSUME NEW j \in Step, NEW g \in Hosts
             PROVE  ThreadInv(j, g)' /\ PhaseInv(j, g)'
  BY <1>1 DEF FlowInv
<1>3. ThreadInv(j, g) /\ PhaseInv(j, g)
  BY DEF FlowInv
<1>4. j \in Nat /\ step \in Nat
  BY <1>1 DEF TypeOK
<1>5. CASE EndOperation
  <2>1. phase = "run" /\ step' = step + 1 /\ phase' = "select" /\ thread' = thread
    BY <1>5 DEF EndOperation
  <2>2. j = step => thread[j][g] \in {"off", "over"}
    BY <1>5 DEF EndOperation
  <2>3. ThreadInv(j, g)'
    BY <1>2, <1>3, <2>1 DEF ThreadInv
  <2>4. PhaseInv(j, g)'
    BY <1>3, <1>4, <2>1, <2>2 DEF PhaseInv
  <2> QED
    BY <2>3, <2>4
<1>6. CASE Select /\ ToRun(step) = {}
  <2>1. phase = "select" /\ step' = step + 1 /\ phase' = phase /\ thread' = thread
    BY <1>6 DEF Select
  <2>2. ThreadInv(j, g)'
    BY <1>2, <1>3, <2>1 DEF ThreadInv
  <2>3. PhaseInv(j, g)'
    BY <1>3, <1>4, <2>1 DEF PhaseInv
  <2> QED
    BY <2>2, <2>3
<1>7. CASE Select /\ ToRun(step) # {}
  <2>1. /\ phase = "select" /\ step' = step /\ phase' = "run"
        /\ thread' = [thread EXCEPT ![step] =
                        [h \in Hosts |-> IF h \in ToRun(step) THEN "ready" ELSE "off"]]
    BY <1>7 DEF Select
  <2>2. thread'[j][g] = IF j = step THEN IF g \in ToRun(step) THEN "ready" ELSE "off"
                                    ELSE thread[j][g]
    BY <2>1, <1>1 DEF TypeOK
  <2>3. j = step => thread[j][g] = "off"
    BY <1>3, <2>1 DEF PhaseInv
  <2>4. ThreadInv(j, g)'
    BY <1>2, <1>3, <2>2, <2>3 DEF ThreadInv
  <2>5. PhaseInv(j, g)'
    BY <1>3, <1>4, <2>1, <2>2 DEF PhaseInv
  <2> QED
    BY <2>4, <2>5
<1> QED
  BY <1>5, <1>6, <1>7

(* The invariant of the threads holds in every reachable state.            *)
LEMMA FlowInvHolds == Spec => []FlowInv
<1>1. Init => FlowInv
  <2> SUFFICES ASSUME Init
               PROVE  FlowInv
    OBVIOUS
  <2>1. TypeOK
    BY InitTypes
  <2>2. ASSUME NEW k \in Step, NEW h \in Hosts
        PROVE  ThreadInv(k, h) /\ PhaseInv(k, h)
    <3>1. thread[k][h] = "off" /\ passed[k][h] = "none" /\ report[k][h] = "none"
      BY DEF Init, Everywhere
    <3> QED
      BY <3>1 DEF ThreadInv, PhaseInv
  <2> QED
    BY <2>1, <2>2 DEF FlowInv
<1>2. FlowInv /\ [Next]_vars => FlowInv'
  <2> SUFFICES ASSUME FlowInv, [Next]_vars
               PROVE  FlowInv'
    OBVIOUS
  <2>1. ASSUME NEW h \in Hosts, HostStep(h)
        PROVE  FlowInv'
    BY <2>1, HostStepKeepsInv DEF HostStep
  <2>2. CASE UNCHANGED vars
    BY <2>2 DEF vars, FlowInv, TypeOK, ThreadInv, PhaseInv
  <2> QED
    BY <2>1, <2>2, RunnerKeepsInv DEF Next
<1> QED
  BY <1>1, <1>2, PTL DEF Spec

(* Once an operation is over, each host it ran on has a boolean outcome    *)
(* and the report that belongs to it, and no other host has either.        *)
THEOREM EveryRunReportedHolds == Spec => []EveryRunReported
<1>1. FlowInv => EveryRunReported
  <2> SUFFICES ASSUME FlowInv, NEW k \in Step, NEW h \in Hosts, Over(k), ~debug
               PROVE  IF h \in Ran(k)
                      THEN /\ passed[k][h] = "true" <=> report[k][h] = "ok"
                           /\ passed[k][h] = "false" <=> report[k][h] \in {"failed", "problem"}
                           /\ report[k][h] # "none"
                      ELSE passed[k][h] = "none" /\ report[k][h] = "none"
    BY DEF EveryRunReported
  <2>1. thread[k][h] \in {"off", "over"} /\ ThreadInv(k, h)
    BY DEF FlowInv, PhaseInv, Over
  <2> QED
    BY <2>1 DEF Ran, ThreadInv
<1> QED
  BY <1>1, FlowInvHolds, PTL

(* A step leaves the outcomes and reports of an operation that is over.    *)
LEMMA StepKeepsOver ==
  ASSUME FlowInv, [Next]_vars, NEW j \in Step, Over(j)
  PROVE  passed'[j] = passed[j] /\ report'[j] = report[j]
<1>1. CASE Select \/ EndOperation \/ UNCHANGED vars
  BY <1>1 DEF Select, EndOperation, vars
<1>2. ASSUME NEW k \in Step, NEW h \in Hosts,
             \/ RunSystemOperation(k, h) \/ ReportResult(k, h)
             \/ ReportException(k, h) \/ RaiseException(k, h)
      PROVE  passed'[j] = passed[j] /\ report'[j] = report[j]
  <2>1. thread[k][h] \in {"ready", "ran"}
    BY <1>2 DEF RunSystemOperation, ReportResult, ReportException, RaiseException,
                Returned, Raised
  <2>2. k = step
    BY <2>1, AtWorkIsCurrent
  <2>3. j # k
    BY <2>2, StepIsInterval DEF Over
  <2>4. TypeOK
    BY DEF FlowInv
  <2>5. CASE RunSystemOperation(k, h)
    BY <2>3, <2>4, <2>5 DEF RunSystemOperation, TypeOK
  <2>6. CASE ReportResult(k, h)
    BY <2>3, <2>4, <2>6 DEF ReportResult, TypeOK
  <2>7. CASE ReportException(k, h)
    BY <2>3, <2>4, <2>7 DEF ReportException, TypeOK
  <2>8. CASE RaiseException(k, h)
    BY <2>8 DEF RaiseException
  <2> QED
    BY <1>2, <2>5, <2>6, <2>7, <2>8
<1> QED
  BY <1>1, <1>2 DEF Next, HostStep

(* The outcomes and reports of an operation that is over never change: the *)
(* decisions taken on them stay justified.                                 *)
THEOREM OutcomesStandHolds == Spec => OutcomesStand
<1>1. FlowInv /\ [Next]_vars =>
        [\A k \in Step : Over(k) => passed'[k] = passed[k] /\ report'[k] = report[k]]_vars
  BY StepKeepsOver
<1> QED
  BY <1>1, FlowInvHolds, PTL DEF Spec, OutcomesStand
-----------------------------------------------------------------------------
(* The host executors are numbered from below, so any set of hosts has a   *)
(* first one.                                                              *)
LEMMA FirstIsMember ==
  ASSUME TypeOK, NEW S, S \subseteq Hosts, S # {}
  PROVE  First(S) \in S /\ \A i \in S : rank[First(S)] <= rank[i]
<1> DEFINE R == OpToRel(<, Nat)
           T == {rank[g] : g \in S}
<1>1. T \subseteq Nat /\ T # {}
  BY DEF TypeOK
<1>2. IsWellFoundedOn(R, Nat)
  BY NatLessThanWellFounded
<1>3. PICK x \in T : \A y \in T : <<y, x>> \notin R
  <2> HIDE DEF T, R
  <2> QED
    BY <1>1, <1>2, WFMin
<1>4. \A y \in T : x <= y
  <2> SUFFICES ASSUME NEW y \in T
               PROVE  x <= y
    OBVIOUS
  <2>1. x \in Nat /\ y \in Nat
    BY <1>1, <1>3
  <2>2. ~(y < x)
    BY <1>3, <2>1 DEF OpToRel
  <2> QED
    BY <2>1, <2>2
<1>5. PICK g \in S : rank[g] = x
  BY <1>3
<1>6. \A i \in S : rank[g] <= rank[i]
  BY <1>4, <1>5
<1> QED
  BY <1>6 DEF First

(* Where an operation is to run depends on the outcomes of its             *)
(* prerequisites and on nothing else that changes.                         *)
LEMMA ToRunStable ==
  ASSUME rank' = rank, NEW k \in Step,
         \A j \in Prerequisites(k) : passed'[j] = passed[j]
  PROVE  ToRun(k)' = ToRun(k)
<1>1. Prerequisites(k)' = Prerequisites(k)
  BY DEF Prerequisites
<1>2. ASSUME NEW j, NEW h
      PROVE  First(Matching(j, h))' = First(Matching(j, h))
  BY DEF First, Matching
<1>3. ASSUME NEW h
      PROVE  PassedOnOneHost(k, h)' = PassedOnOneHost(k, h)
  <2>1. \A j : Matching(j, h)' = Matching(j, h)
    BY DEF Matching
  <2>2. \A j \in Prerequisites(k) :
          passed'[j][First(Matching(j, h))'] = passed[j][First(Matching(j, h))]
    BY <1>2
  <2> QED
    BY <1>1, <2>1, <2>2 DEF PassedOnOneHost
<1>4. PassedOnMultipleHosts(k)' = PassedOnMultipleHosts(k)
  BY <1>1 DEF PassedOnMultipleHosts, Truthy
<1>5. ASSUME NEW h
      PROVE  ValidatePrerequisite(k, h)' = ValidatePrerequisite(k, h)
  BY <1>3, <1>4 DEF ValidatePrerequisite, Fulfilled
<1> QED
  BY <1>5 DEF ToRun

-----------------------------------------------------------------------------(* The runner has decided where the operation runs.                        *)
Decided(k) == k < step \/ (k = step /\ phase # "select")

(* What ran is what the outcomes, as they are now, say is to run.          *)
RanWhereDecided == \A k \in Step : Decided(k) => Ran(k) = ToRun(k)

(* The operations a decision looks at are over.                            *)
LEMMA PrerequisitesOver ==
  ASSUME TypeOK, NEW k \in Step, k <= step, NEW j \in Prerequisites(k)
  PROVE  j \in Step /\ Over(j)
BY StepIsInterval DEF Prerequisites, Over, TypeOK

(* A step leaves the decision on an operation that was taken, or is taken  *)
(* in that step.                                                           *)
LEMMA DecisionStands ==
  ASSUME FlowInv, [Next]_vars, NEW k \in Step, k <= step
  PROVE  ToRun(k)' = ToRun(k)
<1>1. TypeOK
  BY DEF FlowInv
<1>2. rank' = rank
  BY DEF Next, HostStep, Select, EndOperation, RunSystemOperation, ReportResult,
         ReportException, RaiseException, vars
<1>3. \A j \in Prerequisites(k) : passed'[j] = passed[j]
  BY <1>1, PrerequisitesOver, StepKeepsOver
<1> QED
  BY <1>2, <1>3, ToRunStable

(* A step of an operation on a host changes neither what ran nor what was  *)
(* decided.                                                                *)
LEMMA HostStepKeepsRan ==
  ASSUME FlowInv, NEW k \in Step, NEW h \in Hosts,
         \/ RunSystemOperation(k, h) \/ ReportResult(k, h)
         \/ ReportException(k, h) \/ RaiseException(k, h)
  PROVE  /\ step' = step /\ (phase' = "select" <=> phase = "select")
         /\ \A j \in Step : Ran(j)' = Ran(j)
<1>1. thread[k][h] \in {"ready", "ran"}
  BY DEF RunSystemOperation, ReportResult, ReportException, RaiseException, Returned, Raised
<1>2. k = step /\ phase # "select"
  BY <1>1, AtWorkIsCurrent
<1>3. \E t \in {"ran", "over"} : thread' = [thread EXCEPT ![k][h] = t]
  BY DEF RunSystemOperation, ReportResult, ReportException, RaiseException, Goto
<1>4. step' = step /\ phase' \in {phase, "aborted"}
  BY DEF RunSystemOperation, ReportResult, ReportException, RaiseException
<1>5. thread \in [Step -> [Hosts -> {"off", "ready", "ran", "over"}]]
  BY DEF FlowInv, TypeOK
<1>6. ASSUME NEW j \in Step, NEW g \in Hosts
      PROVE  thread'[j][g] # "off" <=> thread[j][g] # "off"
  BY <1>1, <1>3, <1>5
<1> QED
  BY <1>2, <1>4, <1>6 DEF Ran

(* What ran stays what was decided.                                        *)
LEMMA RanWhereDecidedHolds == Spec => []RanWhereDecided
<1>1. Init => RanWhereDecided
  <2> SUFFICES ASSUME Init, NEW k \in Step
               PROVE  ~Decided(k)
    BY DEF RanWhereDecided
  <2> QED
    BY StepIsInterval DEF Init, Decided
<1>2. FlowInv /\ RanWhereDecided /\ [Next]_vars => RanWhereDecided'
  <2> SUFFICES ASSUME FlowInv, RanWhereDecided, [Next]_vars, NEW k \in Step, Decided(k)'
               PROVE  Ran(k)' = ToRun(k)'
    BY DEF RanWhereDecided
  <2>1. /\ TypeOK /\ k \in Nat /\ step \in Nat
        /\ thread \in [Step -> [Hosts -> {"off", "ready", "ran", "over"}]]
    BY StepIsInterval DEF FlowInv, TypeOK
  <2>2. Decided(k) => Ran(k) = ToRun(k)
    BY DEF RanWhereDecided
  <2>3. CASE UNCHANGED vars
    <3>1. Decided(k) /\ Ran(k)' = Ran(k)
      BY <2>3 DEF Decided, Ran, vars
    <3>2. k <= step
      BY <2>1, <3>1 DEF Decided
    <3> QED
      BY <2>2, <3>1, <3>2, DecisionStands
  <2>4. ASSUME NEW h \in Hosts, HostStep(h)
        PROVE  Ran(k)' = ToRun(k)'
    <3>1. step' = step /\ (phase' = "select" <=> phase = "select") /\ Ran(k)' = Ran(k)
      BY <2>4, HostStepKeepsRan DEF HostStep
    <3>2. Decided(k)
      BY <3>1 DEF Decided
    <3>3. k <= step
      BY <2>1, <3>2 DEF Decided
    <3> QED
      BY <2>2, <3>1, <3>2, <3>3, DecisionStands
  <2>5. CASE EndOperation
    <3>1. phase = "run" /\ step' = step + 1 /\ phase' = "select" /\ thread' = thread
      BY <2>5 DEF EndOperation
    <3>2. k <= step /\ Decided(k)
      BY <2>1, <3>1 DEF Decided
    <3> QED
      BY <2>2, <3>1, <3>2, DecisionStands DEF Ran
  <2>6. CASE Select /\ ToRun(step) = {}
    <3>1. phase = "select" /\ step' = step + 1 /\ phase' = "select" /\ thread' = thread
      BY <2>6 DEF Select
    <3>2. k <= step
      BY <2>1, <3>1 DEF Decided
    <3>3. k = step => Ran(k) = {}
      BY <3>1 DEF FlowInv, PhaseInv, Ran
    <3>4. k < step => Decided(k)
      BY DEF Decided
    <3>5. Ran(k) = ToRun(k)
      BY <2>1, <2>2, <2>6, <3>2, <3>3, <3>4
    <3> QED
      BY <3>1, <3>2, <3>5, DecisionStands DEF Ran
  <2>7. CASE Select /\ ToRun(step) # {}
    <3>1. /\ phase = "select" /\ step' = step /\ phase' = "run" /\ step \in Step
          /\ thread' = [thread EXCEPT ![step] =
                          [h \in Hosts |-> IF h \in ToRun(step) THEN "ready" ELSE "off"]]
      <4>1. phase = "select" /\ step <= Len(Flow) /\ ToRun(step) # {}
        BY <2>7 DEF Select
      <4>2. step \in Step
        BY <2>1, <4>1, StepIsInterval DEF TypeOK
      <4> QED
        BY <2>7, <4>1, <4>2 DEF Select
    <3>2. k <= step
      BY <2>1, <3>1 DEF Decided
    <3>3. CASE k = step
      <4>1. \A h \in Hosts : thread'[k][h] # "off" <=> h \in ToRun(k)
        BY <2>1, <3>1, <3>3
      <4>2. ToRun(k) \subseteq Hosts
        BY OperationTypes DEF ToRun
      <4>3. Ran(k)' = ToRun(k)
        BY <4>1, <4>2 DEF Ran
      <4> QED
        BY <3>2, <4>3, DecisionStands
    <3>4. CASE k < step
      <4>1. Ran(k)' = Ran(k)
        BY <2>1, <3>1, <3>4 DEF Ran
      <4>2. Decided(k)
        BY <3>4 DEF Decided
      <4> QED
        BY <2>2, <3>2, <4>1, <4>2, DecisionStands
    <3> QED
      BY <2>1, <3>2, <3>3, <3>4
  <2> QED
    BY <2>3, <2>4, <2>5, <2>6, <2>7 DEF Next
<1> QED
  BY <1>1, <1>2, FlowInvHolds, PTL DEF Spec

(* operations.py: that all must pass is only asked of prerequisites on     *)
(* multiple hosts.                                                         *)
AllOnlyOnMultipleHosts == \A k \in Step : Flow[k].multipleHosts \/ Flow[k].passIfAny

(* An operation of one host has an outcome that is true, false or none     *)
(* once it is over and exceptions are not let through.                     *)
LEMMA OverTruthy ==
  ASSUME FlowInv, ~debug, NEW j \in Step, Over(j), NEW g \in Hosts, Truthy(passed[j][g])
  PROVE  passed[j][g] = "true"
<1>1. thread[j][g] \in {"off", "over"} /\ ThreadInv(j, g)
  BY DEF FlowInv, PhaseInv, Over
<1>2. report[j][g] \in {"none", "ok", "failed", "problem"}
  BY DEF FlowInv, TypeOK
<1> QED
  BY <1>1, <1>2 DEF ThreadInv, Truthy

(* Nowhere down the chain of any flow does an operation run whose          *)
(* prerequisite failed, raised or was itself skipped on all hosts, nor on  *)
(* any when all must pass.                                                 *)
THEOREM PrerequisitePassedHolds ==
  ASSUME AllOnlyOnMultipleHosts
  PROVE  Spec => []PrerequisitePassed
<1>1. FlowInv /\ RanWhereDecided => PrerequisitePassed
  <2> SUFFICES ASSUME FlowInv, RanWhereDecided, ~debug, NEW k \in Step, NEW j \in Step,
                      Ran(k) # {}, j \in Prerequisites(k), ~Flow[k].runIfFailed
               PROVE  IF Flow[k].multipleHosts /\ ~Flow[k].passIfAny
                      THEN \A g \in Flow[j].on : passed[j][g] = "true"
                      ELSE \E g \in Flow[j].on : passed[j][g] = "true"
    BY DEF PrerequisitePassed
  <2>1. TypeOK /\ k \in Nat /\ step \in Nat
    BY StepIsInterval DEF FlowInv, TypeOK
  <2>2. PICK h \in Hosts : thread[k][h] # "off"
    BY DEF Ran
  <2>3. Decided(k) /\ k <= step
    BY <2>1, <2>2 DEF FlowInv, PhaseInv, Decided
  <2>4. h \in ToRun(k)
    BY <2>2, <2>3 DEF RanWhereDecided, Ran
  <2>5. Over(j)
    BY <2>1, <2>3, PrerequisitesOver
  <2>6. Flow[j].on \subseteq Hosts
    BY OperationTypes
  <2>7. Flow[k].prerequisite # NoName
    BY OperationTypes, FlowAssumption DEF Prerequisites
  <2>8. Fulfilled(k, h)
    <3>1. ValidatePrerequisite(k, h)
      BY <2>4 DEF ToRun
    <3>2. Flow[k].runIfFailed = FALSE
      BY OperationTypes
    <3>3. Fulfilled(k, h) # FALSE
      BY <2>7, <3>1, <3>2 DEF ValidatePrerequisite
    <3>4. Fulfilled(k, h) \in BOOLEAN
      BY DEF Fulfilled, PassedOnMultipleHosts, PassedOnOneHost
    <3> QED
      BY <3>3, <3>4
  <2>9. \A i \in Prerequisites(k) : i = j
    BY FlowAssumption, PrerequisitesOver, <2>1, <2>3 DEF Prerequisites
  <2>10. CASE Flow[k].multipleHosts
    BY <2>5, <2>6, <2>8, <2>9, <2>10, OverTruthy DEF Fulfilled, PassedOnMultipleHosts
  <2>11. CASE ~Flow[k].multipleHosts
    <3>1. Flow[k].passIfAny
      BY <2>11 DEF AllOnlyOnMultipleHosts
    <3>2. Matching(j, h) # {} /\ passed[j][First(Matching(j, h))] = "true"
      BY <2>8, <2>9, <2>11, <3>1 DEF Fulfilled, PassedOnOneHost
    <3>3. Matching(j, h) \subseteq Flow[j].on
      BY DEF Matching
    <3>4. First(Matching(j, h)) \in Flow[j].on
      BY <2>1, <2>6, <3>2, <3>3, FirstIsMember
    <3> QED
      BY <2>11, <3>2, <3>4
  <2> QED
    BY <2>10, <2>11
<1> QED
  BY <1>1, FlowInvHolds, RanWhereDecidedHolds, PTL

(* In any flow, an operation meant for failures runs on all its hosts when *)
(* the one it depends on passed nowhere.                                   *)
THEOREM RunsIfFailedHolds ==
  ASSUME AllOnlyOnMultipleHosts
  PROVE  Spec => []RunsIfFailed
<1>1. FlowInv /\ RanWhereDecided => RunsIfFailed
  <2> SUFFICES ASSUME FlowInv, RanWhereDecided, NEW k \in Step, Over(k), Flow[k].runIfFailed,
                      Prerequisites(k) # {},
                      \A j \in Prerequisites(k), h \in Hosts : ~Truthy(passed[j][h])
               PROVE  Ran(k) = Flow[k].on
    BY DEF RunsIfFailed
  <2>1. TypeOK /\ k \in Nat /\ step \in Nat /\ k <= step
    BY StepIsInterval DEF FlowInv, TypeOK, Over
  <2>2. Ran(k) = ToRun(k)
    BY DEF RanWhereDecided, Decided, Over
  <2>3. \A j \in Prerequisites(k) : Flow[j].on \subseteq Hosts /\ Flow[j].on # {}
    BY <2>1, OperationTypes, PrerequisitesOver
  <2>4. CASE Flow[k].multipleHosts
    <3>1. ~PassedOnMultipleHosts(k)
      BY <2>3 DEF PassedOnMultipleHosts
    <3> QED
      BY <2>2, <2>4, <3>1 DEF ToRun, ValidatePrerequisite, Fulfilled
  <2>5. CASE ~Flow[k].multipleHosts
    <3>1. ASSUME NEW h, PassedOnOneHost(k, h)
          PROVE  FALSE
      <4>1. Flow[k].passIfAny
        BY <2>5 DEF AllOnlyOnMultipleHosts
      <4>2. PICK j \in Prerequisites(k) : Matching(j, h) # {}
        BY <3>1, <4>1 DEF PassedOnOneHost
      <4>3. PICK i \in Prerequisites(k) : passed[i][First(Matching(i, h))] = "true"
        BY <3>1, <4>2 DEF PassedOnOneHost
      <4>4. i = j
        BY FlowAssumption, PrerequisitesOver, <2>1 DEF Prerequisites
      <4>5. Matching(j, h) \subseteq Hosts
        BY <2>3 DEF Matching
      <4>6. First(Matching(j, h)) \in Hosts
        BY <2>1, <4>2, <4>5, FirstIsMember
      <4> QED
        BY <4>3, <4>4, <4>6 DEF Truthy
    <3> QED
      BY <2>2, <2>5, <3>1 DEF ToRun, ValidatePrerequisite, Fulfilled
  <2> QED
    BY <2>4, <2>5
<1> QED
  BY <1>1, FlowInvHolds, RanWhereDecidedHolds, PTL
-----------------------------------------------------------------------------
(* The refinement of SerialFlow.                                           *)

(* Where the abstract flow runs its next operation is where the runner     *)
(* does: both look at operations that are over.                            *)
LEMMA SeenToRun ==
  ASSUME TypeOK, NEW k \in Step, k <= step
  PROVE  Serial!ToRun(k) = ToRun(k)
<1>1. Serial!Prerequisites(k) = Prerequisites(k)
  BY DEF Serial!Prerequisites, Prerequisites
<1>2. \A j \in Prerequisites(k) : Seen(passed)[j] = passed[j]
  BY PrerequisitesOver DEF Seen
<1>3. ASSUME NEW j, NEW h
      PROVE  /\ Serial!Matching(j, h) = Matching(j, h)
             /\ Serial!First(Serial!Matching(j, h)) = First(Matching(j, h))
  BY DEF Serial!Matching, Matching, Serial!First, First
<1>4. ASSUME NEW h
      PROVE  Serial!PassedOnOneHost(k, h) = PassedOnOneHost(k, h)
  <2>1. \A j \in Prerequisites(k) :
          Seen(passed)[j][Serial!First(Serial!Matching(j, h))] = passed[j][First(Matching(j, h))]
    BY <1>2, <1>3
  <2>2. \A j : Serial!Matching(j, h) = Matching(j, h)
    BY <1>3
  <2> QED
    BY <1>1, <2>1, <2>2 DEF Serial!PassedOnOneHost, PassedOnOneHost
<1>5. Serial!PassedOnMultipleHosts(k) = PassedOnMultipleHosts(k)
  BY <1>1, <1>2 DEF Serial!PassedOnMultipleHosts, PassedOnMultipleHosts, Serial!Truthy, Truthy
<1>6. ASSUME NEW h
      PROVE  Serial!ValidatePrerequisite(k, h) = ValidatePrerequisite(k, h)
  BY <1>4, <1>5 DEF Serial!ValidatePrerequisite, ValidatePrerequisite,
                    Serial!Fulfilled, Fulfilled
<1> QED
  BY <1>6 DEF Serial!ToRun, ToRun

(* An operation that is over on a host ended there in one of the ways the  *)
(* abstract flow has.                                                      *)
LEMMA OverEnded ==
  ASSUME FlowInv, NEW k \in Step, NEW h \in Hosts, thread[k][h] = "over"
  PROVE  <<passed[k][h], report[k][h]>> \in Serial!Endings
<1>1. passed[k][h] \in Outcome /\ report[k][h] \in {"none", "ok", "failed", "problem"}
  BY DEF FlowInv, TypeOK
<1>2. ThreadInv(k, h)
  BY DEF FlowInv
<1>3. CASE debug
  BY <1>1, <1>2, <1>3 DEF ThreadInv, Serial!Endings, Serial!Reported, Serial!Untold, Outcome
<1>4. CASE ~debug
  BY <1>1, <1>2, <1>4 DEF ThreadInv, Serial!Endings, Serial!Reported, Serial!Problem, Outcome
<1> QED
  BY <1>3, <1>4

(* The step in which the runner leaves an operation behind is the one in   *)
(* which the abstract flow runs it.                                        *)
LEMMA LeavingRunsOperation ==
  ASSUME FlowInv, step <= Len(Flow), step' = step + 1,
         UNCHANGED <<debug, rank, passed, report>>,
         \A h \in Hosts : IF h \in ToRun(step) THEN thread[step][h] = "over"
                                               ELSE thread[step][h] = "off"
  PROVE  Serial!RunOperation
<1>1. TypeOK /\ step \in Step /\ step \in Nat
  BY StepIsInterval DEF FlowInv, TypeOK
<1>2. Serial!ToRun(step) = ToRun(step) /\ ToRun(step) \subseteq Hosts
  BY <1>1, SeenToRun, OperationTypes DEF ToRun
<1> DEFINE ending == [h \in ToRun(step) |-> <<passed[step][h], report[step][h]>>]
<1>3. ending \in [Serial!ToRun(step) -> Serial!Endings]
  BY <1>1, <1>2, OverEnded
<1>4. \A h \in Hosts \ ToRun(step) : passed[step][h] = "none" /\ report[step][h] = "none"
  BY <1>1 DEF FlowInv, ThreadInv
<1>5. /\ passed[step] = [h \in Hosts |-> IF h \in ToRun(step) THEN ending[h][1] ELSE "none"]
      /\ report[step] = [h \in Hosts |-> IF h \in ToRun(step) THEN ending[h][2] ELSE "none"]
  <2>1. \A h \in ToRun(step) : ending[h][1] = passed[step][h] /\ ending[h][2] = report[step][h]
    OBVIOUS
  <2>2. passed[step] \in [Hosts -> Outcome]
    BY <1>1 DEF TypeOK
  <2>3. report[step] \in [Hosts -> {"none", "ok", "failed", "problem"}]
    BY <1>1 DEF TypeOK
  <2> HIDE DEF ending
  <2> QED
    BY <1>4, <2>1, <2>2, <2>3
<1>6. ASSUME NEW k \in Step
      PROVE  Over(k)' <=> Over(k) \/ k = step
  BY <1>1, StepIsInterval DEF Over
<1>7. \A f : [k \in Step |-> IF Over(k)' THEN f[k] ELSE [h \in Hosts |-> "none"]]
             = [Seen(f) EXCEPT ![step] = f[step]]
  BY <1>1, <1>6 DEF Seen
<1>8. /\ Seen(passed)' = [Seen(passed) EXCEPT ![step] = passed[step]]
      /\ Seen(report)' = [Seen(report) EXCEPT ![step] = report[step]]
  <2>1. Seen(passed)' = [k \in Step |-> IF Over(k)' THEN passed[k] ELSE [h \in Hosts |-> "none"]]
    BY DEF Seen
  <2>2. Seen(report)' = [k \in Step |-> IF Over(k)' THEN report[k] ELSE [h \in Hosts |-> "none"]]
    BY DEF Seen
  <2> QED
    BY <1>7, <2>1, <2>2
<1>9. \E e \in [Serial!ToRun(step) -> Serial!Endings] :
        /\ Seen(passed)' = [Seen(passed) EXCEPT ![step] =
             [h \in Hosts |-> IF h \in Serial!ToRun(step) THEN e[h][1] ELSE "none"]]
        /\ Seen(report)' = [Seen(report) EXCEPT ![step] =
             [h \in Hosts |-> IF h \in Serial!ToRun(step) THEN e[h][2] ELSE "none"]]
  <2> HIDE DEF ending
  <2> WITNESS ending \in [Serial!ToRun(step) -> Serial!Endings]
  <2> QED
    BY <1>2, <1>5, <1>8
<1> QED
  BY <1>9 DEF Serial!RunOperation

(* A step in which the runner stays at its operation is not seen.          *)
LEMMA StayingIsUnseen ==
  ASSUME FlowInv, [Next]_vars, step' = step
  PROVE  UNCHANGED Serial!vars
<1>1. debug' = debug /\ rank' = rank
  BY DEF Next, HostStep, Select, EndOperation, RunSystemOperation, ReportResult,
         ReportException, RaiseException, vars
<1>2. \A k \in Step : Over(k)' <=> Over(k)
  BY DEF Over
<1>3. \A k \in Step : Over(k) => passed'[k] = passed[k] /\ report'[k] = report[k]
  BY StepKeepsOver
<1>4. Seen(passed)' = Seen(passed) /\ Seen(report)' = Seen(report)
  BY <1>2, <1>3 DEF Seen
<1> QED
  BY <1>1, <1>4 DEF Serial!vars

(* Every step of the runner and its threads is a step of the abstract flow *)
(* or is not seen there.                                                   *)
LEMMA StepRefines ==
  ASSUME FlowInv, RanWhereDecided, [Next]_vars
  PROVE  [Serial!RunOperation]_(Serial!vars)
<1>1. TypeOK /\ step \in Nat /\ Len(Flow) \in Nat
  BY StepIsInterval DEF FlowInv, TypeOK
<1>2. CASE step' = step
  BY <1>2, StayingIsUnseen
<1>3. CASE Select /\ step' # step
  <2>1. /\ phase = "select" /\ step <= Len(Flow) /\ ToRun(step) = {}
        /\ step' = step + 1 /\ UNCHANGED <<debug, rank, passed, report>>
    BY <1>3 DEF Select
  <2>2. step \in Step
    BY <1>1, <2>1, StepIsInterval DEF TypeOK
  <2>3. \A h \in Hosts : thread[step][h] = "off"
    BY <2>1, <2>2 DEF FlowInv, PhaseInv
  <2> QED
    BY <2>1, <2>3, LeavingRunsOperation
<1>4. CASE EndOperation
  <2>1. /\ phase = "run" /\ \A h \in Hosts : thread[step][h] \in {"off", "over"}
        /\ step' = step + 1 /\ UNCHANGED <<debug, rank, passed, report>>
    BY <1>4 DEF EndOperation
  <2>2. step \in Step /\ step <= Len(Flow)
    BY <1>1, <2>1, StepIsInterval DEF TypeOK
  <2>3. Ran(step) = ToRun(step)
    BY <2>1, <2>2 DEF RanWhereDecided, Decided
  <2> QED
    BY <2>1, <2>2, <2>3, LeavingRunsOperation DEF Ran
<1>5. CASE UNCHANGED vars \/ \E h \in Hosts : HostStep(h)
  <2>1. step' = step
    BY <1>5 DEF vars, HostStep, RunSystemOperation, ReportResult, ReportException,
                RaiseException
  <2> QED
    BY <1>2, <2>1
<1> QED
  BY <1>2, <1>3, <1>4, <1>5 DEF Next

(* For any hosts, any flow and any interleaving of their threads, the      *)
(* outcomes and reports are those of operations that ran at once, one      *)
(* after the other, each where the earlier outcomes let it.                *)
THEOREM OneAfterTheOtherHolds == Spec => OneAfterTheOther
<1>1. Init => Serial!Init
  <2> SUFFICES ASSUME Init
               PROVE  Serial!Init
    OBVIOUS
  <2>1. \A k \in Step : ~Over(k)
    BY StepIsInterval DEF Init, Over
  <2>2. Seen(passed) = Serial!Everywhere("none") /\ Seen(report) = Serial!Everywhere("none")
    BY <2>1 DEF Seen, Serial!Everywhere, Serial!Step, Step
  <2>3. rank \in [Hosts -> Nat] /\ \A g, h \in Hosts : rank[g] = rank[h] => g = h
    BY DEF Init
  <2>4. debug \in BOOLEAN /\ step = 1
    BY DEF Init
  <2> QED
    BY <2>2, <2>3, <2>4, Zenon DEF Serial!Init
<1>2. FlowInv /\ RanWhereDecided /\ [Next]_vars => [Serial!RunOperation]_(Serial!vars)
  BY StepRefines
<1> QED
  BY <1>1, <1>2, FlowInvHolds, RanWhereDecidedHolds, PTL
  DEF Spec, OneAfterTheOther, Serial!Spec
-----------------------------------------------------------------------------
(* Why a flow ends: there is always a step to take until it has ended, and *)
(* no step is taken twice.                                                 *)

Ended == step = Len(Flow) + 1 \/ phase = "aborted"

(* The guards of the runner and of the threads.                            *)
CanMove ==
  \/ phase = "select"
  \/ \A h \in Hosts : thread[step][h] \in {"off", "over"}
  \/ \E h \in Hosts : thread[step][h] = "ran" \/ (thread[step][h] = "ready" /\ MyTurn(step, h))

NeverStuck == Ended \/ CanMove

(* What the thread of an operation on a host has still before it.          *)
Before(k, h) ==
  IF ~Decided(k) THEN {"ready", "ran", "over"}
  ELSE {p \in {"ran", "over"} : thread[k][h] = "ready"} \cup {p \in {"over"} : thread[k][h] = "ran"}

Moved(k, h) == Before(k, h)' # Before(k, h)

(* A step takes the runner on, or a thread, and nobody back.               *)
Advances ==
  /\ step' \in {step, step + 1}
  /\ \A k \in Step, h \in Hosts : Before(k, h)' \subseteq Before(k, h)
  /\ step' = step => \E k \in Step, h \in Hosts : Moved(k, h)

(* No thread waits for one that waits for it: in serial the first host of  *)
(* those that are not over has its turn.                                   *)
THEOREM NeverStuckHolds == Spec => []NeverStuck
<1>1. FlowInv => NeverStuck
  <2> SUFFICES ASSUME FlowInv, phase = "run",
                      \E h \in Hosts : thread[step][h] \notin {"off", "over"}
               PROVE  \E h \in Hosts : \/ thread[step][h] = "ran"
                                       \/ thread[step][h] = "ready" /\ MyTurn(step, h)
    BY DEF FlowInv, TypeOK, NeverStuck, Ended, CanMove
  <2>1. TypeOK /\ step \in Step
    BY StepIsInterval DEF FlowInv, TypeOK
  <2> DEFINE S == {h \in Hosts : thread[step][h] \notin {"off", "over"}}
  <2>2. First(S) \in S /\ \A i \in S : rank[First(S)] <= rank[i]
    BY <2>1, FirstIsMember
  <2>3. PICK h \in S : \A i \in S : rank[h] <= rank[i]
    BY <2>2
  <2>4. thread[step][h] \in {"ready", "ran"}
    BY <2>1, <2>3 DEF TypeOK
  <2>5. ASSUME NEW g \in Hosts, rank[g] < rank[h]
        PROVE  thread[step][g] \in {"off", "over"}
    <3>1. rank[g] \in Nat /\ rank[h] \in Nat
      BY <2>1, <2>3 DEF TypeOK
    <3>2. g \notin S
      BY <2>3, <2>5, <3>1
    <3> QED
      BY <3>2
  <2> QED
    BY <2>3, <2>4, <2>5 DEF MyTurn
<1> QED
  BY <1>1, FlowInvHolds, PTL

(* A step of an operation on a host moves that thread and no other.        *)
LEMMA HostStepAdvances ==
  ASSUME FlowInv, NEW k \in Step, NEW h \in Hosts,
         \/ RunSystemOperation(k, h) \/ ReportResult(k, h)
         \/ ReportException(k, h) \/ RaiseException(k, h)
  PROVE  Advances
<1>1. \/ thread[k][h] = "ready" /\ thread' = [thread EXCEPT ![k][h] = "ran"]
      \/ thread[k][h] = "ran" /\ thread' = [thread EXCEPT ![k][h] = "over"]
  BY DEF RunSystemOperation, ReportResult, ReportException, RaiseException, Returned, Raised, Goto
<1>2. step' = step /\ (phase' = "select" <=> phase = "select")
  BY HostStepKeepsRan
<1>3. Decided(k) /\ \A j \in Step : Decided(j)' <=> Decided(j)
  BY <1>1, <1>2, AtWorkIsCurrent DEF Decided
<1>4. thread \in [Step -> [Hosts -> {"off", "ready", "ran", "over"}]]
  BY DEF FlowInv, TypeOK
<1>5. ASSUME NEW j \in Step, NEW g \in Hosts
      PROVE  Before(j, g)' \subseteq Before(j, g)
  BY <1>1, <1>3, <1>4 DEF Before
<1>6. Moved(k, h)
  BY <1>1, <1>3, <1>4 DEF Moved, Before
<1> QED
  BY <1>2, <1>5, <1>6 DEF Advances

(* The runner moves on: to the threads of its operation, or past it.       *)
LEMMA RunnerAdvances ==
  ASSUME FlowInv, Select \/ EndOperation
  PROVE  Advances
<1>1. /\ TypeOK /\ step \in Nat /\ Step = 1..Len(Flow)
      /\ thread \in [Step -> [Hosts -> {"off", "ready", "ran", "over"}]]
  BY StepIsInterval DEF FlowInv, TypeOK
<1>2. CASE step' = step + 1
  <2>1. thread' = thread /\ step' # step
    BY <1>1, <1>2 DEF Select, EndOperation
  <2>2. \A k \in Step : Decided(k) => Decided(k)'
    BY <1>1, <1>2 DEF Decided
  <2>3. \A k \in Step, h \in Hosts : Before(k, h)' \subseteq Before(k, h)
    BY <2>1, <2>2 DEF Before
  <2> QED
    BY <1>2, <2>1, <2>3 DEF Advances
<1>3. CASE step' # step + 1
  <2>1. /\ phase = "select" /\ phase' = "run" /\ step' = step /\ step <= Len(Flow)
        /\ ToRun(step) # {} /\ step \in Step
        /\ thread' = [thread EXCEPT ![step] =
                        [h \in Hosts |-> IF h \in ToRun(step) THEN "ready" ELSE "off"]]
    BY <1>1, <1>3 DEF Select, EndOperation, TypeOK
  <2>2. /\ ~Decided(step) /\ Decided(step)'
        /\ \A k \in Step : k # step => (Decided(k)' <=> Decided(k))
    BY <1>1, <2>1 DEF Decided
  <2>3. \A k \in Step, h \in Hosts : Before(k, h)' \subseteq Before(k, h)
    BY <1>1, <2>1, <2>2 DEF Before
  <2>4. PICK h \in Hosts : h \in ToRun(step)
    BY <2>1, OperationTypes DEF ToRun
  <2>5. "ready" \in Before(step, h) /\ "ready" \notin Before(step, h)'
    BY <2>1, <2>2 DEF Before
  <2> QED
    BY <2>1, <2>3, <2>5 DEF Advances, Moved
<1> QED
  BY <1>2, <1>3

(* Every step of a flow takes away from what is before it and gives        *)
(* nothing back: a flow has at most one step for each operation and three  *)
(* for each operation and host, then it has ended.                         *)
THEOREM AdvancesHolds == Spec => [][Advances]_vars
<1>1. FlowInv /\ [Next]_vars => [Advances]_vars
  BY HostStepAdvances, RunnerAdvances DEF Next, HostStep
<1> QED
  BY <1>1, FlowInvHolds, PTL DEF Spec
-----------------------------------------------------------------------------
(* When the outcome on a host decides for that host.                       *)

RanksDiffer == \A g, h \in Hosts : rank[g] = rank[h] => g = h

(* The order of the hosts is fixed.                                        *)
LEMMA RanksDifferHolds == Spec => []RanksDiffer
<1>1. Init => RanksDiffer
  BY DEF Init, RanksDiffer
<1>2. RanksDiffer /\ [Next]_vars => RanksDiffer'
  <2>1. [Next]_vars => rank' = rank
    BY DEF Next, HostStep, Select, EndOperation, RunSystemOperation, ReportResult,
           ReportException, RaiseException, vars
  <2> QED
    BY <2>1 DEF RanksDiffer
<1> QED
  BY <1>1, <1>2, PTL DEF Spec

(* No host of a single-type role comes before this one in the list.        *)
InFront(h) == \A g \in SingleType : rank[h] <= rank[g]

DependsOnHostInFront ==
  \A k \in Step : \A j \in Prerequisites(k) : \A h \in Flow[k].on :
    InFront(h) /\ Over(k) /\ Flow[j].on = Hosts
    /\ ~Flow[k].multipleHosts /\ ~Flow[k].runIfFailed
    => (h \in Ran(k) <=> passed[j][h] = "true")

(* What operations.py says of an operation on one host, that it depends on *)
(* "this" host, is true of each host that no single-type host comes before *)
(* in the list of the executors.                                           *)
THEOREM DependsOnHostInFrontHolds == Spec => []DependsOnHostInFront
<1>1. FlowInv /\ RanWhereDecided /\ RanksDiffer => DependsOnHostInFront
  <2> SUFFICES ASSUME FlowInv, RanWhereDecided, RanksDiffer,
                      NEW k \in Step, NEW j \in Prerequisites(k), NEW h \in Flow[k].on,
                      InFront(h), Over(k), Flow[j].on = Hosts,
                      ~Flow[k].multipleHosts, ~Flow[k].runIfFailed
               PROVE  h \in Ran(k) <=> passed[j][h] = "true"
    BY DEF DependsOnHostInFront
  <2>1. TypeOK /\ k \in Nat /\ step \in Nat /\ k <= step /\ h \in Hosts
    BY StepIsInterval, OperationTypes DEF FlowInv, TypeOK, Over
  <2>2. Ran(k) = ToRun(k)
    BY DEF RanWhereDecided, Decided, Over
  <2>3. \A i \in Prerequisites(k) : i = j
    BY FlowAssumption, PrerequisitesOver, <2>1 DEF Prerequisites
  <2>4. Matching(j, h) \subseteq Hosts /\ h \in Matching(j, h)
    BY <2>1 DEF Matching
  <2> DEFINE f == First(Matching(j, h))
  <2>5. f \in Matching(j, h) /\ rank[f] <= rank[h]
    BY <2>1, <2>4, FirstIsMember
  <2>6. f = h
    <3>1. CASE f \in SingleType
      <4>1. rank[h] <= rank[f] /\ rank[f] <= rank[h] /\ f \in Hosts
        BY <2>4, <2>5, <3>1 DEF InFront
      <4>2. rank[f] \in Nat /\ rank[h] \in Nat
        BY <2>1, <4>1 DEF TypeOK
      <4> HIDE DEF f
      <4> QED
        BY <2>1, <4>1, <4>2 DEF RanksDiffer
    <3>2. CASE f \notin SingleType
      BY <2>5, <3>2 DEF Matching
    <3> QED
      BY <3>1, <3>2
  <2>7. PassedOnOneHost(k, h) <=> passed[j][h] = "true"
    BY <2>3, <2>4, <2>6 DEF PassedOnOneHost
  <2>8. Flow[k].prerequisite # NoName
    <3>1. j \in Step
      BY <2>1, PrerequisitesOver
    <3>2. Flow[j].name \in STRING /\ Flow[j].name = Flow[k].prerequisite
      BY <3>1, OperationTypes DEF Prerequisites
    <3> QED
      BY <3>2, FlowAssumption
  <2>9. Flow[k].runIfFailed = FALSE /\ PassedOnOneHost(k, h) \in BOOLEAN
    BY OperationTypes DEF PassedOnOneHost
  <2>10. ValidatePrerequisite(k, h) <=> PassedOnOneHost(k, h)
    BY <2>8, <2>9 DEF ValidatePrerequisite, Fulfilled
  <2> QED
    BY <2>2, <2>7, <2>10 DEF ToRun
<1> QED
  BY <1>1, FlowInvHolds, RanWhereDecidedHolds, RanksDifferHolds, PTL

(* Where no role has a single host, every host depends on itself: what the *)
(* run finds against the comment of operations.py needs a single-type host.*)
THEOREM DependsOnThisHostHolds ==
  ASSUME SingleType = {}
  PROVE  Spec => []DependsOnThisHost
<1>1. DependsOnHostInFront => DependsOnThisHost
  BY DEF DependsOnHostInFront, DependsOnThisHost, InFront
<1> QED
  BY <1>1, DependsOnHostInFrontHolds, PTL
=============================================================================
