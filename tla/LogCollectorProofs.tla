--------------------------- MODULE LogCollectorProofs ---------------------------
(***************************************************************************)
(* What holds of the collection of logs for any hosts, runs and faults.    *)
(***************************************************************************)
EXTENDS LogCollector, WellFoundedInduction, TLAPS

(* There are ten operations.                                               *)
LEMMA Ten == DOMAIN CollectorFlow = 1..10 /\ Len(CollectorFlow) = 10
BY DEF CollectorFlow

(* Their names.                                                            *)
LEMMA TenOperations ==
  /\ CollectorFlow[1].name = "create_tar_file"
  /\ CollectorFlow[2].name = "append_logs_files_to_tar_file"
  /\ CollectorFlow[3].name = "gzip_the_tar_files"
  /\ CollectorFlow[4].name = "copy_file_to_UC_Manager"
  /\ CollectorFlow[5].name = "tgz_hosts_tgz_files_on_manager"
  /\ CollectorFlow[6].name = "cleaning_gz_files_from_hosts"
  /\ CollectorFlow[7].name = "printing_list_of_collected_files"
  /\ CollectorFlow[8].name = "cleaning_gz_files_from_manager"
  /\ CollectorFlow[9].name = "copy_to_final_folder"
  /\ CollectorFlow[10].name = "print_final_collected_files_location"
<1>1. CollectorFlow[1].name = "create_tar_file"
  BY DEF CollectorFlow, Operation, Serial
<1>2. CollectorFlow[2].name = "append_logs_files_to_tar_file"
  BY DEF CollectorFlow, Operation, Serial
<1>3. CollectorFlow[3].name = "gzip_the_tar_files"
  BY DEF CollectorFlow, Operation, Serial
<1>4. CollectorFlow[4].name = "copy_file_to_UC_Manager"
  BY DEF CollectorFlow, Operation, Serial
<1>5. CollectorFlow[5].name = "tgz_hosts_tgz_files_on_manager"
  BY DEF CollectorFlow, Operation, Serial
<1>6. CollectorFlow[6].name = "cleaning_gz_files_from_hosts"
  BY DEF CollectorFlow, Operation, Serial
<1>7. CollectorFlow[7].name = "printing_list_of_collected_files"
  BY DEF CollectorFlow, Operation, Serial
<1>8. CollectorFlow[8].name = "cleaning_gz_files_from_manager"
  BY DEF CollectorFlow, Operation, Serial
<1>9. CollectorFlow[9].name = "copy_to_final_folder"
  BY DEF CollectorFlow, Operation, Serial
<1>10. CollectorFlow[10].name = "print_final_collected_files_location"
  BY DEF CollectorFlow, Operation, Serial
<1> QED
  BY <1>1, <1>2, <1>3, <1>4, <1>5, <1>6, <1>7, <1>8, <1>9, <1>10

(* Those that another one depends on, or that are the last, and what they  *)
(* depend on themselves.                                                   *)
LEMMA ChainOfOperations ==
  /\ CollectorFlow[4].on = {manager} /\ CollectorFlow[5].on = {manager}
  /\ CollectorFlow[9].on = {finalHost} /\ CollectorFlow[10].on = {manager}
  /\ CollectorFlow[5].prerequisite = "copy_file_to_UC_Manager"
  /\ CollectorFlow[9].prerequisite = "tgz_hosts_tgz_files_on_manager"
  /\ CollectorFlow[10].prerequisite = "copy_to_final_folder"
  /\ \A k \in {1, 2, 3} : CollectorFlow[k].on = Chosen
  /\ CollectorFlow[2].prerequisite = "create_tar_file"
  /\ CollectorFlow[3].prerequisite = "append_logs_files_to_tar_file"
  /\ \A k \in {2, 3, 5, 9, 10} : /\ CollectorFlow[k].multipleHosts = FALSE
                                 /\ CollectorFlow[k].passIfAny = TRUE
                                 /\ CollectorFlow[k].runIfFailed = FALSE
<1>1. CollectorFlow[4].on = {manager}
  BY DEF CollectorFlow, Operation, Serial
<1>2. /\ CollectorFlow[5].on = {manager} /\ CollectorFlow[5].prerequisite = "copy_file_to_UC_Manager"
      /\ CollectorFlow[5].multipleHosts = FALSE /\ CollectorFlow[5].passIfAny = TRUE
      /\ CollectorFlow[5].runIfFailed = FALSE
  BY DEF CollectorFlow, Operation, Serial
<1>3. /\ CollectorFlow[9].on = {finalHost} /\ CollectorFlow[9].prerequisite = "tgz_hosts_tgz_files_on_manager"
      /\ CollectorFlow[9].multipleHosts = FALSE /\ CollectorFlow[9].passIfAny = TRUE
      /\ CollectorFlow[9].runIfFailed = FALSE
  BY DEF CollectorFlow, Operation, Serial
<1>4. /\ CollectorFlow[10].on = {manager} /\ CollectorFlow[10].prerequisite = "copy_to_final_folder"
      /\ CollectorFlow[10].multipleHosts = FALSE /\ CollectorFlow[10].passIfAny = TRUE
      /\ CollectorFlow[10].runIfFailed = FALSE
  BY DEF CollectorFlow, Operation, Serial
<1>5. \A k \in {1, 2, 3} : CollectorFlow[k].on = Chosen
  BY DEF CollectorFlow, Operation, Serial
<1>6. /\ CollectorFlow[2].prerequisite = "create_tar_file"
      /\ CollectorFlow[2].multipleHosts = FALSE /\ CollectorFlow[2].passIfAny = TRUE
      /\ CollectorFlow[2].runIfFailed = FALSE
  BY DEF CollectorFlow, Operation, Serial
<1>7. /\ CollectorFlow[3].prerequisite = "append_logs_files_to_tar_file"
      /\ CollectorFlow[3].multipleHosts = FALSE /\ CollectorFlow[3].passIfAny = TRUE
      /\ CollectorFlow[3].runIfFailed = FALSE
  BY DEF CollectorFlow, Operation, Serial
<1> QED
  BY <1>1, <1>2, <1>3, <1>4, <1>5, <1>6, <1>7

(* An operation of that name is that operation.                            *)
LEMMA NamesDiffer ==
  ASSUME NEW j \in 1..10, NEW k \in 1..10, CollectorFlow[j].name = CollectorFlow[k].name
  PROVE  j = k
<1>0. j \in {1, 2, 3, 4, 5, 6, 7, 8, 9, 10} /\ k \in {1, 2, 3, 4, 5, 6, 7, 8, 9, 10}
  OBVIOUS
<1>1. CASE j = 1
  BY <1>0, <1>1, TenOperations
<1>2. CASE j = 2
  BY <1>0, <1>2, TenOperations
<1>3. CASE j = 3
  BY <1>0, <1>3, TenOperations
<1>4. CASE j = 4
  BY <1>0, <1>4, TenOperations
<1>5. CASE j = 5
  BY <1>0, <1>5, TenOperations
<1>6. CASE j = 6
  BY <1>0, <1>6, TenOperations
<1>7. CASE j = 7
  BY <1>0, <1>7, TenOperations
<1>8. CASE j = 8
  BY <1>0, <1>8, TenOperations
<1>9. CASE j = 9
  BY <1>0, <1>9, TenOperations
<1>10. CASE j = 10
  BY <1>0, <1>10, TenOperations
<1> QED
  BY <1>0, <1>1, <1>2, <1>3, <1>4, <1>5, <1>6, <1>7, <1>8, <1>9, <1>10

(* Who returns has run the operation of that name.                         *)
LEMMA WhoReturns ==
  ASSUME NEW k \in 1..10, NEW name, name = CollectorFlow[k].name,
         NEW h, NEW o, Returns(name, h, o)
  PROVE  R!RunSystemOperation(k, h) /\ ret'[k][h] = o
<1>1. PICK j \in 1..10 : /\ CollectorFlow[j].name = name
                         /\ R!RunSystemOperation(j, h) /\ ret'[j][h] = o
  BY Ten DEF Returns
<1> QED
  BY <1>1, NamesDiffer

(* The steps of the flow.                                                  *)
LEMMA TenSteps == R!Step = 1..10
BY Ten DEF R!Step

(* A step of the runner, of an operation, or another run.                  *)
FlowStep == R!Next \/ NewRun \/ UNCHANGED flow

(* The operation k is at work on h, runs and returns o.                    *)
Does(k, h, o) ==
  /\ thread[k][h] = "ready" /\ phase # "aborted"
  /\ thread' = [thread EXCEPT ![k][h] = "ran"]
  /\ passed' = IF o = "exception" THEN passed ELSE [passed EXCEPT ![k][h] = o]
  /\ UNCHANGED <<debug, rank, step, phase, report>>

(* That is what returning means.                                           *)
LEMMA ReturningDoes ==
  ASSUME R!TypeOK, NEW k \in 1..10, NEW name, name = CollectorFlow[k].name,
         NEW h \in Hosts, NEW o, Returns(name, h, o)
  PROVE  Does(k, h, o) /\ R!RunSystemOperation(k, h)
<1>1. R!RunSystemOperation(k, h) /\ ret'[k][h] = o
  BY WhoReturns
<1>2. PICK p \in R!Outcome \cup {"exception"} :
        /\ ret' = [ret EXCEPT ![k][h] = p]
        /\ passed' = IF p = "exception" THEN passed ELSE [passed EXCEPT ![k][h] = p]
  BY <1>1 DEF R!RunSystemOperation
<1>3. p = o
  BY <1>1, <1>2, TenSteps DEF R!TypeOK
<1> QED
  BY <1>1, <1>2, <1>3 DEF R!RunSystemOperation, R!Goto, Does

(* A step of an operation on a host keeps the types of the runner.         *)
LEMMA HostStepTypes ==
  ASSUME R!TypeOK, NEW k \in 1..10, NEW h \in Hosts,
         \/ R!RunSystemOperation(k, h) \/ R!ReportResult(k, h)
         \/ R!ReportException(k, h) \/ R!RaiseException(k, h)
  PROVE  R!TypeOK'
<1> USE TenSteps, Ten DEF R!TypeOK, R!Goto
<1>1. CASE R!RunSystemOperation(k, h)
  <2>1. PICK o \in R!Outcome \cup {"exception"} :
          /\ ret' = [ret EXCEPT ![k][h] = o]
          /\ passed' = IF o = "exception" THEN passed ELSE [passed EXCEPT ![k][h] = o]
    BY <1>1 DEF R!RunSystemOperation
  <2>2. passed' \in [1..10 -> [Hosts -> R!Outcome]]
    <3>1. CASE o = "exception"
      BY <2>1, <3>1
    <3>2. CASE o # "exception"
      BY <2>1, <3>2
    <3> QED
      BY <3>1, <3>2
  <2> QED
    BY <1>1, <2>1, <2>2 DEF R!RunSystemOperation
<1>2. CASE R!ReportResult(k, h)
  BY <1>2 DEF R!ReportResult, R!Outcome
<1>3. CASE R!ReportException(k, h)
  BY <1>3 DEF R!ReportException, R!Outcome
<1>4. CASE R!RaiseException(k, h)
  BY <1>4 DEF R!RaiseException, R!Outcome
<1> QED
  BY <1>1, <1>2, <1>3, <1>4

(* So does another run.                                                    *)
LEMMA NewRunTypes ==
  ASSUME R!TypeOK, NewRun
  PROVE  R!TypeOK'
<1>1. \A v : R!Everywhere(v) = [k \in 1..10 |-> [h \in Hosts |-> v]]
  BY TenSteps DEF R!Everywhere
<1> QED
  BY <1>1, TenSteps, Ten DEF R!TypeOK, R!Outcome, NewRun

(* And every step of the runner.                                           *)
LEMMA FlowTypes ==
  ASSUME R!TypeOK, FlowStep
  PROVE  R!TypeOK'
<1>1. CASE UNCHANGED flow
  BY <1>1, TenSteps, Ten DEF flow, R!TypeOK
<1>2. CASE R!Select
  <2>1. step \in 1..10
    BY <1>2, Ten DEF R!TypeOK, R!Select
  <2>2. CASE step' = step + 1 /\ UNCHANGED <<phase, thread>>
    BY <1>2, <2>1, <2>2, Ten DEF R!TypeOK, R!Select
  <2>3. CASE /\ phase' = "run" /\ UNCHANGED step
             /\ thread' = [thread EXCEPT ![step] =
                             [h \in Hosts |-> IF h \in R!ToRun(step) THEN "ready" ELSE "off"]]
    BY <1>2, <2>1, <2>3, Ten, TenSteps DEF R!TypeOK, R!Select
  <2> QED
    BY <1>2, <2>2, <2>3 DEF R!Select
<1>3. CASE R!EndOperation
  BY <1>3, Ten DEF R!TypeOK, R!EndOperation
<1>4. ASSUME NEW h \in Hosts, R!HostStep(h) PROVE R!TypeOK'
  BY <1>4, HostStepTypes, TenSteps DEF R!HostStep
<1> QED
  BY <1>1, <1>2, <1>3, <1>4, NewRunTypes DEF FlowStep, R!Next

(* Only the current operation is at work, those that are to come have no   *)
(* outcome, and one that passed has returned True.                         *)
AtWork ==
  \A k \in 1..10, h \in Hosts :
    /\ thread[k][h] \in {"ready", "ran"} => step = k /\ phase # "select"
    /\ thread[k][h] # "off" => k < step \/ (k = step /\ phase # "select")
    /\ thread[k][h] \in {"off", "ready"} => passed[k][h] = "none"
    /\ thread[k][h] = "ran" /\ passed[k][h] = "true" => ret[k][h] = "true"

(* The tar of the host was made, or that of one in front of it that is the *)
(* only one of its type.                                                   *)
Front(h) == \E g \in Created : g = h \/ (g \in SingleType /\ rank[g] < rank[h])

(* The chain of prerequisites.                                             *)
Chain ==
  /\ \A k \in {2, 3}, h \in Hosts : thread[k][h] # "off" => Front(h)
  /\ thread[5][manager] # "off" => passed[4][manager] = "true"
  /\ thread[9][finalHost] # "off" => passed[5][manager] = "true"
  /\ thread[10][manager] # "off" => passed[9][finalHost] = "true"

(* The host executors are numbered.                                        *)
Numbered == \A g, h \in Hosts : rank[g] = rank[h] => g = h

Control == R!TypeOK /\ AtWork /\ Numbered /\ Chain

(* A host step changes the outcome of the current operation only.          *)
LEMMA HostStepControl ==
  ASSUME Control, NEW k \in 1..10, NEW h \in Hosts,
         \/ R!RunSystemOperation(k, h) \/ R!ReportResult(k, h)
         \/ R!ReportException(k, h) \/ R!RaiseException(k, h)
  PROVE  /\ AtWork' /\ Numbered' /\ Chain'
         /\ \A j \in 1..10, g \in Hosts : j # step \/ g # h => passed'[j][g] = passed[j][g]
<1> R!TypeOK /\ AtWork /\ Numbered /\ Chain /\ manager \in Hosts /\ finalHost \in Hosts
  BY CollectorAssumption DEF Control
<1>1. /\ step = k /\ phase # "select" /\ step' = step /\ phase' \in {phase, "aborted"}
      /\ thread[k][h] \in {"ready", "ran"} /\ rank' = rank
      /\ \E t \in {"ran", "over"} : thread' = [thread EXCEPT ![k][h] = t]
  BY DEF AtWork, R!RunSystemOperation, R!ReportResult, R!ReportException, R!RaiseException,
         R!Returned, R!Raised, R!Goto
<1>2. \E o : passed' = [passed EXCEPT ![k][h] = o]
  <2>1. passed = [passed EXCEPT ![k][h] = passed[k][h]]
    BY TenSteps DEF R!TypeOK
  <2> QED
    BY <2>1 DEF R!RunSystemOperation, R!ReportResult, R!ReportException, R!RaiseException
<1>3. \A j \in 1..10, g \in Hosts :
        /\ j # k \/ g # h => passed'[j][g] = passed[j][g] /\ thread'[j][g] = thread[j][g]
        /\ j = k /\ g = h => thread'[j][g] \in {"ran", "over"}
  BY <1>1, <1>2, TenSteps DEF R!TypeOK
<1>0. \A j \in 1..10, g \in Hosts : j # k \/ g # h => ret'[j][g] = ret[j][g]
  <2>1. \E o : ret' = [ret EXCEPT ![k][h] = o]
    BY DEF R!RunSystemOperation, R!ReportResult, R!ReportException, R!RaiseException
  <2> QED
    BY <2>1, TenSteps DEF R!TypeOK
<1>4. AtWork'
  <2>1. CASE R!RunSystemOperation(k, h)
    <3>1. thread'[k][h] = "ran" /\ passed[k][h] = "none"
      BY <2>1, TenSteps DEF R!TypeOK, R!RunSystemOperation, R!Goto, AtWork
    <3>2. PICK o \in R!Outcome \cup {"exception"} :
            /\ ret' = [ret EXCEPT ![k][h] = o]
            /\ passed' = IF o = "exception" THEN passed ELSE [passed EXCEPT ![k][h] = o]
      BY <2>1 DEF R!RunSystemOperation
    <3>3. passed'[k][h] = "true" => ret'[k][h] = "true"
      BY <3>1, <3>2, TenSteps DEF R!TypeOK
    <3> QED
      BY <1>0, <1>1, <1>3, <3>1, <3>3, <2>1 DEF AtWork, R!RunSystemOperation
  <2>2. CASE \/ R!ReportResult(k, h) \/ R!ReportException(k, h) \/ R!RaiseException(k, h)
    <3>1. thread'[k][h] = "over"
      BY <2>2, TenSteps DEF R!TypeOK, R!ReportResult, R!ReportException, R!RaiseException, R!Goto
    <3> QED
      BY <1>0, <1>1, <1>3, <3>1 DEF AtWork
  <2> QED
    BY <2>1, <2>2
<1>6. ASSUME NEW j \in {2, 3}, NEW g \in Hosts, thread'[j][g] # "off"
      PROVE  Front(g)'
  <2>1. thread[j][g] # "off"
    BY <1>1, <1>3, <1>6
  <2>2. k # 1
    BY <1>1, <2>1 DEF AtWork
  <2>3. Created' = Created
    BY <1>3, <2>2 DEF Created, Passed
  <2> QED
    BY <1>1, <2>1, <2>3 DEF Chain, Front
<1>5. Chain'
  <2>1. /\ k # 4 \/ thread[5][manager] = "off"
        /\ k # 5 \/ thread[9][finalHost] = "off"
        /\ k # 9 \/ thread[10][manager] = "off"
    BY <1>1 DEF AtWork
  <2>2. /\ thread[5][manager] = "off" => thread'[5][manager] = "off" \/ k = 5
        /\ thread[9][finalHost] = "off" => thread'[9][finalHost] = "off" \/ k = 9
        /\ thread[10][manager] = "off" => thread'[10][manager] = "off" \/ k = 10
    BY <1>3
  <2>3. /\ thread'[5][manager] # "off" => thread[5][manager] # "off"
        /\ thread'[9][finalHost] # "off" => thread[9][finalHost] # "off"
        /\ thread'[10][manager] # "off" => thread[10][manager] # "off"
    BY <1>1, <1>3
  <2> QED
    BY <1>3, <1>6, <2>1, <2>3 DEF Chain
<1> QED
  BY <1>1, <1>3, <1>4, <1>5 DEF Numbered

(* An operation that depends on one that runs on one host only is chosen   *)
(* when that one passed.                                                   *)
LEMMA ChosenWhenPassed ==
  ASSUME NEW j \in {4, 5, 9}, NEW k \in {5, 9, 10}, NEW g, NEW h,
         CollectorFlow[k].prerequisite = CollectorFlow[j].name, j < k,
         CollectorFlow[j].on = {g}, h \in R!ToRun(k)
  PROVE  passed[j][g] = "true"
<1>1. CollectorFlow[k].prerequisite # NoName
  BY CollectorAssumption, Ten
<1>2. R!Prerequisites(k) = {j}
  BY NamesDiffer DEF R!Prerequisites
<1>3. R!PassedOnOneHost(k, h)
  BY <1>1, ChainOfOperations
     DEF R!ToRun, R!ValidatePrerequisite, R!Fulfilled, R!PassedOnOneHost
<1>4. R!Matching(j, h) # {} /\ passed[j][R!First(R!Matching(j, h))] = "true"
  BY <1>2, <1>3, ChainOfOperations DEF R!PassedOnOneHost
<1>5. R!Matching(j, h) = {g}
  BY <1>4 DEF R!Matching
<1>6. R!First({g}) = g
  BY DEF R!First
<1> QED
  BY <1>4, <1>5, <1>6

(* Any set of hosts has a first one.                                       *)
LEMMA FirstIsMember ==
  ASSUME R!TypeOK, NEW S, S \subseteq Hosts, S # {}
  PROVE  R!First(S) \in S /\ \A i \in S : rank[R!First(S)] <= rank[i]
<1> DEFINE L == OpToRel(<, Nat)
           T == {rank[g] : g \in S}
<1>1. T \subseteq Nat /\ T # {}
  BY DEF R!TypeOK
<1>2. IsWellFoundedOn(L, Nat)
  BY NatLessThanWellFounded
<1>3. PICK x \in T : \A y \in T : <<y, x>> \notin L
  <2> HIDE DEF T, L
  <2> QED
    BY <1>1, <1>2, WFMin
<1>4. \A y \in T : x <= y
  <2> SUFFICES ASSUME NEW y \in T
               PROVE  x <= y
    OBVIOUS
  <2>1. x \in Nat /\ y \in Nat
    BY <1>1, <1>3
  <2>2. ~(y < x)
    BY <1>3, <2>1 DEF OpToRel
  <2> QED
    BY <2>1, <2>2
<1>5. PICK g \in S : rank[g] = x
  BY <1>3
<1>6. \A i \in S : rank[g] <= rank[i]
  BY <1>4, <1>5
<1> QED
  BY <1>6 DEF R!First

(* An operation passed on a host, or on one in front of it that is the     *)
(* only one of its type.                                                   *)
Decided(j, h) ==
  \E g \in Hosts : passed[j][g] = "true" /\ (g = h \/ (g \in SingleType /\ rank[g] < rank[h]))

(* Where append or gzip is chosen to run, the operation before it did.     *)
LEMMA ChosenBehind ==
  ASSUME R!TypeOK, Numbered, NEW j \in {1, 2}, NEW k \in {2, 3}, j < k, NEW h \in Hosts,
         CollectorFlow[k].prerequisite = CollectorFlow[j].name, h \in R!ToRun(k)
  PROVE  Decided(j, h)
<1>1. CollectorFlow[k].prerequisite # NoName
  BY CollectorAssumption, Ten
<1>2. R!Prerequisites(k) = {j}
  BY NamesDiffer DEF R!Prerequisites
<1>3. R!PassedOnOneHost(k, h) /\ h \in Chosen
  BY <1>1, ChainOfOperations
     DEF R!ToRun, R!ValidatePrerequisite, R!Fulfilled, R!PassedOnOneHost
<1> DEFINE M == R!Matching(j, h)
<1>4. M # {} /\ passed[j][R!First(M)] = "true"
  BY <1>2, <1>3, ChainOfOperations DEF R!PassedOnOneHost
<1>5. M \subseteq Hosts /\ h \in M
  BY <1>3, ChainOfOperations, CollectorAssumption DEF R!Matching
<1>6. \A g \in M : g = h \/ g \in SingleType
  BY DEF R!Matching
<1> HIDE DEF M
<1>7. R!First(M) \in M /\ rank[R!First(M)] <= rank[h]
  BY <1>5, FirstIsMember
<1>8. R!First(M) = h \/ rank[R!First(M)] < rank[h]
  BY <1>5, <1>7 DEF R!TypeOK, Numbered
<1> QED
  BY <1>4, <1>5, <1>6, <1>7, <1>8 DEF Decided

(* So does create_tar_file.                                                *)
LEMMA ChosenInFront ==
  ASSUME Control, NEW k \in {2, 3}, NEW h \in Hosts, h \in R!ToRun(k)
  PROVE  Front(h)
<1> R!TypeOK /\ AtWork /\ Numbered /\ Chain
  BY DEF Control
<1>1. CASE k = 2
  <2>1. CollectorFlow[2].prerequisite = CollectorFlow[1].name
    BY ChainOfOperations, TenOperations
  <2>0. Decided(1, h)
    BY <1>1, <2>1, ChosenBehind
  <2>2. PICK g \in Hosts : /\ passed[1][g] = "true"
                           /\ g = h \/ (g \in SingleType /\ rank[g] < rank[h])
    BY <2>0 DEF Decided
  <2> QED
    BY <2>2 DEF Front, Created, Passed
<1>2. CASE k = 3
  <2>1. CollectorFlow[3].prerequisite = CollectorFlow[2].name
    BY ChainOfOperations, TenOperations
  <2>0. Decided(2, h)
    BY <1>2, <2>1, ChosenBehind
  <2>2. PICK g \in Hosts : /\ passed[2][g] = "true"
                           /\ g = h \/ (g \in SingleType /\ rank[g] < rank[h])
    BY <2>0 DEF Decided
  <2>3. Front(g)
    BY <2>2 DEF AtWork, Chain
  <2>4. PICK f \in Created : f = g \/ (f \in SingleType /\ rank[f] < rank[g])
    BY <2>3 DEF Front
  <2>5. f \in Hosts /\ rank[f] \in Nat /\ rank[g] \in Nat /\ rank[h] \in Nat
    BY <2>4 DEF Created, Passed, R!TypeOK
  <2>6. f = h \/ (f \in SingleType /\ rank[f] < rank[h])
    BY <2>2, <2>4, <2>5
  <2> QED
    BY <2>6 DEF Front
<1> QED
  BY <1>1, <1>2

(* Choosing the hosts and ending an operation keep the control.            *)
LEMMA RunnerControl ==
  ASSUME Control, R!Select \/ R!EndOperation
  PROVE  AtWork' /\ Numbered' /\ Chain' /\ passed' = passed
<1> R!TypeOK /\ AtWork /\ Numbered /\ Chain /\ manager \in Hosts /\ finalHost \in Hosts
  BY CollectorAssumption DEF Control
<1>0. UNCHANGED <<passed, rank, ret>> /\ Numbered' /\ \A h : Front(h) => Front(h)'
  BY DEF R!Select, R!EndOperation, Numbered, Front, Created, Passed
<1>1. CASE R!EndOperation
  BY <1>0, <1>1, TenSteps, Ten DEF R!EndOperation, R!TypeOK, AtWork, Chain
<1>2. CASE R!Select /\ thread' = thread
  BY <1>0, <1>2, TenSteps, Ten DEF R!Select, R!TypeOK, AtWork, Chain
<1>3. CASE R!Select /\ phase' = "run"
  <2>1. /\ step \in 1..10 /\ step' = step /\ passed' = passed /\ phase = "select"
        /\ thread' = [thread EXCEPT ![step] =
                        [h \in Hosts |-> IF h \in R!ToRun(step) THEN "ready" ELSE "off"]]
    BY <1>3, Ten DEF R!Select, R!TypeOK
  <2>2. \A k \in 1..10, h \in Hosts :
          /\ k # step => thread'[k][h] = thread[k][h]
          /\ k = step => thread'[k][h] = IF h \in R!ToRun(step) THEN "ready" ELSE "off"
          /\ k = step => thread[k][h] = "off"
    BY <2>1, TenSteps DEF R!TypeOK, AtWork
  <2>3. AtWork'
    BY <1>0, <1>3, <2>1, <2>2 DEF AtWork
  <2>7. ASSUME NEW k \in {2, 3}, NEW h \in Hosts, thread'[k][h] # "off"
        PROVE  Front(h)'
    <3>1. thread[k][h] # "off" \/ h \in R!ToRun(k)
      BY <2>2, <2>7
    <3> QED
      BY <1>0, <3>1, ChosenInFront DEF Chain
  <2>4. ASSUME manager \in R!ToRun(5) PROVE passed[4][manager] = "true"
    <3>1. /\ CollectorFlow[5].prerequisite = CollectorFlow[4].name
          /\ CollectorFlow[4].on = {manager}
      BY ChainOfOperations, TenOperations
    <3> QED
      BY <2>4, <3>1, ChosenWhenPassed
  <2>5. ASSUME finalHost \in R!ToRun(9) PROVE passed[5][manager] = "true"
    <3>1. /\ CollectorFlow[9].prerequisite = CollectorFlow[5].name
          /\ CollectorFlow[5].on = {manager}
      BY ChainOfOperations, TenOperations
    <3> QED
      BY <2>5, <3>1, ChosenWhenPassed
  <2>6. ASSUME manager \in R!ToRun(10) PROVE passed[9][finalHost] = "true"
    <3>1. /\ CollectorFlow[10].prerequisite = CollectorFlow[9].name
          /\ CollectorFlow[9].on = {finalHost}
      BY ChainOfOperations, TenOperations
    <3> QED
      BY <2>6, <3>1, ChosenWhenPassed
  <2> QED
    BY <1>0, <2>1, <2>2, <2>3, <2>4, <2>5, <2>6, <2>7 DEF Chain
<1> QED
  BY <1>0, <1>1, <1>2, <1>3 DEF R!Select

(* Every step keeps the control.                                           *)
LEMMA FlowControl ==
  ASSUME Control, FlowStep
  PROVE  Control'
<1>0. R!TypeOK'
  BY FlowTypes DEF Control
<1>1. CASE UNCHANGED flow
  BY <1>0, <1>1 DEF flow, Control, AtWork, Numbered, Chain, Front, Created, Passed
<1>2. CASE R!Select \/ R!EndOperation
  BY <1>0, <1>2, RunnerControl DEF Control
<1>3. CASE NewRun
  <2>1. \A k \in 1..10, h \in Hosts : thread'[k][h] = "off" /\ passed'[k][h] = "none"
    BY <1>3, TenSteps DEF NewRun, R!Everywhere
  <2>2. manager \in Hosts /\ finalHost \in Hosts
    BY CollectorAssumption
  <2> QED
    BY <1>0, <1>3, <2>1, <2>2 DEF NewRun, Control, AtWork, Numbered, Chain
<1>4. ASSUME NEW h \in Hosts, R!HostStep(h) PROVE Control'
  BY <1>0, <1>4, HostStepControl, TenSteps DEF R!HostStep, Control
<1> QED
  BY <1>1, <1>2, <1>3, <1>4 DEF FlowStep, R!Next
-----------------------------------------------------------------------------
(* What it is to return, for each of the operations.                       *)
LEMMA OperationsDo ==
  ASSUME R!TypeOK, NEW h \in Hosts, NEW o
  PROVE  /\ Returns("create_tar_file", h, o) => Does(1, h, o)
         /\ Returns("append_logs_files_to_tar_file", h, o) => Does(2, h, o)
         /\ Returns("gzip_the_tar_files", h, o) => Does(3, h, o)
         /\ Returns("copy_file_to_UC_Manager", h, o) => Does(4, h, o)
         /\ Returns("tgz_hosts_tgz_files_on_manager", h, o) => Does(5, h, o)
         /\ Returns("cleaning_gz_files_from_hosts", h, o) => Does(6, h, o)
         /\ Returns("printing_list_of_collected_files", h, o) => Does(7, h, o)
         /\ Returns("cleaning_gz_files_from_manager", h, o) => Does(8, h, o)
         /\ Returns("copy_to_final_folder", h, o) => Does(9, h, o)
         /\ Returns("print_final_collected_files_location", h, o) => Does(10, h, o)
<1>1. ASSUME Returns("create_tar_file", h, o) PROVE Does(1, h, o)
  BY <1>1, ReturningDoes, TenOperations
<1>2. ASSUME Returns("append_logs_files_to_tar_file", h, o) PROVE Does(2, h, o)
  BY <1>2, ReturningDoes, TenOperations
<1>3. ASSUME Returns("gzip_the_tar_files", h, o) PROVE Does(3, h, o)
  BY <1>3, ReturningDoes, TenOperations
<1>4. ASSUME Returns("copy_file_to_UC_Manager", h, o) PROVE Does(4, h, o)
  BY <1>4, ReturningDoes, TenOperations
<1>5. ASSUME Returns("tgz_hosts_tgz_files_on_manager", h, o) PROVE Does(5, h, o)
  BY <1>5, ReturningDoes, TenOperations
<1>6. ASSUME Returns("cleaning_gz_files_from_hosts", h, o) PROVE Does(6, h, o)
  BY <1>6, ReturningDoes, TenOperations
<1>7. ASSUME Returns("printing_list_of_collected_files", h, o) PROVE Does(7, h, o)
  BY <1>7, ReturningDoes, TenOperations
<1>8. ASSUME Returns("cleaning_gz_files_from_manager", h, o) PROVE Does(8, h, o)
  BY <1>8, ReturningDoes, TenOperations
<1>9. ASSUME Returns("copy_to_final_folder", h, o) PROVE Does(9, h, o)
  BY <1>9, ReturningDoes, TenOperations
<1>10. ASSUME Returns("print_final_collected_files_location", h, o) PROVE Does(10, h, o)
  BY <1>10, ReturningDoes, TenOperations
<1> QED
  BY <1>1, <1>2, <1>3, <1>4, <1>5, <1>6, <1>7, <1>8, <1>9, <1>10

(* Whatever returns is a step of the runner.                               *)
LEMMA ReturningIsHostStep ==
  ASSUME NEW name, NEW h \in Hosts, NEW o, Returns(name, h, o)
  PROVE  R!Next
<1>1. \E k \in DOMAIN CollectorFlow : R!RunSystemOperation(k, h)
  BY DEF Returns
<1> QED
  BY <1>1 DEF R!Next, R!HostStep, R!Step

(* Every step of the collection is one of the flow, or another run of it.  *)
LEMMA CollectorRunsFlow ==
  ASSUME [Next]_vars
  PROVE  FlowStep
<1> manager \in Hosts /\ finalHost \in Hosts /\ Chosen \subseteq Hosts
  BY CollectorAssumption
<1>1. CASE Runner
  BY <1>1 DEF Runner, FlowStep, R!Next, R!HostStep, R!Step
<1>2. CASE NewRun \/ UNCHANGED vars
  BY <1>2 DEF FlowStep, vars
<1>3. ASSUME NEW h \in Hosts,
             \/ CreateTarFile(h) \/ AppendLogsFilesToTar(h) \/ AppendSarFilesToTar(h)
             \/ ZipTarFile(h) \/ CleanHosts(h)
      PROVE  R!Next
  <2>1. CASE CreateTarFile(h)
    BY <2>1, ReturningIsHostStep DEF CreateTarFile
  <2>2. CASE AppendLogsFilesToTar(h)
    BY <2>2, ReturningIsHostStep DEF AppendLogsFilesToTar
  <2>5. CASE AppendSarFilesToTar(h)
    BY <2>5, ReturningIsHostStep DEF AppendSarFilesToTar
  <2>3. CASE ZipTarFile(h)
    BY <2>3, ReturningIsHostStep DEF ZipTarFile
  <2>4. CASE CleanHosts(h)
    BY <2>4, ReturningIsHostStep DEF CleanHosts
  <2> QED
    BY <1>3, <2>1, <2>2, <2>3, <2>4, <2>5
<1>4. CASE ScpToManager
  BY <1>4, ReturningIsHostStep DEF ScpToManager, FlowStep
<1>5. CASE TgzHostsTgzFilesOnManager
  BY <1>5, ReturningIsHostStep DEF TgzHostsTgzFilesOnManager, FlowStep
<1>6. CASE PrintFilesList
  BY <1>6, ReturningIsHostStep DEF PrintFilesList, FlowStep
<1>7. CASE CleanManager
  BY <1>7, ReturningIsHostStep DEF CleanManager, FlowStep
<1>8. CASE CopyToFinalFolder
  BY <1>8, ReturningIsHostStep DEF CopyToFinalFolder, FlowStep
<1>9. CASE PrintFinalFilesLocation
  BY <1>9, ReturningIsHostStep DEF PrintFinalFilesLocation, FlowStep
<1> QED
  BY <1>1, <1>2, <1>3, <1>4, <1>5, <1>6, <1>7, <1>8, <1>9 DEF Next, FlowStep

(* At the start the control holds.                                         *)
LEMMA InitControl ==
  ASSUME Init
  PROVE  Control
<1>1. rank \in [Hosts -> Nat] /\ Numbered
  BY DEF Init, R!Init, Numbered
<1>2. \A v : R!Everywhere(v) = [k \in 1..10 |-> [h \in Hosts |-> v]]
  BY TenSteps DEF R!Everywhere
<1>3. R!TypeOK
  BY <1>1, <1>2, TenSteps, Ten DEF Init, R!Init, R!TypeOK, R!Outcome
<1>4. manager \in Hosts /\ finalHost \in Hosts
  BY CollectorAssumption
<1> QED
  BY <1>1, <1>2, <1>3, <1>4 DEF Init, R!Init, Control, AtWork, Chain

(* The control of the flow holds in every reachable state: types, only the *)
(* current operation at work, and the chain from the copies of the         *)
(* archives to the announcement.                                           *)
THEOREM ControlHolds == Spec => []Control
<1>1. Init => Control
  BY InitControl
<1>2. Control /\ [Next]_vars => Control'
  BY CollectorRunsFlow, FlowControl
<1> QED
  BY <1>1, <1>2, PTL DEF Spec

(* The collection of logs is one flow of system operations after another,  *)
(* as SystemOperationFlow has them.                                        *)
THEOREM RunsFlow == Spec => R!Init /\ [][R!Next \/ NewRun]_flow
<1>1. Init => R!Init
  BY DEF Init
<1>2. [Next]_vars => [R!Next \/ NewRun]_flow
  BY CollectorRunsFlow DEF FlowStep
<1> QED
  BY <1>1, <1>2, PTL DEF Spec
-----------------------------------------------------------------------------
(* The operation that k is at work on h is the current one, nothing after  *)
(* it has an outcome, and it gets the one it returns.                      *)
LEMMA Acting ==
  ASSUME Control, NEW k \in 1..10, NEW h \in Hosts, NEW o, Does(k, h, o)
  PROVE  /\ step = k /\ step' = k
         /\ thread[k][h] = "ready" /\ thread'[k][h] = "ran" /\ passed[k][h] = "none"
         /\ passed'[k][h] = IF o = "exception" THEN "none" ELSE o
         /\ \A j \in 1..10, g \in Hosts : j # k \/ g # h =>
              passed'[j][g] = passed[j][g] /\ thread'[j][g] = thread[j][g]
         /\ \A j \in 1..10, g \in Hosts : j > k => thread[j][g] = "off" /\ passed[j][g] = "none"
<1> R!TypeOK /\ AtWork
  BY DEF Control
<1>1. thread[k][h] = "ready" /\ step = k /\ step' = k /\ passed[k][h] = "none"
  BY DEF Does, AtWork
<1>2. \A j \in 1..10, g \in Hosts :
        /\ thread'[j][g] = IF j = k /\ g = h THEN "ran" ELSE thread[j][g]
        /\ passed'[j][g] = IF j = k /\ g = h /\ o # "exception" THEN o ELSE passed[j][g]
  BY TenSteps DEF Does, R!TypeOK
<1>3. \A j \in 1..10, g \in Hosts : j > k => thread[j][g] = "off" /\ passed[j][g] = "none"
  BY <1>1 DEF AtWork
<1> QED
  BY <1>1, <1>2, <1>3

(* The runner makes no operation pass or fail that has passed, does not go *)
(* back and does not make a thread start again that is under way.          *)
LEMMA RunnerQuiet ==
  ASSUME Control, Runner
  PROVE  /\ step <= step' /\ rank' = rank
         /\ \A k \in 1..10, h \in Hosts :
              /\ passed'[k][h] = "true" <=> passed[k][h] = "true"
              /\ thread'[k][h] \in {"off", "ready"} => thread[k][h] \in {"off", "ready"}
<1> R!TypeOK /\ AtWork /\ step \in Nat
  BY Ten DEF Control, R!TypeOK
<1>1. CASE R!EndOperation
  BY <1>1 DEF R!EndOperation
<1>2. CASE R!Select
  <2>1. passed' = passed /\ step <= step' /\ rank' = rank
    BY <1>2 DEF R!Select
  <2>2. CASE thread' = thread
    BY <2>1, <2>2
  <2>3. CASE phase' = "run" /\ phase = "select" /\ \E f : thread' = [thread EXCEPT ![step] = f]
    <3>1. \A k \in 1..10, h \in Hosts : k # step => thread'[k][h] = thread[k][h]
      BY <2>3, TenSteps DEF R!TypeOK
    <3>2. \A h \in Hosts : step \in 1..10 => thread[step][h] = "off"
      BY <2>3 DEF AtWork
    <3> QED
      BY <2>1, <3>1, <3>2
  <2> QED
    BY <1>2, <2>2, <2>3 DEF R!Select
<1>3. ASSUME NEW k \in 1..10, NEW h \in Hosts,
             R!ReportResult(k, h) \/ R!ReportException(k, h) \/ R!RaiseException(k, h)
      PROVE  /\ step' = step /\ rank' = rank
             /\ \A j \in 1..10, g \in Hosts :
                  /\ passed'[j][g] = "true" <=> passed[j][g] = "true"
                  /\ thread'[j][g] \in {"off", "ready"} => thread[j][g] \in {"off", "ready"}
  <2>1. step' = step /\ rank' = rank /\ thread' = [thread EXCEPT ![k][h] = "over"]
        /\ \/ passed' = passed
           \/ passed' = [passed EXCEPT ![k][h] = "false"] /\ passed[k][h] # "true"
    BY <1>3 DEF R!ReportResult, R!ReportException, R!RaiseException, R!Raised, R!Goto, AtWork
  <2>2. \A j \in 1..10, g \in Hosts :
          thread'[j][g] = IF j = k /\ g = h THEN "over" ELSE thread[j][g]
    BY <2>1, TenSteps DEF R!TypeOK
  <2>3. \A j \in 1..10, g \in Hosts :
          passed'[j][g] = "true" <=> passed[j][g] = "true"
    BY <2>1, TenSteps DEF R!TypeOK
  <2> QED
    BY <2>1, <2>2, <2>3
<1> QED
  BY <1>1, <1>2, <1>3, TenSteps DEF Runner, R!Step
-----------------------------------------------------------------------------
(* The types of the files.                                                 *)
Logs == {None} \cup Content

DataTypes ==
  /\ tar \in Archive /\ gz \in Archive /\ data_store \in [Hosts -> {"tar", "gz", None}]
  /\ copied \in [Hosts -> [tar : Logs, gz : Logs]]
  /\ collector \in Archive \cup {None} /\ final \in Archive \cup {None, Half}
  /\ path \in {"working", "final"} /\ slipped \in BOOLEAN
  /\ sar \in [Hosts -> Content] /\ telemetry \in BOOLEAN
  /\ runs \in 1..MaxRuns /\ faults \in 0..MaxFaults

(* A gz name is given from the third operation on, and to what is gzipped. *)
Zipped == \A h \in Hosts : data_store[h] = "gz" => tar[h] = None /\ step > 2

(* What is not a log is none.                                              *)
LEMMA NoneIsNoLog ==
  /\ None # "tar" /\ None # "gz" /\ None # Half /\ None \notin Content
  /\ \A a \in Archive : a # None /\ a # Half
  /\ {manager, finalHost} \cup Chosen \subseteq Hosts
  /\ MaxRuns \in Nat \ {0} /\ MaxFaults \in Nat
BY CollectorAssumption

(* What an archive holds of the logs of a host, and of an earlier run.     *)
LEMMA Contents ==
  /\ \A a \in Archive, h \in Hosts : a[h] \in Logs
  /\ {} \in Logs /\ {"new"} \in Logs /\ None \in Logs
  /\ \A c \in Logs : Aged(c) \in Logs /\ {"new"} \cup (IF c = None THEN {} ELSE c) \in Logs
BY DEF Archive, Logs, Content, Aged

(* A fault is counted.                                                     *)
LEMMA FaultCounts ==
  ASSUME faults \in 0..MaxFaults, Fault \/ UNCHANGED faults
  PROVE  faults' \in 0..MaxFaults
BY NoneIsNoLog DEF Fault

(* The copies of the archives on the manager are typed.                    *)
LEMMA CopyTypes ==
  ASSUME DataTypes, NEW S \in SUBSET Stored
  PROVE  /\ CopiesOf(S) \in [Hosts -> [tar : Logs, gz : Logs]]
         /\ [h \in Hosts |-> IF h \in S THEN [copied[h] EXCEPT ![data_store[h]] = None]
                                        ELSE copied[h]] \in [Hosts -> [tar : Logs, gz : Logs]]
         /\ \A h \in Stored : CopyOf(h) \in Logs
         /\ [h \in Hosts |-> IF h \in S THEN CopyOf(h) ELSE None] \in Archive
<1> USE Contents, NoneIsNoLog
<1>1. \A h \in Hosts : Source(h) \in Logs
  BY DEF Source, DataTypes
<1>2. \A h \in Hosts, c \in Logs : h \in Stored =>
        /\ [copied[h] EXCEPT ![data_store[h]] = c] \in [tar : Logs, gz : Logs]
        /\ copied[h][data_store[h]] \in Logs
  <2> SUFFICES ASSUME NEW h \in Hosts, NEW c \in Logs, h \in Stored
               PROVE  /\ [copied[h] EXCEPT ![data_store[h]] = c] \in [tar : Logs, gz : Logs]
                      /\ copied[h][data_store[h]] \in Logs
    OBVIOUS
  <2>1. copied[h] \in [tar : Logs, gz : Logs]
    BY DEF DataTypes
  <2>2. CASE data_store[h] = "tar"
    BY <2>1, <2>2
  <2>3. CASE data_store[h] = "gz"
    BY <2>1, <2>3
  <2> QED
    BY <2>2, <2>3 DEF DataTypes, Stored
<1> QED
  BY <1>1, <1>2 DEF CopiesOf, CopyOf, DataTypes, Stored, Archive, Logs

(* An operation on a host keeps the types of the files.                    *)
LEMMA HostDataTypes ==
  ASSUME Control, DataTypes, Zipped, NEW h \in Hosts,
         \/ CreateTarFile(h) \/ AppendLogsFilesToTar(h) \/ AppendSarFilesToTar(h)
         \/ ZipTarFile(h) \/ CleanHosts(h)
  PROVE  DataTypes' /\ Zipped'
<1> USE FaultCounts, Contents, NoneIsNoLog
<1> R!TypeOK
  BY DEF Control
<1>1. ASSUME NEW k \in 1..10, NEW o, Does(k, h, o)
      PROVE  step = k /\ step' = k
  BY <1>1, Acting
<1>2. \A c \in Logs : [tar EXCEPT ![h] = c] \in Archive /\ [gz EXCEPT ![h] = c] \in Archive
  BY DEF DataTypes, Archive, Logs
<1>3. \A x \in {"tar", "gz"} : [data_store EXCEPT ![h] = x] \in [Hosts -> {"tar", "gz", None}]
  BY DEF DataTypes
<1>4. tar[h] \in Logs
  BY DEF DataTypes
<1>5. CASE CreateTarFile(h)
  <2>1. step = 1 /\ step' = 1
    BY <1>1, <1>5, OperationsDo DEF CreateTarFile
  <2>2. \A g \in Hosts : data_store[g] # "gz"
    BY <2>1 DEF Zipped
  <2>3. tar' \in Archive /\ data_store' \in [Hosts -> {"tar", "gz", None}]
        /\ \A g \in Hosts : data_store'[g] # "gz"
    BY <1>2, <1>3, <1>5, <2>2 DEF CreateTarFile, DataTypes
  <2>4. faults' \in 0..MaxFaults
    BY <1>5 DEF CreateTarFile, DataTypes
  <2> QED
    BY <1>5, <2>3, <2>4 DEF CreateTarFile, onManager, tool, DataTypes, Zipped
<1>6. CASE AppendLogsFilesToTar(h)
  <2>1. step = 2 /\ step' = 2
    BY <1>1, <1>6, OperationsDo DEF AppendLogsFilesToTar
  <2>2. \A g \in Hosts : data_store[g] # "gz"
    BY <2>1 DEF Zipped
  <2>3. {"new"} \cup (IF tar[h] = None THEN {} ELSE tar[h]) \in Logs
    BY <1>4
  <2>4. tar' \in Archive
    BY <1>2, <1>6, <2>3 DEF AppendLogsFilesToTar, DataTypes
  <2>5. faults' \in 0..MaxFaults
    BY <1>6 DEF AppendLogsFilesToTar, DataTypes
  <2> QED
    BY <1>6, <2>2, <2>4, <2>5 DEF AppendLogsFilesToTar, onManager, tool, DataTypes, Zipped
<1>9. CASE AppendSarFilesToTar(h)
  <2>1. step = 2 /\ step' = 2
    BY <1>1, <1>9, OperationsDo DEF AppendSarFilesToTar
  <2>2. \A g \in Hosts : data_store[g] # "gz"
    BY <2>1 DEF Zipped
  <2>3. \A c \in Content : c \cup (IF tar[h] = None THEN {} ELSE tar[h]) \in Logs
    BY <1>4 DEF Logs, Content
  <2>4. sar' \in [Hosts -> Content] /\ sar'[h] \in Content
    <3>1. sar[h] \in Content /\ {"new"} \in Content /\ sar[h] \cup {"new"} \in Content
      BY DEF DataTypes, Content
    <3>2. sar' \in {sar, [sar EXCEPT ![h] = {"new"}], [sar EXCEPT ![h] = sar[h] \cup {"new"}]}
      BY <1>9 DEF AppendSarFilesToTar, SarFiles
    <3>3. sar' \in [Hosts -> Content]
      BY <3>1, <3>2 DEF DataTypes
    <3> QED
      BY <3>3
  <2>5. tar' \in Archive
    <3>1. tar' \in {tar, [tar EXCEPT ![h] = sar'[h] \cup (IF tar[h] = None THEN {} ELSE tar[h])]}
      BY <1>9 DEF AppendSarFilesToTar
    <3>2. sar'[h] \cup (IF tar[h] = None THEN {} ELSE tar[h]) \in Logs
      BY <2>3, <2>4
    <3> QED
      BY <1>2, <3>1, <3>2 DEF DataTypes
  <2>6. faults' \in 0..MaxFaults
    BY <1>9 DEF AppendSarFilesToTar, DataTypes
  <2> QED
    BY <1>9, <2>2, <2>4, <2>5, <2>6 DEF AppendSarFilesToTar, onManager, tool, DataTypes, Zipped
<1>7. CASE ZipTarFile(h)
  <2>1. step = 3 /\ step' = 3
    BY <1>1, <1>7, OperationsDo DEF ZipTarFile
  <2>2. tar' \in {tar, [tar EXCEPT ![h] = None]} /\ gz' \in {gz, [gz EXCEPT ![h] = tar[h]]}
        /\ \/ data_store' = data_store
           \/ data_store' = [data_store EXCEPT ![h] = "gz"] /\ tar' = [tar EXCEPT ![h] = None]
    BY <1>7 DEF ZipTarFile
  <2>3. tar' \in Archive /\ gz' \in Archive /\ data_store' \in [Hosts -> {"tar", "gz", None}]
    BY <1>2, <1>3, <1>4, <2>2 DEF DataTypes
  <2>4. faults' \in 0..MaxFaults
    BY <1>7 DEF ZipTarFile, DataTypes
  <2>5. Zipped'
    <3>1. \A g \in Hosts : tar[g] = None => tar'[g] = None
      BY <2>2 DEF DataTypes, Archive
    <3>2. \A g \in Hosts : data_store'[g] = "gz" => data_store[g] = "gz" \/ tar'[g] = None
      BY <2>2 DEF DataTypes, Archive
    <3> QED
      BY <2>1, <3>1, <3>2 DEF Zipped
  <2> QED
    BY <1>7, <2>3, <2>4, <2>5 DEF ZipTarFile, onManager, tool, DataTypes
<1>8. CASE CleanHosts(h)
  <2>1. step = 6 /\ step' = 6
    BY <1>1, <1>8, OperationsDo DEF CleanHosts
  <2>2. gz' \in Archive /\ slipped' \in BOOLEAN /\ faults' \in 0..MaxFaults
    BY <1>2, <1>8 DEF CleanHosts, DataTypes
  <2> QED
    BY <1>8, <2>1, <2>2 DEF CleanHosts, onManager, tool, DataTypes, Zipped
<1> QED
  BY <1>5, <1>6, <1>7, <1>8, <1>9

(* So does one on the manager or the final host.                           *)
LEMMA ManagerDataTypes ==
  ASSUME Control, DataTypes, Zipped,
         \/ ScpToManager \/ TgzHostsTgzFilesOnManager \/ PrintFilesList \/ CleanManager
         \/ CopyToFinalFolder \/ PrintFinalFilesLocation
  PROVE  DataTypes' /\ Zipped' /\ UNCHANGED onHosts /\ step' = step
<1> USE FaultCounts, NoneIsNoLog
<1> R!TypeOK
  BY DEF Control
<1> DEFINE OnHosts == UNCHANGED onHosts /\ step' = step
<1>0. OnHosts => Zipped'
  BY DEF Zipped, onHosts
<1>1. \A k \in 1..10, h \in Hosts : \A o : Does(k, h, o) => step' = step
  BY DEF Does
<1>2. CASE ScpToManager
  <2>1. step' = step
    BY <1>1, <1>2, OperationsDo DEF ScpToManager
  <2>2. PICK S \in SUBSET Stored : copied' = CopiesOf(S) \/ copied' = copied
    BY <1>2 DEF ScpToManager
  <2>3. copied' \in [Hosts -> [tar : Logs, gz : Logs]]
    <3>1. CopiesOf(S) \in [Hosts -> [tar : Logs, gz : Logs]]
      BY CopyTypes
    <3> QED
      BY <2>2, <3>1 DEF DataTypes
  <2>4. faults' \in 0..MaxFaults
    BY <1>2 DEF ScpToManager, DataTypes
  <2> QED
    BY <1>0, <1>2, <2>1, <2>3, <2>4 DEF ScpToManager, onHosts, tool, DataTypes
<1>3. CASE TgzHostsTgzFilesOnManager
  <2>1. step' = step
    BY <1>1, <1>3, OperationsDo DEF TgzHostsTgzFilesOnManager
  <2>2. \/ collector' = collector
        \/ \E S \in SUBSET Stored : collector' = [h \in Hosts |-> IF h \in S THEN CopyOf(h) ELSE None]
    BY <1>3 DEF TgzHostsTgzFilesOnManager
  <2>3. collector' \in Archive \cup {None}
    <3>1. \A S \in SUBSET Stored : [h \in Hosts |-> IF h \in S THEN CopyOf(h) ELSE None] \in Archive
      BY CopyTypes
    <3> QED
      BY <2>2, <3>1 DEF DataTypes
  <2>4. faults' \in 0..MaxFaults /\ slipped' \in BOOLEAN /\ path' \in {"working", "final"}
    BY <1>3 DEF TgzHostsTgzFilesOnManager, Listed, DataTypes
  <2> QED
    BY <1>0, <1>3, <2>1, <2>3, <2>4 DEF TgzHostsTgzFilesOnManager, onHosts, tool, DataTypes
<1>4. CASE PrintFilesList \/ PrintFinalFilesLocation
  <2>1. step' = step
    BY <1>1, <1>4, OperationsDo DEF PrintFilesList, PrintFinalFilesLocation
  <2> QED
    BY <1>0, <1>4, <2>1 DEF PrintFilesList, PrintFinalFilesLocation, onHosts, onManager, tool, DataTypes
<1>5. CASE CleanManager
  <2>1. step' = step
    BY <1>1, <1>5, OperationsDo DEF CleanManager
  <2>2. copied' \in [Hosts -> [tar : Logs, gz : Logs]]
    <3>1. PICK names \in SUBSET Stored :
            copied' = [h \in Hosts |-> IF h \in names THEN [copied[h] EXCEPT ![data_store[h]] = None]
                                                      ELSE copied[h]]
      BY <1>5 DEF CleanManager
    <3>2. [h \in Hosts |-> IF h \in names THEN [copied[h] EXCEPT ![data_store[h]] = None]
                                         ELSE copied[h]] \in [Hosts -> [tar : Logs, gz : Logs]]
      BY CopyTypes
    <3> QED
      BY <3>1, <3>2
  <2>3. faults' \in 0..MaxFaults /\ slipped' \in BOOLEAN
    BY <1>5 DEF CleanManager, Listed, DataTypes
  <2> QED
    BY <1>0, <1>5, <2>1, <2>2, <2>3 DEF CleanManager, onHosts, tool, DataTypes
<1>6. CASE CopyToFinalFolder
  <2>1. step' = step
    BY <1>1, <1>6, OperationsDo DEF CopyToFinalFolder
  <2>2. /\ collector' \in Archive \cup {None} /\ final' \in Archive \cup {None, Half}
        /\ path' \in {"working", "final"}
    BY <1>6 DEF CopyToFinalFolder, DataTypes
  <2>3. faults' \in 0..MaxFaults
    BY <1>6 DEF CopyToFinalFolder, DataTypes
  <2> QED
    BY <1>0, <1>6, <2>1, <2>2, <2>3 DEF CopyToFinalFolder, onHosts, tool, DataTypes
<1> QED
  BY <1>2, <1>3, <1>4, <1>5, <1>6

(* And another run, and whatever the runner does.                          *)
LEMMA OtherDataTypes ==
  ASSUME Control, DataTypes, Zipped, Runner \/ NewRun \/ UNCHANGED vars
  PROVE  DataTypes' /\ Zipped'
<1> USE Contents, NoneIsNoLog
<1>1. CASE Runner
  <2>1. step \in Nat /\ step' \in Nat
    BY <1>1, CollectorRunsFlow, FlowControl, Ten DEF Control, R!TypeOK, Next
  <2> QED
    BY <1>1, <2>1, RunnerQuiet DEF Runner, onHosts, onManager, tool, DataTypes, Zipped
<1>2. CASE NewRun
  <2>1. \A a \in Archive : [h \in Hosts |-> Aged(a[h])] \in Archive
    BY DEF Archive, Logs
  <2>2. tar' \in Archive /\ gz' \in Archive
    BY <1>2, <2>1 DEF NewRun, DataTypes
  <2>3. copied' \in [Hosts -> [tar : Logs, gz : Logs]]
    BY <1>2 DEF NewRun, DataTypes
  <2>4. collector' \in Archive \cup {None} /\ final' \in Archive \cup {None, Half}
    BY <1>2, <2>1 DEF NewRun, DataTypes
  <2>5. runs' \in 1..MaxRuns
    BY <1>2 DEF NewRun, DataTypes
  <2>6. data_store' \in [Hosts -> {"tar", "gz", None}] /\ \A h \in Hosts : data_store'[h] # "gz"
    BY <1>2 DEF NewRun, Nowhere
  <2>7. sar' \in [Hosts -> Content]
    <3>1. \A c \in Content : Aged(c) \in Content
      BY DEF Aged, Content
    <3> QED
      BY <1>2, <3>1 DEF NewRun, DataTypes
  <2> QED
    BY <1>2, <2>2, <2>3, <2>4, <2>5, <2>6, <2>7 DEF NewRun, DataTypes, Zipped
<1>3. CASE UNCHANGED vars
  BY <1>3 DEF vars, flow, onHosts, onManager, tool, DataTypes, Zipped
<1> QED
  BY <1>1, <1>2, <1>3

(* The types of the files hold together with the control.                  *)
LEMMA InitData ==
  ASSUME Init
  PROVE  DataTypes /\ Zipped
<1>1. Nowhere \in Archive
  BY DEF Nowhere, Archive
<1>2. data_store \in [Hosts -> {"tar", "gz", None}] /\ \A h \in Hosts : data_store[h] # "gz"
  BY NoneIsNoLog DEF Init, Nowhere
<1>3. copied \in [Hosts -> [tar : Logs, gz : Logs]]
  BY Contents DEF Init
<1>5. sar \in [Hosts -> Content]
  BY DEF Init, Content
<1>4. runs \in 1..MaxRuns /\ faults \in 0..MaxFaults
  BY NoneIsNoLog DEF Init
<1> QED
  BY <1>1, <1>2, <1>3, <1>4, <1>5 DEF Init, DataTypes, Zipped

(* Every step keeps them.                                                  *)
LEMMA DataStep ==
  ASSUME Control, DataTypes, Zipped, [Next]_vars
  PROVE  DataTypes' /\ Zipped'
BY HostDataTypes, ManagerDataTypes, OtherDataTypes, NoneIsNoLog DEF Next

(* The type invariant, which says also that a host with a gz file to copy  *)
(* has no tar file left.                                                   *)
THEOREM TypeCorrect == Spec => []TypeOK
<1>1. Init => Control /\ DataTypes /\ Zipped
  BY InitControl, InitData
<1>2. Control /\ DataTypes /\ Zipped /\ [Next]_vars => (Control /\ DataTypes /\ Zipped)'
  BY CollectorRunsFlow, FlowControl, DataStep
<1>3. Control /\ DataTypes /\ Zipped => TypeOK
  BY DEF Control, DataTypes, Zipped, TypeOK, Logs
<1> QED
  BY <1>1, <1>2, <1>3, PTL DEF Spec
-----------------------------------------------------------------------------
(* Of a host: no logs of an earlier run, or those that its csv files had.  *)
Fresh(c, h) == c # None /\ "old" \in c => telemetry /\ "old" \in sar[h]

(* A host whose tar was made has its archive under the name it was given,  *)
(* with nothing from before, and empty until logs are added to it.  Where  *)
(* another one has an archive, it is due to a host in front of it.         *)
HostInv ==
  /\ \A h \in Created :
       /\ data_store[h] # None /\ Fresh(Source(h), h)
       /\ step <= 2 /\ thread[2][h] \in {"off", "ready"} => Source(h) = {}
  /\ \A h \in Stored : Front(h)

(* So it is on the manager, once all were copied, until they are removed.  *)
CopyInv ==
  passed[4][manager] = "true" =>
    \A h \in Created : Fresh(CopyOf(h), h) /\ (step < 8 => CopyOf(h) # None)

(* An archive of all of them, which lacks only what an ls did not find.    *)
Whole(archive) ==
  /\ archive \in Archive
  /\ \A h \in Created : Fresh(archive[h], h) /\ (~slipped => archive[h] # None)
  /\ \A h \in Hosts : archive[h] # None => Front(h)

(* So is the one in working_dir, until it goes to the final host.          *)
PackInv ==
  passed[5][manager] = "true" /\ thread[9][finalHost] \in {"off", "ready"} =>
    path = "working" /\ Whole(collector)

(* And then the one there.                                                 *)
FinalInv == passed[9][finalHost] = "true" => path = "final" /\ Whole(final)

Base == Control /\ DataTypes /\ Zipped

(* What may have changed where an operation is not at work on any of these *)
(* files.                                                                  *)
Quiet(k, h) == passed'[k][h] = "true" => passed[k][h] = "true"

(* No tar is made, no csv file is written and the runner goes on.          *)
Steady ==
  /\ Created' = Created /\ UNCHANGED <<rank, telemetry, sar>>
  /\ step <= step' /\ step \in Nat /\ step' \in Nat
  /\ \A h \in Hosts : thread'[2][h] \in {"off", "ready"} => thread[2][h] \in {"off", "ready"}

(* So the hosts behind one whose tar was made are the same.                *)
LEMMA SteadyHosts ==
  ASSUME Steady
  PROVE  Created' = Created /\ \A h : Front(h)' = Front(h)
BY DEF Steady, Front

(* HostInv stands where the hosts' files do.                               *)
LEMMA HostQuiet ==
  ASSUME HostInv, Steady, UNCHANGED onHosts
  PROVE  HostInv'
<1>1. Created' = Created /\ Stored' = Stored /\ \A h : Front(h)' = Front(h)
  BY SteadyHosts DEF Stored, onHosts
<1>2. \A h : Source(h)' = Source(h)
  BY DEF Source, onHosts
<1>3. \A h \in Created :
        /\ data_store'[h] # None /\ Fresh(Source(h), h)'
        /\ step' <= 2 /\ thread'[2][h] \in {"off", "ready"} => Source(h)' = {}
  BY <1>2 DEF HostInv, Fresh, Steady, onHosts, Created, Passed
<1> QED
  BY <1>1, <1>3 DEF HostInv

(* CopyInv where the copies do too.                                        *)
LEMMA CopyQuiet ==
  ASSUME CopyInv, Steady, Quiet(4, manager), data_store' = data_store, copied' = copied
  PROVE  CopyInv'
<1>1. \A h : CopyOf(h)' = CopyOf(h)
  BY DEF CopyOf
<1> QED
  BY <1>1 DEF CopyInv, Fresh, Steady, Quiet

(* PackInv where the archive in working_dir stands.                        *)
LEMMA PackQuiet ==
  ASSUME PackInv, Steady, Quiet(5, manager),
         thread'[9][finalHost] \in {"off", "ready"} => thread[9][finalHost] \in {"off", "ready"},
         path' = path, collector' = collector, slipped => slipped'
  PROVE  PackInv'
<1>1. ASSUME Whole(collector)
      PROVE  Whole(collector)'
  <2>1. Created' = Created /\ \A h : Front(h)' = Front(h)
    BY SteadyHosts
  <2> QED
    BY <1>1, <2>1 DEF Whole, Fresh, Steady
<1> QED
  BY <1>1 DEF PackInv, Quiet

(* FinalInv where the one in the final folder does.                        *)
LEMMA FinalQuiet ==
  ASSUME FinalInv, Steady, Quiet(9, finalHost),
         path' = path, final' = final, slipped => slipped'
  PROVE  FinalInv'
<1>1. ASSUME Whole(final)
      PROVE  Whole(final)'
  <2>1. Created' = Created /\ \A h : Front(h)' = Front(h)
    BY SteadyHosts
  <2> QED
    BY <1>1, <2>1 DEF Whole, Fresh, Steady
<1> QED
  BY <1>1 DEF FinalInv, Quiet

(* An operation leaves the others quiet, and itself unless it passed.      *)
LEMMA ActingQuiet ==
  ASSUME Control, NEW k \in 1..10, NEW h \in Hosts, NEW o, Does(k, h, o)
  PROVE  /\ step = k /\ step' = step
         /\ \A j \in 1..10, g \in Hosts : j # k \/ g # h \/ o # "true" => Quiet(j, g)
         /\ k # 9 => UNCHANGED thread[9][finalHost]
         /\ k # 1 => Created' = Created
         /\ k # 1 /\ UNCHANGED <<sar, telemetry>> => Steady
         /\ \A j \in 1..10, g \in Hosts : j > k => passed[j][g] = "none" /\ passed'[j][g] = "none"
<1> finalHost \in Hosts
  BY NoneIsNoLog
<1>1. step = k /\ step' = k
  BY Acting
<1>5. thread[k][h] = "ready" /\ thread'[k][h] = "ran"
  BY Acting
<1>2. \A j \in 1..10, g \in Hosts : j # k \/ g # h =>
        passed'[j][g] = passed[j][g] /\ thread'[j][g] = thread[j][g]
  BY Acting
<1>3. passed'[k][h] = IF o = "exception" THEN "none" ELSE o
  BY Acting
<1>4. \A j \in 1..10, g \in Hosts : j > k => passed[j][g] = "none"
  BY Acting
<1>6. k # 1 => Created' = Created
  BY <1>2 DEF Created, Passed
<1>7. k # 1 /\ UNCHANGED <<sar, telemetry>> => Steady
  BY <1>1, <1>2, <1>5, <1>6 DEF Steady, Does
<1> QED
  BY <1>1, <1>2, <1>3, <1>4, <1>6, <1>7 DEF Quiet

DataInv == HostInv /\ CopyInv /\ PackInv /\ FinalInv

(* Before the copies are made the last three say nothing.                  *)
LEMMA NotYetCopied ==
  ASSUME Control, NEW k \in {1, 2, 3}, NEW h \in Hosts, NEW o, Does(k, h, o)
  PROVE  CopyInv' /\ PackInv' /\ FinalInv'
<1>1. /\ passed'[4][manager] = "none" /\ passed'[5][manager] = "none"
      /\ passed'[9][finalHost] = "none"
  BY ActingQuiet, NoneIsNoLog
<1> QED
  BY <1>1 DEF CopyInv, PackInv, FinalInv

(* A new tar file is empty, and no other one is touched.                   *)
LEMMA CreateKeepsInv ==
  ASSUME Base, DataInv, NEW h \in Hosts, CreateTarFile(h)
  PROVE  DataInv'
<1> Control /\ R!TypeOK /\ HostInv
  BY DEF Base, Control, DataInv
<1>1. PICK o : /\ Does(1, h, o)
               /\ o = "true" => tar' = [tar EXCEPT ![h] = {}]
                                /\ data_store' = [data_store EXCEPT ![h] = "tar"]
               /\ tar' \in {tar, [tar EXCEPT ![h] = {}]}
               /\ o # "true" => data_store' = data_store
               /\ UNCHANGED <<gz, sar, telemetry>>
  <2>1. CASE Returns("create_tar_file", h, "true") /\ tar' = [tar EXCEPT ![h] = {}]
             /\ data_store' = [data_store EXCEPT ![h] = "tar"]
    BY <2>1, OperationsDo DEF CreateTarFile, tool
  <2>2. CASE Returns("create_tar_file", h, "false") /\ UNCHANGED data_store
             /\ tar' \in {tar, [tar EXCEPT ![h] = {}]}
    BY <2>2, OperationsDo DEF CreateTarFile, tool
  <2>3. CASE Returns("create_tar_file", h, "exception") /\ UNCHANGED data_store
             /\ tar' \in {tar, [tar EXCEPT ![h] = {}]}
    BY <2>3, OperationsDo DEF CreateTarFile, tool
  <2> QED
    BY <2>1, <2>2, <2>3 DEF CreateTarFile, tool
<1>0. /\ step = 1 /\ step' = 1 /\ rank' = rank /\ passed[1][h] = "none"
      /\ passed'[1][h] = IF o = "exception" THEN "none" ELSE o
      /\ \A g \in Hosts : thread[2][g] = "off" /\ thread'[2][g] = "off"
      /\ \A g \in Hosts : g # h => passed'[1][g] = passed[1][g]
  <2>1. step = 1 /\ step' = 1 /\ rank' = rank /\ passed[1][h] = "none"
        /\ passed'[1][h] = IF o = "exception" THEN "none" ELSE o
    <3>1. rank' = rank
      BY <1>1 DEF Does
    <3> QED
      BY <1>1, <3>1, Acting
  <2>2. \A j \in 1..10, g \in Hosts : j # 1 \/ g # h =>
          passed'[j][g] = passed[j][g] /\ thread'[j][g] = thread[j][g]
    BY <1>1, Acting
  <2>3. \A j \in 1..10, g \in Hosts : j > 1 => thread[j][g] = "off"
    BY <1>1, Acting
  <2> QED
    BY <2>1, <2>2, <2>3
<1>2. ASSUME NEW g \in Hosts, g # h
      PROVE  tar'[g] = tar[g] /\ data_store'[g] = data_store[g] /\ Source(g)' = Source(g)
  BY <1>1, <1>2 DEF Base, DataTypes, Archive, Source
<1>3. o = "true" => tar'[h] = {} /\ data_store'[h] = "tar" /\ Source(h)' = {}
  BY <1>1 DEF Base, DataTypes, Archive, Source
<1>4. Created \subseteq Created' /\ \A g : Front(g) => Front(g)'
  BY <1>0 DEF Created, Passed, Front
<1>5. ASSUME NEW g \in Created'
      PROVE  data_store'[g] # None /\ Fresh(Source(g), g)' /\ Source(g)' = {}
  <2>1. CASE g = h
    BY <1>0, <1>3, <1>5, <2>1, NoneIsNoLog DEF Fresh, Created, Passed
  <2>2. CASE g # h
    <3>1. g \in Created /\ g \in Hosts
      BY <1>0, <1>5, <2>2 DEF Created, Passed
    <3>2. data_store[g] # None /\ Fresh(Source(g), g) /\ Source(g) = {}
      BY <1>0, <3>1 DEF HostInv
    <3> QED
      BY <1>1, <1>2, <2>2, <3>1, <3>2 DEF Fresh
  <2> QED
    BY <2>1, <2>2
<1>6. ASSUME NEW g \in Stored'
      PROVE  Front(g)'
  <2>1. CASE o = "true" /\ g = h
    BY <1>0, <1>6, <2>1 DEF Stored, Front, Created, Passed
  <2>2. CASE g \in Stored
    BY <1>4, <2>2 DEF HostInv
  <2>3. g \in Stored \/ (o = "true" /\ g = h)
    BY <1>1, <1>2, <1>6 DEF Stored
  <2> QED
    BY <2>1, <2>2, <2>3
<1>7. HostInv'
  BY <1>5, <1>6 DEF HostInv
<1> QED
  BY <1>1, <1>7, NotYetCopied DEF DataInv

(* Files are added to the tar, of the logs of now, or all csv files.       *)
LEMMA AppendKeepsInv ==
  ASSUME Base, DataInv, NEW h \in Hosts, AppendLogsFilesToTar(h) \/ AppendSarFilesToTar(h)
  PROVE  DataInv'
<1> Control /\ R!TypeOK /\ HostInv
  BY DEF Base, Control, DataInv
<1>1. PICK o : Does(2, h, o)
  BY OperationsDo DEF AppendLogsFilesToTar, AppendSarFilesToTar
<1>2. /\ step = 2 /\ step' = 2 /\ rank' = rank /\ Created' = Created
      /\ thread[2][h] = "ready" /\ thread'[2][h] = "ran"
      /\ \A g \in Hosts : g # h => thread'[2][g] = thread[2][g]
  <2>1. step = 2 /\ step' = 2 /\ rank' = rank /\ thread[2][h] = "ready" /\ thread'[2][h] = "ran"
    <3>1. rank' = rank
      BY <1>1 DEF Does
    <3> QED
      BY <1>1, <3>1, Acting
  <2>2. \A j \in 1..10, g \in Hosts : j # 2 \/ g # h => thread'[j][g] = thread[j][g]
    BY <1>1, Acting
  <2>3. Created' = Created
    BY <1>1, ActingQuiet
  <2> QED
    BY <2>1, <2>2, <2>3
<1>3. gz' = gz /\ data_store' = data_store /\ telemetry' = telemetry
  BY DEF AppendLogsFilesToTar, AppendSarFilesToTar, tool
<1>4. /\ \A g \in Hosts : g # h => tar'[g] = tar[g] /\ sar'[g] = sar[g]
      /\ tar'[h] # tar[h] =>
           \/ tar'[h] = {"new"} \cup IF tar[h] = None THEN {} ELSE tar[h]
           \/ telemetry /\ tar'[h] = sar'[h] \cup IF tar[h] = None THEN {} ELSE tar[h]
  <2>1. CASE AppendLogsFilesToTar(h)
    <3>1. tar' \in {tar, [tar EXCEPT ![h] = {"new"} \cup IF tar[h] = None THEN {} ELSE tar[h]]}
          /\ sar' = sar
      BY <2>1 DEF AppendLogsFilesToTar
    <3> QED
      BY <3>1 DEF Base, DataTypes, Archive
  <2>2. CASE AppendSarFilesToTar(h)
    <3>1. tar' \in {tar, [tar EXCEPT ![h] = sar'[h] \cup IF tar[h] = None THEN {} ELSE tar[h]]}
          /\ telemetry
      BY <2>2 DEF AppendSarFilesToTar
    <3>2. sar' \in {sar, [sar EXCEPT ![h] = {"new"}], [sar EXCEPT ![h] = sar[h] \cup {"new"}]}
      BY <2>2 DEF AppendSarFilesToTar, SarFiles
    <3> QED
      BY <3>1, <3>2 DEF Base, DataTypes, Archive
  <2> QED
    BY <2>1, <2>2
<1>5. Stored' = Stored /\ \A g : Front(g)' = Front(g)
  BY <1>2, <1>3 DEF Stored, Front
<1>6. ASSUME NEW g \in Created
      PROVE  /\ data_store'[g] # None /\ Fresh(Source(g), g)'
             /\ thread'[2][g] \in {"off", "ready"} => Source(g)' = {}
  <2>0. g \in Hosts /\ data_store[g] # None /\ Fresh(Source(g), g)
        /\ (thread[2][g] \in {"off", "ready"} => Source(g) = {})
    BY <1>2 DEF HostInv, Created, Passed
  <2>1. CASE g # h
    BY <1>2, <1>3, <1>4, <2>0, <2>1 DEF Source, Fresh
  <2>2. CASE g = h
    <3>1. data_store[h] = "tar" /\ tar[h] = {} /\ tar'[h] = Source(h)'
      BY <1>2, <1>3, <2>0, <2>2 DEF Source, Base, DataTypes, Zipped
    <3>2. "old" \in tar'[h] => telemetry /\ "old" \in sar'[h]
      BY <1>4, <3>1
    <3> QED
      BY <1>2, <1>3, <2>0, <2>2, <3>1, <3>2 DEF Fresh
  <2> QED
    BY <2>1, <2>2
<1>7. HostInv'
  BY <1>2, <1>5, <1>6 DEF HostInv
<1> QED
  BY <1>1, <1>7, NotYetCopied DEF DataInv

(* It is gzipped, with what it has.                                        *)
LEMMA ZipKeepsInv ==
  ASSUME Base, DataInv, NEW h \in Hosts, ZipTarFile(h)
  PROVE  DataInv'
<1> Control /\ R!TypeOK /\ Chain /\ HostInv
  BY DEF Base, Control, DataInv
<1>1. PICK o : Does(3, h, o)
  BY OperationsDo DEF ZipTarFile
<1>2. Steady /\ step = 3 /\ step' = 3 /\ Front(h)
  <2>1. UNCHANGED <<sar, telemetry>>
    BY DEF ZipTarFile, tool
  <2>2. Front(h)
    BY <1>1 DEF Chain, Does
  <2> QED
    BY <1>1, <2>1, <2>2, ActingQuiet
<1>3. CASE UNCHANGED <<tar, gz, data_store>>
  BY <1>1, <1>2, <1>3, HostQuiet, NotYetCopied DEF DataInv, onHosts, Steady
<1>4. CASE /\ tar[h] # None /\ tar' = [tar EXCEPT ![h] = None] /\ gz' = [gz EXCEPT ![h] = tar[h]]
           /\ data_store' \in {data_store, [data_store EXCEPT ![h] = "gz"]}
  <2>1. \A g \in Hosts : g # h => /\ tar'[g] = tar[g] /\ gz'[g] = gz[g]
                                  /\ data_store'[g] = data_store[g]
    BY <1>4 DEF Base, DataTypes, Archive
  <2>2. tar'[h] = None /\ gz'[h] = tar[h] /\ data_store'[h] \in {data_store[h], "gz"}
    BY <1>4 DEF Base, DataTypes, Archive
  <2>3. h \in Created => data_store[h] = "tar" /\ Fresh(tar[h], h)
    BY <1>4, NoneIsNoLog DEF HostInv, Source, Base, Zipped, DataTypes, Created, Passed
  <2>4. Created' = Created /\ (\A g : Front(g)' = Front(g)) /\ sar' = sar /\ telemetry' = telemetry
    BY <1>2, SteadyHosts DEF Steady
  <2>5. ASSUME NEW g \in Created
        PROVE  data_store'[g] # None /\ Fresh(Source(g), g)'
    <3>1. CASE g = h
      BY <2>2, <2>3, <2>4, <2>5, <3>1, NoneIsNoLog DEF Source, Fresh
    <3>2. CASE g # h
      BY <2>1, <2>4, <2>5, <3>2 DEF HostInv, Source, Fresh, Created, Passed
    <3> QED
      BY <3>1, <3>2
  <2>6. ASSUME NEW g \in Stored'
        PROVE  Front(g)
    BY <1>2, <2>1, <2>6 DEF HostInv, Stored
  <2>7. HostInv'
    BY <1>2, <2>4, <2>5, <2>6 DEF HostInv
  <2> QED
    BY <1>1, <2>7, NotYetCopied DEF DataInv
<1> QED
  BY <1>3, <1>4 DEF ZipTarFile

(* The gz files of the hosts are removed.                                  *)
LEMMA CleanHostsKeepsInv ==
  ASSUME Base, DataInv, NEW h \in Hosts, CleanHosts(h)
  PROVE  DataInv'
<1> Control /\ R!TypeOK /\ HostInv /\ CopyInv /\ PackInv /\ FinalInv
    /\ manager \in Hosts /\ finalHost \in Hosts
  BY NoneIsNoLog DEF Base, Control, DataInv
<1>1. PICK o : Does(6, h, o)
  BY OperationsDo DEF CleanHosts
<1>0. UNCHANGED <<sar, telemetry>>
  BY DEF CleanHosts, tool
<1>2. /\ Steady /\ Quiet(4, manager) /\ Quiet(5, manager) /\ Quiet(9, finalHost)
      /\ UNCHANGED thread[9][finalHost] /\ step = 6 /\ step' = 6
  BY <1>0, <1>1, ActingQuiet
<1>3. /\ UNCHANGED <<tar, data_store, copied, collector, final, path>>
      /\ gz' \in {gz, [gz EXCEPT ![h] = None]}
      /\ slipped => slipped'
  BY DEF CleanHosts, onManager, Base, DataTypes
<1>4. \A g \in Hosts : Fresh(Source(g), g) => Fresh(Source(g), g)'
  BY <1>0, <1>3 DEF Fresh, Source, Base, DataTypes, Archive
<1>6. Created' = Created /\ Stored' = Stored /\ \A g : Front(g)' = Front(g)
  BY <1>2, <1>3, SteadyHosts DEF Stored
<1>5. HostInv'
  BY <1>2, <1>3, <1>4, <1>6 DEF HostInv, Created, Passed
<1>7. CopyInv'
  BY <1>2, <1>3, CopyQuiet
<1>8. PackInv'
  BY <1>2, <1>3, PackQuiet
<1>9. FinalInv'
  BY <1>2, <1>3, FinalQuiet
<1> QED
  BY <1>5, <1>7, <1>8, <1>9 DEF DataInv

(* The archives of all hosts with a tar are copied, or it does not pass.   *)
LEMMA ScpKeepsInv ==
  ASSUME Base, DataInv, ScpToManager
  PROVE  DataInv'
<1> Control /\ R!TypeOK /\ HostInv /\ manager \in Hosts /\ finalHost \in Hosts
  BY NoneIsNoLog DEF Base, Control, DataInv
<1>1. PICK o : /\ Does(4, manager, o)
               /\ o = "true" => (\A h \in Stored : Source(h) # None) /\ copied' = CopiesOf(Stored)
  <2>1. CASE /\ Returns("copy_file_to_UC_Manager", manager, "true")
             /\ (\A h \in Stored : Source(h) # None) /\ copied' = CopiesOf(Stored)
    BY <2>1, OperationsDo
  <2>2. CASE \/ Returns("copy_file_to_UC_Manager", manager, "false")
             \/ Returns("copy_file_to_UC_Manager", manager, "exception")
    BY <2>2, OperationsDo
  <2> QED
    BY <2>1, <2>2 DEF ScpToManager
<1>3. UNCHANGED onHosts /\ UNCHANGED <<sar, telemetry>>
  BY DEF ScpToManager, tool, onHosts
<1>2. Steady /\ passed'[5][manager] = "none" /\ passed'[9][finalHost] = "none"
  BY <1>1, <1>3, ActingQuiet
<1>4. HostInv'
  BY <1>2, <1>3, HostQuiet
<1>5. CopyInv'
  <2> SUFFICES ASSUME passed'[4][manager] = "true", NEW h \in Created
               PROVE  Fresh(CopyOf(h), h)' /\ CopyOf(h)' # None
    BY <1>2 DEF CopyInv, Steady
  <2>1. o = "true"
    BY <1>1, Acting
  <2>2. h \in Hosts /\ data_store[h] # None /\ Fresh(Source(h), h) /\ h \in Stored
    BY DEF HostInv, Created, Passed, Stored
  <2>3. copied'[h] = [copied[h] EXCEPT ![data_store[h]] = Source(h)] /\ Source(h) # None
    BY <1>1, <2>1, <2>2 DEF CopiesOf
  <2>4. copied[h] \in [tar : Logs, gz : Logs] /\ data_store[h] \in {"tar", "gz"}
    BY <2>2 DEF Base, DataTypes
  <2>5. copied'[h][data_store[h]] = Source(h)
    <3>1. CASE data_store[h] = "tar"
      BY <2>3, <2>4, <3>1
    <3>2. CASE data_store[h] = "gz"
      BY <2>3, <2>4, <3>2
    <3> QED
      BY <2>4, <3>1, <3>2
  <2>6. data_store' = data_store
    BY <1>3 DEF onHosts
  <2> QED
    BY <1>3, <2>2, <2>3, <2>5, <2>6 DEF CopyOf, Fresh
<1> QED
  BY <1>2, <1>4, <1>5 DEF DataInv, PackInv, FinalInv

(* They are packed, all that ls found.                                     *)
LEMMA TgzKeepsInv ==
  ASSUME Base, DataInv, TgzHostsTgzFilesOnManager
  PROVE  DataInv'
<1> Control /\ R!TypeOK /\ Chain /\ HostInv /\ CopyInv /\ manager \in Hosts /\ finalHost \in Hosts
  BY NoneIsNoLog DEF Base, Control, DataInv
<1>1. PICK o, names :
        /\ Does(5, manager, o)
        /\ o = "true" =>
             /\ names \in SUBSET Stored /\ Listed(names)
             /\ collector' = [h \in Hosts |-> IF h \in names THEN CopyOf(h) ELSE None]
             /\ path' = "working"
  <2>1. CASE \E N \in SUBSET Stored :
               /\ Returns("tgz_hosts_tgz_files_on_manager", manager, "true") /\ Listed(N)
               /\ collector' = [h \in Hosts |-> IF h \in N THEN CopyOf(h) ELSE None]
               /\ path' = "working"
    BY <2>1, OperationsDo
  <2>2. CASE \/ Returns("tgz_hosts_tgz_files_on_manager", manager, "false")
             \/ Returns("tgz_hosts_tgz_files_on_manager", manager, "exception")
    BY <2>2, OperationsDo
  <2> QED
    BY <2>1, <2>2 DEF TgzHostsTgzFilesOnManager
<1>3. UNCHANGED onHosts /\ UNCHANGED <<copied, sar, telemetry>>
  BY DEF TgzHostsTgzFilesOnManager, tool, onHosts
<1>2. /\ Steady /\ Quiet(4, manager) /\ passed'[9][finalHost] = "none"
      /\ step = 5 /\ step' = 5
  BY <1>1, <1>3, ActingQuiet
<1>4. HostInv' /\ CopyInv'
  BY <1>2, <1>3, HostQuiet, CopyQuiet DEF onHosts
<1>5. PackInv'
  <2> SUFFICES ASSUME passed'[5][manager] = "true"
               PROVE  path' = "working" /\ Whole(collector)'
    BY DEF PackInv
  <2>1. o = "true" /\ passed[4][manager] = "true"
    BY <1>1, Acting DEF Chain
  <2>2. collector' \in Archive
    BY <1>1, <2>1, CopyTypes DEF Base
  <2>3. \A h \in Created : Fresh(CopyOf(h), h) /\ CopyOf(h) # None /\ h \in Stored /\ h \in Hosts
    BY <1>2, <2>1 DEF CopyInv, HostInv, Stored, Created, Passed
  <2>4. \A h \in Created : ~slipped' => h \in names
    BY <1>1, <2>1, <2>3 DEF Listed
  <2>5. \A h \in Created : Fresh(collector'[h], h) /\ (~slipped' => collector'[h] # None)
    BY <1>1, <2>1, <2>3, <2>4 DEF Fresh
  <2>6. \A h \in Hosts : collector'[h] # None => Front(h)
    BY <1>1, <2>1 DEF HostInv
  <2>7. Created' = Created /\ \A h : Front(h)' = Front(h)
    BY <1>2, SteadyHosts
  <2> QED
    BY <1>1, <1>3, <2>1, <2>2, <2>5, <2>6, <2>7 DEF Whole, Fresh
<1> QED
  BY <1>2, <1>4, <1>5 DEF DataInv, FinalInv

(* The copies of the manager are removed.                                  *)
LEMMA CleanManagerKeepsInv ==
  ASSUME Base, DataInv, CleanManager
  PROVE  DataInv'
<1> Control /\ R!TypeOK /\ HostInv /\ CopyInv /\ PackInv /\ FinalInv
    /\ manager \in Hosts /\ finalHost \in Hosts
  BY NoneIsNoLog DEF Base, Control, DataInv
<1>1. PICK o : Does(8, manager, o)
  BY OperationsDo DEF CleanManager
<1>3. /\ UNCHANGED onHosts /\ UNCHANGED <<collector, final, path, sar, telemetry>>
      /\ slipped => slipped'
  BY DEF CleanManager, Listed, tool, onHosts, Base, DataTypes
<1>2. /\ Steady /\ Quiet(4, manager) /\ Quiet(5, manager) /\ Quiet(9, finalHost)
      /\ UNCHANGED thread[9][finalHost] /\ step = 8 /\ step' = 8
  BY <1>1, <1>3, ActingQuiet
<1>4. CopyInv'
  <2> SUFFICES ASSUME passed[4][manager] = "true", NEW h \in Created
               PROVE  Fresh(CopyOf(h), h)'
    BY <1>2 DEF CopyInv, Quiet, Steady
  <2>1. h \in Hosts /\ Fresh(CopyOf(h), h) /\ data_store[h] \in {"tar", "gz"}
    BY DEF CopyInv, HostInv, Created, Passed, Base, DataTypes
  <2>2. copied'[h] \in {copied[h], [copied[h] EXCEPT ![data_store[h]] = None]}
    BY <2>1 DEF CleanManager
  <2>3. copied[h] \in [tar : Logs, gz : Logs]
    BY <2>1 DEF Base, DataTypes
  <2>4. [copied[h] EXCEPT ![data_store[h]] = None][data_store[h]] = None
    <3>1. CASE data_store[h] = "tar"
      BY <2>3, <3>1
    <3>2. CASE data_store[h] = "gz"
      BY <2>3, <3>2
    <3> QED
      BY <2>1, <3>1, <3>2
  <2> QED
    BY <1>3, <2>1, <2>2, <2>4 DEF CopyOf, Fresh, onHosts
<1>5. HostInv'
  BY <1>2, <1>3, HostQuiet
<1>6. PackInv'
  BY <1>2, <1>3, PackQuiet
<1>7. FinalInv'
  BY <1>2, <1>3, FinalQuiet
<1> QED
  BY <1>4, <1>5, <1>6, <1>7 DEF DataInv

(* The archive goes to the final folder.                                   *)
LEMMA CopyToFinalKeepsInv ==
  ASSUME Base, DataInv, CopyToFinalFolder
  PROVE  DataInv'
<1> Control /\ R!TypeOK /\ Chain /\ HostInv /\ CopyInv /\ PackInv
    /\ manager \in Hosts /\ finalHost \in Hosts
  BY NoneIsNoLog DEF Base, Control, DataInv
<1>1. PICK o : /\ Does(9, finalHost, o)
               /\ o = "true" => final' = collector /\ path' = "final"
  <2>1. CASE Returns("copy_to_final_folder", finalHost, "true") /\ final' = collector /\ path' = "final"
    BY <2>1, OperationsDo
  <2>2. CASE Returns("copy_to_final_folder", finalHost, "exception")
    BY <2>2, OperationsDo
  <2> QED
    BY <2>1, <2>2 DEF CopyToFinalFolder
<1>3. UNCHANGED onHosts /\ UNCHANGED <<copied, slipped, sar, telemetry>>
  BY DEF CopyToFinalFolder, tool, onHosts, Base, DataTypes
<1>2. Steady /\ Quiet(4, manager) /\ step = 9 /\ step' = 9
  BY <1>1, <1>3, ActingQuiet
<1>4. HostInv' /\ CopyInv'
  BY <1>2, <1>3, HostQuiet, CopyQuiet DEF onHosts
<1>5. PackInv'
  BY <1>1, Acting DEF PackInv
<1>6. FinalInv'
  <2> SUFFICES ASSUME passed'[9][finalHost] = "true"
               PROVE  path' = "final" /\ Whole(final)'
    BY DEF FinalInv
  <2>1. o = "true" /\ thread[9][finalHost] = "ready" /\ passed[5][manager] = "true"
    BY <1>1, Acting DEF Chain
  <2>2. Whole(collector)
    BY <2>1 DEF PackInv
  <2> QED
    <3>1. Created' = Created /\ \A h : Front(h)' = Front(h)
      BY <1>2, SteadyHosts
    <3> QED
      BY <1>1, <1>3, <2>1, <2>2, <3>1 DEF Whole, Fresh
<1> QED
  BY <1>4, <1>5, <1>6 DEF DataInv

(* The rest touches none of these files, or starts again.                  *)
LEMMA OthersKeepInv ==
  ASSUME Base, DataInv, PrintFilesList \/ PrintFinalFilesLocation \/ Runner \/ NewRun \/ UNCHANGED vars
  PROVE  DataInv'
<1> /\ Control /\ R!TypeOK /\ HostInv /\ CopyInv /\ PackInv /\ FinalInv
    /\ manager \in Hosts /\ finalHost \in Hosts /\ step \in Nat
  BY NoneIsNoLog, Ten DEF Base, Control, DataInv, R!TypeOK
<1>1. ASSUME /\ UNCHANGED <<onHosts, onManager, slipped>> /\ Steady
             /\ \A k \in 4..10, h \in Hosts : Quiet(k, h)
             /\ thread'[9][finalHost] \in {"off", "ready"} => thread[9][finalHost] \in {"off", "ready"}
      PROVE  DataInv'
  BY <1>1, HostQuiet, CopyQuiet, PackQuiet, FinalQuiet DEF DataInv, onHosts, onManager
<1>2. CASE PrintFilesList
  <2>1. Does(7, manager, "true") /\ UNCHANGED <<onHosts, onManager, slipped, sar, telemetry>>
    BY <1>2, OperationsDo DEF PrintFilesList, tool, onHosts
  <2>2. /\ Steady /\ Quiet(4, manager) /\ Quiet(5, manager) /\ Quiet(9, finalHost)
        /\ UNCHANGED thread[9][finalHost] /\ step' = step
    BY <2>1, ActingQuiet
  <2> QED
    BY <2>1, <2>2, HostQuiet, CopyQuiet, PackQuiet, FinalQuiet DEF DataInv, onHosts, onManager
<1>3. CASE PrintFinalFilesLocation
  <2>1. Does(10, manager, "true") /\ UNCHANGED <<onHosts, onManager, slipped, sar, telemetry>>
    BY <1>3, OperationsDo DEF PrintFinalFilesLocation, tool, onHosts
  <2>2. /\ Steady /\ Quiet(4, manager) /\ Quiet(5, manager) /\ Quiet(9, finalHost)
        /\ UNCHANGED thread[9][finalHost] /\ step' = step
    BY <2>1, ActingQuiet
  <2> QED
    BY <2>1, <2>2, HostQuiet, CopyQuiet, PackQuiet, FinalQuiet DEF DataInv, onHosts, onManager
<1>4. CASE Runner
  <2>1. step' \in Nat
    BY <1>4, CollectorRunsFlow, FlowControl, Ten DEF Control, R!TypeOK, Next
  <2>2. Created' = Created
    BY <1>4, RunnerQuiet DEF Created, Passed
  <2>3. Steady
    BY <1>4, <2>1, <2>2, RunnerQuiet DEF Steady, Runner, onHosts, tool
  <2> QED
    BY <1>1, <1>4, <2>3, RunnerQuiet DEF Quiet, Runner
<1>5. CASE NewRun
  <2>1. \A k \in 1..10, h \in Hosts : passed'[k][h] = "none"
    BY <1>5, TenSteps DEF NewRun, R!Everywhere
  <2>2. data_store' = Nowhere
    BY <1>5 DEF NewRun
  <2> QED
    BY <2>1, <2>2 DEF DataInv, HostInv, CopyInv, PackInv, FinalInv, Created, Passed, Stored, Nowhere
<1>6. CASE UNCHANGED vars
  BY <1>1, <1>6 DEF vars, flow, tool, onHosts, Quiet, Steady, Created, Passed
<1> QED
  BY <1>2, <1>3, <1>4, <1>5, <1>6

(* Every step keeps the invariant.                                         *)
LEMMA DataInvStep ==
  ASSUME Base, DataInv, [Next]_vars
  PROVE  Base' /\ DataInv'
<1>1. Base'
  BY CollectorRunsFlow, FlowControl, DataStep DEF Base
<1>2. DataInv'
  BY CreateKeepsInv, AppendKeepsInv, ZipKeepsInv, CleanHostsKeepsInv, ScpKeepsInv, TgzKeepsInv,
     CleanManagerKeepsInv, CopyToFinalKeepsInv, OthersKeepInv, NoneIsNoLog DEF Next
<1> QED
  BY <1>1, <1>2

(* It holds at the start, when nothing has an outcome.                     *)
LEMMA InitDataInv ==
  ASSUME Init
  PROVE  Base /\ DataInv
<1>1. \A k \in 1..10, h \in Hosts : passed[k][h] = "none"
  BY TenSteps DEF Init, R!Init, R!Everywhere
<1>2. manager \in Hosts /\ finalHost \in Hosts
  BY NoneIsNoLog
<1>3. Created = {} /\ Stored = {}
  BY <1>1 DEF Init, Nowhere, Created, Passed, Stored
<1>4. HostInv
  BY <1>3 DEF HostInv
<1> QED
  BY <1>1, <1>2, <1>3, <1>4, InitControl, InitData DEF Base, DataInv, CopyInv, PackInv, FinalInv

(* What is announced is the whole archive in the final folder.             *)
LEMMA AnnouncedIsWhole ==
  ASSUME Base, DataInv, Announced
  PROVE  Whole(ThatArchive)
<1>1. manager \in Hosts /\ thread[10][manager] # "off"
  BY NoneIsNoLog DEF Base, Control, AtWork, Announced
<1>2. passed[9][finalHost] = "true"
  BY <1>1 DEF Base, Control, Chain
<1> QED
  BY <1>2 DEF DataInv, FinalInv, ThatArchive

(* How each operation hands the archives on, in every reachable state.     *)
THEOREM DataInvHolds == Spec => [](Base /\ DataInv)
<1>1. Init => Base /\ DataInv
  BY InitDataInv
<1>2. Base /\ DataInv /\ [Next]_vars => (Base /\ DataInv)'
  BY DataInvStep
<1> QED
  BY <1>1, <1>2, PTL DEF Spec

(* Whatever earlier runs left under the same names and whatever failed,    *)
(* old logs are in the archive the user is told of only for a host whose   *)
(* create_tar_file did not pass, behind a host of a single type that did,  *)
(* or, of telemetry, where csv files were left in the sar directory.       *)
THEOREM OldLogsTracedHolds == Spec => []OldLogsTraced
<1>1. ASSUME Base, DataInv, Announced PROVE OldLogsTraced
  <2>1. Whole(ThatArchive)
    BY <1>1, AnnouncedIsWhole
  <2>2. ASSUME NEW h \in Hosts, ThatArchive[h] # None, "old" \in ThatArchive[h]
        PROVE  \/ h \notin Created /\ \E g \in SingleType \cap Created : rank[g] < rank[h]
               \/ telemetry /\ "old" \in sar[h]
    <3>1. CASE h \in Created
      BY <2>1, <2>2, <3>1 DEF Whole, Fresh
    <3>2. CASE h \notin Created
      BY <2>1, <2>2, <3>2 DEF Whole, Front
    <3> QED
      BY <3>1, <3>2
  <2> QED
    BY <2>1, <2>2 DEF OldLogsTraced, Whole
<1>2. Base /\ DataInv => OldLogsTraced
  BY <1>1 DEF OldLogsTraced
<1> QED
  BY <1>2, DataInvHolds, PTL

(* And unless an ls missed a file it has the logs of every host whose tar  *)
(* was made.                                                               *)
THEOREM CollectedIsDeliveredHolds == Spec => []CollectedIsDelivered
<1>1. Base /\ DataInv => CollectedIsDelivered
  BY AnnouncedIsWhole DEF CollectedIsDelivered, Whole
<1> QED
  BY <1>1, DataInvHolds, PTL
=================================================================================
