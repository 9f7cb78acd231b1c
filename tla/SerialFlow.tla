------------------------------- MODULE SerialFlow -------------------------------
(***************************************************************************)
(* What the runner of system operations promises: the operations of a flow *)
(* take effect one after the other, each of them at once on exactly the    *)
(* hosts that the outcomes of the earlier ones select, and on every such   *)
(* host it leaves an outcome and a report that belong together.  The       *)
(* threads, the serial runs and the time between an outcome and its report *)
(* are not seen; SystemOperationFlow implements it.                        *)
(***************************************************************************)
EXTENDS DynamicPrerequisite

VARIABLES
  debug,   \* exceptions are raised, not reported
  step,    \* the next operation
  report   \* what the printer holds for each operation and host

vars == <<debug, rank, step, passed, report>>

(* How an operation ends on a host: its outcome and its report.            *)
Reported == {<<"true", "ok">>, <<"false", "failed">>}
Problem == <<"false", "problem">>
Untold == {<<"none", "none">>, <<"other", "none">>}

(* What is not a boolean is a problem of the host, or in debug mode an     *)
(* exception nobody reports.                                               *)
Endings == Reported \cup (IF debug THEN Untold ELSE {Problem})

Init ==
  /\ debug \in BOOLEAN
  /\ rank \in [Hosts -> Nat]
  /\ \A g, h \in Hosts : rank[g] = rank[h] => g = h
  /\ step = 1
  /\ passed = Everywhere("none")
  /\ report = Everywhere("none")

(* The next operation runs to its end, wherever it is to run; that may be  *)
(* nowhere.  A flow that is aborted in debug mode takes no further step.   *)
RunOperation ==
  /\ step <= Len(Flow)
  /\ \E ending \in [ToRun(step) -> Endings] :
       /\ passed' = [passed EXCEPT ![step] =
            [h \in Hosts |-> IF h \in ToRun(step) THEN ending[h][1] ELSE "none"]]
       /\ report' = [report EXCEPT ![step] =
            [h \in Hosts |-> IF h \in ToRun(step) THEN ending[h][2] ELSE "none"]]
  /\ step' = step + 1
  /\ UNCHANGED <<debug, rank>>

Spec == Init /\ [][RunOperation]_vars
=============================================================================
