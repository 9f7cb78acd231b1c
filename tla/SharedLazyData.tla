----------------------------- MODULE SharedLazyData -----------------------------
(***************************************************************************)
(* What the lazy loader does promise to the threads that share its data:   *)
(* on a cluster an item is loaded, perhaps several times, within one       *)
(* operation; a call is told what the item holds, or the exception of a    *)
(* load that it made itself; an exception reaches the call that met it     *)
(* before anything else is loaded; and the end of the cluster forgets      *)
(* everything.  LazyDataLoader implements it.                              *)
(***************************************************************************)
EXTENDS Naturals

CONSTANTS Items,    \* what is shared
          Outcomes, \* how a load may end
          Nothing   \* the value of an item that is not loaded

VARIABLES op,       \* the operation under way, 0 before the first
          value,    \* the value of each item, numbered by its load
          loadOps,  \* the operations of this cluster that loaded each item
          raised,   \* the exception on its way to the call that loaded
          nloads,   \* the loads so far
          answers   \* what the calls of this cluster were told

vars == <<op, value, loadOps, raised, nloads, answers>>

Init ==
  /\ op = 0 /\ nloads = 0
  /\ value = [i \in Items |-> Nothing]
  /\ loadOps = [i \in Items |-> {}]
  /\ raised = {} /\ answers = {}

NextOperation ==
  /\ raised = {}
  /\ op' = op + 1
  /\ UNCHANGED <<value, loadOps, raised, nloads, answers>>

(* Only in the operation that loaded it first is an item loaded again.     *)
Load(i, k) ==
  LET v == [load |-> nloads + 1, kind |-> k] IN
  /\ raised = {} /\ loadOps[i] \subseteq {op}
  /\ value' = [value EXCEPT ![i] = v]
  /\ loadOps' = [loadOps EXCEPT ![i] = {op}]
  /\ raised' = IF k = "exception" THEN {[item |-> i, value |-> v]} ELSE {}
  /\ nloads' = nloads + 1
  /\ UNCHANGED <<op, answers>>

Told(i, v) == answers' = answers \cup {[item |-> i, op |-> op, value |-> v]}

Reply(i) ==
  /\ loadOps[i] # {}
  /\ Told(i, value[i])
  /\ UNCHANGED <<op, value, loadOps, raised, nloads>>

Raise ==
  /\ \E r \in raised : Told(r.item, r.value)
  /\ raised' = {}
  /\ UNCHANGED <<op, value, loadOps, nloads>>

Forget ==
  /\ raised = {}
  /\ op' = 0
  /\ value' = [i \in Items |-> Nothing]
  /\ loadOps' = [i \in Items |-> {}]
  /\ answers' = {}
  /\ UNCHANGED <<raised, nloads>>

Next ==
  \/ NextOperation \/ Raise \/ Forget
  \/ \E i \in Items : Reply(i) \/ \E k \in Outcomes : Load(i, k)

Spec == Init /\ [][Next]_vars
=============================================================================
