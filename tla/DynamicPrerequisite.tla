-------------------------- MODULE DynamicPrerequisite --------------------------
(***************************************************************************)
(* The operations of a flow, and DynamicPrerequisiteFulfillness: on which  *)
(* hosts an operation is to run, decided from the outcomes of the earlier  *)
(* operation it depends on.                                                *)
(***************************************************************************)
EXTENDS Naturals, Sequences, FiniteSets

CONSTANTS
  Hosts,       \* the connected hosts
  SingleType,  \* those with a role there is one host of (one controller, ...)
  Flow,        \* the operations, in the order of the flow
  NoName       \* the empty prerequisite name

Step == DOMAIN Flow

ASSUME FlowAssumption ==
  /\ SingleType \subseteq Hosts
  /\ Flow \in Seq([name: STRING, on: (SUBSET Hosts) \ {{}}, prerequisite: STRING \cup {NoName},
                   multipleHosts: BOOLEAN, passIfAny: BOOLEAN, runIfFailed: BOOLEAN,
                   inParallel: BOOLEAN])
  /\ \A j, k \in Step : Flow[j].name = Flow[k].name => j = k
  /\ NoName \notin STRING

VARIABLES
  rank,    \* the order of the host executors, which is that of the instances
  passed   \* _is_passed of each operation on each host

(* _is_passed is None, a boolean, or whatever else an operation returned.  *)
Outcome == {"none", "true", "false", "other"}

Everywhere(v) == [k \in Step |-> [h \in Hosts |-> v]]

-----------------------------------------------------------------------------
(* The operations before k that bear the name of its prerequisite.         *)
Prerequisites(k) == {j \in 1..(k - 1) : Flow[j].name = Flow[k].prerequisite}

(* The instances looked at for host h: its own and the single-type ones.   *)
Matching(j, h) == {g \in Flow[j].on : g = h \/ g \in SingleType}

First(S) == CHOOSE g \in S : \A i \in S : rank[g] <= rank[i]

(* The first matching instance decides; without any the answer is the one  *)
(* of the end of the function.                                             *)
PassedOnOneHost(k, h) ==
  IF \E j \in Prerequisites(k) : Matching(j, h) # {}
  THEN \E j \in Prerequisites(k) : passed[j][First(Matching(j, h))] = "true"
  ELSE ~Flow[k].passIfAny

Truthy(o) == o \in {"true", "other"}

(* Mutant: an operation that was skipped counts as passed.                 *)
PassedUnlessFailed(k) ==
  IF Flow[k].passIfAny
  THEN \E j \in Prerequisites(k) : \E g \in Flow[j].on : passed[j][g] # "false"
  ELSE \A j \in Prerequisites(k) : \A g \in Flow[j].on : passed[j][g] # "false"

PassedOnMultipleHosts(k) ==
  IF Flow[k].passIfAny
  THEN \E j \in Prerequisites(k) : \E g \in Flow[j].on : Truthy(passed[j][g])
  ELSE \A j \in Prerequisites(k) : \A g \in Flow[j].on : Truthy(passed[j][g])

Fulfilled(k, h) ==
  IF Flow[k].multipleHosts THEN PassedOnMultipleHosts(k) ELSE PassedOnOneHost(k, h)

(* Mutant: an operation for failures does not run for a skipped one.       *)
ValidatePrerequisiteRan(k, h) ==
  \/ Flow[k].prerequisite = NoName
  \/ /\ Fulfilled(k, h) # Flow[k].runIfFailed
     /\ \A j \in Prerequisites(k) : \E g \in Hosts : passed[j][g] # "none"

ValidatePrerequisite(k, h) ==
  Flow[k].prerequisite = NoName \/ Fulfilled(k, h) # Flow[k].runIfFailed

ToRun(k) == {h \in Flow[k].on : ValidatePrerequisite(k, h)}
=============================================================================
