---------------------------- MODULE ManyToOneCollect ----------------------------
(***************************************************************************)
(* What a many-to-one data collection promises to the validations that     *)
(* call it: for the length of one flow, each key (collector, arguments and *)
(* source host) is collected at most once, and every caller that gets an   *)
(* answer gets that one collection.  DataCollectorCache implements it.     *)
(***************************************************************************)
EXTENDS Naturals

CONSTANTS Key,      \* what is collected: collector with its arguments, on a host
          Caller    \* the threads that ask

VARIABLES value,    \* [Key -> Nat], the collection of the key, 0 when there is none
          nloads,   \* the number of collections so far, which numbers them
          answers   \* the answers given since the cache was last emptied

vars == <<value, nloads, answers>>

Answer == [caller: Caller, key: Key, load: Nat \ {0}]

Init ==
  /\ value = [k \in Key |-> 0]
  /\ nloads = 0
  /\ answers = {}

(* A key that has no collection gets one, under a number of its own.       *)
Load(k) ==
  /\ value[k] = 0
  /\ nloads' = nloads + 1
  /\ value' = [value EXCEPT ![k] = nloads + 1]
  /\ UNCHANGED answers

(* A caller is answered with the collection of its key, which exists.      *)
Reply(c, k) ==
  /\ value[k] # 0
  /\ answers' = answers \cup {[caller |-> c, key |-> k, load |-> value[k]]}
  /\ UNCHANGED <<value, nloads>>

(* The end of a flow forgets every collection and every answer.            *)
Forget ==
  /\ value' = [k \in Key |-> 0]
  /\ answers' = {}
  /\ UNCHANGED nloads

Next ==
  \/ \E k \in Key : Load(k)
  \/ \E c \in Caller, k \in Key : Reply(c, k)
  \/ Forget

Spec == Init /\ [][Next]_vars
=============================================================================
