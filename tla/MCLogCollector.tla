---------------------------- MODULE MCLogCollector ----------------------------
(* The undercloud, which is the manager, the hypervisor, which has the     *)
(* final folder, and a compute of CBIS.                                    *)
EXTENDS LogCollector

CONSTANTS uc, hyp, compute

(* The place of the hypervisor among the hosts decides nothing: the one    *)
(* operation that runs there runs nowhere else.  It is the last.           *)
HypIsLast == Init /\ \A h \in Hosts : rank[h] <= rank[hyp]

MCSpec == HypIsLast /\ [][Next]_vars
=============================================================================
