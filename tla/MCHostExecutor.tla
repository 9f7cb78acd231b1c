----------------------------- MODULE MCHostExecutor -----------------------------
(* Two hosts, and two threads that run two commands between them.          *)
EXTENDS HostExecutor
CONSTANTS h1, h2, t1, t2
=============================================================================
