-------------------------- MODULE MCDataCollectorCache --------------------------
(* Small instances of DataCollectorCache: see the .cfg files.              *)
EXTENDS DataCollectorCache
=============================================================================
