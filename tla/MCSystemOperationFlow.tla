------------------------- MODULE MCSystemOperationFlow -------------------------
(* The shape of the log collection flow, on the first controller and on    *)
(* two other hosts, then the two prerequisite modes it does not use.       *)
EXTENDS SystemOperationFlow
CONSTANTS c0, h1, h2

Operation(name, on, prerequisite) ==
  [name |-> name, on |-> on, prerequisite |-> prerequisite, multipleHosts |-> FALSE,
   passIfAny |-> TRUE, runIfFailed |-> FALSE, inParallel |-> TRUE]

MCFlow == <<
  Operation("create_tar_file", {c0, h1, h2}, NoName),
  Operation("append_logs_files_to_tar_file", {h1, h2}, "create_tar_file"),
  [Operation("copy file to UC/Manager", {c0}, "append_logs_files_to_tar_file")
     EXCEPT !.multipleHosts = TRUE, !.inParallel = FALSE],
  [Operation("all_hosts", {h1}, "append_logs_files_to_tar_file")
     EXCEPT !.multipleHosts = TRUE, !.passIfAny = FALSE],
  [Operation("clean_up", {h1, h2}, "append_logs_files_to_tar_file")
     EXCEPT !.runIfFailed = TRUE, !.inParallel = FALSE] >>
=============================================================================
