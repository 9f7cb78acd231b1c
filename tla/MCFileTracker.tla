---------------------------- MODULE MCFileTracker ----------------------------
(* A file and a folder on a node, a resource and a command on the manager. *)
EXTENDS FileTracker, TLC

CONSTANTS manager, node, conf, dir, resource, command, a, b

MCHostOf == conf :> node @@ dir :> node @@ resource :> manager @@ command :> manager

MCKindOf == conf :> "file" @@ dir :> "folder" @@ resource :> "resource" @@ command :> "command"

SymmetricContents == Permutations({a, b})
=============================================================================
