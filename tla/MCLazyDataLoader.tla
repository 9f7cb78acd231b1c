--------------------------- MODULE MCLazyDataLoader ---------------------------
(* Small instances of LazyDataLoader: see the .cfg files.                  *)
EXTENDS LazyDataLoader
CONSTANTS C1, F1, F2
MCItems == {<<C1, F1>>, <<C1, F2>>}
=============================================================================
