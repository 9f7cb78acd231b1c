---------------------------- MODULE MCInstaller ----------------------------
(* The undercloud of an old CBIS with everything the installer can touch,  *)
(* and a manager of NCS without containers or other authorized keys.       *)
EXTENDS Installer

CBISOld == [cbis |-> TRUE, containers |-> TRUE, profiler |-> TRUE, keys |-> TRUE,
            otherKeys |-> TRUE]

NCSBare == [cbis |-> FALSE, containers |-> FALSE, profiler |-> FALSE, keys |-> FALSE,
            otherKeys |-> FALSE]

MCVersions == {<<1, 2>>, <<2, 1>>}
MCSites == {CBISOld, NCSBare}
=============================================================================
