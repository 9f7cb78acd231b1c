------------------------------ MODULE LogCollector ------------------------------
(***************************************************************************)
(* The collection of logs, or of telemetry, which differs in what it adds  *)
(* to the archives: ten system operations run by SystemOperationFlow.      *)
(* Each host makes an archive, the manager (the undercloud of CBIS) copies *)
(* them to itself and packs them into one, which ends in a folder of the   *)
(* final host (the hypervisor of CBIS, else the manager).  Commands fail   *)
(* or time out, and the process may be killed and started again: the files *)
(* it left are there for the next run, which uses the same names.  The     *)
(* runs of a behaviour collect the same; append_sar_files_to_tar_file goes *)
(* by the name of append_logs_files_to_tar_file, whose place it has.       *)
(*                                                                         *)
(* Left out: which log files are of interest and how they are cut to the   *)
(* period, free disk space but for its being too small, permissions.       *)
(***************************************************************************)
EXTENDS Naturals, Sequences

CONSTANTS
  Hosts, SingleType, NoName,  \* as in SystemOperationFlow
  Chosen,     \* the hosts whose logs are collected
  manager,    \* the undercloud, or the manager the tool runs for
  finalHost,  \* the host with the final folder
  None,       \* no such file, or no entry
  Half,       \* a copy that was cut short
  MaxRuns, MaxFaults

VARIABLES
  debug, rank, step, phase, thread, ret, passed, report,  \* as in SystemOperationFlow
  tar, gz,     \* the archive of each host, on the host: the logs of which runs it has
  sar,         \* the csv files in working_dir/sar of each host: of which runs
  data_store,  \* the name under which a host's archive goes
  copied,      \* the archives of the hosts in working_dir of the manager, by name
  collector,   \* the archive of all hosts in working_dir
  final,       \* the one in FINAL_TAR_GZ_FOLDER
  path,        \* collector_path: which of the two is announced
  slipped,     \* history: an ls of this run found nothing although the file is there
  telemetry,   \* whether telemetry is collected
  runs, faults

flow == <<debug, rank, step, phase, thread, ret, passed, report>>
onHosts == <<tar, gz, sar, data_store>>
onManager == <<copied, collector, final, path>>
tool == <<telemetry, runs>>
vars == <<flow, onHosts, onManager, slipped, tool, faults>>

Operation(name, on, prerequisite) ==
  [name |-> name, on |-> on, prerequisite |-> prerequisite, multipleHosts |-> FALSE,
   passIfAny |-> TRUE, runIfFailed |-> FALSE, inParallel |-> TRUE]

Serial(operation) == [operation EXCEPT !.inParallel = FALSE]

CollectorFlow == <<
  Operation("create_tar_file", Chosen, NoName),
  Operation("append_logs_files_to_tar_file", Chosen, "create_tar_file"),
  Operation("gzip_the_tar_files", Chosen, "append_logs_files_to_tar_file"),
  [Serial(Operation("copy_file_to_UC_Manager", {manager}, "gzip_the_tar_files"))
     EXCEPT !.multipleHosts = TRUE],
  Serial(Operation("tgz_hosts_tgz_files_on_manager", {manager}, "copy_file_to_UC_Manager")),
  Operation("cleaning_gz_files_from_hosts", Chosen, NoName),
  Serial(Operation("printing_list_of_collected_files", {manager}, "copy_file_to_UC_Manager")),
  Operation("cleaning_gz_files_from_manager", {manager}, NoName),
  Operation("copy_to_final_folder", {finalHost}, "tgz_hosts_tgz_files_on_manager"),
  Serial(Operation("print_final_collected_files_location", {manager}, "copy_to_final_folder")) >>

Content == SUBSET {"old", "new"}

Archive == [Hosts -> {None} \cup Content]

ASSUME CollectorAssumption ==
  /\ {manager, finalHost} \cup Chosen \cup SingleType \subseteq Hosts
  /\ Chosen # {} /\ \A k \in DOMAIN CollectorFlow : NoName # CollectorFlow[k].name
  /\ None \notin {"tar", "gz", Half} /\ \A c \in Content : c # None
  /\ \A a \in Archive : a # None /\ a # Half
  /\ MaxRuns \in Nat \ {0} /\ MaxFaults \in Nat

R == INSTANCE SystemOperationFlow WITH Flow <- CollectorFlow

Nowhere == [h \in Hosts |-> None]

(* What an earlier run left.                                               *)
Aged(c) == IF c \in {None, {}} THEN c ELSE {"old"}
-----------------------------------------------------------------------------
Fault == faults < MaxFaults /\ faults' = faults + 1

(* An operation runs on a host, and returns or raises.                     *)
Returns(name, h, outcome) ==
  \E k \in DOMAIN CollectorFlow :
    CollectorFlow[k].name = name /\ R!RunSystemOperation(k, h) /\ ret'[k][h] = outcome

Passed(k) == {h \in Hosts : passed[k][h] = "true"}

(* Hosts with a key in all_added_files: their create_tar_file returned True. *)
Created == Passed(1)

Init ==
  /\ R!Init
  /\ tar = Nowhere /\ gz = Nowhere /\ data_store = Nowhere
  /\ copied = [h \in Hosts |-> [tar |-> None, gz |-> None]]
  /\ collector = None /\ final = None /\ path = "final"
  /\ sar = [h \in Hosts |-> {}] /\ telemetry \in BOOLEAN
  /\ slipped = FALSE /\ runs = 1 /\ faults = 0

(* FilesCollectorPreFlow: another run, after the end of this one or after  *)
(* it was killed.                                                          *)
NewRun ==
  /\ runs < MaxRuns /\ runs' = runs + 1 /\ step > 1
  /\ step' = 1 /\ phase' = "select" /\ thread' = R!Everywhere("off")
  /\ ret' = R!Everywhere("none") /\ passed' = R!Everywhere("none")
  /\ report' = R!Everywhere("none") /\ UNCHANGED <<debug, rank>>
  /\ tar' = [h \in Hosts |-> Aged(tar[h])] /\ gz' = [h \in Hosts |-> Aged(gz[h])]
  /\ sar' = [h \in Hosts |-> Aged(sar[h])] /\ data_store' = Nowhere
  /\ copied' = [h \in Hosts |-> [tar |-> Aged(copied[h].tar), gz |-> Aged(copied[h].gz)]]
  /\ collector' = IF collector = None THEN None ELSE [h \in Hosts |-> Aged(collector[h])]
  /\ final' = IF final \in {None, Half} THEN final ELSE [h \in Hosts |-> Aged(final[h])]
  /\ path' = "final" /\ slipped' = FALSE
  /\ UNCHANGED <<telemetry, faults>>
-----------------------------------------------------------------------------
(* The operations on each host.                                            *)

(* Mutant: the tar file is not emptied.                                    *)
CreateTarFileKeeping(h) ==
  /\ Returns("create_tar_file", h, "true")
  /\ tar' = IF tar[h] = None THEN [tar EXCEPT ![h] = {}] ELSE tar
  /\ data_store' = [data_store EXCEPT ![h] = "tar"]
  /\ UNCHANGED <<gz, sar, onManager, slipped, tool, faults>>

(* A new tar file, or a failure before or after it is made.                *)
CreateTarFile(h) ==
  /\ \/ /\ Returns("create_tar_file", h, "true") /\ UNCHANGED faults
        /\ tar' = [tar EXCEPT ![h] = {}] /\ data_store' = [data_store EXCEPT ![h] = "tar"]
     \/ /\ Returns("create_tar_file", h, "false") \/ Returns("create_tar_file", h, "exception")
        /\ Fault /\ tar' \in {tar, [tar EXCEPT ![h] = {}]} /\ UNCHANGED data_store
  /\ UNCHANGED <<gz, sar, onManager, slipped, tool>>

(* tar --append, whose failure nobody looks at, makes the file if there is *)
(* none; the list of the host then has no key.                             *)
AppendLogsFilesToTar(h) ==
  LET more == [tar EXCEPT ![h] = {"new"} \cup IF @ = None THEN {} ELSE @] IN
  /\ ~telemetry
  /\ \/ /\ Returns("append_logs_files_to_tar_file", h, "true") /\ UNCHANGED faults
        /\ tar' = tar \/ (h \in Created /\ tar' = more)
     \/ /\ Returns("append_logs_files_to_tar_file", h, "exception") /\ tar' \in {tar, more}
        /\ IF h \in Created THEN Fault ELSE UNCHANGED faults
     \/ Returns("append_logs_files_to_tar_file", h, "false") /\ Fault /\ UNCHANGED tar
  /\ UNCHANGED <<gz, sar, data_store, onManager, slipped, tool>>

(* sadf writes its csv files over those of the same names; others, of a    *)
(* kind that is not collected this time, stay in the directory.            *)
SarFiles(h) == sar' \in {[sar EXCEPT ![h] = {"new"}], [sar EXCEPT ![h] = @ \cup {"new"}]}

(* The whole directory is appended, and then the list needs a key.  The    *)
(* operation fails when a sadf command does.                               *)
AppendSarFilesToTar(h) ==
  LET more == [tar EXCEPT ![h] = sar'[h] \cup IF @ = None THEN {} ELSE @] IN
  /\ telemetry
  /\ \/ /\ Returns("append_logs_files_to_tar_file", h, "true") /\ h \in Created
        /\ SarFiles(h)
        /\ (tar' = more /\ UNCHANGED faults) \/ (UNCHANGED tar /\ Fault)
     \/ /\ Returns("append_logs_files_to_tar_file", h, "exception")
        /\ \/ h \notin Created /\ SarFiles(h) /\ tar' = more /\ UNCHANGED faults
           \/ SarFiles(h) /\ tar' \in {tar, more} /\ Fault
           \/ UNCHANGED <<tar, sar>> /\ Fault
     \/ /\ Returns("append_logs_files_to_tar_file", h, "false")
        /\ sar' \in {sar, [sar EXCEPT ![h] = @ \cup {"new"}]} /\ UNCHANGED tar /\ Fault
  /\ UNCHANGED <<gz, data_store, onManager, slipped, tool>>

(* Mutant: gzip --keep.                                                    *)
ZipTarFileKeeping(h) ==
  /\ Returns("gzip_the_tar_files", h, "true")
  /\ tar[h] # None /\ gz' = [gz EXCEPT ![h] = tar[h]]
  /\ data_store' = [data_store EXCEPT ![h] = "gz"]
  /\ UNCHANGED <<tar, sar, onManager, slipped, tool, faults>>

(* gzip may do its work and be reported as timed out, and the size of the  *)
(* archive may not be found: data_store then keeps the name of the tar.    *)
ZipTarFile(h) ==
  LET zipped == tar' = [tar EXCEPT ![h] = None] /\ gz' = [gz EXCEPT ![h] = tar[h]] IN
  /\ \/ /\ Returns("gzip_the_tar_files", h, "true") /\ UNCHANGED faults
        /\ tar[h] # None /\ zipped /\ data_store' = [data_store EXCEPT ![h] = "gz"]
     \/ /\ Returns("gzip_the_tar_files", h, "exception") /\ UNCHANGED data_store
        /\ \/ tar[h] = None /\ UNCHANGED <<tar, gz, faults>>
           \/ tar[h] # None /\ Fault /\ (zipped \/ UNCHANGED <<tar, gz>>)
  /\ UNCHANGED <<sar, onManager, slipped, tool>>

(* Without a prerequisite, and of the gz file only.                        *)
CleanHosts(h) ==
  /\ \/ /\ Returns("cleaning_gz_files_from_hosts", h, "true")
        /\ \/ gz' = [gz EXCEPT ![h] = None] /\ UNCHANGED <<faults, slipped>>
           \/ gz[h] # None /\ UNCHANGED gz /\ Fault /\ slipped' = TRUE
     \/ /\ Returns("cleaning_gz_files_from_hosts", h, "exception") /\ gz[h] # None
        /\ gz' \in {gz, [gz EXCEPT ![h] = None]} /\ Fault /\ UNCHANGED slipped
  /\ UNCHANGED <<tar, sar, data_store, onManager, tool>>
-----------------------------------------------------------------------------
(* The operations on the manager and the final host.                       *)

Stored == {h \in Hosts : data_store[h] # None}

Source(h) == IF data_store[h] = "tar" THEN tar[h] ELSE gz[h]

CopiesOf(S) ==
  [h \in Hosts |-> IF h \in S THEN [copied[h] EXCEPT ![data_store[h]] = Source(h)] ELSE copied[h]]

(* Mutant: a file that cannot be copied is passed over.                    *)
ScpToManagerAny ==
  /\ Returns("copy_file_to_UC_Manager", manager, "true")
  /\ copied' = CopiesOf({h \in Stored : Source(h) # None})
  /\ UNCHANGED <<onHosts, collector, final, path, slipped, tool, faults>>

(* One file after the other, up to the first that cannot be copied.        *)
ScpToManager ==
  /\ \/ /\ Returns("copy_file_to_UC_Manager", manager, "true") /\ UNCHANGED faults
        /\ \A h \in Stored : Source(h) # None
        /\ copied' = CopiesOf(Stored)
     \/ /\ Returns("copy_file_to_UC_Manager", manager, "false")
        /\ \E done \in SUBSET Stored, h \in Stored :
             /\ h \notin done /\ \A g \in done : Source(g) # None
             /\ IF Source(h) = None THEN UNCHANGED faults ELSE Fault
             /\ copied' = CopiesOf(done)
     \/ Returns("copy_file_to_UC_Manager", manager, "exception") /\ Fault /\ UNCHANGED copied
  /\ UNCHANGED <<onHosts, collector, final, path, slipped, tool>>

CopyOf(h) == copied[h][data_store[h]]

(* get_hosts_tgz_files_list, where an ls may miss a file.                  *)
Listed(names) ==
  LET there == {h \in Stored : CopyOf(h) # None} IN
  \/ names = there /\ UNCHANGED <<faults, slipped>>
  \/ names \subseteq there /\ names # there /\ Fault /\ slipped' = TRUE

TgzHostsTgzFilesOnManager ==
  /\ \/ \E names \in SUBSET Stored :
          /\ Returns("tgz_hosts_tgz_files_on_manager", manager, "true")
          /\ Listed(names) /\ names # {}
          /\ collector' = [h \in Hosts |-> IF h \in names THEN CopyOf(h) ELSE None]
          /\ path' = "working"
     \/ /\ Returns("tgz_hosts_tgz_files_on_manager", manager, "false")
        /\ Fault \/ (UNCHANGED faults /\ \A h \in Stored : CopyOf(h) = None)
        /\ UNCHANGED <<collector, path, slipped>>
     \/ /\ Returns("tgz_hosts_tgz_files_on_manager", manager, "exception") /\ Fault
        /\ UNCHANGED <<path, slipped>>
        /\ \/ UNCHANGED collector
           \/ collector' = [h \in Hosts |-> IF h \in Stored THEN CopyOf(h) ELSE None]
  /\ UNCHANGED <<onHosts, copied, final, tool>>

PrintFilesList ==
  /\ Returns("printing_list_of_collected_files", manager, "true")
  /\ UNCHANGED <<onHosts, onManager, slipped, tool, faults>>

CleanManager ==
  /\ \E names \in SUBSET Stored :
       /\ copied' = [h \in Hosts |-> IF h \in names THEN [copied[h] EXCEPT ![data_store[h]] = None]
                                                   ELSE copied[h]]
       /\ \/ Returns("cleaning_gz_files_from_manager", manager, "true") /\ Listed(names)
          \/ /\ Returns("cleaning_gz_files_from_manager", manager, "exception") /\ Fault
             /\ UNCHANGED slipped
  /\ UNCHANGED <<onHosts, collector, final, path, tool>>

(* A copy over what is there, and the removal of the file of the manager;  *)
(* or a move.                                                              *)
CopyToFinalFolder ==
  /\ \/ /\ Returns("copy_to_final_folder", finalHost, "true") /\ UNCHANGED faults
        /\ collector # None
        /\ final' = collector /\ collector' = None /\ path' = "final"
     \/ /\ Returns("copy_to_final_folder", finalHost, "exception") /\ UNCHANGED path
        /\ \/ collector = None /\ UNCHANGED <<collector, final, faults>>
           \/ /\ collector # None /\ Fault
              /\ \/ final' \in {final, Half, collector} /\ UNCHANGED collector
                 \/ final' = collector /\ collector' = None
  /\ UNCHANGED <<onHosts, copied, slipped, tool>>

PrintFinalFilesLocation ==
  /\ Returns("print_final_collected_files_location", manager, "true")
  /\ UNCHANGED <<onHosts, onManager, slipped, tool, faults>>
-----------------------------------------------------------------------------
(* The runner, see SystemOperationFlow.                                    *)
Runner ==
  /\ \/ R!Select \/ R!EndOperation
     \/ \E k \in DOMAIN CollectorFlow, h \in Hosts :
          R!ReportResult(k, h) \/ R!ReportException(k, h) \/ R!RaiseException(k, h)
  /\ UNCHANGED <<onHosts, onManager, slipped, tool, faults>>

Next ==
  \/ Runner \/ NewRun
  \/ \E h \in Chosen : \/ CreateTarFile(h) \/ AppendLogsFilesToTar(h) \/ AppendSarFilesToTar(h)
                       \/ ZipTarFile(h) \/ CleanHosts(h)
  \/ ScpToManager \/ TgzHostsTgzFilesOnManager \/ PrintFilesList \/ CleanManager
  \/ CopyToFinalFolder \/ PrintFinalFilesLocation

Spec == Init /\ [][Next]_vars
-----------------------------------------------------------------------------
(* Type invariant.  A gz name in data_store means that the tar is gone.    *)
TypeOK ==
  /\ R!TypeOK
  /\ tar \in Archive /\ gz \in Archive /\ sar \in [Hosts -> Content] /\ telemetry \in BOOLEAN
  /\ data_store \in [Hosts -> {"tar", "gz", None}]
  /\ copied \in [Hosts -> [tar : {None} \cup Content, gz : {None} \cup Content]]
  /\ collector \in Archive \cup {None} /\ final \in Archive \cup {None, Half}
  /\ path \in {"working", "final"} /\ slipped \in BOOLEAN
  /\ runs \in 1..MaxRuns /\ faults \in 0..MaxFaults
  /\ \A h \in Hosts : data_store[h] = "gz" => tar[h] = None

(* The user was told where the archive is.                                 *)
Announced == passed[10][manager] = "true"

ThatArchive == IF path = "final" THEN final ELSE collector

(* Whatever earlier runs left anywhere under the same names, and whatever  *)
(* failed, the archive the user is told of has old logs in two cases only. *)
(* One is a host whose create_tar_file did not pass, so that its old tar   *)
(* stands: a host of a single type in front of it that did pass decides    *)
(* for it (is_a_prerequisite_fulfilled), and the old tar is appended to,   *)
(* gzipped and delivered.  The other is telemetry of a host in whose       *)
(* working_dir/sar csv files of an earlier run are left.                   *)
OldLogsTraced ==
  Announced =>
    /\ ThatArchive \in Archive
    /\ \A h \in Hosts : ThatArchive[h] # None /\ "old" \in ThatArchive[h] =>
         \/ h \notin Created /\ \E g \in SingleType \cap Created : rank[g] < rank[h]
         \/ telemetry /\ "old" \in sar[h]

(* No host is lost on the way: the archive the user is told of has one of  *)
(* every host whose tar was made, although its gzip may have failed or     *)
(* timed out; unless ls missed a file.                                     *)
CollectedIsDelivered ==
  Announced /\ ~slipped => ThatArchive \in Archive /\ \A h \in Created : ThatArchive[h] # None
=============================================================================
