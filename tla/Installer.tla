------------------------------- MODULE Installer -------------------------------
(***************************************************************************)
(* The installer of the package on one manager (the undercloud of CBIS):   *)
(* a run is a list of actions, an action is a list of commands.  A command *)
(* may fail, time out half-way or do its work and be reported as timed     *)
(* out; some are checked, and end the action, most are not looked at.  The *)
(* run may be killed at any command.  What it left on the disk is what the *)
(* next run, with the same or another package, starts from.                *)
(*                                                                         *)
(* Left out: plugins, the check of the arguments and of the user, images   *)
(* that are pulled from a registry, the text of the script of the cron     *)
(* job, the files of the log scenarios, and what runs in the background: a *)
(* command of CBIS that timed out is taken to be over, although only the   *)
(* local ssh is killed and it may go on, even into the next run.           *)
(***************************************************************************)
EXTENDS Integers, Sequences, FiniteSets

CONSTANTS
  Versions,  \* pairs of a version and a build
  Sites,     \* what kind of manager it may be
  None,      \* no such file, or no version in it
  MaxRuns, MaxFaults

(* cbis: whether it is the undercloud of CBIS.  containers: podman or      *)
(* docker was found.  profiler: the images of the profiler are shipped.    *)
(* keys: the secret key is recreated (up to version 20).  otherKeys:       *)
(* authorized_keys has lines besides that of the old key.                  *)
Site == [cbis : BOOLEAN, containers : BOOLEAN, profiler : BOOLEAN, keys : BOOLEAN,
         otherKeys : BOOLEAN]

ASSUME InstallerAssumption ==
  /\ Versions \subseteq Nat \X Nat
  /\ Sites \subseteq {s \in Site : ~s.cbis => ~s.profiler /\ ~s.keys}
  /\ None \notin Versions \cup [version : Versions \cup {None}, whole : BOOLEAN]
  /\ None \notin [version : Versions, whole : BOOLEAN, cron : BOOLEAN]
  /\ MaxRuns \in Nat /\ MaxFaults \in Nat

VARIABLES
  site,    \* which kind of manager this is
  disk,    \* what is on the manager
  pc,      \* the command the run is at
  todo,    \* the actions left, the current one first
  package, \* the version of the package that is being installed
  agreed,  \* --force-install, or the user says yes to an older version
  done,    \* dict_installation_result: actions of this run that succeeded
  failed,  \* history: actions that failed or were killed, in any run
  slipped, \* history: a command that nobody looks at was cut short
  before,  \* history: what the last back-up has, once it is complete
  runs, faults

control == <<pc, todo, package, agreed, done>>
vars == <<site, disk, control, failed, slipped, before, runs, faults>>

(* The directory ice, with or without its file ice_version.                *)
Package == [version : Versions \cup {None}, whole : BOOLEAN]

Disk == [ice : Package \cup {None},       \* home/ice
         icerc : Versions \cup {None},    \* home/icerc
         cron : BOOLEAN,                  \* the daily job of the file tracker
         dir : BOOLEAN,                   \* the directory of the back-up
         savedIce : Package \cup {None},
         savedIcerc : Versions \cup {None},
         savedCron : BOOLEAN,
         image : Versions \cup {None},    \* the loaded image of the container
         key : {"none", "stale", "current"},           \* of the undercloud
         profiler : {"none", "unpacked", "running"},
         oldKey : BOOLEAN, oldPub : BOOLEAN,
         oldLine : BOOLEAN]               \* in authorized_keys

VersionOf(p) == IF p = None THEN None ELSE p.version

Whole(p) == p # None /\ p.whole

(* What a copy over old, or a removal of it, may leave half-way.           *)
Torn(old, new) ==
  {[version |-> v, whole |-> FALSE] : v \in {VersionOf(old), VersionOf(new)}}
-----------------------------------------------------------------------------
(* VersionValidation.compare_versions.                                     *)
CompareVersions(existing, current) ==
  CASE existing = None -> 1
    [] existing # None /\ (\/ existing[1] > current[1]
                           \/ existing[1] = current[1] /\ existing[2] > current[2]) -> -1
    [] existing # None /\ existing = current -> 0
    [] OTHER -> 1

(* Action.get_actions_list_from_args.                                      *)
Install == <<"INSTALLATION", "KEY_RECREATION", "LOAD_DOCKER", "LOAD_ICE_PYTHON_CONTAINER",
             "REMOVE_OLD_ICE_KEY">>

ActionsLists ==
  [install |-> Append(Install, "INSTALLATION_FILE_TRACKER"),
   noFileTracker |-> Install,
   uninstall |-> <<"UNINSTALLATION", "LOAD_DOCKER", "UNLOAD_ICE_PYTHON_CONTAINER",
                   "REMOVE_OLD_ICE_KEY">>,
   rollback |-> <<"ROLLBACK", "REMOVE_OLD_ICE_KEY">>,
   recreateIceKey |-> <<"KEY_RECREATION">>]

Essential == {"INSTALLATION", "UNINSTALLATION", "KEY_RECREATION"}

(* is_supported and is_action_match_environment.                           *)
Supported(a) ==
  CASE a \in {"LOAD_ICE_PYTHON_CONTAINER", "UNLOAD_ICE_PYTHON_CONTAINER"} -> site.containers
    [] a = "LOAD_DOCKER" -> site.profiler
    [] a = "KEY_RECREATION" -> site.keys
    [] OTHER -> TRUE

FirstCommand ==
  [INSTALLATION |-> "share_dir", INSTALLATION_FILE_TRACKER |-> "cron_job",
   UNINSTALLATION |-> "rm_cron", ROLLBACK |-> "rm_ice", KEY_RECREATION |-> "new_key",
   LOAD_DOCKER |-> "load_docker", LOAD_ICE_PYTHON_CONTAINER |-> "unload",
   UNLOAD_ICE_PYTHON_CONTAINER |-> "unload", REMOVE_OLD_ICE_KEY |-> "find_old_key"]

Actions == DOMAIN FirstCommand

Action == Head(todo)

Installing == todo # <<>> /\ Action = "INSTALLATION"
-----------------------------------------------------------------------------
Fault == faults < MaxFaults /\ faults' = faults + 1

(* run returns True.                                                       *)
Succeeds ==
  /\ done' = done \cup {Action} /\ todo' = Tail(todo) /\ pc' = "next"
  /\ UNCHANGED failed

(* An exception in an action: it fails, and the run unless it may be       *)
(* skipped.                                                                *)
Fails ==
  /\ failed' = failed \cup {Action}
  /\ todo' = IF Action \in Essential THEN <<>> ELSE Tail(todo)
  /\ pc' = "next"
  /\ UNCHANGED done

After(next) ==
  IF next = "end" THEN Succeeds ELSE pc' = next /\ UNCHANGED <<todo, done, failed>>

(* What the current command may leave when it is cut short.  A test for a  *)
(* file that is cut short finds none, and the copy becomes a removal.      *)
Midway ==
  CASE pc = "rm_ice" /\ disk.ice # None ->
         {[disk EXCEPT !.ice = p] : p \in Torn(disk.ice, None)}
    [] pc = "copy_ice" ->
         {[disk EXCEPT !.ice = p] : p \in Torn(None, [version |-> package, whole |-> TRUE])}
    [] pc = "save_cron" /\ disk.dir -> {[disk EXCEPT !.savedCron = FALSE]}
    [] pc = "save_ice" ->
         {[disk EXCEPT !.dir = TRUE, !.savedIce = p] : p \in Torn(disk.savedIce, disk.ice)}
    [] pc = "restore_cron" -> {[disk EXCEPT !.cron = FALSE]}
    [] pc = "restore_ice" /\ disk.savedIce # None ->
         {[disk EXCEPT !.ice = p] : p \in Torn(None, disk.savedIce)}
    [] pc = "load_docker" -> {[disk EXCEPT !.profiler = "unpacked"]}
    [] OTHER -> {}

frame == <<site, package, agreed, runs>>

(* A command whose exit code is looked at.                                 *)
Checked(new, next) ==
  /\ \/ disk' = new /\ After(next) /\ UNCHANGED faults
     \/ disk' \in {disk, new} \cup Midway /\ Fails /\ Fault
  /\ UNCHANGED <<frame, slipped>>

(* One whose exit code nobody looks at.                                    *)
Unchecked(new, next) ==
  /\ \/ disk' = new /\ UNCHANGED <<faults, slipped>>
     \/ disk' \in {disk} \cup Midway /\ slipped' = TRUE /\ Fault
  /\ After(next)
  /\ UNCHANGED frame

(* A test wrongly finds nothing, and the run goes on as if that were so.   *)
Misled(new, next) ==
  disk' = new /\ slipped' = TRUE /\ Fault /\ After(next) /\ UNCHANGED frame

(* A checked command after a test that may wrongly find nothing to do.     *)
Tested(new, next) == Checked(new, next) \/ Misled(disk, next)

(* A command that always fails here.                                       *)
Impossible == disk' = disk /\ Fails /\ UNCHANGED <<frame, slipped, faults>>

At(command) == pc = command /\ todo # <<>>
-----------------------------------------------------------------------------
(* IceInstaller.                                                           *)

Init ==
  /\ site \in Sites
  /\ \E old \in BOOLEAN :
       disk = [ice |-> None, icerc |-> None, cron |-> FALSE, dir |-> FALSE,
               savedIce |-> None, savedIcerc |-> None, savedCron |-> FALSE,
               image |-> None, key |-> "none", profiler |-> "none",
               oldKey |-> old, oldPub |-> old, oldLine |-> old]
  /\ pc = "idle" /\ todo = <<>> /\ package = None /\ agreed = FALSE
  /\ done = {} /\ failed = {} /\ slipped = FALSE /\ before = None
  /\ runs = 0 /\ faults = 0

(* Mutant: the answer of the user is not waited for.                       *)
RefusedNever(list, seen, new, ok) == FALSE

(* validate_ice_version_is_newer_than_existing.                            *)
Refused(list, seen, new, ok) ==
  list[1] = "INSTALLATION" /\ CompareVersions(seen, new) = -1 /\ ~ok

(* The version validate_ice_version_is_newer_than_existing knows of: on     *)
(* NCS none, as the deployment type is compared with a boolean there.      *)
Seen == IF site.cbis THEN VersionOf(disk.ice) ELSE None

(* A run starts, unless the user keeps the newer version.  When cat fails  *)
(* there is none to keep.                                                  *)
Start(a, new, ok) ==
  /\ pc = "idle" /\ runs < MaxRuns /\ runs' = runs + 1
  /\ \/ /\ Refused(ActionsLists[a], Seen, new, ok)
        /\ UNCHANGED <<pc, todo, faults, slipped>>
     \/ /\ ~Refused(ActionsLists[a], Seen, new, ok)
        /\ pc' = "next" /\ todo' = ActionsLists[a] /\ UNCHANGED <<faults, slipped>>
     \/ /\ Refused(ActionsLists[a], Seen, new, ok) /\ Fault /\ slipped' = TRUE
        /\ pc' = "next" /\ todo' = ActionsLists[a]
  /\ package' = new /\ agreed' = ok /\ done' = {}
  /\ UNCHANGED <<site, disk, failed, before>>

(* The loop over the actions of run_and_get_result.                        *)
NextAction ==
  /\ pc = "next"
  /\ IF todo = <<>> THEN pc' = "idle" /\ UNCHANGED todo
     ELSE IF Supported(Action) THEN pc' = FirstCommand[Action] /\ UNCHANGED todo
     ELSE pc' = "next" /\ todo' = Tail(todo)
  /\ UNCHANGED <<site, disk, package, agreed, done, failed, slipped, before, runs, faults>>

(* The run is killed, at a command or between two.                         *)
Kill ==
  /\ pc # "idle" /\ Fault
  /\ disk' \in {disk} \cup Midway
  /\ slipped' = (slipped \/ (disk' # disk /\ pc \in {"save_cron", "save_ice", "restore_cron",
                                                   "restore_ice"}))
  /\ failed' = failed \cup (IF pc = "next" THEN {} ELSE {Action})
  /\ pc' = "idle" /\ todo' = <<>>
  /\ UNCHANGED <<site, package, agreed, done, before, runs>>
-----------------------------------------------------------------------------
(* back_up_previous_version, delete_ice_files and copy_ice_files.          *)

CreateShareDir == At("share_dir") /\ Checked(disk, "look") /\ UNCHANGED before

Same == VersionOf(disk.savedIce) = VersionOf(disk.ice)

(* Mutant: a back-up is made only when there is no directory for it.       *)
LookAtVersionsOnce ==
  /\ At("look") /\ UNCHANGED <<disk, frame, slipped, faults>>
  /\ \/ VersionOf(disk.ice) = None /\ After("rm_ice") /\ UNCHANGED before
     \/ /\ VersionOf(disk.ice) # None /\ before' = None
        /\ After(IF disk.dir THEN "rm_ice" ELSE "mkdir")

(* Without a version in home/ice, or an answer, nothing is saved.  When    *)
(* the version of the back-up is there and cannot be read it raises, or    *)
(* the tests for it miss it too and it is saved again, see SaveCron.       *)
LookAtVersions ==
  /\ At("look") /\ UNCHANGED <<disk, frame>>
  /\ \/ /\ VersionOf(disk.ice) = None /\ After("rm_ice") /\ UNCHANGED <<slipped, before, faults>>
     \/ /\ VersionOf(disk.ice) # None /\ Fault /\ slipped' = TRUE
        /\ After("rm_ice") /\ UNCHANGED before
     \/ /\ VersionOf(disk.ice) # None /\ before' = None
        /\ After(IF disk.dir THEN "save_cron" ELSE "mkdir") /\ UNCHANGED <<slipped, faults>>
     \/ /\ VersionOf(disk.ice) # None /\ VersionOf(disk.savedIce) # None
        /\ Fault /\ Fails /\ UNCHANGED <<slipped, before>>

MakeBackUpDir ==
  At("mkdir") /\ Unchecked([disk EXCEPT !.dir = TRUE], "save_cron") /\ UNCHANGED before

(* One outage, whose fault is counted here, may keep the look from reading *)
(* the version of the back-up and from finding its file or directory.      *)
SaveCron ==
  LET saved == IF disk.dir THEN [disk EXCEPT !.savedCron = disk.cron] ELSE disk IN
  /\ At("save_cron") /\ UNCHANGED before
  /\ \/ Unchecked(saved, IF Same THEN "add_icerc" ELSE "save_ice")
     \/ Same /\ Misled(saved, "save_ice")

(* rsync creates the directory if it has to.                               *)
SaveIce ==
  /\ At("save_ice")
  /\ Unchecked([disk EXCEPT !.dir = TRUE, !.savedIce = disk.ice], "save_icerc")
  /\ UNCHANGED before

(* What the back-up is made of, once it is complete: half a package of the *)
(* version that is installed counts as its back-up.                        *)
BackedUp ==
  before' = [version |-> disk.ice.version, whole |-> Whole(disk.savedIce), cron |-> disk.cron]

SaveIcerc ==
  /\ At("save_icerc") /\ BackedUp
  /\ Unchecked(IF disk.icerc = None THEN disk ELSE [disk EXCEPT !.savedIcerc = disk.icerc],
               "rm_ice")

(* A version that is saved already keeps the icerc it was saved with.      *)
AddIcerc ==
  /\ At("add_icerc") /\ BackedUp
  /\ Unchecked(IF disk.savedIcerc # None THEN disk ELSE [disk EXCEPT !.savedIcerc = disk.icerc],
               "rm_ice")

RemoveIce ==
  At("rm_ice") /\ Checked([disk EXCEPT !.ice = None], "rm_icerc") /\ UNCHANGED before

(* Mutant: an uninstallation copies the package again.                     *)
RemoveIcercToCopy ==
  /\ At("rm_icerc") /\ UNCHANGED before
  /\ Checked([disk EXCEPT !.icerc = None],
             IF Action = "ROLLBACK" THEN "find_back_up" ELSE "copy_ice")

RemoveIcerc ==
  /\ At("rm_icerc")
  /\ Checked([disk EXCEPT !.icerc = None],
             CASE Action = "INSTALLATION" -> "copy_ice"
               [] Action = "ROLLBACK" -> "find_back_up"
               [] OTHER -> "end")
  /\ UNCHANGED before

(* Mutant: the exit code is not looked at.                                 *)
CopyIceUnchecked ==
  /\ At("copy_ice") /\ UNCHANGED before
  /\ Unchecked([disk EXCEPT !.ice = [version |-> package, whole |-> TRUE]], "copy_icerc")

CopyIce ==
  /\ At("copy_ice") /\ UNCHANGED before
  /\ Checked([disk EXCEPT !.ice = [version |-> package, whole |-> TRUE]], "copy_icerc")

CopyIcerc ==
  At("copy_icerc") /\ Checked([disk EXCEPT !.icerc = package], "end") /\ UNCHANGED before
-----------------------------------------------------------------------------
(* restore_from_backup, and the daily job.                                 *)

FindBackUp ==
  /\ At("find_back_up") /\ UNCHANGED before
  /\ IF disk.dir THEN Checked(disk, "restore_cron") ELSE Impossible

(* Mutant: a daily job that was not there before stays.                    *)
RestoreCronIfSaved ==
  /\ At("restore_cron") /\ UNCHANGED before
  /\ Unchecked(IF disk.savedCron THEN [disk EXCEPT !.cron = TRUE] ELSE disk, "restore_ice")

RestoreCron ==
  /\ At("restore_cron") /\ UNCHANGED before
  /\ Unchecked([disk EXCEPT !.cron = disk.savedCron], "restore_ice")

RestoreIce ==
  /\ At("restore_ice") /\ UNCHANGED before
  /\ Unchecked(IF disk.savedIce = None THEN disk ELSE [disk EXCEPT !.ice = disk.savedIce],
               "restore_icerc")

RestoreIcerc ==
  /\ At("restore_icerc") /\ UNCHANGED before
  /\ Unchecked(IF disk.savedIcerc = None THEN disk ELSE [disk EXCEPT !.icerc = disk.savedIcerc],
               "unload")

CreateCronJob ==
  At("cron_job") /\ Checked([disk EXCEPT !.cron = TRUE], "end") /\ UNCHANGED before

DeleteCronJob ==
  At("rm_cron") /\ Tested([disk EXCEPT !.cron = FALSE], "rm_ice") /\ UNCHANGED before
-----------------------------------------------------------------------------
(* The image of the container, the containers of the profiler, the keys.   *)

(* Mutant: the image that is there is not removed first.                   *)
UnloadNothing ==
  /\ At("unload") /\ UNCHANGED before
  /\ IF site.containers
     THEN Checked(IF Action = "UNLOAD_ICE_PYTHON_CONTAINER" THEN [disk EXCEPT !.image = None]
                                                            ELSE disk,
                  IF Action = "UNLOAD_ICE_PYTHON_CONTAINER" THEN "end" ELSE "load")
     ELSE Impossible

(* rollback does this without containers too, and then fails.              *)
UnloadContainer ==
  /\ At("unload") /\ UNCHANGED before
  /\ IF site.containers
     THEN Checked([disk EXCEPT !.image = None],
                  IF Action = "UNLOAD_ICE_PYTHON_CONTAINER" THEN "end" ELSE "load")
     ELSE Impossible

(* Without an archive in home/ice nothing is loaded, and that is no error; *)
(* half a package may have no archive, a broken one or a whole one.        *)
LoadContainer ==
  /\ At("load") /\ UNCHANGED before
  /\ \/ /\ disk.ice = None /\ disk' = disk /\ Succeeds
        /\ UNCHANGED <<frame, slipped, faults>>
     \/ Whole(disk.ice) /\ Tested([disk EXCEPT !.image = disk.ice.version], "end")
     \/ /\ disk.ice # None /\ ~Whole(disk.ice)
        /\ disk' \in {disk, [disk EXCEPT !.image = disk.ice.version]}
        /\ Succeeds \/ Fails
        /\ UNCHANGED <<frame, slipped, faults>>

(* Images that were unpacked before, and containers of the same name, make *)
(* every later attempt fail.                                               *)
LoadDocker ==
  /\ At("load_docker") /\ UNCHANGED before
  /\ IF disk.profiler = "none" THEN Checked([disk EXCEPT !.profiler = "running"], "end")
     ELSE Impossible

(* create_key: a new key here, none on the undercloud, the new one there.  *)
CreateKey ==
  /\ UNCHANGED before
  /\ \/ /\ At("new_key")
        /\ Checked(IF disk.key = "none" THEN disk ELSE [disk EXCEPT !.key = "stale"], "rm_key")
     \/ At("rm_key") /\ Checked([disk EXCEPT !.key = "none"], "copy_key")
     \/ At("copy_key") /\ Checked([disk EXCEPT !.key = "current"], "end")

(* Mutant: the public key goes with the key, before it was read.           *)
RemoveOldKeyBoth ==
  /\ At("find_old_key") /\ UNCHANGED before
  /\ Checked([disk EXCEPT !.oldKey = FALSE, !.oldPub = FALSE], "end")

(* remove_old_ice_key starts with the file it then looks for, without      *)
(* which, or without the public key or authorized_keys, it is done.        *)
RemoveOldKey ==
  /\ UNCHANGED before
  /\ \/ /\ At("find_old_key")
        /\ \/ disk.oldKey /\ Checked([disk EXCEPT !.oldKey = FALSE], "read_pub")
           \/ disk.oldKey /\ Misled(disk, "end")
           \/ ~disk.oldKey /\ disk' = disk /\ Succeeds /\ UNCHANGED <<frame, slipped, faults>>
     \/ /\ At("read_pub")
        /\ \/ disk' = disk /\ After("rm_line") /\ UNCHANGED <<frame, slipped, faults>>
           \/ Misled(disk, "end")
     \/ /\ At("rm_line")
        /\ IF site.otherKeys THEN Checked([disk EXCEPT !.oldLine = FALSE], "rm_pub")
           ELSE Impossible
     \/ At("rm_pub") /\ Checked([disk EXCEPT !.oldPub = FALSE], "end")
-----------------------------------------------------------------------------
Next ==
  \/ \E a \in {"install", "noFileTracker"}, new \in Versions, ok \in BOOLEAN : Start(a, new, ok)
  \/ \E a \in {"uninstall", "rollback", "recreateIceKey"} : Start(a, package, FALSE)
  \/ NextAction \/ Kill
  \/ CreateShareDir \/ LookAtVersions \/ MakeBackUpDir \/ SaveCron \/ SaveIce
  \/ SaveIcerc \/ AddIcerc \/ RemoveIce \/ RemoveIcerc \/ CopyIce \/ CopyIcerc
  \/ FindBackUp \/ RestoreCron \/ RestoreIce \/ RestoreIcerc
  \/ CreateCronJob \/ DeleteCronJob
  \/ UnloadContainer \/ LoadContainer \/ LoadDocker \/ CreateKey \/ RemoveOldKey

Spec == Init /\ [][Next]_vars
-----------------------------------------------------------------------------
(* The commands of an action.                                              *)
CommandsOf ==
  LET removal == {"rm_ice", "rm_icerc"}
      backUp == {"look", "mkdir", "save_cron", "save_ice", "save_icerc", "add_icerc"}
      restore == {"find_back_up", "restore_cron", "restore_ice", "restore_icerc"}
      container == {"unload", "load"}
  IN [INSTALLATION |-> {"share_dir", "copy_ice", "copy_icerc"} \cup backUp \cup removal,
      INSTALLATION_FILE_TRACKER |-> {"cron_job"},
      UNINSTALLATION |-> {"rm_cron"} \cup removal,
      ROLLBACK |-> removal \cup restore \cup container,
      KEY_RECREATION |-> {"new_key", "rm_key", "copy_key"},
      LOAD_DOCKER |-> {"load_docker"},
      LOAD_ICE_PYTHON_CONTAINER |-> container,
      UNLOAD_ICE_PYTHON_CONTAINER |-> container,
      REMOVE_OLD_ICE_KEY |-> {"find_old_key", "read_pub", "rm_line", "rm_pub"}]

(* Type invariant: every variable keeps its type, and the command is one   *)
(* of the current action.                                                  *)
TypeOK ==
  /\ site \in Sites /\ disk \in Disk
  /\ todo \in Seq(Actions) /\ package \in Versions \cup {None} /\ agreed \in BOOLEAN
  /\ done \subseteq Actions /\ failed \subseteq Actions /\ slipped \in BOOLEAN
  /\ before \in [version : Versions, whole : BOOLEAN, cron : BOOLEAN] \cup {None}
  /\ runs \in 0..MaxRuns /\ faults \in 0..MaxFaults
  /\ \/ pc = "idle" /\ todo = <<>>
     \/ pc = "next"
     \/ todo # <<>> /\ pc \in CommandsOf[Action]

(* An installation that is said to have succeeded left the whole package   *)
(* at hand, whatever was installed or half removed before and whatever     *)
(* failed on the way (install, delete_ice_files, copy_ice_files).          *)
InstalledIsWhole ==
  "INSTALLATION" \in done => /\ disk.ice = [version |-> package, whole |-> TRUE]
                             /\ disk.icerc = package

(* A rollback that is said to have succeeded brought back the version that *)
(* the last complete back-up was made of, whole if the back-up was, and    *)
(* its daily job or the absence of one, however many installations failed  *)
(* in between; as long as no command that nobody looks at was cut short    *)
(* (back_up_previous_version, restore_from_backup).                        *)
RollbackRestores ==
  "ROLLBACK" \in done /\ before # None /\ ~slipped =>
    /\ VersionOf(disk.ice) = before.version
    /\ before.whole => Whole(disk.ice)
    /\ disk.cron = before.cron

(* An image that was loaded, or loaded again after a rollback, is that of  *)
(* the package in the home directory (load_ice_healthcheck_container).     *)
ImageOfPackage ==
  done \cap {"LOAD_ICE_PYTHON_CONTAINER", "ROLLBACK"} # {} /\ ~slipped =>
    /\ disk.ice = None => disk.image = None
    /\ Whole(disk.ice) => disk.image = disk.ice.version

(* When the removal of the old key is said to have succeeded, and no       *)
(* earlier attempt failed, nothing of it is left: neither the key nor the  *)
(* right to log in with it (remove_old_ice_key).                           *)
OldKeyTraceless ==
  "REMOVE_OLD_ICE_KEY" \in done \ failed /\ ~slipped =>
    ~disk.oldKey /\ ~disk.oldPub /\ ~disk.oldLine

WholeCopy == Whole(disk.ice) \/ Whole(disk.savedIce)

(* The last whole copy of a package is only given up by an uninstallation, *)
(* by a rollback without a whole back-up, or where half a package gets     *)
(* into the back-up or passes for the back-up of the installed version;    *)
(* not by an installation that fails or is killed later.                   *)
LastCopyKept ==
  [][WholeCopy /\ ~WholeCopy' =>
       \/ Action \in {"UNINSTALLATION", "ROLLBACK"}
       \/ pc = "save_ice" /\ ~Whole(disk.ice)
       \/ disk.savedIce # None /\ Same
       \/ slipped]_vars

(* PackageInstaller.py:145: "if back up of this version already exist  -   *)
(* no need to re-backup".  When the back-up is spared it is as good as     *)
(* what is installed.                                                      *)
SparedBackUpIsWhole ==
  At("add_icerc") /\ Whole(disk.ice) /\ ~slipped => Whole(disk.savedIce)

RemovesNewer ==
  /\ Installing /\ disk'.ice # disk.ice
  /\ CompareVersions(VersionOf(disk.ice), package) = -1

(* On CBIS an installation only removes a newer version than its own when  *)
(* the user agreed, or the newer version could not be read                 *)
(* (validate_ice_version_is_newer_than_existing, then back-up and removal).*)
NewerKept == [][RemovesNewer => agreed \/ ~site.cbis \/ slipped]_vars
=============================================================================
