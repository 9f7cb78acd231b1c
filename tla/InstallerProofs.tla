---------------------------- MODULE InstallerProofs ----------------------------
(***************************************************************************)
(* What holds of the installer for every site, every set of versions and   *)
(* any number of runs and faults.                                          *)
(***************************************************************************)
EXTENDS Installer, TLAPS

(* The control and the disk keep their types, and the version is known     *)
(* while it is backed up.                                                  *)
Typed ==
  /\ site \in Sites /\ disk \in Disk
  /\ todo \in Seq(Actions) /\ package \in Versions \cup {None} /\ agreed \in BOOLEAN
  /\ done \subseteq Actions /\ failed \subseteq Actions /\ slipped \in BOOLEAN
  /\ runs \in 0..MaxRuns /\ faults \in 0..MaxFaults
  /\ \/ pc = "idle" /\ todo = <<>>
     \/ pc = "next"
     \/ todo # <<>> /\ pc \in CommandsOf[Action]

(* The actions by name.                                                    *)
LEMMA AllActions ==
  Actions = {"INSTALLATION", "INSTALLATION_FILE_TRACKER", "UNINSTALLATION", "ROLLBACK",
             "KEY_RECREATION", "LOAD_DOCKER", "LOAD_ICE_PYTHON_CONTAINER",
             "UNLOAD_ICE_PYTHON_CONTAINER", "REMOVE_OLD_ICE_KEY"}
BY DEF Actions, FirstCommand

(* None is no package and no version.                                      *)
LEMMA NoneIsNone ==
  /\ None \notin Versions /\ None \notin Package
  /\ \A p \in Package \cup {None} : VersionOf(p) \in Versions \cup {None}
BY InstallerAssumption DEF Package, VersionOf

(* Faults and runs stay within their bounds.                               *)
LEMMA Bounded ==
  /\ faults \in 0..MaxFaults /\ Fault => faults' \in 0..MaxFaults
  /\ runs \in 0..MaxRuns /\ runs < MaxRuns => runs + 1 \in 0..MaxRuns
<1>1. MaxRuns \in Nat /\ MaxFaults \in Nat
  BY InstallerAssumption
<1> QED
  BY <1>1 DEF Fault

(* A field of the disk may take any value of its type.                     *)
LEMMA DiskFields ==
  ASSUME disk \in Disk
  PROVE  /\ disk.ice \in Package \cup {None} /\ disk.savedIce \in Package \cup {None}
         /\ disk.icerc \in Versions \cup {None} /\ disk.savedIcerc \in Versions \cup {None}
         /\ disk.image \in Versions \cup {None}
         /\ disk.cron \in BOOLEAN /\ disk.savedCron \in BOOLEAN /\ disk.dir \in BOOLEAN
         /\ \A p \in Package \cup {None} :
              /\ [disk EXCEPT !.ice = p] \in Disk
              /\ [disk EXCEPT !.dir = TRUE, !.savedIce = p] \in Disk
         /\ \A v \in Versions \cup {None} :
              /\ [disk EXCEPT !.icerc = v] \in Disk
              /\ [disk EXCEPT !.savedIcerc = v] \in Disk
              /\ [disk EXCEPT !.image = v] \in Disk
         /\ \A b \in BOOLEAN :
              /\ [disk EXCEPT !.cron = b] \in Disk
              /\ [disk EXCEPT !.savedCron = b] \in Disk
              /\ [disk EXCEPT !.dir = b] \in Disk
              /\ [disk EXCEPT !.oldKey = b] \in Disk
              /\ [disk EXCEPT !.oldPub = b] \in Disk
              /\ [disk EXCEPT !.oldLine = b] \in Disk
         /\ \A k \in {"none", "stale", "current"} : [disk EXCEPT !.key = k] \in Disk
         /\ \A k \in {"none", "unpacked", "running"} : [disk EXCEPT !.profiler = k] \in Disk
<1>1. /\ disk.ice \in Package \cup {None} /\ disk.savedIce \in Package \cup {None}
      /\ disk.icerc \in Versions \cup {None} /\ disk.savedIcerc \in Versions \cup {None}
      /\ disk.image \in Versions \cup {None}
      /\ disk.cron \in BOOLEAN /\ disk.savedCron \in BOOLEAN /\ disk.dir \in BOOLEAN
  BY DEF Disk
<1>2. \A p \in Package \cup {None} :
        /\ [disk EXCEPT !.ice = p] \in Disk
        /\ [disk EXCEPT !.dir = TRUE, !.savedIce = p] \in Disk
  BY DEF Disk
<1>3. \A v \in Versions \cup {None} :
        /\ [disk EXCEPT !.icerc = v] \in Disk
        /\ [disk EXCEPT !.savedIcerc = v] \in Disk
        /\ [disk EXCEPT !.image = v] \in Disk
  BY DEF Disk
<1>4. \A b \in BOOLEAN :
        /\ [disk EXCEPT !.cron = b] \in Disk
        /\ [disk EXCEPT !.savedCron = b] \in Disk
        /\ [disk EXCEPT !.dir = b] \in Disk
  BY DEF Disk
<1>5. \A b \in BOOLEAN :
        /\ [disk EXCEPT !.oldKey = b] \in Disk
        /\ [disk EXCEPT !.oldPub = b] \in Disk
        /\ [disk EXCEPT !.oldLine = b] \in Disk
  BY DEF Disk
<1>6. \A k \in {"none", "stale", "current"} : [disk EXCEPT !.key = k] \in Disk
  BY DEF Disk
<1>7. \A k \in {"none", "unpacked", "running"} : [disk EXCEPT !.profiler = k] \in Disk
  BY DEF Disk
<1> QED
  BY <1>1, <1>2, <1>3, <1>4, <1>5, <1>6, <1>7

(* What a command that is cut short leaves is a disk.                      *)
LEMMA MidwayTyped ==
  ASSUME disk \in Disk, package \in Versions \cup {None}
  PROVE  Midway \subseteq Disk
<1>1. \A o, n \in Package \cup {None} : Torn(o, n) \subseteq Package
  <2> SUFFICES ASSUME NEW o \in Package \cup {None}, NEW n \in Package \cup {None},
                      NEW t \in Torn(o, n)
               PROVE  t \in Package
    OBVIOUS
  <2>1. PICK v \in {VersionOf(o), VersionOf(n)} : t = [version |-> v, whole |-> FALSE]
    BY DEF Torn
  <2>2. v \in Versions \cup {None}
    BY NoneIsNone
  <2> QED
    BY <2>1, <2>2 DEF Package
<1>2. [version |-> package, whole |-> TRUE] \in Package
  BY DEF Package
<1> SUFFICES ASSUME NEW d \in Midway PROVE d \in Disk
  OBVIOUS
<1>3. CASE pc = "rm_ice" /\ disk.ice # None
  BY <1>1, <1>3, DiskFields DEF Midway
<1>4. CASE pc = "copy_ice"
  BY <1>1, <1>2, <1>4, DiskFields DEF Midway
<1>5. CASE pc = "save_cron" /\ disk.dir
  BY <1>5, DiskFields DEF Midway
<1>6. CASE pc = "save_ice"
  BY <1>1, <1>6, DiskFields DEF Midway
<1>7. CASE pc = "restore_cron"
  BY <1>7, DiskFields DEF Midway
<1>8. CASE pc = "restore_ice" /\ disk.savedIce # None
  BY <1>1, <1>8, DiskFields DEF Midway
<1>9. CASE pc = "load_docker"
  BY <1>9, DiskFields DEF Midway
<1> QED
  BY <1>3, <1>4, <1>5, <1>6, <1>7, <1>8, <1>9 DEF Midway

(* What a command does to the control, whichever it is: it goes on with    *)
(* another command of the action, or the action ends well or badly.        *)
Shape ==
  /\ todo # <<>> /\ UNCHANGED frame
  /\ disk' \in Disk /\ faults' \in 0..MaxFaults /\ slipped' \in {slipped, TRUE}
  /\ \/ pc' \in CommandsOf[Action] /\ UNCHANGED <<todo, done, failed>>
     \/ Succeeds \/ Fails

(* The three kinds of a command have that shape.                           *)
LEMMA KindShape ==
  ASSUME Typed, todo # <<>>, NEW new \in Disk, NEW next \in CommandsOf[Action] \cup {"end"},
         Checked(new, next) \/ Unchecked(new, next) \/ Tested(new, next) \/ Misled(new, next)
  PROVE  Shape
<1>1. disk' \in Disk /\ UNCHANGED frame
  BY MidwayTyped DEF Checked, Unchecked, Tested, Misled, Typed
<1>2. faults' \in 0..MaxFaults /\ slipped' \in {slipped, TRUE}
  BY Bounded DEF Checked, Unchecked, Tested, Misled, Typed
<1>3. Fails \/ After(next)
  BY DEF Checked, Unchecked, Tested, Misled
<1> QED
  BY <1>1, <1>2, <1>3 DEF Shape, After

(* So have a command that fails here and one that has nothing to do.       *)
LEMMA StillShape ==
  ASSUME Typed, todo # <<>>, disk' \in Disk, Succeeds \/ Fails,
         UNCHANGED <<frame, slipped, faults>>
  PROVE  Shape
BY DEF Shape, Typed, frame

(* A command that fails here.                                              *)
LEMMA ImpossibleShape ==
  ASSUME Typed, todo # <<>>, Impossible
  PROVE  Shape
BY StillShape DEF Impossible, Typed

(* A command keeps the types.                                              *)
LEMMA ShapeTyped ==
  ASSUME Typed, Shape
  PROVE  Typed'
<1>1. CASE pc' \in CommandsOf[Action] /\ UNCHANGED <<todo, done, failed>>
  <2>1. todo' # <<>> /\ pc' \in (CommandsOf[Action])'
    BY <1>1 DEF Shape, Action, CommandsOf
  <2> QED
    BY <1>1, <2>1 DEF Typed, Shape, frame
<1>2. CASE Succeeds \/ Fails
  <2>1. /\ todo' \in Seq(Actions) /\ done' \subseteq Actions /\ failed' \subseteq Actions
        /\ pc' = "next"
    <3>1. Head(todo) \in Actions /\ Tail(todo) \in Seq(Actions) /\ <<>> \in Seq(Actions)
      BY DEF Shape, Typed
    <3>2. CASE Succeeds
      BY <3>1, <3>2 DEF Typed, Succeeds, Action
    <3>3. CASE Fails
      BY <3>1, <3>3 DEF Typed, Fails, Action
    <3> QED
      BY <1>2, <3>2, <3>3
  <2> QED
    BY <2>1 DEF Typed, Shape, frame
<1> QED
  BY <1>1, <1>2 DEF Shape

(* The command tells the action, but for the removals and the container.   *)
LEMMA CommandTells ==
  ASSUME Typed, todo # <<>>
  PROVE  /\ Action \in Actions
         /\ pc \in {"share_dir", "look", "mkdir", "save_cron", "save_ice", "save_icerc",
                    "add_icerc", "copy_ice", "copy_icerc"} => Action = "INSTALLATION"
         /\ pc = "cron_job" => Action = "INSTALLATION_FILE_TRACKER"
         /\ pc = "rm_cron" => Action = "UNINSTALLATION"
         /\ pc \in {"find_back_up", "restore_cron", "restore_ice", "restore_icerc"} =>
              Action = "ROLLBACK"
         /\ pc \in {"rm_ice", "rm_icerc"} =>
              Action \in {"INSTALLATION", "UNINSTALLATION", "ROLLBACK"}
         /\ pc \in {"unload", "load"} =>
              Action \in {"ROLLBACK", "LOAD_ICE_PYTHON_CONTAINER", "UNLOAD_ICE_PYTHON_CONTAINER"}
         /\ pc \in {"new_key", "rm_key", "copy_key"} => Action = "KEY_RECREATION"
         /\ pc = "load_docker" => Action = "LOAD_DOCKER"
         /\ pc \in {"find_old_key", "read_pub", "rm_line", "rm_pub"} =>
              Action = "REMOVE_OLD_ICE_KEY"
<1>1. Action \in Actions
  BY DEF Typed, Action
<1> QED
  BY <1>1, AllActions DEF Typed, CommandsOf

(* The first command of an action is one of its commands.                  *)
LEMMA FirstIsOne == \A a \in Actions : FirstCommand[a] \in CommandsOf[a]
<1> SUFFICES ASSUME NEW a \in Actions PROVE FirstCommand[a] \in CommandsOf[a]
  OBVIOUS
<1>1. CASE a = "INSTALLATION"
  BY <1>1 DEF FirstCommand, CommandsOf
<1>2. CASE a \in {"INSTALLATION_FILE_TRACKER", "UNINSTALLATION", "ROLLBACK"}
  BY <1>2 DEF FirstCommand, CommandsOf
<1>3. CASE a \in {"KEY_RECREATION", "LOAD_DOCKER", "LOAD_ICE_PYTHON_CONTAINER"}
  BY <1>3 DEF FirstCommand, CommandsOf
<1>4. CASE a \in {"UNLOAD_ICE_PYTHON_CONTAINER", "REMOVE_OLD_ICE_KEY"}
  BY <1>4 DEF FirstCommand, CommandsOf
<1> QED
  BY <1>1, <1>2, <1>3, <1>4, AllActions

(* A list of actions is one.                                               *)
LEMMA ListsAreLists == \A a \in DOMAIN ActionsLists : ActionsLists[a] \in Seq(Actions)
<1>1. Install \in Seq(Actions)
  BY AllActions DEF Install
<1>2. Append(Install, "INSTALLATION_FILE_TRACKER") \in Seq(Actions)
  BY <1>1, AllActions
<1>3. /\ <<"UNINSTALLATION", "LOAD_DOCKER", "UNLOAD_ICE_PYTHON_CONTAINER", "REMOVE_OLD_ICE_KEY">>
           \in Seq(Actions)
      /\ <<"ROLLBACK", "REMOVE_OLD_ICE_KEY">> \in Seq(Actions)
      /\ <<"KEY_RECREATION">> \in Seq(Actions)
  BY AllActions
<1> SUFFICES ASSUME NEW a \in {"install", "noFileTracker", "uninstall", "rollback",
                                "recreateIceKey"}
             PROVE  ActionsLists[a] \in Seq(Actions)
  BY DEF ActionsLists
<1>4. /\ ActionsLists["install"] = Append(Install, "INSTALLATION_FILE_TRACKER")
      /\ ActionsLists["noFileTracker"] = Install
  BY DEF ActionsLists
<1>5. ActionsLists["uninstall"] = <<"UNINSTALLATION", "LOAD_DOCKER",
                                   "UNLOAD_ICE_PYTHON_CONTAINER", "REMOVE_OLD_ICE_KEY">>
  BY DEF ActionsLists
<1>6. ActionsLists["rollback"] = <<"ROLLBACK", "REMOVE_OLD_ICE_KEY">>
  BY DEF ActionsLists
<1>7. ActionsLists["recreateIceKey"] = <<"KEY_RECREATION">>
  BY DEF ActionsLists
<1> QED
  BY <1>1, <1>2, <1>3, <1>4, <1>5, <1>6, <1>7

(* The directory that is shared.                                           *)
LEMMA CreateShareDirShape == ASSUME Typed, CreateShareDir PROVE Shape
<1>1. todo # <<>> /\ pc = "share_dir"
  BY DEF CreateShareDir, At
<1>2. disk \in Disk
  BY DiskFields, NoneIsNone DEF Typed, Package, VersionOf
<1>3. "look" \in CommandsOf[Action] \cup {"end"}
  BY <1>1, CommandTells DEF CommandsOf
<1> QED
  BY <1>1, <1>2, <1>3, KindShape DEF CreateShareDir


(* The look at the versions.                                               *)
LEMMA LookAtVersionsShape == ASSUME Typed, LookAtVersions PROVE Shape
<1>1. todo # <<>> /\ pc = "look" /\ UNCHANGED <<disk, frame>>
  BY DEF LookAtVersions, At
<1>2. {"rm_ice", "save_cron", "mkdir"} \subseteq CommandsOf[Action]
  BY <1>1, CommandTells DEF CommandsOf
<1>3. faults' \in 0..MaxFaults /\ slipped' \in {slipped, TRUE}
  BY Bounded DEF LookAtVersions, Typed
<1>4. Fails \/ After("rm_ice") \/ After("save_cron") \/ After("mkdir")
  BY DEF LookAtVersions
<1> QED
  BY <1>1, <1>2, <1>3, <1>4 DEF Typed, Shape, After


(* The directory of the back-up.                                           *)
LEMMA MakeBackUpDirShape == ASSUME Typed, MakeBackUpDir PROVE Shape
<1>1. todo # <<>> /\ pc = "mkdir"
  BY DEF MakeBackUpDir, At
<1>2. [disk EXCEPT !.dir = TRUE] \in Disk
  BY DiskFields, NoneIsNone DEF Typed, Package, VersionOf
<1>3. "save_cron" \in CommandsOf[Action] \cup {"end"}
  BY <1>1, CommandTells DEF CommandsOf
<1> QED
  BY <1>1, <1>2, <1>3, KindShape DEF MakeBackUpDir


(* The back-up of the daily job.                                           *)
LEMMA SaveCronShape == ASSUME Typed, SaveCron PROVE Shape
<1>1. todo # <<>> /\ pc = "save_cron"
  BY DEF SaveCron, At
<1>2. (IF disk.dir THEN [disk EXCEPT !.savedCron = disk.cron] ELSE disk) \in Disk
  BY DiskFields, NoneIsNone DEF Typed, Package, VersionOf
<1>3. {"add_icerc", "save_ice"} \subseteq CommandsOf[Action] \cup {"end"}
  BY <1>1, CommandTells DEF CommandsOf
<1> QED
  BY <1>1, <1>2, <1>3, KindShape DEF SaveCron


(* The back-up of ice.                                                     *)
LEMMA SaveIceShape == ASSUME Typed, SaveIce PROVE Shape
<1>1. todo # <<>> /\ pc = "save_ice"
  BY DEF SaveIce, At
<1>2. [disk EXCEPT !.dir = TRUE, !.savedIce = disk.ice] \in Disk
  BY DiskFields, NoneIsNone DEF Typed, Package, VersionOf
<1>3. "save_icerc" \in CommandsOf[Action] \cup {"end"}
  BY <1>1, CommandTells DEF CommandsOf
<1> QED
  BY <1>1, <1>2, <1>3, KindShape DEF SaveIce


(* The back-up of icerc.                                                   *)
LEMMA SaveIcercShape == ASSUME Typed, SaveIcerc PROVE Shape
<1>1. todo # <<>> /\ pc = "save_icerc"
  BY DEF SaveIcerc, At
<1>2. (IF disk.icerc = None THEN disk ELSE [disk EXCEPT !.savedIcerc = disk.icerc]) \in Disk
  BY DiskFields, NoneIsNone DEF Typed, Package, VersionOf
<1>3. "rm_ice" \in CommandsOf[Action] \cup {"end"}
  BY <1>1, CommandTells DEF CommandsOf
<1> QED
  BY <1>1, <1>2, <1>3, KindShape DEF SaveIcerc


(* The icerc of a back-up that was spared.                                 *)
LEMMA AddIcercShape == ASSUME Typed, AddIcerc PROVE Shape
<1>1. todo # <<>> /\ pc = "add_icerc"
  BY DEF AddIcerc, At
<1>2. (IF disk.savedIcerc # None THEN disk ELSE [disk EXCEPT !.savedIcerc = disk.icerc]) \in Disk
  BY DiskFields, NoneIsNone DEF Typed, Package, VersionOf
<1>3. "rm_ice" \in CommandsOf[Action] \cup {"end"}
  BY <1>1, CommandTells DEF CommandsOf
<1> QED
  BY <1>1, <1>2, <1>3, KindShape DEF AddIcerc


(* The removal of ice.                                                     *)
LEMMA RemoveIceShape == ASSUME Typed, RemoveIce PROVE Shape
<1>1. todo # <<>> /\ pc = "rm_ice"
  BY DEF RemoveIce, At
<1>2. [disk EXCEPT !.ice = None] \in Disk
  BY DiskFields, NoneIsNone DEF Typed, Package, VersionOf
<1>3. "rm_icerc" \in CommandsOf[Action] \cup {"end"}
  BY <1>1, CommandTells DEF CommandsOf
<1> QED
  BY <1>1, <1>2, <1>3, KindShape DEF RemoveIce


(* The removal of icerc.                                                   *)
LEMMA RemoveIcercShape == ASSUME Typed, RemoveIcerc PROVE Shape
<1>1. todo # <<>> /\ pc = "rm_icerc"
  BY DEF RemoveIcerc, At
<1>2. [disk EXCEPT !.icerc = None] \in Disk
  BY DiskFields, NoneIsNone DEF Typed, Package, VersionOf
<1>3. (CASE Action = "INSTALLATION" -> "copy_ice"
        [] Action = "ROLLBACK" -> "find_back_up"
        [] OTHER -> "end") \in CommandsOf[Action] \cup {"end"}
  BY <1>1, CommandTells DEF CommandsOf
<1> QED
  BY <1>1, <1>2, <1>3, KindShape DEF RemoveIcerc


(* The copy of ice.                                                        *)
LEMMA CopyIceShape == ASSUME Typed, CopyIce PROVE Shape
<1>1. todo # <<>> /\ pc = "copy_ice"
  BY DEF CopyIce, At
<1>2. [disk EXCEPT !.ice = [version |-> package, whole |-> TRUE]] \in Disk
  BY DiskFields, NoneIsNone DEF Typed, Package, VersionOf
<1>3. "copy_icerc" \in CommandsOf[Action] \cup {"end"}
  BY <1>1, CommandTells DEF CommandsOf
<1> QED
  BY <1>1, <1>2, <1>3, KindShape DEF CopyIce


(* The copy of icerc.                                                      *)
LEMMA CopyIcercShape == ASSUME Typed, CopyIcerc PROVE Shape
<1>1. todo # <<>> /\ pc = "copy_icerc"
  BY DEF CopyIcerc, At
<1>2. [disk EXCEPT !.icerc = package] \in Disk
  BY DiskFields, NoneIsNone DEF Typed, Package, VersionOf
<1>3. "end" \in CommandsOf[Action] \cup {"end"}
  BY <1>1, CommandTells DEF CommandsOf
<1> QED
  BY <1>1, <1>2, <1>3, KindShape DEF CopyIcerc


(* The look for a back-up.                                                 *)
LEMMA FindBackUpShape == ASSUME Typed, FindBackUp PROVE Shape
<1>1. todo # <<>> /\ pc = "find_back_up"
  BY DEF FindBackUp, At
<1>2. "restore_cron" \in CommandsOf[Action] /\ disk \in Disk
  BY <1>1, CommandTells DEF CommandsOf, Typed
<1> QED
  BY <1>1, <1>2, KindShape, ImpossibleShape DEF FindBackUp


(* The daily job is restored.                                              *)
LEMMA RestoreCronShape == ASSUME Typed, RestoreCron PROVE Shape
<1>1. todo # <<>> /\ pc = "restore_cron"
  BY DEF RestoreCron, At
<1>2. [disk EXCEPT !.cron = disk.savedCron] \in Disk
  BY DiskFields, NoneIsNone DEF Typed, Package, VersionOf
<1>3. "restore_ice" \in CommandsOf[Action] \cup {"end"}
  BY <1>1, CommandTells DEF CommandsOf
<1> QED
  BY <1>1, <1>2, <1>3, KindShape DEF RestoreCron


(* Ice is restored.                                                        *)
LEMMA RestoreIceShape == ASSUME Typed, RestoreIce PROVE Shape
<1>1. todo # <<>> /\ pc = "restore_ice"
  BY DEF RestoreIce, At
<1>2. (IF disk.savedIce = None THEN disk ELSE [disk EXCEPT !.ice = disk.savedIce]) \in Disk
  BY DiskFields, NoneIsNone DEF Typed, Package, VersionOf
<1>3. "restore_icerc" \in CommandsOf[Action] \cup {"end"}
  BY <1>1, CommandTells DEF CommandsOf
<1> QED
  BY <1>1, <1>2, <1>3, KindShape DEF RestoreIce


(* Icerc is restored.                                                      *)
LEMMA RestoreIcercShape == ASSUME Typed, RestoreIcerc PROVE Shape
<1>1. todo # <<>> /\ pc = "restore_icerc"
  BY DEF RestoreIcerc, At
<1>2. (IF disk.savedIcerc = None THEN disk ELSE [disk EXCEPT !.icerc = disk.savedIcerc]) \in Disk
  BY DiskFields, NoneIsNone DEF Typed, Package, VersionOf
<1>3. "unload" \in CommandsOf[Action] \cup {"end"}
  BY <1>1, CommandTells DEF CommandsOf
<1> QED
  BY <1>1, <1>2, <1>3, KindShape DEF RestoreIcerc


(* The daily job is made.                                                  *)
LEMMA CreateCronJobShape == ASSUME Typed, CreateCronJob PROVE Shape
<1>1. todo # <<>> /\ pc = "cron_job"
  BY DEF CreateCronJob, At
<1>2. [disk EXCEPT !.cron = TRUE] \in Disk
  BY DiskFields, NoneIsNone DEF Typed, Package, VersionOf
<1>3. "end" \in CommandsOf[Action] \cup {"end"}
  BY <1>1, CommandTells DEF CommandsOf
<1> QED
  BY <1>1, <1>2, <1>3, KindShape DEF CreateCronJob


(* The daily job is removed.                                               *)
LEMMA DeleteCronJobShape == ASSUME Typed, DeleteCronJob PROVE Shape
<1>1. todo # <<>> /\ pc = "rm_cron"
  BY DEF DeleteCronJob, At
<1>2. [disk EXCEPT !.cron = FALSE] \in Disk
  BY DiskFields, NoneIsNone DEF Typed, Package, VersionOf
<1>3. "rm_ice" \in CommandsOf[Action] \cup {"end"}
  BY <1>1, CommandTells DEF CommandsOf
<1> QED
  BY <1>1, <1>2, <1>3, KindShape DEF DeleteCronJob


(* The image is removed.                                                   *)
LEMMA UnloadContainerShape == ASSUME Typed, UnloadContainer PROVE Shape
<1>1. todo # <<>> /\ pc = "unload"
  BY DEF UnloadContainer, At
<1>2. [disk EXCEPT !.image = None] \in Disk
  BY DiskFields DEF Typed
<1>3. (IF Action = "UNLOAD_ICE_PYTHON_CONTAINER" THEN "end" ELSE "load")
        \in CommandsOf[Action] \cup {"end"}
  BY <1>1, CommandTells DEF CommandsOf
<1> QED
  BY <1>1, <1>2, <1>3, KindShape, ImpossibleShape DEF UnloadContainer


(* The image is loaded.                                                    *)
LEMMA LoadContainerShape == ASSUME Typed, LoadContainer PROVE Shape
<1>1. todo # <<>> /\ disk \in Disk
  BY DEF LoadContainer, At, Typed
<1>2. disk.ice # None => [disk EXCEPT !.image = disk.ice.version] \in Disk
  BY <1>1, DiskFields DEF Package
<1>3. CASE Whole(disk.ice) /\ Tested([disk EXCEPT !.image = disk.ice.version], "end")
  BY <1>1, <1>2, <1>3, KindShape DEF Whole
<1>4. CASE \/ /\ disk.ice = None /\ disk' = disk /\ Succeeds
              /\ UNCHANGED <<frame, slipped, faults>>
           \/ /\ disk.ice # None /\ ~Whole(disk.ice)
              /\ disk' \in {disk, [disk EXCEPT !.image = disk.ice.version]}
              /\ Succeeds \/ Fails
              /\ UNCHANGED <<frame, slipped, faults>>
  BY <1>1, <1>2, <1>4, StillShape
<1> QED
  BY <1>3, <1>4 DEF LoadContainer


(* The containers of the profiler.                                         *)
LEMMA LoadDockerShape == ASSUME Typed, LoadDocker PROVE Shape
<1>1. todo # <<>> /\ [disk EXCEPT !.profiler = "running"] \in Disk
  BY DiskFields DEF LoadDocker, At, Typed
<1> QED
  BY <1>1, KindShape, ImpossibleShape DEF LoadDocker


(* The secret key.                                                         *)
LEMMA CreateKeyShape == ASSUME Typed, CreateKey PROVE Shape
<1>1. todo # <<>> /\ pc \in {"new_key", "rm_key", "copy_key"} /\ disk \in Disk
  BY DEF CreateKey, At, Typed
<1>2. {"rm_key", "copy_key"} \subseteq CommandsOf[Action]
  BY <1>1, CommandTells DEF CommandsOf
<1>3. /\ (IF disk.key = "none" THEN disk ELSE [disk EXCEPT !.key = "stale"]) \in Disk
      /\ [disk EXCEPT !.key = "none"] \in Disk /\ [disk EXCEPT !.key = "current"] \in Disk
  BY <1>1, DiskFields
<1> QED
  BY <1>1, <1>2, <1>3, KindShape DEF CreateKey


(* The old key.                                                            *)
LEMMA RemoveOldKeyShape == ASSUME Typed, RemoveOldKey PROVE Shape
<1>1. /\ todo # <<>> /\ disk \in Disk
      /\ pc \in {"find_old_key", "read_pub", "rm_line", "rm_pub"}
  BY DEF RemoveOldKey, At, Typed
<1>2. {"read_pub", "rm_line", "rm_pub"} \subseteq CommandsOf[Action]
  BY <1>1, CommandTells DEF CommandsOf
<1>3. /\ [disk EXCEPT !.oldKey = FALSE] \in Disk /\ [disk EXCEPT !.oldPub = FALSE] \in Disk
      /\ [disk EXCEPT !.oldLine = FALSE] \in Disk
  BY <1>1, DiskFields
<1>4. CASE Checked([disk EXCEPT !.oldKey = FALSE], "read_pub") \/ Misled(disk, "end")
  BY <1>1, <1>2, <1>3, <1>4, KindShape
<1>5. CASE disk' = disk /\ Succeeds /\ UNCHANGED <<frame, slipped, faults>>
  BY <1>1, <1>5, StillShape
<1>6. CASE disk' = disk /\ After("rm_line") /\ UNCHANGED <<frame, slipped, faults>>
  BY <1>1, <1>2, <1>6 DEF Shape, After, Typed
<1>7. CASE \/ Checked([disk EXCEPT !.oldLine = FALSE], "rm_pub")
           \/ Checked([disk EXCEPT !.oldPub = FALSE], "end")
           \/ Impossible
  BY <1>1, <1>2, <1>3, <1>7, KindShape, ImpossibleShape
<1> QED
  BY <1>4, <1>5, <1>6, <1>7 DEF RemoveOldKey


(* A run that is over has no action left.                                  *)
LEMMA IdleStops == ASSUME Typed, pc = "idle" PROVE todo = <<>>
<1>1. todo # <<>> => "idle" \notin CommandsOf[Action]
  BY AllActions DEF CommandsOf, Typed, Action
<1> QED
  BY <1>1 DEF Typed

(* A start.                                                                *)
LEMMA StartTyped ==
  ASSUME Typed, NEW a \in DOMAIN ActionsLists, NEW new \in Versions \cup {None},
         NEW ok \in BOOLEAN, Start(a, new, ok)
  PROVE  Typed'
<1>1. ActionsLists[a] \in Seq(Actions)
  BY ListsAreLists
<1>2. /\ faults' \in 0..MaxFaults /\ slipped' \in BOOLEAN /\ runs' \in 0..MaxRuns
      /\ disk' = disk /\ site' = site /\ done' = {} /\ failed' = failed
      /\ package' = new /\ agreed' = ok
      /\ pc = "idle"
  BY Bounded DEF Typed, Start
<1>3. \/ pc' = "idle" /\ todo' = todo
      \/ pc' = "next" /\ todo' = ActionsLists[a]
  BY <1>2 DEF Start
<1>4. todo = <<>>
  BY <1>2, IdleStops
<1> QED
  BY <1>1, <1>2, <1>3, <1>4 DEF Typed

(* The loop.                                                               *)
LEMMA NextActionTyped == ASSUME Typed, NextAction PROVE Typed'
<1>1. UNCHANGED <<site, disk, package, agreed, done, failed, slipped, before, runs, faults>>
  BY DEF NextAction
<1>2. CASE pc' = "idle" /\ todo = <<>> /\ todo' = todo
  BY <1>1, <1>2 DEF Typed
<1>3. CASE todo # <<>> /\ pc' = FirstCommand[Action] /\ todo' = todo
  <2>1. Action \in Actions /\ Action' = Action /\ CommandsOf' = CommandsOf
    BY <1>3 DEF Typed, Action, CommandsOf
  <2> QED
    BY <1>1, <1>3, <2>1, FirstIsOne DEF Typed
<1>4. CASE todo # <<>> /\ pc' = "next" /\ todo' = Tail(todo)
  BY <1>1, <1>4 DEF Typed
<1> QED
  BY <1>2, <1>3, <1>4 DEF NextAction

(* A kill.                                                                 *)
LEMMA KillTyped == ASSUME Typed, Kill PROVE Typed'
<1>1. disk' \in Disk /\ faults' \in 0..MaxFaults /\ slipped' \in BOOLEAN
  BY MidwayTyped, Bounded DEF Kill, Typed
<1>2. failed' \subseteq Actions
  <2>1. pc # "next" => Action \in Actions
    BY DEF Kill, Typed, Action
  <2> QED
    BY <2>1 DEF Kill, Typed
<1> QED
  BY <1>1, <1>2 DEF Kill, Typed

(* Every command.                                                          *)
Command ==
  \/ CreateShareDir \/ LookAtVersions \/ MakeBackUpDir \/ SaveCron \/ SaveIce
  \/ SaveIcerc \/ AddIcerc \/ RemoveIce \/ RemoveIcerc \/ CopyIce
  \/ CopyIcerc \/ FindBackUp \/ RestoreCron \/ RestoreIce \/ RestoreIcerc
  \/ CreateCronJob \/ DeleteCronJob \/ UnloadContainer \/ LoadContainer \/ LoadDocker
  \/ CreateKey \/ RemoveOldKey

(* Every command has that shape.                                           *)
LEMMA CommandShape == ASSUME Typed, Command PROVE Shape
BY CreateShareDirShape, LookAtVersionsShape, MakeBackUpDirShape, SaveCronShape,
   SaveIceShape, SaveIcercShape, AddIcercShape, RemoveIceShape,
   RemoveIcercShape, CopyIceShape, CopyIcercShape, FindBackUpShape,
   RestoreCronShape, RestoreIceShape, RestoreIcercShape, CreateCronJobShape,
   DeleteCronJobShape, UnloadContainerShape, LoadContainerShape, LoadDockerShape,
   CreateKeyShape, RemoveOldKeyShape
   DEF Command

(* A step is a start, of a list of actions, the loop, a kill or a command. *)
LEMMA Steps ==
  ASSUME Typed, Next
  PROVE  \/ \E a \in DOMAIN ActionsLists, new \in Versions \cup {None}, ok \in BOOLEAN :
              Start(a, new, ok) /\ (a \in {"install", "noFileTracker"} => new \in Versions)
         \/ NextAction \/ Kill \/ Command
<1>1. ASSUME NEW a \in {"install", "noFileTracker"}, NEW new \in Versions, NEW ok \in BOOLEAN,
             Start(a, new, ok)
      PROVE  \E b \in DOMAIN ActionsLists, n \in Versions \cup {None}, o \in BOOLEAN :
               Start(b, n, o) /\ (b \in {"install", "noFileTracker"} => n \in Versions)
  <2>1. a \in DOMAIN ActionsLists
    BY DEF ActionsLists
  <2> QED
    BY <1>1, <2>1
<1>2. ASSUME NEW a \in {"uninstall", "rollback", "recreateIceKey"}, Start(a, package, FALSE)
      PROVE  \E b \in DOMAIN ActionsLists, n \in Versions \cup {None}, o \in BOOLEAN :
               Start(b, n, o) /\ (b \in {"install", "noFileTracker"} => n \in Versions)
  <2>1. package \in Versions \cup {None} /\ a \in DOMAIN ActionsLists
    BY DEF Typed, ActionsLists
  <2> QED
    BY <1>2, <2>1
<1> QED
  BY <1>1, <1>2 DEF Next, Command

(* Every step keeps the types.                                             *)
LEMMA StepTyped == ASSUME Typed, [Next]_vars PROVE Typed'
<1>1. CASE UNCHANGED vars
  BY <1>1 DEF Typed, vars, control, Action, CommandsOf
<1> QED
  BY <1>1, Steps, StartTyped, NextActionTyped, KillTyped, CommandShape, ShapeTyped

(* Where the run is at each command.                                       *)
LEMMA Ats ==
  /\ CreateShareDir => pc = "share_dir"
  /\ LookAtVersions => pc = "look"
  /\ MakeBackUpDir => pc = "mkdir"
  /\ SaveCron => pc = "save_cron"
  /\ SaveIce => pc = "save_ice"
  /\ SaveIcerc => pc = "save_icerc"
  /\ AddIcerc => pc = "add_icerc"
  /\ RemoveIce => pc = "rm_ice"
  /\ RemoveIcerc => pc = "rm_icerc"
  /\ CopyIce => pc = "copy_ice"
  /\ CopyIcerc => pc = "copy_icerc"
  /\ FindBackUp => pc = "find_back_up"
  /\ RestoreCron => pc = "restore_cron"
  /\ RestoreIce => pc = "restore_ice"
  /\ RestoreIcerc => pc = "restore_icerc"
  /\ CreateCronJob => pc = "cron_job"
  /\ DeleteCronJob => pc = "rm_cron"
  /\ UnloadContainer => pc = "unload"
  /\ LoadContainer => pc = "load"
  /\ LoadDocker => pc = "load_docker"
  /\ CreateKey => pc \in {"new_key", "rm_key", "copy_key"}
  /\ RemoveOldKey => pc \in {"find_old_key", "read_pub", "rm_line", "rm_pub"}
<1>1. /\ CreateShareDir => pc = "share_dir"
      /\ LookAtVersions => pc = "look"
      /\ MakeBackUpDir => pc = "mkdir"
      /\ SaveCron => pc = "save_cron"
  BY DEF At, CreateShareDir, LookAtVersions, MakeBackUpDir, SaveCron
<1>2. /\ SaveIce => pc = "save_ice"
      /\ SaveIcerc => pc = "save_icerc"
      /\ AddIcerc => pc = "add_icerc"
      /\ RemoveIce => pc = "rm_ice"
  BY DEF At, SaveIce, SaveIcerc, AddIcerc, RemoveIce
<1>3. /\ RemoveIcerc => pc = "rm_icerc"
      /\ CopyIce => pc = "copy_ice"
      /\ CopyIcerc => pc = "copy_icerc"
      /\ FindBackUp => pc = "find_back_up"
  BY DEF At, RemoveIcerc, CopyIce, CopyIcerc, FindBackUp
<1>4. /\ RestoreCron => pc = "restore_cron"
      /\ RestoreIce => pc = "restore_ice"
      /\ RestoreIcerc => pc = "restore_icerc"
      /\ CreateCronJob => pc = "cron_job"
  BY DEF At, RestoreCron, RestoreIce, RestoreIcerc, CreateCronJob
<1>5. /\ DeleteCronJob => pc = "rm_cron"
      /\ UnloadContainer => pc = "unload"
      /\ LoadContainer => pc = "load"
      /\ LoadDocker => pc = "load_docker"
  BY DEF At, DeleteCronJob, UnloadContainer, LoadContainer, LoadDocker
<1>6. /\ CreateKey => pc \in {"new_key", "rm_key", "copy_key"}
      /\ RemoveOldKey => pc \in {"find_old_key", "read_pub", "rm_line", "rm_pub"}
  BY DEF At, CreateKey, RemoveOldKey
<1> QED
  BY <1>1, <1>2, <1>3, <1>4, <1>5, <1>6

(* The commands that write to each part of the disk.                       *)
Effects ==
  /\ disk'.ice # disk.ice => pc \in {"rm_ice", "copy_ice", "restore_ice"}
  /\ disk'.icerc # disk.icerc => pc \in {"rm_icerc", "copy_icerc", "restore_icerc"}
  /\ disk'.cron # disk.cron => pc \in {"restore_cron", "cron_job", "rm_cron"}
  /\ disk'.savedIce # disk.savedIce => pc = "save_ice"
  /\ disk'.savedCron # disk.savedCron => pc = "save_cron"
  /\ disk'.image # disk.image => pc \in {"unload", "load"}
  /\ disk'.oldKey # disk.oldKey => pc = "find_old_key"
  /\ disk'.oldPub # disk.oldPub => pc = "rm_pub"
  /\ disk'.oldLine # disk.oldLine => pc = "rm_line"

(* What a command that is cut short may write.                             *)
LEMMA MidwayEffects ==
  ASSUME disk \in Disk, disk' \in Midway
  PROVE  Effects /\ disk'.image = disk.image /\ disk'.icerc = disk.icerc /\ pc # "cron_job"
<1>1. CASE pc = "rm_ice" /\ disk.ice # None
  BY <1>1 DEF Midway, Disk, Effects
<1>2. CASE pc = "copy_ice"
  BY <1>2 DEF Midway, Disk, Effects
<1>3. CASE pc = "save_cron" /\ disk.dir
  BY <1>3 DEF Midway, Disk, Effects
<1>4. CASE pc = "save_ice"
  <2>1. PICK p : disk' = [disk EXCEPT !.dir = TRUE, !.savedIce = p]
    BY <1>4 DEF Midway
  <2> QED
    BY <1>4, <2>1 DEF Disk, Effects
<1>5. CASE pc = "restore_cron"
  BY <1>5 DEF Midway, Disk, Effects
<1>6. CASE pc = "restore_ice" /\ disk.savedIce # None
  BY <1>6 DEF Midway, Disk, Effects
<1>7. CASE pc = "load_docker"
  BY <1>7 DEF Midway, Disk, Effects
<1> QED
  BY <1>1, <1>2, <1>3, <1>4, <1>5, <1>6, <1>7 DEF Midway

(* A command of any kind leaves the disk as it was, as it is meant to be,  *)
(* or half-way.                                                            *)
LEMMA KindWrites ==
  ASSUME NEW new, NEW next,
         Checked(new, next) \/ Unchecked(new, next) \/ Tested(new, next) \/ Misled(new, next)
  PROVE  disk' \in {disk, new} \cup Midway
BY DEF Checked, Unchecked, Tested, Misled

(* Each command writes to its part of the disk only.                       *)
LEMMA CommandEffects == ASSUME Typed, Command PROVE Effects
<1> disk \in Disk
  BY DEF Typed
<1>0. disk' = disk \/ disk' \in Midway => Effects
  BY MidwayEffects DEF Effects
<1>1. CASE CreateShareDir
  <2>1. disk' \in {disk, disk} \cup Midway
    BY <1>1, KindWrites DEF CreateShareDir, Impossible
  <2> QED
    BY <1>0, <1>1, <2>1, Ats DEF Effects, Disk
<1>2. CASE LookAtVersions
  BY <1>0, <1>2 DEF LookAtVersions
<1>3. CASE MakeBackUpDir
  <2>1. disk' \in {disk, [disk EXCEPT !.dir = TRUE]} \cup Midway
    BY <1>3, KindWrites DEF MakeBackUpDir, Impossible
  <2> QED
    BY <1>0, <1>3, <2>1, Ats DEF Effects, Disk
<1>4. CASE SaveCron
  <2>1. disk' \in {disk, (IF disk.dir THEN [disk EXCEPT !.savedCron = disk.cron] ELSE disk)} \cup Midway
    BY <1>4, KindWrites DEF SaveCron, Impossible
  <2> QED
    BY <1>0, <1>4, <2>1, Ats DEF Effects, Disk
<1>5. CASE SaveIce
  <2>1. disk' \in {disk, [disk EXCEPT !.dir = TRUE, !.savedIce = disk.ice]} \cup Midway
    BY <1>5, KindWrites DEF SaveIce, Impossible
  <2> QED
    BY <1>0, <1>5, <2>1, Ats DEF Effects, Disk
<1>6. CASE SaveIcerc
  <2>1. disk' \in {disk, (IF disk.icerc = None THEN disk ELSE [disk EXCEPT !.savedIcerc = disk.icerc])} \cup Midway
    BY <1>6, KindWrites DEF SaveIcerc, Impossible
  <2> QED
    BY <1>0, <1>6, <2>1, Ats DEF Effects, Disk
<1>7. CASE AddIcerc
  <2>1. disk' \in {disk, (IF disk.savedIcerc # None THEN disk ELSE [disk EXCEPT !.savedIcerc = disk.icerc])} \cup Midway
    BY <1>7, KindWrites DEF AddIcerc, Impossible
  <2> QED
    BY <1>0, <1>7, <2>1, Ats DEF Effects, Disk
<1>8. CASE RemoveIce
  <2>1. disk' \in {disk, [disk EXCEPT !.ice = None]} \cup Midway
    BY <1>8, KindWrites DEF RemoveIce, Impossible
  <2> QED
    BY <1>0, <1>8, <2>1, Ats DEF Effects, Disk
<1>9. CASE RemoveIcerc
  <2>1. disk' \in {disk, [disk EXCEPT !.icerc = None]} \cup Midway
    BY <1>9, KindWrites DEF RemoveIcerc, Impossible
  <2> QED
    BY <1>0, <1>9, <2>1, Ats DEF Effects, Disk
<1>10. CASE CopyIce
  <2>1. disk' \in {disk, [disk EXCEPT !.ice = [version |-> package, whole |-> TRUE]]} \cup Midway
    BY <1>10, KindWrites DEF CopyIce, Impossible
  <2> QED
    BY <1>0, <1>10, <2>1, Ats DEF Effects, Disk
<1>11. CASE CopyIcerc
  <2>1. disk' \in {disk, [disk EXCEPT !.icerc = package]} \cup Midway
    BY <1>11, KindWrites DEF CopyIcerc, Impossible
  <2> QED
    BY <1>0, <1>11, <2>1, Ats DEF Effects, Disk
<1>12. CASE FindBackUp
  <2>1. disk' \in {disk, disk} \cup Midway
    BY <1>12, KindWrites DEF FindBackUp, Impossible
  <2> QED
    BY <1>0, <1>12, <2>1, Ats DEF Effects, Disk
<1>13. CASE RestoreCron
  <2>1. disk' \in {disk, [disk EXCEPT !.cron = disk.savedCron]} \cup Midway
    BY <1>13, KindWrites DEF RestoreCron, Impossible
  <2> QED
    BY <1>0, <1>13, <2>1, Ats DEF Effects, Disk
<1>14. CASE RestoreIce
  <2>1. disk' \in {disk, (IF disk.savedIce = None THEN disk ELSE [disk EXCEPT !.ice = disk.savedIce])} \cup Midway
    BY <1>14, KindWrites DEF RestoreIce, Impossible
  <2> QED
    BY <1>0, <1>14, <2>1, Ats DEF Effects, Disk
<1>15. CASE RestoreIcerc
  <2>1. disk' \in {disk, (IF disk.savedIcerc = None THEN disk ELSE [disk EXCEPT !.icerc = disk.savedIcerc])} \cup Midway
    BY <1>15, KindWrites DEF RestoreIcerc, Impossible
  <2> QED
    BY <1>0, <1>15, <2>1, Ats DEF Effects, Disk
<1>16. CASE CreateCronJob
  <2>1. disk' \in {disk, [disk EXCEPT !.cron = TRUE]} \cup Midway
    BY <1>16, KindWrites DEF CreateCronJob, Impossible
  <2> QED
    BY <1>0, <1>16, <2>1, Ats DEF Effects, Disk
<1>17. CASE DeleteCronJob
  <2>1. disk' \in {disk, [disk EXCEPT !.cron = FALSE]} \cup Midway
    BY <1>17, KindWrites DEF DeleteCronJob, Impossible
  <2> QED
    BY <1>0, <1>17, <2>1, Ats DEF Effects, Disk
<1>18. CASE UnloadContainer
  <2>1. disk' \in {disk, [disk EXCEPT !.image = None]} \cup Midway
    BY <1>18, KindWrites DEF UnloadContainer, Impossible
  <2> QED
    BY <1>0, <1>18, <2>1, Ats DEF Effects, Disk
<1>19. CASE LoadContainer
  <2>1. disk' \in {disk, [disk EXCEPT !.image = disk.ice.version]} \cup Midway
    BY <1>19, KindWrites DEF LoadContainer, Impossible
  <2> QED
    BY <1>0, <1>19, <2>1, Ats DEF Effects, Disk
<1>20. CASE LoadDocker
  <2>1. disk' \in {disk, [disk EXCEPT !.profiler = "running"]} \cup Midway
    BY <1>20, KindWrites DEF LoadDocker, Impossible
  <2> QED
    BY <1>0, <1>20, <2>1, Ats DEF Effects, Disk
<1>21. CASE CreateKey
  <2>1. disk' \in {disk} \cup {[disk EXCEPT !.key = k] : k \in {"stale", "none", "current"}} \cup Midway
    BY <1>21, KindWrites DEF CreateKey
  <2> QED
    BY <1>0, <2>1 DEF Effects, Disk
<1>22. CASE RemoveOldKey
  <2>1. \/ disk' \in {disk} \cup Midway
        \/ pc = "find_old_key" /\ disk' = [disk EXCEPT !.oldKey = FALSE]
        \/ pc = "rm_line" /\ disk' = [disk EXCEPT !.oldLine = FALSE]
        \/ pc = "rm_pub" /\ disk' = [disk EXCEPT !.oldPub = FALSE]
    BY <1>22, KindWrites DEF RemoveOldKey, Impossible, At
  <2> QED
    BY <1>0, <2>1 DEF Effects, Disk
<1> QED
  BY <1>1, <1>2, <1>3, <1>4, <1>5, <1>6, <1>7, <1>8, <1>9, <1>10, <1>11,
     <1>12, <1>13, <1>14, <1>15, <1>16, <1>17, <1>18, <1>19, <1>20, <1>21, <1>22 DEF Command

(* The command that comes after each.                                      *)
Goes ==
  \/ pc' = "next"
  \/ pc = "share_dir" /\ pc' = "look"
  \/ pc = "look" /\ pc' \in {"mkdir", "save_cron", "rm_ice"}
  \/ pc = "mkdir" /\ pc' = "save_cron"
  \/ pc = "save_cron" /\ pc' \in {"save_ice", "add_icerc"}
  \/ pc = "save_ice" /\ pc' = "save_icerc"
  \/ pc \in {"save_icerc", "add_icerc", "rm_cron"} /\ pc' = "rm_ice"
  \/ pc = "rm_ice" /\ pc' = "rm_icerc"
  \/ pc = "rm_icerc" /\ Action = "INSTALLATION" /\ pc' = "copy_ice"
  \/ pc = "rm_icerc" /\ Action = "ROLLBACK" /\ pc' = "find_back_up"
  \/ pc = "copy_ice" /\ pc' = "copy_icerc"
  \/ pc = "find_back_up" /\ pc' = "restore_cron"
  \/ pc = "restore_cron" /\ pc' = "restore_ice"
  \/ pc = "restore_ice" /\ pc' = "restore_icerc"
  \/ pc = "restore_icerc" /\ pc' = "unload"
  \/ pc = "unload" /\ pc' = "load"
  \/ pc = "new_key" /\ pc' = "rm_key"
  \/ pc = "rm_key" /\ pc' = "copy_key"
  \/ pc = "find_old_key" /\ pc' = "read_pub"
  \/ pc = "read_pub" /\ pc' = "rm_line"
  \/ pc = "rm_line" /\ pc' = "rm_pub"

(* The commands an action may end well with.                               *)
Ends ==
  done' # done =>
    \/ pc \in {"copy_icerc", "cron_job", "load", "load_docker", "copy_key", "find_old_key",
               "read_pub", "rm_pub"}
    \/ pc = "rm_icerc" /\ Action = "UNINSTALLATION"
    \/ pc = "unload" /\ Action = "UNLOAD_ICE_PYTHON_CONTAINER"

(* When a command of any kind goes on it goes on with the next one.        *)
LEMMA KindGoes ==
  ASSUME NEW new, NEW next,
         Checked(new, next) \/ Unchecked(new, next) \/ Tested(new, next) \/ Misled(new, next)
  PROVE  /\ next # "end" => pc' \in {"next", next} /\ done' = done
         /\ next = "end" => pc' = "next"
BY DEF Checked, Unchecked, Tested, Misled, After, Succeeds, Fails

(* Each command goes on with the one after it.                             *)
LEMMA CommandGoes == ASSUME Typed, Command PROVE Goes /\ Ends
<1>1. CASE CreateShareDir
  BY <1>1, Ats, KindGoes DEF CreateShareDir, Goes, Ends
<1>2. CASE LookAtVersions
  BY <1>2, Ats DEF LookAtVersions, Goes, Ends, After, Fails
<1>3. CASE MakeBackUpDir
  BY <1>3, Ats, KindGoes DEF MakeBackUpDir, Goes, Ends
<1>4. CASE SaveCron
  BY <1>4, Ats, KindGoes DEF SaveCron, Goes, Ends
<1>5. CASE SaveIce
  BY <1>5, Ats, KindGoes DEF SaveIce, Goes, Ends
<1>6. CASE SaveIcerc
  BY <1>6, Ats, KindGoes DEF SaveIcerc, Goes, Ends
<1>7. CASE AddIcerc
  BY <1>7, Ats, KindGoes DEF AddIcerc, Goes, Ends
<1>8. CASE RemoveIce
  BY <1>8, Ats, KindGoes DEF RemoveIce, Goes, Ends
<1>9. CASE RemoveIcerc
  <2>1. pc = "rm_icerc" /\ Action \in {"INSTALLATION", "UNINSTALLATION", "ROLLBACK"}
    BY <1>9, CommandTells DEF RemoveIcerc, At
  <2>2. CASE Action = "INSTALLATION"
    BY <1>9, <2>1, <2>2, KindGoes DEF RemoveIcerc, Goes, Ends
  <2>3. CASE Action = "ROLLBACK"
    BY <1>9, <2>1, <2>3, KindGoes DEF RemoveIcerc, Goes, Ends
  <2>4. CASE Action = "UNINSTALLATION"
    BY <1>9, <2>1, <2>4, KindGoes DEF RemoveIcerc, Goes, Ends
  <2> QED
    BY <2>1, <2>2, <2>3, <2>4
<1>10. CASE CopyIce
  BY <1>10, Ats, KindGoes DEF CopyIce, Goes, Ends
<1>11. CASE CopyIcerc
  BY <1>11, Ats, KindGoes DEF CopyIcerc, Goes, Ends
<1>12. CASE FindBackUp
  BY <1>12, Ats, KindGoes DEF FindBackUp, Goes, Ends, Impossible, After, Succeeds, Fails, At
<1>13. CASE RestoreCron
  BY <1>13, Ats, KindGoes DEF RestoreCron, Goes, Ends
<1>14. CASE RestoreIce
  BY <1>14, Ats, KindGoes DEF RestoreIce, Goes, Ends
<1>15. CASE RestoreIcerc
  BY <1>15, Ats, KindGoes DEF RestoreIcerc, Goes, Ends
<1>16. CASE CreateCronJob
  BY <1>16, Ats, KindGoes DEF CreateCronJob, Goes, Ends
<1>17. CASE DeleteCronJob
  BY <1>17, Ats, KindGoes DEF DeleteCronJob, Goes, Ends
<1>18. CASE UnloadContainer
  BY <1>18, Ats, KindGoes DEF UnloadContainer, Goes, Ends, Impossible, After, Succeeds, Fails, At
<1>19. CASE LoadContainer
  BY <1>19, Ats, KindGoes DEF LoadContainer, Goes, Ends, Impossible, After, Succeeds, Fails, At
<1>20. CASE LoadDocker
  BY <1>20, Ats, KindGoes DEF LoadDocker, Goes, Ends, Impossible, After, Succeeds, Fails, At
<1>21. CASE CreateKey
  BY <1>21, Ats, KindGoes DEF CreateKey, Goes, Ends, Impossible, After, Succeeds, Fails, At
<1>22. CASE RemoveOldKey
  BY <1>22, Ats, KindGoes DEF RemoveOldKey, Goes, Ends, Impossible, After, Succeeds, Fails, At
<1> QED
  BY <1>1, <1>2, <1>3, <1>4, <1>5, <1>6, <1>7, <1>8, <1>9, <1>10, <1>11,
     <1>12, <1>13, <1>14, <1>15, <1>16, <1>17, <1>18, <1>19, <1>20, <1>21, <1>22 DEF Command

(* Only an installation writes what the last back-up is made of.           *)
LEMMA BeforeWrites ==
  ASSUME Typed, Command
  PROVE  \/ before' = before
         \/ pc = "look" /\ before' = None
         \/ pc \in {"save_icerc", "add_icerc"} /\ BackedUp
<1>1. CASE LookAtVersions
  BY <1>1 DEF LookAtVersions, At
<1>2. CASE SaveIcerc \/ AddIcerc
  BY <1>2 DEF SaveIcerc, AddIcerc, At
<1>3. CASE \/ CreateShareDir \/ MakeBackUpDir \/ SaveCron \/ SaveIce \/ RemoveIce \/ RemoveIcerc
           \/ CopyIce \/ CopyIcerc \/ FindBackUp
  BY <1>3 DEF CreateShareDir, MakeBackUpDir, SaveCron, SaveIce, RemoveIce, RemoveIcerc, CopyIce,
              CopyIcerc, FindBackUp
<1>4. CASE \/ RestoreCron \/ RestoreIce \/ RestoreIcerc \/ CreateCronJob \/ DeleteCronJob
           \/ UnloadContainer \/ LoadContainer \/ LoadDocker \/ CreateKey \/ RemoveOldKey
  BY <1>4 DEF RestoreCron, RestoreIce, RestoreIcerc, CreateCronJob, DeleteCronJob,
              UnloadContainer, LoadContainer, LoadDocker, CreateKey, RemoveOldKey
<1> QED
  BY <1>1, <1>2, <1>3, <1>4 DEF Command

(* The version is known while it is backed up, and the last back-up does   *)
(* not count until then.                                                   *)
BeforeTyped ==
  /\ before \in [version : Versions, whole : BOOLEAN, cron : BOOLEAN] \cup {None}
  /\ pc \in {"mkdir", "save_cron", "save_ice", "save_icerc", "add_icerc"} =>
       VersionOf(disk.ice) # None /\ before = None

(* A kill and the loop leave the back-up alone and no back-up begins.      *)
LEMMA OthersKeepBefore ==
  ASSUME Typed, BeforeTyped,
         \/ \E a \in DOMAIN ActionsLists, new \in Versions \cup {None}, ok \in BOOLEAN :
              Start(a, new, ok)
         \/ NextAction \/ Kill
  PROVE  /\ before' = before
         /\ pc' \in {"idle", "next"} \/ pc' \in {FirstCommand[a] : a \in Actions}
<1>1. before' = before
  BY DEF Start, NextAction, Kill
<1>2. CASE NextAction
  BY <1>1, <1>2 DEF NextAction, Typed, Action
<1> QED
  BY <1>1, <1>2 DEF Start, Kill

(* The first commands, none of which is within a back-up.                  *)
LEMMA FirstCommands ==
  \A a \in Actions : FirstCommand[a] \in {"share_dir", "cron_job", "rm_cron", "rm_ice", "new_key",
                                        "load_docker", "unload", "find_old_key"}
BY DEF Actions, FirstCommand

(* Every step keeps that.                                                  *)
LEMMA StepBefore ==
  ASSUME Typed, BeforeTyped, [Next]_vars
  PROVE  BeforeTyped'
<1>1. CASE UNCHANGED vars
  BY <1>1 DEF vars, control, BeforeTyped, VersionOf
<1>2. CASE Command
  <2>1. Goes /\ Effects
    BY <1>2, CommandGoes, CommandEffects
  <2>2. before' \in [version : Versions, whole : BOOLEAN, cron : BOOLEAN] \cup {None}
    <3>1. CASE pc \in {"save_icerc", "add_icerc"} /\ BackedUp
      <4>1. disk.ice.version \in Versions
        BY <3>1, DiskFields DEF BeforeTyped, VersionOf, Typed, Package
      <4>2. Whole(disk.savedIce) \in BOOLEAN /\ disk.cron \in BOOLEAN
        BY DiskFields DEF Whole, Typed, Package
      <4> QED
        BY <3>1, <4>1, <4>2 DEF BackedUp
    <3> QED
      BY <1>2, <3>1, BeforeWrites DEF BeforeTyped
  <2>3. ASSUME pc' \in {"mkdir", "save_cron", "save_ice", "save_icerc", "add_icerc"}
        PROVE  VersionOf(disk'.ice) # None /\ before' = None
    <3>1. pc \in {"look", "mkdir", "save_cron", "save_ice"} /\ disk'.ice = disk.ice
      BY <2>1, <2>3 DEF Goes, Effects
    <3>2. CASE pc = "look"
      BY <1>2, <2>3, <3>2, Ats DEF Command, LookAtVersions, After, Fails
    <3>3. CASE pc # "look"
      BY <1>2, <3>1, <3>3, BeforeWrites DEF BeforeTyped
    <3> QED
      BY <3>1, <3>2, <3>3
  <2> QED
    BY <2>2, <2>3 DEF BeforeTyped, VersionOf
<1>3. CASE \/ \E a \in DOMAIN ActionsLists, new \in Versions \cup {None}, ok \in BOOLEAN :
                Start(a, new, ok)
           \/ NextAction \/ Kill
  BY <1>3, OthersKeepBefore, FirstCommands DEF BeforeTyped
<1> QED
  BY <1>1, <1>2, <1>3, Steps

Movers == {"INSTALLATION", "UNINSTALLATION", "ROLLBACK"}

(* What may come after an action in a list.                                *)
Follows(x, y) ==
  /\ y \notin Movers
  /\ x = "ROLLBACK" => y = "REMOVE_OLD_ICE_KEY"
  /\ x = "LOAD_ICE_PYTHON_CONTAINER" => y \in {"REMOVE_OLD_ICE_KEY", "INSTALLATION_FILE_TRACKER"}

Sorted(list) == \A i, j \in 1..Len(list) : i < j => Follows(list[i], list[j])

(* The actions that are left follow each other and those that are done.    *)
Ordered ==
  /\ Sorted(todo)
  /\ \A x \in done, j \in 1..Len(todo) : Follows(x, todo[j])

(* Every list is sorted.                                                   *)
LEMMA ListsAreSorted == \A a \in DOMAIN ActionsLists : Sorted(ActionsLists[a])
<1>1. /\ Len(Install) = 5 /\ Install[1] = "INSTALLATION" /\ Install[2] = "KEY_RECREATION"
      /\ Install[3] = "LOAD_DOCKER" /\ Install[4] = "LOAD_ICE_PYTHON_CONTAINER"
      /\ Install[5] = "REMOVE_OLD_ICE_KEY" /\ Install \in Seq(Actions)
  BY AllActions DEF Install
<1>2. Sorted(Install)
  BY <1>1 DEF Sorted, Follows, Movers
<1>3. Sorted(Append(Install, "INSTALLATION_FILE_TRACKER"))
  <2> DEFINE t == Append(Install, "INSTALLATION_FILE_TRACKER")
  <2>1. Len(t) = 6
    BY DEF Install
  <2>2. \A i \in 1..5 : t[i] = Install[i]
    BY DEF Install
  <2>3. t[6] = "INSTALLATION_FILE_TRACKER"
    BY DEF Install
  <2> HIDE DEF t
  <2>4. Sorted(t)
    BY <1>1, <1>2, <2>1, <2>2, <2>3 DEF Sorted, Follows, Movers
  <2> QED
    BY <2>4 DEF t
<1>4. /\ Sorted(<<"UNINSTALLATION", "LOAD_DOCKER", "UNLOAD_ICE_PYTHON_CONTAINER",
                  "REMOVE_OLD_ICE_KEY">>)
      /\ Sorted(<<"ROLLBACK", "REMOVE_OLD_ICE_KEY">>) /\ Sorted(<<"KEY_RECREATION">>)
  BY DEF Sorted, Follows, Movers
<1> SUFFICES ASSUME NEW a \in {"install", "noFileTracker", "uninstall", "rollback",
                                "recreateIceKey"}
             PROVE  Sorted(ActionsLists[a])
  BY DEF ActionsLists
<1>5. /\ ActionsLists["install"] = Append(Install, "INSTALLATION_FILE_TRACKER")
      /\ ActionsLists["noFileTracker"] = Install
  BY DEF ActionsLists
<1>6. ActionsLists["uninstall"] = <<"UNINSTALLATION", "LOAD_DOCKER",
                                   "UNLOAD_ICE_PYTHON_CONTAINER", "REMOVE_OLD_ICE_KEY">>
  BY DEF ActionsLists
<1>7. ActionsLists["rollback"] = <<"ROLLBACK", "REMOVE_OLD_ICE_KEY">>
  BY DEF ActionsLists
<1>8. ActionsLists["recreateIceKey"] = <<"KEY_RECREATION">>
  BY DEF ActionsLists
<1> QED
  BY <1>2, <1>3, <1>4, <1>5, <1>6, <1>7, <1>8

(* What is left after the first action is sorted and follows it.           *)
LEMMA OrderedTail ==
  ASSUME Typed, Ordered, todo # <<>>
  PROVE  /\ Sorted(Tail(todo))
         /\ \A x \in done \cup {Action}, j \in 1..Len(Tail(todo)) : Follows(x, Tail(todo)[j])
<1>1. /\ todo \in Seq(Actions) /\ Len(Tail(todo)) = Len(todo) - 1 /\ Len(todo) \in Nat \ {0}
      /\ \A j \in 1..Len(Tail(todo)) : Tail(todo)[j] = todo[j + 1] /\ j + 1 \in 2..Len(todo)
      /\ Action = todo[1]
  BY DEF Typed, Action
<1>2. Sorted(Tail(todo))
  BY <1>1 DEF Ordered, Sorted
<1>3. \A x \in done \cup {Action}, j \in 1..Len(Tail(todo)) : Follows(x, Tail(todo)[j])
  BY <1>1 DEF Ordered, Sorted
<1> QED
  BY <1>2, <1>3

(* Every step keeps the order.                                             *)
LEMMA StepOrdered ==
  ASSUME Typed, Ordered, [Next]_vars
  PROVE  Ordered'
<1>1. CASE UNCHANGED <<todo, done>>
  BY <1>1 DEF Ordered, Sorted, Follows
<1>2. CASE todo' = <<>>
  BY <1>2 DEF Ordered, Sorted
<1>3. CASE todo # <<>> /\ todo' = Tail(todo) /\ done' \subseteq done \cup {Action}
  BY <1>3, OrderedTail DEF Ordered, Sorted, Follows
<1>4. ASSUME NEW a \in DOMAIN ActionsLists, todo' = ActionsLists[a], done' = {}
      PROVE  Ordered'
  BY <1>4, ListsAreSorted DEF Ordered, Sorted, Follows
<1>5. ASSUME NEW a \in DOMAIN ActionsLists, NEW new \in Versions \cup {None}, NEW ok \in BOOLEAN,
             Start(a, new, ok)
      PROVE  Ordered'
  <2>1. done' = {} /\ (todo' = todo \/ todo' = ActionsLists[a])
    BY <1>5 DEF Start
  <2>2. CASE todo' = todo
    BY <2>1, <2>2 DEF Ordered, Sorted, Follows
  <2> QED
    BY <1>4, <2>1, <2>2
<1>6. CASE Command
  BY <1>1, <1>2, <1>3, <1>6, CommandShape DEF Shape, Succeeds, Fails
<1>7. CASE NextAction \/ Kill
  BY <1>1, <1>2, <1>3, <1>7 DEF NextAction, Kill
<1> QED
  BY <1>1, <1>5, <1>6, <1>7, Steps DEF vars, control

(* The types, the order of the actions and what is known of the back-up.   *)
Base == Typed /\ BeforeTyped /\ Ordered

(* It holds at first.                                                      *)
LEMMA BaseInit == Init => Base
<1> SUFFICES ASSUME Init PROVE Base
  OBVIOUS
<1>1. disk \in Disk
  BY DEF Init, Disk
<1>2. runs \in 0..MaxRuns /\ faults \in 0..MaxFaults
  <2>1. MaxRuns \in Nat /\ MaxFaults \in Nat
    BY InstallerAssumption
  <2> QED
    BY <2>1 DEF Init
<1>3. <<>> \in Seq(Actions) /\ {} \subseteq Actions /\ site \in Sites
  BY DEF Init
<1>4. Typed
  BY <1>1, <1>2, <1>3 DEF Init, Typed
<1>5. BeforeTyped /\ Ordered
  BY DEF Init, BeforeTyped, Ordered, Sorted
<1> QED
  BY <1>4, <1>5 DEF Base

(* It holds always.                                                        *)
THEOREM BaseHolds == Spec => []Base
<1>1. Base /\ [Next]_vars => Base'
  BY StepTyped, StepBefore, StepOrdered DEF Base
<1> QED
  BY <1>1, BaseInit, PTL DEF Spec

(* The installer's variables keep their types, with any versions, sites,   *)
(* runs and faults: a command is always one of the action the run is at,   *)
(* and a back-up that is complete has a version (IceInstaller.run).        *)
THEOREM TypeCorrect == Spec => []TypeOK
<1>1. Base => TypeOK
  BY DEF Base, Typed, BeforeTyped, TypeOK
<1> QED
  BY <1>1, BaseHolds, PTL

(* A kill writes what its command may leave half-way, if there is one.     *)
LEMMA KillEffects ==
  ASSUME Typed, Kill
  PROVE  /\ Effects /\ disk' \in {disk} \cup Midway
         /\ disk'.image = disk.image /\ disk'.icerc = disk.icerc
         /\ pc # "next" => todo # <<>>
         /\ pc' = "idle" /\ todo' = <<>> /\ done' = done /\ slipped' \in {slipped, TRUE}
         /\ UNCHANGED <<site, package, agreed, before>>
<1>1. disk \in Disk /\ disk' \in {disk} \cup Midway
  BY DEF Typed, Kill
<1>2. /\ Effects /\ disk'.image = disk.image /\ disk'.icerc = disk.icerc
  BY <1>1, MidwayEffects DEF Effects
<1> QED
  BY <1>1, <1>2 DEF Kill, Typed

(* Once an action is done neither a command nor a kill undoes it.          *)
LEMMA DoneKeeps ==
  ASSUME Base, Command \/ Kill, NEW x \in done
  PROVE  /\ disk'.ice = disk.ice /\ disk'.icerc = disk.icerc
         /\ x \in {"ROLLBACK", "LOAD_ICE_PYTHON_CONTAINER"} => disk'.image = disk.image
         /\ x = "ROLLBACK" => disk'.cron = disk.cron
<1>1. Effects /\ (pc # "next" => todo # <<>>)
  BY CommandEffects, CommandShape, KillEffects DEF Base, Shape
<1>2. todo # <<>> => Follows(x, Action)
  BY DEF Base, Typed, Ordered, Action
<1>3. CASE pc = "next"
  BY <1>1, <1>3 DEF Effects
<1>4. CASE pc # "next"
  <2>1. Follows(x, Action) /\ todo # <<>>
    BY <1>1, <1>2, <1>4
  <2> QED
    BY <1>1, <2>1, CommandTells DEF Effects, Follows, Movers, Base
<1> QED
  BY <1>3, <1>4

(* An action that gets done is the current one, and the next one's turn.   *)
LEMMA GetsDone ==
  ASSUME Typed, Command, NEW x \in done' \ done
  PROVE  x = Action /\ Succeeds
BY CommandShape DEF Shape, Succeeds, Fails

(* A start and the loop leave the disk alone.                              *)
LEMMA OthersKeepDisk ==
  ASSUME Typed,
         \/ \E a \in DOMAIN ActionsLists, new \in Versions \cup {None}, ok \in BOOLEAN :
              Start(a, new, ok)
         \/ NextAction
  PROVE  /\ UNCHANGED <<disk, site, before, failed>> /\ slipped' \in {slipped, TRUE}
         /\ \/ done' = {} /\ pc' \in {"idle", "next"} /\ pc = "idle"
            \/ /\ UNCHANGED <<done, package, slipped, agreed>> /\ pc = "next"
               /\ \/ pc' \in {"idle", "next"}
                  \/ todo # <<>> /\ todo' = todo /\ pc' = FirstCommand[Action]
<1>1. CASE NextAction
  BY <1>1 DEF NextAction
<1> QED
  BY <1>1 DEF Start

(* Nothing happens: a step that leaves the variables alone.                *)
LEMMA Stuttering ==
  ASSUME UNCHANGED vars
  PROVE  UNCHANGED <<site, disk, pc, todo, package, agreed, done, failed, slipped, before>>
BY DEF vars, control

-----------------------------------------------------------------------------
(* Whoever is done with the copy of ice has a whole one.                   *)
WholeInv ==
  /\ InstalledIsWhole
  /\ pc = "copy_icerc" => disk.ice = [version |-> package, whole |-> TRUE]

(* A step keeps it.                                                        *)
LEMMA StepWhole ==
  ASSUME Base, WholeInv, [Next]_vars
  PROVE  WholeInv'
<1>1. CASE UNCHANGED vars
  BY <1>1, Stuttering DEF WholeInv, InstalledIsWhole
<1>2. CASE Command
  <2> Typed /\ Goes /\ Effects /\ Ends /\ package' = package
    BY <1>2, CommandGoes, CommandEffects, CommandShape DEF Base, Shape, frame
  <2>1. ASSUME "INSTALLATION" \in done'
        PROVE  disk'.ice = [version |-> package, whole |-> TRUE] /\ disk'.icerc = package
    <3>1. CASE "INSTALLATION" \in done
      BY <1>2, <3>1, DoneKeeps DEF WholeInv, InstalledIsWhole
    <3>2. CASE "INSTALLATION" \notin done
      <4>1. Action = "INSTALLATION" /\ Succeeds /\ todo # <<>>
        BY <1>2, <2>1, <3>2, GetsDone, CommandShape DEF Shape
      <4>2. pc = "copy_icerc"
        BY <2>1, <3>2, <4>1, CommandTells DEF Ends
      <4>3. disk' = [disk EXCEPT !.icerc = package]
        BY <1>2, <2>1, <3>2, <4>2, Ats DEF Command, CopyIcerc, Checked, Fails
      <4> QED
        BY <4>2, <4>3 DEF WholeInv, Typed, Disk
    <3> QED
      BY <3>1, <3>2
  <2>2. ASSUME pc' = "copy_icerc"
        PROVE  disk'.ice = [version |-> package, whole |-> TRUE]
    <3>1. pc = "copy_ice"
      BY <2>2 DEF Goes
    <3>2. disk' = [disk EXCEPT !.ice = [version |-> package, whole |-> TRUE]]
      BY <1>2, <2>2, <3>1, Ats DEF Command, CopyIce, Checked, Fails
    <3> QED
      BY <3>2 DEF Typed, Disk
  <2> QED
    BY <2>1, <2>2 DEF WholeInv, InstalledIsWhole
<1>3. CASE Kill
  BY <1>3, KillEffects, DoneKeeps DEF WholeInv, InstalledIsWhole, Base
<1>4. CASE \/ \E a \in DOMAIN ActionsLists, new \in Versions \cup {None}, ok \in BOOLEAN :
                Start(a, new, ok)
           \/ NextAction
  <2>1. pc' # "copy_icerc"
    <3>1. todo # <<>> => Action \in Actions
      BY CommandTells DEF Base
    <3> QED
      BY <1>4, <3>1, OthersKeepDisk, FirstCommands DEF Base
  <2> QED
    BY <1>4, <2>1, OthersKeepDisk DEF WholeInv, InstalledIsWhole, Base
<1> QED
  BY <1>1, <1>2, <1>3, <1>4, Steps DEF Base

(* An installation that is said to have succeeded left the whole package,  *)
(* whatever was there before and whatever failed (install).                *)
THEOREM InstalledIsWholeHolds == Spec => []InstalledIsWhole
<1>1. Init => WholeInv
  BY DEF Init, WholeInv, InstalledIsWhole
<1>2. Base /\ WholeInv /\ [Next]_vars => WholeInv'
  BY StepWhole
<1>3. WholeInv => InstalledIsWhole
  BY DEF WholeInv
<1> QED
  BY <1>1, <1>2, <1>3, BaseHolds, PTL DEF Spec

-----------------------------------------------------------------------------
(* What an installation is about to remove is no newer, unless the user    *)
(* agreed.                                                                 *)
NewerInv ==
  Installing /\ site.cbis /\ ~agreed /\ ~slipped =>
    CompareVersions(VersionOf(disk.ice), package) # -1

(* Neither nothing nor the package itself is newer than the package.       *)
LEMMA NotNewer ==
  ASSUME NEW v \in Versions \cup {None}
  PROVE  CompareVersions(None, v) # -1 /\ CompareVersions(v, v) # -1
<1>1. CompareVersions(None, v) # -1
  BY DEF CompareVersions
<1>2. CASE v # None
  <2>1. v[1] \in Nat /\ v[2] \in Nat
    BY <1>2, InstallerAssumption
  <2> QED
    BY <1>1, <1>2, <2>1 DEF CompareVersions
<1> QED
  BY <1>1, <1>2

(* The list of an action that does not install has no installation first.  *)
LEMMA Installs ==
  ASSUME NEW a \in DOMAIN ActionsLists
  PROVE  ActionsLists[a] # <<>> /\ Head(ActionsLists[a]) = ActionsLists[a][1]
<1> SUFFICES ASSUME NEW b \in {"install", "noFileTracker", "uninstall", "rollback",
                                "recreateIceKey"}
             PROVE  ActionsLists[b] # <<>> /\ Head(ActionsLists[b]) = ActionsLists[b][1]
  BY DEF ActionsLists
<1>1. \A l \in Seq(Actions) : l # <<>> => Head(l) = l[1]
  OBVIOUS
<1>2. /\ ActionsLists["install"] # <<>> /\ ActionsLists["noFileTracker"] # <<>>
  BY DEF ActionsLists, Install
<1>3. /\ ActionsLists["uninstall"] # <<>> /\ ActionsLists["rollback"] # <<>>
      /\ ActionsLists["recreateIceKey"] # <<>>
  BY DEF ActionsLists
<1> QED
  BY <1>1, <1>2, <1>3, ListsAreLists DEF ActionsLists

(* A step keeps it.                                                        *)
LEMMA StepNewer ==
  ASSUME Base, NewerInv, [Next]_vars
  PROVE  NewerInv'
<1>1. CASE UNCHANGED vars
  BY <1>1, Stuttering DEF NewerInv, Installing, Action, VersionOf, CompareVersions
<1>2. CASE Command /\ UNCHANGED todo
  <2>1. Typed /\ Effects /\ UNCHANGED frame /\ slipped' \in {slipped, TRUE} /\ todo # <<>>
    BY <1>2, CommandEffects, CommandShape DEF Base, Shape
  <2>2. CASE Action = "INSTALLATION" /\ disk'.ice # disk.ice
    <3>1. pc \in {"rm_ice", "copy_ice"}
      BY <2>1, <2>2, CommandTells DEF Effects
    <3>2. VersionOf(disk'.ice) \in {None, VersionOf(disk.ice), package}
      <4>1. disk \in Disk
        BY <2>1 DEF Typed
      <4>2. CASE pc = "rm_ice"
        <5>1. RemoveIce
          BY <1>2, <4>2, Ats DEF Command
        <5>2. disk' \in {disk, [disk EXCEPT !.ice = None]} \cup Midway
          BY <5>1, KindWrites DEF RemoveIce
        <5>3. disk' \in Midway => disk'.ice \in Torn(disk.ice, None)
          BY <4>1, <4>2 DEF Midway, Disk
        <5> QED
          BY <4>1, <5>2, <5>3 DEF Disk, VersionOf, Torn
      <4>3. CASE pc = "copy_ice"
        <5>1. CopyIce
          BY <1>2, <4>3, Ats DEF Command
        <5> DEFINE p == [version |-> package, whole |-> TRUE]
        <5>2. disk' \in {disk, [disk EXCEPT !.ice = p]} \cup Midway
          BY <5>1, KindWrites DEF CopyIce
        <5>3. disk' \in Midway => disk'.ice \in Torn(None, p)
          BY <4>1, <4>3 DEF Midway, Disk
        <5> QED
          BY <4>1, <5>2, <5>3 DEF Disk, VersionOf, Torn
      <4> QED
        BY <3>1, <4>2, <4>3
    <3>3. CompareVersions(None, package) # -1 /\ CompareVersions(package, package) # -1
      BY <2>1, NotNewer DEF Typed
    <3>4. CASE site.cbis /\ ~agreed /\ ~slipped
      <4>1. CompareVersions(VersionOf(disk'.ice), package) # -1
        BY <2>1, <2>2, <3>2, <3>3, <3>4 DEF NewerInv, Installing
      <4>2. package' = package
        BY <2>1 DEF frame
      <4>3. CompareVersions(VersionOf(disk'.ice), package') # -1
        BY <4>1, <4>2
      <4> QED
        BY <4>3 DEF NewerInv
    <3>5. CASE ~site.cbis \/ agreed \/ slipped
      BY <2>1, <3>5 DEF NewerInv, frame, Typed
    <3> QED
      BY <3>4, <3>5
  <2>3. CASE Action # "INSTALLATION"
    <3>1. Action' # "INSTALLATION"
      BY <1>2, <2>3 DEF Action
    <3> QED
      BY <3>1 DEF NewerInv, Installing
  <2>4. CASE disk'.ice = disk.ice
    <3>1. /\ Action' = Action /\ site' = site /\ package' = package /\ agreed' = agreed
          /\ slipped' = FALSE => slipped = FALSE
      BY <1>2, <2>1 DEF frame, Action, Typed
    <3>2. CompareVersions(VersionOf(disk'.ice), package') = CompareVersions(VersionOf(disk.ice), package)
      BY <2>4, <3>1
    <3> QED
      BY <1>2, <2>1, <3>1, <3>2 DEF NewerInv, Installing, Typed
  <2> QED
    BY <2>2, <2>3, <2>4
<1>3. CASE (todo # <<>> /\ todo' = Tail(todo)) \/ todo' = <<>>
  <2>1. ASSUME todo # <<>>, todo' = Tail(todo), todo' # <<>> PROVE Action' # "INSTALLATION"
    <3>1. Tail(todo) \in Seq(Actions) /\ Len(Tail(todo)) \in Nat \ {0}
      BY <2>1 DEF Base, Typed
    <3>2. Action' = Tail(todo)[1]
      BY <2>1, <3>1 DEF Action
    <3>3. Follows(Action, Tail(todo)[1])
      <4>1. \A j \in 1..Len(Tail(todo)) : Follows(Action, Tail(todo)[j])
        BY <2>1, OrderedTail DEF Base
      <4>2. 1 \in 1..Len(Tail(todo))
        <5> DEFINE n == Len(Tail(todo))
        <5>1. n \in Nat \ {0}
          BY <3>1
        <5> HIDE DEF n
        <5>2. 1 \in 1..n
          BY <5>1
        <5> QED
          BY <5>2 DEF n
      <4> QED
        BY <4>1, <4>2
    <3> QED
      BY <3>2, <3>3 DEF Follows, Movers
  <2> QED
    BY <1>3, <2>1 DEF NewerInv, Installing
<1>4. CASE Command
  BY <1>2, <1>3, <1>4, CommandShape DEF Base, Shape, Succeeds, Fails
<1>5. CASE NextAction
  BY <1>3, <1>5 DEF NextAction, NewerInv, Installing, Action, VersionOf, CompareVersions
<1>6. ASSUME NEW a \in DOMAIN ActionsLists, NEW new \in Versions \cup {None}, NEW ok \in BOOLEAN,
             Start(a, new, ok)
      PROVE  NewerInv'
  <2>1. /\ disk' = disk /\ site' = site /\ package' = new /\ agreed' = ok
        /\ pc = "idle" /\ todo = <<>>
    BY <1>6, IdleStops DEF Start, Base
  <2>2. CASE todo' = todo
    BY <2>1, <2>2 DEF NewerInv, Installing
  <2>3. CASE ~Refused(ActionsLists[a], Seen, new, ok) /\ todo' = ActionsLists[a]
    BY <2>1, <2>3, Installs DEF NewerInv, Installing, Action, Refused, Seen, CompareVersions, VersionOf
  <2>4. CASE slipped' = TRUE
    BY <2>4 DEF NewerInv
  <2> QED
    BY <1>6, <2>2, <2>3, <2>4 DEF Start
<1>7. CASE Kill
  BY <1>3, <1>7 DEF Kill
<1> QED
  BY <1>1, <1>4, <1>5, <1>6, <1>7, Steps DEF Base

(* Without the consent of the user no installation on CBIS removes a newer *)
(* version than its own, for any two versions                              *)
(* (validate_ice_version_is_newer_than_existing).                          *)
THEOREM NewerKeptHolds == Spec => NewerKept
<1>1. Init => NewerInv
  BY DEF Init, NewerInv, Installing
<1>2. Base /\ NewerInv /\ [Next]_vars => NewerInv'
  BY StepNewer
<1>3. NewerInv => [RemovesNewer => agreed \/ ~site.cbis \/ slipped]_vars
  BY DEF NewerInv, RemovesNewer
<1> QED
  BY <1>1, <1>2, <1>3, BaseHolds, PTL DEF Spec, NewerKept

(* A command that goes on is not the first one.                            *)
LEMMA OthersGo ==
  ASSUME Typed,
         \/ \E a \in DOMAIN ActionsLists, new \in Versions \cup {None}, ok \in BOOLEAN :
              Start(a, new, ok)
         \/ NextAction
  PROVE  \/ pc' \in {"idle", "next"}
         \/ /\ todo # <<>> /\ todo' = todo /\ pc = "next"
            /\ pc' \in {"share_dir", "cron_job", "rm_cron", "rm_ice", "new_key", "load_docker",
                       "unload", "find_old_key"}
            /\ pc' = "rm_ice" => Action = "ROLLBACK"
<1>1. todo # <<>> => Action \in Actions
  BY CommandTells
<1>2. \A a \in Actions : FirstCommand[a] = "rm_ice" => a = "ROLLBACK"
  BY AllActions DEF FirstCommand
<1> QED
  BY <1>1, <1>2, OthersKeepDisk, FirstCommands

-----------------------------------------------------------------------------
(* The image is that of the package, and none is there to be loaded over.  *)
ImageInv ==
  /\ ImageOfPackage
  /\ pc = "load" => disk.image = None

(* A step keeps it.                                                        *)
LEMMA StepImage ==
  ASSUME Base, ImageInv, [Next]_vars
  PROVE  ImageInv'
<1>1. CASE UNCHANGED vars
  BY <1>1, Stuttering DEF ImageInv, ImageOfPackage, Whole
<1>2. CASE Command
  <2> /\ Typed /\ Goes /\ Effects /\ Ends /\ slipped' \in {slipped, TRUE} /\ todo # <<>>
      /\ disk \in Disk
    BY <1>2, CommandGoes, CommandEffects, CommandShape DEF Base, Shape, Typed
  <2>1. ASSUME done' \cap {"LOAD_ICE_PYTHON_CONTAINER", "ROLLBACK"} # {}, ~slipped'
        PROVE  /\ disk'.ice = None => disk'.image = None
               /\ Whole(disk'.ice) => disk'.image = disk'.ice.version
    <3>0. ~slipped
      BY <2>1 DEF Typed
    <3>1. CASE done \cap {"LOAD_ICE_PYTHON_CONTAINER", "ROLLBACK"} # {}
      <4>1. disk'.ice = disk.ice /\ disk'.image = disk.image
        BY <1>2, <3>1, DoneKeeps
      <4> QED
        BY <3>0, <3>1, <4>1 DEF ImageInv, ImageOfPackage
    <3>2. CASE done \cap {"LOAD_ICE_PYTHON_CONTAINER", "ROLLBACK"} = {}
      <4>1. /\ Action \in {"LOAD_ICE_PYTHON_CONTAINER", "ROLLBACK"} /\ Succeeds /\ done' # done
        BY <1>2, <2>1, <3>2, GetsDone
      <4>2. pc = "load"
        BY <4>1, CommandTells DEF Ends
      <4>3. LoadContainer /\ disk.image = None
        BY <1>2, <4>2, Ats DEF Command, ImageInv
      <4>4. CASE disk.ice = None
        BY <4>3, <4>4 DEF LoadContainer, Whole
      <4>5. CASE disk.ice # None /\ ~Whole(disk.ice)
        <5>1. disk' \in {disk, [disk EXCEPT !.image = disk.ice.version]}
          BY <4>3, <4>5 DEF LoadContainer
        <5>2. disk'.ice = disk.ice
          BY <5>1 DEF Disk
        <5> QED
          BY <4>5, <5>2
      <4>6. CASE Whole(disk.ice)
        <5>1. Checked([disk EXCEPT !.image = disk.ice.version], "end")
          BY <2>1, <4>3, <4>6 DEF LoadContainer, Tested, Misled, Whole
        <5>2. disk' = [disk EXCEPT !.image = disk.ice.version]
          BY <4>1, <5>1 DEF Checked, Fails
        <5>3. disk'.ice = disk.ice /\ disk'.image = disk.ice.version
          BY <5>2 DEF Disk
        <5> QED
          BY <4>6, <5>3 DEF Whole
      <4> QED
        BY <4>4, <4>5, <4>6
    <3> QED
      BY <3>1, <3>2
  <2>2. ASSUME pc' = "load" PROVE disk'.image = None
    <3>1. pc = "unload" /\ pc' # "next"
      BY <2>2 DEF Goes
    <3>2. disk' = [disk EXCEPT !.image = None]
      BY <1>2, <3>1, Ats DEF Command, UnloadContainer, Checked, Fails, Impossible
    <3> QED
      BY <3>2 DEF Disk
  <2> QED
    BY <2>1, <2>2 DEF ImageInv, ImageOfPackage, Whole
<1>3. CASE Kill
  <2>1. pc' = "idle" /\ done' = done /\ disk'.image = disk.image /\ slipped' \in {slipped, TRUE}
    BY <1>3, KillEffects DEF Base
  <2>2. done \cap {"LOAD_ICE_PYTHON_CONTAINER", "ROLLBACK"} # {} => disk'.ice = disk.ice
    BY <1>3, DoneKeeps
  <2>3. slipped' = FALSE => slipped = FALSE
    BY <2>1 DEF Base, Typed
  <2> QED
    BY <2>1, <2>2, <2>3 DEF ImageInv, ImageOfPackage, Whole
<1>4. CASE \/ \E a \in DOMAIN ActionsLists, new \in Versions \cup {None}, ok \in BOOLEAN :
                Start(a, new, ok)
           \/ NextAction
  BY <1>4, OthersKeepDisk, OthersGo DEF ImageInv, ImageOfPackage, Whole, Base
<1> QED
  BY <1>1, <1>2, <1>3, <1>4, Steps DEF Base

(* An image that was loaded is that of the package at hand, also after a   *)
(* rollback, for all versions (load_ice_healthcheck_container).            *)
THEOREM ImageOfPackageHolds == Spec => []ImageOfPackage
<1>1. Init => ImageInv
  BY DEF Init, ImageInv, ImageOfPackage
<1>2. Base /\ ImageInv /\ [Next]_vars => ImageInv'
  BY StepImage
<1>3. ImageInv => ImageOfPackage
  BY DEF ImageInv
<1> QED
  BY <1>1, <1>2, <1>3, BaseHolds, PTL DEF Spec

-----------------------------------------------------------------------------
(* As long as no removal failed the parts of the old key go one by one.    *)
KeyInv ==
  "REMOVE_OLD_ICE_KEY" \notin failed /\ ~slipped =>
    /\ pc = "read_pub" => ~disk.oldKey
    /\ pc = "rm_line" => ~disk.oldKey
    /\ pc = "rm_pub" => ~disk.oldKey /\ ~disk.oldLine
    /\ pc \notin {"read_pub", "rm_line", "rm_pub"} =>
         disk.oldKey = disk.oldPub /\ disk.oldPub = disk.oldLine
    /\ "REMOVE_OLD_ICE_KEY" \in done => ~disk.oldKey /\ ~disk.oldPub /\ ~disk.oldLine

(* A step keeps it.                                                        *)
LEMMA StepKey ==
  ASSUME Base, KeyInv, [Next]_vars
  PROVE  KeyInv'
<1>1. CASE UNCHANGED vars
  BY <1>1, Stuttering DEF KeyInv
<1>2. CASE Command
  <2> /\ Typed /\ Goes /\ Effects /\ Ends /\ slipped' \in {slipped, TRUE} /\ todo # <<>>
      /\ disk \in Disk
    BY <1>2, CommandGoes, CommandEffects, CommandShape DEF Base, Shape, Typed
  <2>0. failed \subseteq failed'
    BY <1>2, CommandShape DEF Base, Shape, Succeeds, Fails
  <2>1. CASE pc \notin {"find_old_key", "read_pub", "rm_line", "rm_pub"}
    <3>1. UNCHANGED <<disk.oldKey, disk.oldPub, disk.oldLine>>
      BY <2>1 DEF Effects
    <3>2. "REMOVE_OLD_ICE_KEY" \in done' => "REMOVE_OLD_ICE_KEY" \in done
      <4>1. Action # "REMOVE_OLD_ICE_KEY"
        <5>1. pc \notin {"idle", "next"}
          BY <1>2, Ats DEF Command
        <5> QED
          BY <2>1, <5>1 DEF Typed, CommandsOf
      <4> QED
        BY <1>2, <4>1, GetsDone
    <3>3. pc' \notin {"read_pub", "rm_line", "rm_pub"}
      BY <2>1 DEF Goes
    <3>4. slipped' = FALSE => slipped = FALSE
      BY DEF Typed
    <3> QED
      BY <2>0, <2>1, <3>1, <3>2, <3>3, <3>4 DEF KeyInv, Typed
  <2>2. CASE pc \in {"find_old_key", "read_pub", "rm_line", "rm_pub"}
    <3> SUFFICES ASSUME "REMOVE_OLD_ICE_KEY" \notin failed', ~slipped'
                 PROVE  KeyInv'
      BY DEF KeyInv
    <3>1. RemoveOldKey /\ Action = "REMOVE_OLD_ICE_KEY" /\ ~slipped /\ slipped' = slipped
      BY <1>2, <2>2, Ats, CommandTells DEF Command, Typed
    <3>2. ~Fails /\ "REMOVE_OLD_ICE_KEY" \notin failed
      BY <2>0, <3>1 DEF Fails
    <3>3. CASE pc = "find_old_key"
      <4>1. \/ /\ disk.oldKey /\ disk' = [disk EXCEPT !.oldKey = FALSE] /\ pc' = "read_pub"
               /\ done' = done
            \/ ~disk.oldKey /\ disk' = disk /\ pc' = "next"
        BY <3>1, <3>2, <3>3 DEF RemoveOldKey, At, Misled, Checked, After, Succeeds
      <4>2. disk.oldKey = disk.oldPub /\ disk.oldPub = disk.oldLine
        BY <3>1, <3>2, <3>3 DEF KeyInv
      <4>3. CASE ~disk.oldKey /\ disk' = disk /\ pc' = "next"
        BY <4>2, <4>3 DEF KeyInv, Disk
      <4>4. CASE /\ disk.oldKey /\ disk' = [disk EXCEPT !.oldKey = FALSE] /\ pc' = "read_pub"
                 /\ done' = done
        <5>1. "REMOVE_OLD_ICE_KEY" \notin done
          BY <3>1, <3>2, <4>4 DEF KeyInv
        <5> QED
          BY <4>4, <5>1 DEF KeyInv, Disk
      <4> QED
        BY <4>1, <4>3, <4>4
    <3>4. CASE pc = "read_pub"
      <4>1. disk' = disk /\ pc' = "rm_line" /\ done' = done
        BY <3>1, <3>4 DEF RemoveOldKey, At, After, Misled
      <4> QED
        BY <3>1, <3>2, <3>4, <4>1 DEF KeyInv
    <3>5. CASE pc = "rm_line"
      <4>1. disk' = [disk EXCEPT !.oldLine = FALSE] /\ pc' = "rm_pub" /\ done' = done
        BY <3>1, <3>2, <3>5 DEF RemoveOldKey, At, After, Checked, Impossible
      <4> QED
        BY <3>1, <3>2, <3>5, <4>1 DEF KeyInv, Disk
    <3>6. CASE pc = "rm_pub"
      <4>1. disk' = [disk EXCEPT !.oldPub = FALSE] /\ pc' = "next"
        BY <3>1, <3>2, <3>6 DEF RemoveOldKey, At, After, Checked, Succeeds
      <4> QED
        BY <3>1, <3>2, <3>6, <4>1 DEF KeyInv, Disk
    <3> QED
      BY <2>2, <3>3, <3>4, <3>5, <3>6
  <2> QED
    BY <2>1, <2>2
<1>3. CASE Kill
  <2>1. /\ pc' = "idle" /\ done' = done /\ slipped' \in {slipped, TRUE} /\ Effects
        /\ pc # "next" => todo # <<>>
    BY <1>3, KillEffects DEF Base
  <2>2. failed' = failed \cup (IF pc = "next" THEN {} ELSE {Action}) /\ pc # "idle"
    BY <1>3 DEF Kill
  <2>3. CASE pc \in {"find_old_key", "read_pub", "rm_line", "rm_pub"}
    <3>1. "REMOVE_OLD_ICE_KEY" \in failed'
      BY <2>1, <2>2, <2>3, CommandTells DEF Base
    <3> QED
      BY <3>1 DEF KeyInv
  <2>4. CASE pc \notin {"find_old_key", "read_pub", "rm_line", "rm_pub"}
    <3>1. UNCHANGED <<disk.oldKey, disk.oldPub, disk.oldLine>>
      BY <2>1, <2>4 DEF Effects
    <3>2. slipped' = FALSE => slipped = FALSE
      BY <2>1 DEF Base, Typed
    <3> QED
      BY <2>1, <2>2, <2>4, <3>1, <3>2 DEF KeyInv, Base, Typed
  <2> QED
    BY <2>3, <2>4
<1>4. CASE \/ \E a \in DOMAIN ActionsLists, new \in Versions \cup {None}, ok \in BOOLEAN :
                Start(a, new, ok)
           \/ NextAction
  <2>1. /\ disk' = disk /\ failed' = failed /\ slipped' \in {slipped, TRUE}
        /\ done' \in {done, {}} /\ pc \in {"idle", "next"}
        /\ pc' \notin {"read_pub", "rm_line", "rm_pub"}
    BY <1>4, OthersKeepDisk, OthersGo DEF Base
  <2>2. slipped' = FALSE => slipped = FALSE
    BY <2>1 DEF Base, Typed
  <2> QED
    BY <2>1, <2>2 DEF KeyInv, Base, Typed
<1> QED
  BY <1>1, <1>2, <1>3, <1>4, Steps DEF Base

(* A removal of the old key that is said to have succeeded left no trace   *)
(* of it, unless an earlier one failed (remove_old_ice_key).               *)
THEOREM OldKeyTracelessHolds == Spec => []OldKeyTraceless
<1>1. Init => KeyInv
  <2> SUFFICES ASSUME Init PROVE KeyInv
    OBVIOUS
  <2>1. disk.oldKey = disk.oldPub /\ disk.oldPub = disk.oldLine
    BY DEF Init
  <2> QED
    BY <2>1 DEF Init, KeyInv
<1>2. Base /\ KeyInv /\ [Next]_vars => KeyInv'
  BY StepKey
<1>3. KeyInv => OldKeyTraceless
  BY DEF KeyInv, OldKeyTraceless
<1> QED
  BY <1>1, <1>2, <1>3, BaseHolds, PTL DEF Spec

-----------------------------------------------------------------------------
(* What may be in home/ice after a command or a kill: half a package, or   *)
(* what the command removes, copies or restores.                           *)
LEMMA IceWrites ==
  ASSUME Typed, Command \/ Kill
  PROVE  \/ disk'.ice = disk.ice
         \/ pc = "rm_ice" /\ ~Whole(disk'.ice)
         \/ /\ pc = "copy_ice"
            /\ disk'.ice = [version |-> package, whole |-> TRUE] \/ ~Whole(disk'.ice)
         \/ pc = "restore_ice" /\ (disk'.ice = disk.savedIce \/ ~Whole(disk'.ice))
<1> disk \in Disk /\ Effects
  BY CommandEffects, KillEffects DEF Typed
<1>1. CASE pc = "rm_ice"
  <2>1. disk' \in {disk, [disk EXCEPT !.ice = None]} \cup Midway
    BY <1>1, Ats, KindWrites, KillEffects DEF Command, RemoveIce
  <2>2. disk' \in Midway => ~Whole(disk'.ice)
    BY <1>1 DEF Midway, Torn, Whole, Disk
  <2> QED
    BY <1>1, <2>1, <2>2 DEF Whole, Disk
<1>2. CASE pc = "copy_ice"
  <2>1. disk' \in {disk, [disk EXCEPT !.ice = [version |-> package, whole |-> TRUE]]} \cup Midway
    BY <1>2, Ats, KindWrites, KillEffects DEF Command, CopyIce
  <2>2. disk' \in Midway => ~Whole(disk'.ice)
    BY <1>2 DEF Midway, Torn, Whole, Disk
  <2> QED
    BY <1>2, <2>1, <2>2 DEF Disk
<1>3. CASE pc = "restore_ice"
  <2>1. disk' \in {disk, [disk EXCEPT !.ice = disk.savedIce]} \cup Midway
    BY <1>3, Ats, KindWrites, KillEffects DEF Command, RestoreIce
  <2>2. disk' \in Midway => ~Whole(disk'.ice)
    BY <1>3 DEF Midway, Torn, Whole, Disk
  <2> QED
    BY <1>3, <2>1, <2>2 DEF Disk
<1> QED
  BY <1>1, <1>2, <1>3 DEF Effects

(* What may be in the back-up: half a package, or what is installed.       *)
LEMMA SavedWrites ==
  ASSUME Typed, Command \/ Kill
  PROVE  \/ disk'.savedIce = disk.savedIce
         \/ pc = "save_ice" /\ (disk'.savedIce = disk.ice \/ ~Whole(disk'.savedIce))
<1> disk \in Disk /\ Effects
  BY CommandEffects, KillEffects DEF Typed
<1>1. CASE pc = "save_ice"
  <2>1. disk' \in {disk, [disk EXCEPT !.dir = TRUE, !.savedIce = disk.ice]} \cup Midway
    BY <1>1, Ats, KindWrites, KillEffects DEF Command, SaveIce
  <2>2. ASSUME disk' \in Midway PROVE ~Whole(disk'.savedIce)
    <3>1. PICK p \in Torn(disk.savedIce, disk.ice) :
                 disk' = [disk EXCEPT !.dir = TRUE, !.savedIce = p]
      BY <1>1, <2>2 DEF Midway
    <3> QED
      BY <3>1 DEF Torn, Whole, Disk
  <2> QED
    BY <1>1, <2>1, <2>2 DEF Disk
<1> QED
  BY <1>1 DEF Effects

(* What an installation has to know before it removes the package at hand: *)
(* there is a whole back-up of it, or one that passes for it.              *)
Versioned(p) == Whole(p) => p.version # None

CopyInv ==
  /\ Installing => package \in Versions
  /\ Versioned(disk.ice) /\ Versioned(disk.savedIce)
  /\ Installing /\ pc \in {"rm_icerc", "copy_ice"} => disk.ice = None
  /\ Installing /\ pc = "rm_ice" /\ Whole(disk.ice) /\ ~slipped =>
       Whole(disk.savedIce) \/ (disk.savedIce # None /\ Same)
  /\ pc = "save_icerc" /\ ~slipped => disk.savedIce = disk.ice
  /\ pc = "add_icerc" => Same

(* Once an action is over the next one does not install.                   *)
LEMMA NextInstallsNothing ==
  ASSUME Typed, Ordered, todo # <<>>, todo' = Tail(todo)
  PROVE  ~Installing'
<1>1. ASSUME todo' # <<>> PROVE Action' # "INSTALLATION"
  <2> DEFINE n == Len(Tail(todo))
  <2>1. Tail(todo) \in Seq(Actions) /\ n \in Nat \ {0}
    BY <1>1 DEF Typed
  <2>2. \A j \in 1..n : Follows(Action, Tail(todo)[j])
    BY OrderedTail
  <2>3. Action' = Tail(todo)[1]
    BY <1>1, <2>1 DEF Action
  <2> HIDE DEF n
  <2>4. 1 \in 1..n
    BY <2>1
  <2>5. Follows(Action, Tail(todo)[1])
    BY <2>2, <2>4
  <2> QED
    BY <2>3, <2>5 DEF Follows, Movers
<1> QED
  BY <1>1 DEF Installing

(* A command goes on with the action, or the next one does not install.    *)
LEMMA InstallingGoesOn ==
  ASSUME Base, Command, Installing'
  PROVE  Installing /\ todo' = todo
<1>1. CASE todo' = todo
  BY <1>1 DEF Installing, Action
<1>2. CASE (todo # <<>> /\ todo' = Tail(todo)) \/ todo' = <<>>
  BY <1>2, NextInstallsNothing DEF Base, Installing
<1> QED
  BY <1>1, <1>2, CommandShape DEF Base, Shape, Succeeds, Fails

(* A command keeps it.                                                     *)
LEMMA CommandCopy ==
  ASSUME Base, CopyInv, Command
  PROVE  CopyInv'
<1> /\ Typed /\ Goes /\ Effects /\ slipped' \in {slipped, TRUE} /\ todo # <<>>
    /\ disk \in Disk /\ package' = package
  BY CommandGoes, CommandEffects, CommandShape DEF Base, Shape, Typed, frame
<1>0. slipped' = FALSE => slipped = FALSE
  BY DEF Typed
<1>1. ASSUME Installing' PROVE package' \in Versions
  BY <1>1, InstallingGoesOn DEF CopyInv
<1>2. Versioned(disk'.ice) /\ Versioned(disk'.savedIce)
  <2>1. pc = "copy_ice" => package # None
    <3>1. pc = "copy_ice" => Installing
      BY CommandTells DEF Installing
    <3> QED
      BY <3>1, NoneIsNone DEF CopyInv
  <2> QED
    BY <2>1, IceWrites, SavedWrites DEF CopyInv, Versioned, Whole
<1>3. ASSUME Installing', pc' \in {"rm_icerc", "copy_ice"} PROVE disk'.ice = None
  <2>1. Installing /\ pc \in {"rm_ice", "rm_icerc"} /\ pc' # "next"
    BY <1>3, InstallingGoesOn DEF Goes
  <2>2. CASE pc = "rm_ice"
    <3>1. disk' = [disk EXCEPT !.ice = None]
      BY <1>3, <2>2, Ats DEF Command, RemoveIce, Checked, Fails
    <3> QED
      BY <3>1 DEF Disk
  <2> QED
    BY <2>1, <2>2 DEF CopyInv, Effects
<1>4. ASSUME Installing', pc' = "rm_ice", Whole(disk'.ice), ~slipped'
      PROVE  \/ Whole(disk'.savedIce)
             \/ disk'.savedIce # None /\ VersionOf(disk'.savedIce) = VersionOf(disk'.ice)
  <2>1. Installing /\ pc \in {"look", "save_icerc", "add_icerc"} /\ ~slipped
    BY <1>0, <1>4, InstallingGoesOn, CommandTells DEF Goes, Installing, Typed
  <2>2. disk'.ice = disk.ice /\ disk'.savedIce = disk.savedIce
    BY <2>1 DEF Effects
  <2>3. CASE pc = "look"
    <3>1. LookAtVersions
      BY <2>3, Ats DEF Command
    <3>2. VersionOf(disk.ice) = None
      BY <1>4, <3>1 DEF LookAtVersions, After, Fails
    <3> QED
      BY <1>4, <2>2, <3>2 DEF CopyInv, Versioned, VersionOf, Whole
  <2>4. CASE pc = "save_icerc"
    BY <1>4, <2>1, <2>2, <2>4 DEF CopyInv
  <2>5. CASE pc = "add_icerc"
    BY <2>2, <2>5 DEF CopyInv, Same, Base, BeforeTyped, VersionOf
  <2> QED
    BY <2>1, <2>3, <2>4, <2>5
<1>5. ASSUME pc' = "save_icerc", ~slipped' PROVE disk'.savedIce = disk'.ice
  <2>1. pc = "save_ice"
    BY <1>5 DEF Goes
  <2>2. disk' = [disk EXCEPT !.dir = TRUE, !.savedIce = disk.ice]
    BY <1>5, <2>1, Ats DEF Command, SaveIce, Unchecked
  <2> QED
    BY <2>2 DEF Disk
<1>6. ASSUME pc' = "add_icerc" PROVE VersionOf(disk'.savedIce) = VersionOf(disk'.ice)
  <2>1. pc = "save_cron"
    BY <1>6 DEF Goes
  <2>2. Same
    BY <1>6, <2>1, Ats DEF Command, SaveCron, Unchecked, Misled, After, Succeeds
  <2> QED
    BY <2>1, <2>2 DEF Effects, Same
<1> QED
  BY <1>1, <1>2, <1>3, <1>4, <1>5, <1>6 DEF CopyInv, Same, Versioned, Whole, VersionOf

(* A step keeps it.                                                        *)
LEMMA StepCopy ==
  ASSUME Base, CopyInv, [Next]_vars
  PROVE  CopyInv'
<1>1. CASE UNCHANGED vars
  BY <1>1, Stuttering DEF CopyInv, Installing, Action, Versioned, Whole, Same, VersionOf
<1>2. CASE Kill
  <2>1. pc' = "idle" /\ todo' = <<>>
    BY <1>2, KillEffects DEF Base
  <2>2. pc = "copy_ice" => Installing /\ package # None
    <3>1. pc = "copy_ice" => Installing
      BY <1>2, KillEffects, CommandTells DEF Installing, Base
    <3> QED
      BY <3>1, NoneIsNone DEF CopyInv
  <2>3. Versioned(disk'.ice) /\ Versioned(disk'.savedIce)
    BY <1>2, <2>2, IceWrites, SavedWrites DEF CopyInv, Versioned, Whole, Base
  <2> QED
    BY <2>1, <2>3 DEF CopyInv, Installing, Versioned, Whole
<1>3. CASE NextAction
  <2>1. disk' = disk /\ package' = package
    BY <1>3 DEF NextAction
  <2>2. Installing' => Installing /\ todo' = todo
    BY <1>3, NextInstallsNothing DEF NextAction, Installing, Action, Base
  <2>3. /\ pc' \notin {"rm_icerc", "copy_ice", "save_icerc", "add_icerc"}
        /\ pc' = "rm_ice" => todo' = todo /\ Action = "ROLLBACK"
    BY <1>3, OthersGo DEF Base
  <2>4. pc' = "rm_ice" => ~Installing'
    BY <2>3 DEF Installing, Action
  <2> QED
    BY <2>1, <2>2, <2>3, <2>4 DEF CopyInv, Versioned, Whole
<1>4. ASSUME NEW a \in DOMAIN ActionsLists, NEW new \in Versions \cup {None}, NEW ok \in BOOLEAN,
             Start(a, new, ok), a \in {"install", "noFileTracker"} => new \in Versions
      PROVE  CopyInv'
  <2>1. disk' = disk /\ package' = new /\ pc' \in {"idle", "next"} /\ todo = <<>>
    BY <1>4, IdleStops DEF Start, Base
  <2>2. Installing' => a \in {"install", "noFileTracker"}
    <3>1. todo' # <<>> => Action' = ActionsLists[a][1]
      BY <1>4, <2>1, Installs DEF Start, Action
    <3>2. a \notin {"install", "noFileTracker"} => ActionsLists[a][1] # "INSTALLATION"
      <4>1. a \in {"install", "noFileTracker", "uninstall", "rollback", "recreateIceKey"}
        BY DEF ActionsLists
      <4>2. /\ ActionsLists["uninstall"][1] = "UNINSTALLATION"
            /\ ActionsLists["rollback"][1] = "ROLLBACK"
            /\ ActionsLists["recreateIceKey"][1] = "KEY_RECREATION"
        BY DEF ActionsLists
      <4> QED
        BY <4>1, <4>2
    <3> QED
      BY <3>1, <3>2 DEF Installing
  <2> QED
    BY <1>4, <2>1, <2>2 DEF CopyInv, Versioned, Whole
<1> QED
  BY <1>1, <1>2, <1>3, <1>4, CommandCopy, Steps DEF Base

(* That is always so.                                                      *)
THEOREM CopyInvHolds == Spec => []CopyInv
<1>1. Init => CopyInv
  <2> SUFFICES ASSUME Init PROVE CopyInv
    OBVIOUS
  <2>1. disk.ice = None /\ disk.savedIce = None
    BY DEF Init
  <2> QED
    BY <2>1 DEF Init, CopyInv, Installing, Versioned, Whole
<1>2. Base /\ CopyInv /\ [Next]_vars => CopyInv'
  BY StepCopy
<1> QED
  BY <1>1, <1>2, BaseHolds, PTL DEF Spec

(* An installation never gives up the last whole copy of a package, but    *)
(* where half a package gets into the back-up or passes for it, however    *)
(* many runs and faults (back_up_previous_version, delete_ice_files).      *)
THEOREM LastCopyKeptHolds == Spec => LastCopyKept
<1> DEFINE A == WholeCopy /\ ~WholeCopy' =>
                  \/ Action \in {"UNINSTALLATION", "ROLLBACK"}
                  \/ pc = "save_ice" /\ ~Whole(disk.ice)
                  \/ disk.savedIce # None /\ Same
                  \/ slipped
<1>1. Base /\ CopyInv /\ [Next]_vars => [A]_vars
  <2> SUFFICES ASSUME Base, CopyInv, Next, WholeCopy, ~WholeCopy',
                      Action \notin {"UNINSTALLATION", "ROLLBACK"},
                      ~(pc = "save_ice" /\ ~Whole(disk.ice)),
                      ~(disk.savedIce # None /\ Same), ~slipped
               PROVE  FALSE
    OBVIOUS
  <2>1. Command \/ Kill
    <3>1. disk' # disk
      BY DEF WholeCopy, Whole
    <3> QED
      BY <3>1, Steps, OthersKeepDisk DEF Base
  <2>2. pc # "next" => todo # <<>>
    BY <2>1, CommandShape, KillEffects DEF Base, Shape
  <2>3. CASE pc = "save_ice"
    <3>1. Effects
      BY <2>1, CommandEffects, KillEffects DEF Base
    <3> QED
      BY <2>3, <3>1 DEF Effects, WholeCopy, Whole
  <2>4. CASE pc # "save_ice"
    <3>1. disk'.savedIce = disk.savedIce
      BY <2>1, <2>4, SavedWrites DEF Base
    <3>2. Whole(disk.ice) /\ ~Whole(disk.savedIce)
      <4>1. CASE Whole(disk.savedIce)
        BY <3>1, <4>1 DEF WholeCopy, Whole
      <4> QED
        BY <4>1 DEF WholeCopy
    <3>3. disk'.ice # disk.ice
      BY <3>2 DEF WholeCopy, Whole
    <3>4. pc \in {"rm_ice", "copy_ice", "restore_ice"}
      BY <2>1, <3>3, IceWrites DEF Base
    <3>5. Installing
      BY <2>2, <3>4, CommandTells DEF Base, Installing
    <3>6. pc \in {"rm_ice", "copy_ice"}
      BY <2>2, <3>4, <3>5, CommandTells DEF Base, Installing
    <3>7. CASE pc = "copy_ice"
      BY <3>2, <3>5, <3>7 DEF CopyInv, Whole
    <3>8. CASE pc = "rm_ice"
      BY <3>2, <3>5, <3>8 DEF CopyInv
    <3> QED
      BY <3>6, <3>7, <3>8
  <2> QED
    BY <2>3, <2>4
<1> QED
  BY <1>1, BaseHolds, CopyInvHolds, PTL DEF Spec, LastCopyKept

-----------------------------------------------------------------------------
(* The back-up is that of the last time it was complete, from the daily    *)
(* job on, and a rollback brings it back part by part.                     *)
Saved ==
  /\ disk.savedIce # None /\ VersionOf(disk.savedIce) = before.version
  /\ before.whole => Whole(disk.savedIce)
  /\ disk.savedCron = before.cron

Restored ==
  /\ VersionOf(disk.ice) = before.version
  /\ before.whole => Whole(disk.ice)

RollInv ==
  ~slipped =>
    /\ before # None => Saved
    /\ pc = "save_cron" => disk.dir
    /\ pc \in {"save_ice", "save_icerc", "add_icerc"} => disk.savedCron = disk.cron
    /\ before # None /\ pc \in {"restore_ice", "restore_icerc"} => disk.cron = before.cron
    /\ before # None /\ pc = "restore_icerc" => Restored
    /\ before # None /\ pc \in {"unload", "load"} /\ todo # <<>> /\ Action = "ROLLBACK" =>
         Restored /\ disk.cron = before.cron
    /\ before # None /\ "ROLLBACK" \in done => Restored /\ disk.cron = before.cron

(* What is saved, or restored, stays so while nobody writes it.            *)
LEMMA SavedStays ==
  ASSUME before' = before
  PROVE  /\ /\ disk'.savedIce = disk.savedIce /\ disk'.savedCron = disk.savedCron
            /\ Saved
            => Saved'
         /\ disk'.ice = disk.ice /\ Restored => Restored'
BY DEF Saved, Restored, VersionOf, Whole

(* A command brings it on.                                                 *)
LEMMA CommandRoll ==
  ASSUME Base, CopyInv, RollInv, Command
  PROVE  RollInv'
<1> SUFFICES ASSUME ~slipped' PROVE RollInv'
  BY DEF RollInv
<1> /\ Typed /\ Goes /\ Effects /\ Ends /\ todo # <<>> /\ disk \in Disk
  BY CommandGoes, CommandEffects, CommandShape DEF Base, Shape, Typed
<1>0. ~slipped
  BY CommandShape DEF Base, Shape
<1>1. before' # None => Saved'
  <2>1. CASE before' = before
    <3>1. ASSUME before # None PROVE disk'.savedIce = disk.savedIce /\ disk'.savedCron = disk.savedCron
      BY <3>1 DEF Effects, Base, BeforeTyped
    <3> QED
      BY <1>0, <2>1, <3>1, SavedStays DEF RollInv
  <2>2. CASE pc = "save_icerc" /\ BackedUp
    <3>1. disk'.savedIce = disk.savedIce /\ disk'.savedCron = disk.savedCron
      BY <2>2 DEF Effects
    <3>2. disk.savedIce = disk.ice /\ VersionOf(disk.ice) # None /\ disk.savedCron = disk.cron
      BY <1>0, <2>2 DEF CopyInv, RollInv, Base, BeforeTyped
    <3> QED
      BY <2>2, <3>1, <3>2 DEF BackedUp, Saved, VersionOf, Whole
  <2>3. CASE pc = "add_icerc" /\ BackedUp
    <3>1. disk'.savedIce = disk.savedIce /\ disk'.savedCron = disk.savedCron
      BY <2>3 DEF Effects
    <3>2. Same /\ VersionOf(disk.ice) # None /\ disk.savedCron = disk.cron
      BY <1>0, <2>3 DEF CopyInv, RollInv, Base, BeforeTyped
    <3> QED
      BY <2>3, <3>1, <3>2 DEF BackedUp, Saved, Same, VersionOf, Whole
  <2> QED
    BY <2>1, <2>2, <2>3, BeforeWrites
<1>2. ASSUME pc' = "save_cron" PROVE disk'.dir
  <2>1. CASE pc = "look"
    BY <1>2, <2>1, Ats DEF Command, LookAtVersions, After, Fails
  <2>2. CASE pc = "mkdir"
    <3>1. disk' = [disk EXCEPT !.dir = TRUE]
      BY <2>2, Ats DEF Command, MakeBackUpDir, Unchecked
    <3> QED
      BY <3>1 DEF Disk
  <2> QED
    BY <1>2, <2>1, <2>2 DEF Goes
<1>3. ASSUME pc' \in {"save_ice", "save_icerc", "add_icerc"} PROVE disk'.savedCron = disk'.cron
  <2>1. CASE pc = "save_cron"
    <3>1. disk' = [disk EXCEPT !.savedCron = disk.cron]
      BY <1>0, <2>1, Ats DEF Command, SaveCron, Unchecked, Misled, RollInv
    <3> QED
      BY <3>1 DEF Disk
  <2>2. CASE pc = "save_ice"
    BY <1>0, <2>2 DEF Effects, RollInv
  <2> QED
    BY <1>3, <2>1, <2>2 DEF Goes
<1>4. ASSUME before' # None, pc' \in {"restore_ice", "restore_icerc"} PROVE disk'.cron = before'.cron
  <2>1. pc \in {"restore_cron", "restore_ice"} /\ before' = before
    BY <1>4, BeforeWrites DEF Goes
  <2>2. CASE pc = "restore_cron"
    <3>1. disk' = [disk EXCEPT !.cron = disk.savedCron]
      BY <2>2, Ats DEF Command, RestoreCron, Unchecked
    <3> QED
      BY <1>0, <1>4, <2>1, <3>1 DEF Disk, RollInv, Saved
  <2>3. CASE pc = "restore_ice"
    BY <1>0, <1>4, <2>1, <2>3 DEF Effects, RollInv
  <2> QED
    BY <2>1, <2>2, <2>3
<1>5. ASSUME before' # None, pc' = "restore_icerc" PROVE Restored'
  <2>1. pc = "restore_ice" /\ before' = before
    BY <1>5, BeforeWrites DEF Goes
  <2>2. Saved
    BY <1>0, <1>5, <2>1 DEF RollInv
  <2>3. disk' = [disk EXCEPT !.ice = disk.savedIce]
    BY <2>1, <2>2, Ats DEF Command, RestoreIce, Unchecked, Saved
  <2>4. disk'.ice = disk.savedIce
    BY <2>3 DEF Disk
  <2> QED
    BY <2>1, <2>2, <2>4 DEF Saved, Restored, VersionOf, Whole
<1>6. ASSUME before' # None, pc' \in {"unload", "load"}, Action' = "ROLLBACK"
      PROVE  Restored' /\ disk'.cron = before'.cron
  <2>1. pc \in {"restore_icerc", "unload"} /\ before' = before /\ pc' # "next"
    BY <1>6, BeforeWrites DEF Goes
  <2>2. todo' = todo
    BY <2>1, CommandShape DEF Base, Shape, Succeeds, Fails
  <2>3. Action' = Action
    BY <2>2 DEF Action
  <2>4. disk'.ice = disk.ice /\ disk'.cron = disk.cron
    BY <2>1 DEF Effects
  <2> QED
    BY <1>0, <1>6, <2>1, <2>3, <2>4, SavedStays DEF RollInv
<1>7. ASSUME before' # None, "ROLLBACK" \in done' PROVE Restored' /\ disk'.cron = before'.cron
  <2>1. CASE "ROLLBACK" \in done
    <3>1. disk'.ice = disk.ice /\ disk'.cron = disk.cron
      BY <2>1, DoneKeeps
    <3>2. before' = before
      <4>1. Action = "REMOVE_OLD_ICE_KEY"
        BY <2>1 DEF Base, Typed, Ordered, Action, Follows
      <4> QED
        BY <4>1, BeforeWrites, CommandTells
    <3> QED
      BY <1>0, <1>7, <2>1, <3>1, <3>2, SavedStays DEF RollInv
  <2>2. CASE "ROLLBACK" \notin done
    <3>1. Action = "ROLLBACK" /\ done' # done
      BY <1>7, <2>2, GetsDone
    <3>2. pc = "load"
      BY <3>1, CommandTells DEF Ends
    <3>3. disk'.ice = disk.ice /\ disk'.cron = disk.cron /\ before' = before
      BY <3>2, BeforeWrites DEF Effects
    <3> QED
      BY <1>0, <1>7, <3>1, <3>2, <3>3, SavedStays DEF RollInv
  <2> QED
    BY <2>1, <2>2
<1> QED
  BY <1>1, <1>2, <1>3, <1>4, <1>5, <1>6, <1>7 DEF RollInv

(* A step brings it on.                                                    *)
LEMMA StepRoll ==
  ASSUME Base, CopyInv, RollInv, [Next]_vars
  PROVE  RollInv'
<1>1. CASE UNCHANGED vars
  BY <1>1, Stuttering DEF RollInv, Saved, Restored, VersionOf, Whole, Action
<1>2. CASE Kill
  <2> SUFFICES ASSUME ~slipped' PROVE RollInv'
    BY DEF RollInv
  <2>0. ~slipped
    BY <1>2, KillEffects DEF Base
  <2>1. /\ before' = before /\ pc' = "idle" /\ done' = done /\ Effects
        /\ pc # "next" => todo # <<>>
    BY <1>2, KillEffects DEF Base
  <2>2. ASSUME before # None PROVE disk'.savedIce = disk.savedIce /\ disk'.savedCron = disk.savedCron
    BY <2>1, <2>2 DEF Effects, Base, BeforeTyped
  <2>3. "ROLLBACK" \in done => disk'.ice = disk.ice /\ disk'.cron = disk.cron
    BY <1>2, DoneKeeps
  <2> QED
    BY <2>0, <2>1, <2>2, <2>3, SavedStays DEF RollInv
<1>3. CASE \/ \E a \in DOMAIN ActionsLists, new \in Versions \cup {None}, ok \in BOOLEAN :
                Start(a, new, ok)
           \/ NextAction
  <2> SUFFICES ASSUME ~slipped' PROVE RollInv'
    BY DEF RollInv
  <2>1. /\ disk' = disk /\ before' = before /\ slipped' \in {slipped, TRUE}
        /\ done' \in {done, {}}
    BY <1>3, OthersKeepDisk DEF Base
  <2>2. pc' \in {"unload", "load"} => todo' = todo /\ Action # "ROLLBACK"
    <3>1. \A a \in Actions : FirstCommand[a] \in {"unload", "load"} => a # "ROLLBACK"
      BY AllActions DEF FirstCommand
    <3> QED
      BY <1>3, <3>1, OthersKeepDisk, CommandTells DEF Base
  <2>3. pc' \in {"unload", "load"} => Action' # "ROLLBACK"
    BY <2>2 DEF Action
  <2>4. pc' \notin {"save_cron", "save_ice", "save_icerc", "add_icerc", "restore_ice",
                   "restore_icerc"}
    BY <1>3, OthersGo DEF Base
  <2>5. (Saved => Saved') /\ (Restored => Restored')
    BY <2>1, SavedStays
  <2>6. ~slipped
    BY <2>1
  <2> QED
    BY <2>1, <2>3, <2>4, <2>5, <2>6 DEF RollInv
<1> QED
  BY <1>1, <1>2, <1>3, CommandRoll, Steps DEF Base

(* A rollback that is said to have succeeded brought back what the last    *)
(* complete back-up was made of, for all versions and however many runs    *)
(* and faults lie in between (back_up_previous_version,                    *)
(* restore_from_backup).                                                   *)
THEOREM RollbackRestoresHolds == Spec => []RollbackRestores
<1>1. Init => RollInv
  <2> SUFFICES ASSUME Init PROVE RollInv
    OBVIOUS
  <2>1. before = None /\ pc = "idle"
    BY DEF Init
  <2> QED
    BY <2>1 DEF RollInv
<1>2. Base /\ CopyInv /\ RollInv /\ [Next]_vars => RollInv'
  BY StepRoll
<1>3. RollInv => RollbackRestores
  BY DEF RollInv, RollbackRestores, Restored
<1> QED
  BY <1>1, <1>2, <1>3, BaseHolds, CopyInvHolds, PTL DEF Spec

-----------------------------------------------------------------------------
(* Half a package, here or in the back-up, comes of a run that moved        *)
(* packages and failed or was killed, or of a command that nobody looks at. *)
Intact(p) == p = None \/ Whole(p)

Untroubled == failed \cap Movers = {} /\ ~slipped

IntactInv == Untroubled => Intact(disk.ice) /\ Intact(disk.savedIce)

(* A trouble is not forgotten.                                             *)
LEMMA TroubleStays ==
  ASSUME Base, Command \/ Kill, Untroubled'
  PROVE  Untroubled
<1>1. failed \subseteq failed'
  BY CommandShape DEF Base, Shape, Succeeds, Fails, Kill
<1>2. slipped' \in {slipped, TRUE}
  BY CommandShape, KillEffects DEF Base, Shape
<1>3. ~slipped
  BY <1>2 DEF Untroubled
<1>4. failed \cap Movers = {}
  BY <1>1 DEF Untroubled
<1> QED
  BY <1>3, <1>4 DEF Untroubled

(* A command that leaves what it moves half-way is one that fails, or one  *)
(* nobody looks at.                                                        *)
LEMMA HalfwayIsTrouble ==
  ASSUME Typed, Command, pc \in {"rm_ice", "copy_ice", "restore_ice", "save_ice"}, Untroubled'
  PROVE  \/ disk' = disk
         \/ pc = "rm_ice" /\ disk' = [disk EXCEPT !.ice = None]
         \/ pc = "copy_ice" /\ disk' = [disk EXCEPT !.ice = [version |-> package, whole |-> TRUE]]
         \/ pc = "restore_ice" /\ disk' = [disk EXCEPT !.ice = disk.savedIce]
         \/ pc = "save_ice" /\ disk' = [disk EXCEPT !.dir = TRUE, !.savedIce = disk.ice]
<1>1. todo # <<>> /\ Action \in Movers
  BY CommandShape, CommandTells DEF Shape, Movers
<1>2. ~Fails /\ ~slipped'
  BY <1>1 DEF Fails, Untroubled
<1>3. CASE pc = "rm_ice"
  BY <1>2, <1>3, Ats DEF Command, RemoveIce, Checked
<1>4. CASE pc = "copy_ice"
  BY <1>2, <1>4, Ats DEF Command, CopyIce, Checked
<1>5. CASE pc = "restore_ice"
  BY <1>2, <1>5, Ats DEF Command, RestoreIce, Unchecked
<1>6. CASE pc = "save_ice"
  BY <1>2, <1>6, Ats DEF Command, SaveIce, Unchecked
<1> QED
  BY <1>3, <1>4, <1>5, <1>6

(* A step keeps it.                                                        *)
LEMMA StepIntact ==
  ASSUME Base, IntactInv, [Next]_vars
  PROVE  IntactInv'
<1> SUFFICES ASSUME Untroubled' PROVE Intact(disk.ice)' /\ Intact(disk.savedIce)'
  BY DEF IntactInv
<1> Typed /\ disk \in Disk
  BY DEF Base, Typed
<1>1. CASE disk' = disk /\ Untroubled
  BY <1>1 DEF IntactInv, Intact, Whole
<1>2. CASE UNCHANGED vars
  <2>1. Untroubled
    BY <1>2, Stuttering DEF Untroubled
  <2> QED
    BY <1>1, <1>2, <2>1, Stuttering
<1>3. CASE Command
  <2>1. Untroubled /\ Effects
    BY <1>3, TroubleStays, CommandEffects
  <2>2. CASE pc \notin {"rm_ice", "copy_ice", "restore_ice", "save_ice"}
    BY <2>1, <2>2 DEF Effects, IntactInv, Intact, Whole
  <2>3. CASE pc \in {"rm_ice", "copy_ice", "restore_ice", "save_ice"}
    <3>1. \/ disk' = disk
          \/ disk'.savedIce = disk.savedIce
             /\ disk'.ice \in {None, [version |-> package, whole |-> TRUE], disk.savedIce}
          \/ disk'.ice = disk.ice /\ disk'.savedIce = disk.ice
      BY <1>3, <2>3, HalfwayIsTrouble DEF Disk
    <3> QED
      BY <2>1, <3>1 DEF IntactInv, Intact, Whole
  <2> QED
    BY <2>2, <2>3
<1>4. CASE Kill
  <2>1. Untroubled /\ Effects /\ (pc # "next" => todo # <<>>)
    BY <1>4, TroubleStays, KillEffects
  <2>2. pc # "next" => Action \notin Movers
    BY <1>4 DEF Kill, Untroubled
  <2>3. pc \notin {"rm_ice", "copy_ice", "restore_ice", "save_ice"}
    BY <2>1, <2>2, CommandTells DEF Movers
  <2> QED
    BY <2>1, <2>3 DEF Effects, IntactInv, Intact, Whole
<1>5. CASE \/ \E a \in DOMAIN ActionsLists, new \in Versions \cup {None}, ok \in BOOLEAN :
                Start(a, new, ok)
           \/ NextAction
  <2>1. disk' = disk /\ failed' = failed /\ slipped' \in {slipped, TRUE}
    BY <1>5, OthersKeepDisk
  <2>2. ~slipped
    BY <2>1 DEF Untroubled
  <2>3. failed \cap Movers = {}
    BY <2>1 DEF Untroubled
  <2> QED
    BY <1>1, <2>1, <2>2, <2>3 DEF Untroubled
<1> QED
  BY <1>2, <1>3, <1>4, <1>5, Steps

(* That is always so.                                                      *)
THEOREM IntactInvHolds == Spec => []IntactInv
<1>1. Init => IntactInv
  <2> SUFFICES ASSUME Init PROVE IntactInv
    OBVIOUS
  <2>1. disk.ice = None /\ disk.savedIce = None
    BY DEF Init
  <2> QED
    BY <2>1 DEF IntactInv, Intact
<1>2. Base /\ IntactInv /\ [Next]_vars => IntactInv'
  BY StepIntact
<1> QED
  BY <1>1, <1>2, BaseHolds, PTL DEF Spec

(* "No need to re-backup" is right of a version that is saved already as   *)
(* long as no installation, uninstallation or rollback failed or was       *)
(* killed before: only half a package that one of them left can pass for   *)
(* the back-up of a whole one (back_up_previous_version).                  *)
THEOREM SparedBackUpIsWholeHolds ==
  Spec => [](failed \cap Movers = {} => SparedBackUpIsWhole)
<1>1. ASSUME CopyInv, IntactInv, failed \cap Movers = {}, At("add_icerc"), Whole(disk.ice), ~slipped
      PROVE  Whole(disk.savedIce)
  <2>1. Same /\ disk.ice.version # None
    BY <1>1 DEF CopyInv, Versioned, At
  <2>2. disk.savedIce # None
    BY <1>1, <2>1 DEF Same, VersionOf, Whole
  <2> QED
    BY <1>1, <2>2 DEF IntactInv, Untroubled, Intact
<1>2. CopyInv /\ IntactInv => (failed \cap Movers = {} => SparedBackUpIsWhole)
  BY <1>1 DEF SparedBackUpIsWhole
<1> QED
  BY <1>2, CopyInvHolds, IntactInvHolds, PTL

(* LastCopyKept without its exceptions for half a package.                 *)
CopyKeptUntroubled ==
  [][WholeCopy /\ ~WholeCopy' /\ Untroubled => Action \in {"UNINSTALLATION", "ROLLBACK"}]_vars

(* The first installation that fails, or is killed, does not give up the   *)
(* last whole copy of a package: for that an earlier one, an               *)
(* uninstallation or a rollback has to have failed before it               *)
(* (back_up_previous_version, delete_ice_files).                           *)
THEOREM CopyKeptUntroubledHolds == Spec => CopyKeptUntroubled
<1> DEFINE A == WholeCopy /\ ~WholeCopy' =>
                  \/ Action \in {"UNINSTALLATION", "ROLLBACK"}
                  \/ pc = "save_ice" /\ ~Whole(disk.ice)
                  \/ disk.savedIce # None /\ Same
                  \/ slipped
           B == WholeCopy /\ ~WholeCopy' /\ Untroubled => Action \in {"UNINSTALLATION", "ROLLBACK"}
<1>1. Base /\ IntactInv /\ [Next]_vars /\ [A]_vars => [B]_vars
  <2> SUFFICES ASSUME Base, IntactInv, Next, A, WholeCopy, ~WholeCopy', Untroubled,
                      Action \notin {"UNINSTALLATION", "ROLLBACK"}
               PROVE  FALSE
    OBVIOUS
  <2>1. Intact(disk.ice) /\ Intact(disk.savedIce) /\ ~slipped
    BY DEF IntactInv, Untroubled
  <2>2. Command \/ Kill
    <3>1. disk' # disk
      BY DEF WholeCopy, Whole
    <3> QED
      BY <3>1, Steps, OthersKeepDisk DEF Base
  <2>3. CASE pc = "save_ice"
    <3>1. Whole(disk.ice)
      BY <2>1, <2>3 DEF Base, BeforeTyped, VersionOf, Intact
    <3>2. disk'.ice = disk.ice
      BY <2>2, <2>3, IceWrites DEF Base
    <3> QED
      BY <3>1, <3>2 DEF WholeCopy, Whole
  <2>4. CASE pc # "save_ice"
    <3>1. Whole(disk.savedIce)
      BY <2>1, <2>4 DEF Intact
    <3>2. disk'.savedIce = disk.savedIce
      BY <2>2, <2>4, SavedWrites DEF Base
    <3> QED
      BY <3>1, <3>2 DEF WholeCopy, Whole
  <2> QED
    BY <2>3, <2>4
<1> QED
  BY <1>1, BaseHolds, IntactInvHolds, LastCopyKeptHolds, PTL DEF Spec, LastCopyKept, CopyKeptUntroubled
=============================================================================
