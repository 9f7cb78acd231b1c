----------------------------- MODULE FileTracker -----------------------------
(***************************************************************************)
(* The file tracker: a daily run compares configuration files, folders,    *)
(* Kubernetes resources and outputs of commands with the snapshots kept on *)
(* the hosts, adds what changed to diff.json, and takes new snapshots of   *)
(* what changed.  What it tracks changes at any time, any command may fail *)
(* and the run may be killed between two steps; the snapshots, diff.json   *)
(* and the lock file stay on disk.                                         *)
(*                                                                         *)
(* Every item has one host; the entries of a folder, or of a command       *)
(* listed twice, count as one change.  Left out: the exemption of          *)
(* permissions after an upgrade from a build before 243, the masking of    *)
(* secrets, the log and its encryption key.                                *)
(***************************************************************************)
EXTENDS Naturals, Sequences, FiniteSets

CONSTANTS
  Hosts,
  Items,       \* what is tracked: a file, folder, resource or command on a host
  HostOf,      \* the host of an item; resources are those of the manager
  KindOf,      \* "file", "folder", "resource" or "command"
  Contents,    \* what an item may contain
  Absent,      \* there is no such item; for a folder, nothing in it
  Unreadable,  \* input/output error
  NoDirectory, \* the directory of the file is gone with it
  NoSnapshot, NoFile, Truncated,
  SizeLimit,   \* FILE_SIZE_THRESHOLD, in changes
  Backups,     \* how many rotated diff.json files are kept
  MaxEdits,    \* bound on the changes of tracked items
  MaxFaults    \* bound on failures, crashes and unlocks

Kinds == <<"file", "folder", "resource", "command">>

(* The change of an item against the snapshot of generation gen.           *)
Change == [item : Items, gen : Nat, to : Contents \cup {Absent, Unreadable}]

ASSUME TrackerAssumption ==
  /\ HostOf \in [Items -> Hosts]
  /\ KindOf \in [Items -> {"file", "folder", "resource", "command"}]
  /\ Cardinality({Absent, Unreadable, NoDirectory, NoSnapshot}) = 4
  /\ Contents \cap {Absent, Unreadable, NoDirectory, NoSnapshot} = {}
  /\ NoFile # Truncated /\ {NoFile, Truncated} \cap Seq(SUBSET Change) = {}
  /\ {SizeLimit, Backups, MaxEdits, MaxFaults} \subseteq Nat

VARIABLES
  live,    \* what each item is now
  snap,    \* its snapshot
  gen,     \* how many snapshots were taken of it
  diff,    \* diff.json: the changes of each run that found any
  archive, \* the rotated diff.json files, the newest first
  locked,  \* whether the lock file exists
  phase,   \* where the run is
  kind,    \* which kind of item is being compared
  todo,    \* the hosts that are not done with the operation
  store,   \* FileTrackerBase.data_store
  text,    \* what is being written to diff.json
  pending, \* changes whose snapshot is not yet updated
  vanished,\* history: reported items that were gone at the update
  edits, faults, \* how many edits and faults there were
  slips    \* history: crashes, unlocks, locks that could not be set, and writers
           \* that raised when the text was on disk

disk == <<snap, gen, diff, archive, locked>>
run == <<phase, kind, todo, store, text, pending>>
counters == <<edits, faults, slips>>
vars == <<live, disk, run, vanished, counters>>

Possible(i) ==
  CASE KindOf[i] = "file" -> Contents \cup {Absent, Unreadable, NoDirectory}
    [] KindOf[i] \in {"folder", "resource"} -> Contents \cup {Absent}
    [] KindOf[i] = "command" -> Contents

ItemsOf(h, k) == {i \in Items : HostOf[i] = h /\ KindOf[i] = Kinds[k]}

(* The items of a host that have no snapshot and get their first one now.  *)
FirstSnapshots(h, k) == {i \in ItemsOf(h, k) : snap[i] = NoSnapshot /\ live[i] \in Contents}

(* A file whose directory is gone is passed over.                          *)
ChangeOf(i) == [item |-> i, gen |-> gen[i], to |-> live[i]]

(* Mutant: an unreadable file is passed over too.                          *)
DifferReadable(h, k) ==
  {i \in ItemsOf(h, k) : snap[i] # NoSnapshot /\ live[i] \notin {snap[i], NoDirectory, Unreadable}}

Differ(h, k) ==
  {i \in ItemsOf(h, k) : snap[i] # NoSnapshot /\ live[i] \notin {snap[i], NoDirectory}}

TakeSnapshots(S) ==
  /\ snap' = [i \in Items |-> IF i \in S THEN live[i] ELSE snap[i]]
  /\ gen' = [i \in Items |-> IF i \in S THEN gen[i] + 1 ELSE gen[i]]

Size(runs) == Cardinality(UNION {{<<r, c>> : c \in runs[r]} : r \in DOMAIN runs})

Fault == faults < MaxFaults /\ faults' = faults + 1

(* Contents of different items are never compared: all start alike.        *)
Init ==
  /\ \E v \in Contents : live = [i \in Items |-> v]
  /\ snap = [i \in Items |-> NoSnapshot] /\ gen = [i \in Items |-> 0]
  /\ diff = NoFile /\ archive = <<>> /\ locked = FALSE
  /\ phase = "idle" /\ kind = 1 /\ todo = {}
  /\ store = {} /\ text = <<>> /\ pending = {} /\ vanished = {}
  /\ edits = 0 /\ faults = 0 /\ slips = 0
-----------------------------------------------------------------------------
(* Mutant: the lock file is not looked at.                                 *)
StartLocked ==
  /\ phase = "idle"
  /\ phase' = "collect" /\ kind' = 1 /\ todo' = Hosts
  /\ store' = {} /\ text' = <<>>
  /\ UNCHANGED <<live, disk, pending, vanished, counters>>

(* Mutant: the changes of the run before, of another cluster, stay.        *)
StartKeepsStore ==
  /\ phase = "idle" /\ ~locked
  /\ phase' = "collect" /\ kind' = 1 /\ todo' = Hosts
  /\ text' = <<>>
  /\ UNCHANGED <<live, disk, store, pending, vanished, counters>>

(* FileTrackerStarter: a run that finds the lock file ends here.           *)
Start ==
  /\ phase = "idle" /\ ~locked
  /\ phase' = "collect" /\ kind' = 1 /\ todo' = Hosts
  /\ store' = {} /\ text' = <<>>
  /\ UNCHANGED <<live, disk, pending, vanished, counters>>

(* The collector of the current kind on a host.  Resources of which a pod  *)
(* is in a crash loop (ignored) are not reported.                          *)
CollectDiffs(h) ==
  /\ phase = "collect" /\ h \in todo
  /\ \E ignored \in SUBSET {i \in Differ(h, kind) : KindOf[i] = "resource" /\ live[i] # Absent} :
       /\ IF ignored = {} THEN UNCHANGED faults ELSE Fault
       /\ store' = store \cup {ChangeOf(i) : i \in Differ(h, kind) \ ignored}
  /\ TakeSnapshots(FirstSnapshots(h, kind))
  /\ todo' = todo \ {h}
  /\ UNCHANGED <<live, diff, archive, locked, phase, kind, text, pending, vanished, edits, slips>>

(* What a collector that raises may have put in the store: for commands,   *)
(* those it was through with; for resources, all it found, when only the   *)
(* removal of its temporary directory raises.                              *)
Kept(h, k) ==
  {D \in SUBSET Differ(h, k) :
     \/ D = {} \/ Kinds[k] = "command"
     \/ Kinds[k] = "resource" /\ \A i \in Differ(h, k) \ D : live[i] # Absent}

(* The collector raises, or finds too little disk space: the rest of what  *)
(* it found is dropped, the first snapshots it took stay.                  *)
CollectFails(h) ==
  /\ phase = "collect" /\ h \in todo /\ Fault
  /\ \E S \in SUBSET FirstSnapshots(h, kind) : TakeSnapshots(S)
  /\ \E D \in Kept(h, kind) : store' = store \cup {ChangeOf(i) : i \in D}
  /\ todo' = todo \ {h}
  /\ UNCHANGED <<live, diff, archive, locked, phase, kind, text, pending, vanished, edits, slips>>

(* The runner joins the hosts before the next operation.                   *)
NextCollector ==
  /\ phase = "collect" /\ todo = {}
  /\ IF kind < Len(Kinds) THEN kind' = kind + 1 /\ todo' = Hosts /\ UNCHANGED phase
                          ELSE phase' = "write" /\ UNCHANGED <<kind, todo>>
  /\ UNCHANGED <<live, disk, store, text, pending, vanished, counters>>
-----------------------------------------------------------------------------
(* DiffsWriter.                                                            *)

TooBig == Size(<<store>>) > SizeLimit

Goto(p) == phase' = p /\ UNCHANGED <<kind, todo, store>>

(* Mutant: a writer that failed passes.                                    *)
WriterFailsPasses ==
  /\ phase = "write"
  /\ diff = Truncated \/ (store # {} /\ TooBig)
  /\ phase' = "update" /\ pending' = store /\ todo' = Hosts
  /\ UNCHANGED <<live, disk, kind, store, text, vanished, counters>>

(* diff.json is not JSON, or what was found is too big: the writer does    *)
(* not pass and the snapshots stay as they are.                            *)
WriterFails ==
  /\ phase = "write"
  /\ diff = Truncated \/ (store # {} /\ TooBig)
  /\ Goto("idle")
  /\ UNCHANGED <<live, disk, text, pending, vanished, counters>>

(* No change was found and no diff.json is broken: the writer passes, and  *)
(* the updaters that follow have no snapshot to replace.                   *)
NothingToWrite ==
  /\ phase = "write" /\ diff # Truncated /\ store = {}
  /\ Goto("idle")
  /\ UNCHANGED <<live, disk, text, pending, vanished, counters>>

(* rotate_file: the backups move on by one and the last one is dropped.    *)
RotateFile ==
  /\ phase = "write" /\ diff \notin {Truncated, NoFile} /\ store # {} /\ ~TooBig
  /\ Size(diff) > SizeLimit
  /\ archive' = SubSeq(<<diff>> \o archive, 1,
                       IF Len(archive) < Backups THEN Len(archive) + 1 ELSE Backups)
  /\ diff' = NoFile
  /\ text' = <<store>>
  /\ Goto("open")
  /\ UNCHANGED <<live, snap, gen, locked, pending, vanished, counters>>

PrepareText ==
  /\ phase = "write" /\ diff # Truncated /\ store # {} /\ ~TooBig
  /\ diff # NoFile => Size(diff) <= SizeLimit
  /\ text' = Append(IF diff = NoFile THEN <<>> ELSE diff, store)
  /\ Goto("open")
  /\ UNCHANGED <<live, disk, pending, vanished, counters>>

(* Creating the file, or opening it for writing, leaves it empty.          *)
OpenDiff ==
  /\ phase = "open"
  /\ diff' = Truncated
  /\ Goto("opened")
  /\ UNCHANGED <<live, snap, gen, archive, locked, text, pending, vanished, counters>>

WriteInFile ==
  /\ phase = "opened"
  /\ diff' = text
  /\ Goto("written")
  /\ UNCHANGED <<live, snap, gen, archive, locked, text, pending, vanished, counters>>

(* The mode and the owner of diff.json are set and the log is written.     *)
WriterPasses ==
  /\ phase = "written"
  /\ phase' = "update" /\ pending' = store /\ todo' = Hosts
  /\ UNCHANGED <<live, disk, kind, store, text, vanished, counters>>

(* A command or the write raises, and the writer does not pass, though     *)
(* what it wrote may be on disk.                                           *)
WriteRaises ==
  /\ phase \in {"write", "open", "opened", "written"} /\ Fault
  /\ slips' = IF phase = "written" THEN slips + 1 ELSE slips
  /\ Goto("idle")
  /\ UNCHANGED <<live, disk, text, pending, vanished, edits>>
-----------------------------------------------------------------------------
(* SnapshotsUpdater, which runs on the hosts in parallel when the writer   *)
(* passed.                                                                 *)

Of(h) == {c \in pending : HostOf[c.item] = h}

(* Folders come last.                                                      *)
MyTurn(c) ==
  KindOf[c.item] = "folder" =>
    \A d \in Of(HostOf[c.item]) : KindOf[d.item] = "folder"

Renamed(c) == c.to \in {Absent, Unreadable} /\ KindOf[c.item] # "folder"

(* The snapshot of what was deleted or unreadable is renamed, whatever is  *)
(* there by now; the others are taken from what is there now.              *)
UpdateSnapshot(c) ==
  /\ phase = "update" /\ c \in pending /\ HostOf[c.item] \in todo /\ MyTurn(c)
  /\ \/ /\ Renamed(c)
        /\ snap' = [snap EXCEPT ![c.item] = NoSnapshot]
        /\ UNCHANGED <<gen, vanished>>
     \/ /\ ~Renamed(c)
        /\ live[c.item] \in Contents \/ KindOf[c.item] = "folder"
        /\ TakeSnapshots({c.item})
        /\ UNCHANGED vanished
     \/ /\ ~Renamed(c) /\ KindOf[c.item] = "file"
        /\ live[c.item] \in {Absent, NoDirectory}
        /\ vanished' = vanished \cup {<<c.item, c.gen>>}
        /\ UNCHANGED <<snap, gen>>
  /\ pending' = pending \ {c}
  /\ UNCHANGED <<live, diff, archive, locked, phase, kind, todo, store, text, counters>>

CannotUpdate(c) ==
  ~Renamed(c) /\ \/ KindOf[c.item] = "file" /\ live[c.item] = Unreadable
                 \/ KindOf[c.item] = "resource" /\ live[c.item] = Absent

(* The update of a snapshot raises: by itself, or because the item cannot  *)
(* be read any more.  The host locks the tracker, if that command works,   *)
(* and leaves its other snapshots as they are.                             *)
UpdateFails(h) ==
  /\ phase = "update" /\ h \in todo /\ Of(h) # {}
  /\ \/ /\ locked' = TRUE /\ UNCHANGED slips
        /\ \/ UNCHANGED faults /\ \E c \in Of(h) : MyTurn(c) /\ CannotUpdate(c)
           \/ Fault
     \/ Fault /\ UNCHANGED locked /\ slips' = slips + 1
  /\ todo' = todo \ {h}
  /\ UNCHANGED <<live, snap, gen, diff, archive, phase, kind, store, text, pending, vanished, edits>>

UpdateEnds(h) ==
  /\ phase = "update" /\ h \in todo /\ Of(h) = {}
  /\ todo' = todo \ {h}
  /\ UNCHANGED <<live, disk, phase, kind, store, text, pending, vanished, counters>>

(* Mutant: the changes of a host that failed are kept for the next run.    *)
FinishKeepsPending ==
  /\ phase = "update" /\ todo = {}
  /\ phase' = "idle"
  /\ UNCHANGED <<live, disk, kind, todo, store, text, pending, vanished, counters>>

(* FileTrackerFinisher and the end of the process.                         *)
Finish ==
  /\ phase = "update" /\ todo = {}
  /\ phase' = "idle" /\ pending' = {}
  /\ UNCHANGED <<live, disk, kind, todo, store, text, vanished, counters>>
-----------------------------------------------------------------------------
(* What happens around the run.                                            *)

Edit ==
  /\ edits < MaxEdits /\ edits' = edits + 1
  /\ \E i \in Items : \E v \in Possible(i) \ {live[i]} : live' = [live EXCEPT ![i] = v]
  /\ UNCHANGED <<disk, run, vanished, faults, slips>>

(* The process is killed: what it held in memory is gone.                  *)
Crash ==
  /\ phase # "idle" /\ Fault /\ slips' = slips + 1
  /\ phase' = "idle" /\ kind' = 1 /\ todo' = {} /\ store' = {} /\ text' = <<>> /\ pending' = {}
  /\ UNCHANGED <<live, disk, vanished, edits>>

(* Someone removes the lock file.                                          *)
Unlock ==
  /\ phase = "idle" /\ locked /\ Fault /\ slips' = slips + 1
  /\ locked' = FALSE
  /\ UNCHANGED <<live, snap, gen, diff, archive, run, vanished, edits>>

Writer ==
  \/ WriterFails \/ NothingToWrite \/ RotateFile \/ PrepareText
  \/ OpenDiff \/ WriteInFile \/ WriterPasses

HostStep(h) ==
  CollectDiffs(h) \/ UpdateFails(h) \/ UpdateEnds(h) \/ \E c \in Of(h) : UpdateSnapshot(c)

Next ==
  \/ Start \/ NextCollector \/ Writer \/ WriteRaises \/ Finish
  \/ \E h \in Hosts : (HostStep(h) \/ CollectFails(h))
  \/ Edit \/ Crash \/ Unlock

Spec == Init /\ [][Next]_vars

(* The run of the day starts, the runner goes on and commands have         *)
(* timeouts.                                                               *)
FairSpec ==
  Spec /\ WF_vars(Start) /\ WF_vars(NextCollector \/ Writer \/ Finish)
       /\ \A h \in Hosts : WF_vars(HostStep(h))
-----------------------------------------------------------------------------
TypeOK ==
  /\ live \in [Items -> Contents \cup {Absent, Unreadable, NoDirectory}]
  /\ \A i \in Items : live[i] \in Possible(i)
  /\ snap \in [Items -> Contents \cup {Absent, NoSnapshot}]
  /\ gen \in [Items -> Nat]
  /\ diff \in Seq(SUBSET Change) \cup {NoFile, Truncated}
  /\ archive \in Seq(Seq(SUBSET Change)) /\ locked \in BOOLEAN
  /\ phase \in {"idle", "collect", "write", "open", "opened", "written", "update"}
  /\ kind \in 1..Len(Kinds) /\ todo \subseteq Hosts
  /\ store \subseteq Change /\ pending \subseteq store
  /\ text \in Seq(SUBSET Change)
  /\ vanished \subseteq Items \X Nat
  /\ {edits, faults, slips} \subseteq Nat

IsJson == diff \notin {NoFile, Truncated}

Reporting(file, i, g) == {r \in DOMAIN file : \E c \in file[r] : c.item = i /\ c.gen = g}

(* How many runs reported a change against snapshot g of an item.          *)
Reports(i, g) ==
  (IF IsJson THEN Cardinality(Reporting(diff, i, g)) ELSE 0)
  + Cardinality(UNION {{<<a, r>> : r \in Reporting(archive[a], i, g)} : a \in DOMAIN archive})

(* A snapshot gives way only to a change that is in diff.json by then:     *)
(* whatever fails and whenever the run is killed, what was found is on     *)
(* disk or is found again.                                                 *)
ReportedBeforeReplaced ==
  [][\A i \in Items :
       snap[i] # NoSnapshot /\ <<snap'[i], gen'[i]>> # <<snap[i], gen[i]>> =>
         IsJson /\ Reporting(diff, i, gen[i]) # {}]_vars

(* A change is reported by one run, and by one more for each crash, each   *)
(* lock that could not be set and each one removed, and each writer that   *)
(* raised when the text was on disk, except when the item was gone when    *)
(* its snapshot was due.                                                   *)
ReportedOnce ==
  \A i \in Items, g \in 1..MaxEdits + 1 :
    <<i, g>> \notin vanished => Reports(i, g) <= 1 + slips

(* While the tracker is locked nothing is written to diff.json, by the run *)
(* that locked it or by a later one.                                       *)
NoReportWhileLocked == [][locked => diff' = diff /\ archive' = archive]_vars

Differences == {i \in Items : snap[i] # NoSnapshot /\ live[i] \notin {snap[i], NoDirectory}}

(* No difference stays unnoticed: it gets a new snapshot, so a report,     *)
(* unless the tracker is locked, diff.json is broken or there is more than *)
(* it may hold.                                                            *)
DifferencesFollowed ==
  \A i \in Items :
    []<>(i \notin Differences \/ locked \/ diff = Truncated \/ Cardinality(Differences) > SizeLimit)

(* chain_of_events_validations.py: "No changes found in File Tracker       *)
(* runs", said when there is no diff.json.                                 *)
NoDiffNoChanges == phase = "idle" /\ diff = NoFile => store = {}
=============================================================================
