-------------------------- MODULE FileTrackerProofs --------------------------
(***************************************************************************)
(* Proofs about FileTracker, for any hosts, items and contents, any size   *)
(* limit and any number of edits, failures and crashes.                    *)
(***************************************************************************)
EXTENDS FileTracker, SequenceTheorems, TLAPS

Value == Contents \cup {Absent, Unreadable, NoDirectory}

Taken == Contents \cup {Absent, NoSnapshot}

(* Where the change of an item may be: not before its kind's turn on its   *)
(* host.                                                                   *)
Collected(i) ==
  \A k \in kind..Len(Kinds) : KindOf[i] = Kinds[k] => k = kind /\ HostOf[i] \notin todo

(* What the run holds in memory agrees with the snapshots and diff.json:   *)
(* a change stands for the snapshot it was found against until the update, *)
(* an item has one change at most, and what is updated is the last run of  *)
(* diff.json.                                                              *)
StoreInv ==
  /\ \A c, d \in store : c.item = d.item => c = d
  /\ phase \in {"collect", "write", "open", "opened", "written"} => \A c \in store : c.gen = gen[c.item]
  /\ phase = "collect" => \A c \in store : Collected(c.item)

WriteInv ==
  /\ phase \in {"open", "opened"} => text # <<>> /\ text[Len(text)] = store
  /\ phase \in {"written", "update"} => diff = text /\ text # <<>> /\ text[Len(text)] = store

PendingInv ==
  /\ \A c \in pending : c.gen = gen[c.item]
  /\ phase # "update" => pending = {}

LockInv == locked => phase \in {"idle", "update"}

TrackerInv == TypeOK /\ StoreInv /\ WriteInv /\ PendingInv /\ LockInv
-----------------------------------------------------------------------------
(* Taking snapshots keeps the types of the snapshots.                      *)
LEMMA SnapshotsTyped ==
  ASSUME TypeOK, NEW S \in SUBSET Items, TakeSnapshots(S),
         \A i \in S : live[i] \in Contents \cup {Absent}
  PROVE  snap' \in [Items -> Taken] /\ gen' \in [Items -> Nat]
BY DEF TypeOK, TakeSnapshots, Taken

(* A change found by a collector has the type of a change: what differs is *)
(* never a file whose directory is gone.                                   *)
LEMMA ChangeTyped ==
  ASSUME TypeOK, NEW h \in Hosts, NEW k, NEW i \in Differ(h, k)
  PROVE  ChangeOf(i) \in Change /\ i \in ItemsOf(h, k)
BY DEF TypeOK, Differ, ItemsOf, ChangeOf, Change

(* The initial state satisfies the invariant.                              *)
LEMMA InitTrackerInv == ASSUME Init PROVE TrackerInv
<1>1. kind \in 1..Len(Kinds)
  BY DEF Init, Kinds
<1>2. text \in Seq(SUBSET Change) /\ archive \in Seq(Seq(SUBSET Change))
  BY DEF Init
<1>7. \A i \in Items : live[i] \in Possible(i)
  BY TrackerAssumption DEF Init, Possible
<1>3. live \in [Items -> Value] /\ snap \in [Items -> Taken] /\ gen \in [Items -> Nat]
  BY DEF Init, Value, Taken
<1>5. {edits, faults, slips} \subseteq Nat
  BY DEF Init
<1>6. TypeOK
  BY <1>1, <1>2, <1>3, <1>5, <1>7, Zenon DEF Init, TypeOK, Value, Taken
<1>4. StoreInv /\ WriteInv /\ PendingInv /\ LockInv
  BY DEF Init, StoreInv, WriteInv, PendingInv, LockInv
<1> QED
  BY <1>4, <1>6 DEF TrackerInv

(* A run starts with nothing in memory.                                    *)
LEMMA StartKeepsInv == ASSUME TrackerInv, Start PROVE TrackerInv'
<1> USE DEF TrackerInv, Start, disk, counters
<1>1. kind' \in 1..Len(Kinds) /\ text' \in Seq(SUBSET Change) /\ pending' \subseteq store'
  BY DEF TypeOK, Kinds, PendingInv
<1>2. TypeOK'
  BY <1>1 DEF TypeOK
<1>3. StoreInv' /\ WriteInv' /\ PendingInv' /\ LockInv'
  BY DEF StoreInv, WriteInv, PendingInv, LockInv
<1> QED
  BY <1>2, <1>3

(* First snapshots belong to items without any, whose host and kind are    *)
(* being compared: no change in memory is about them.                      *)
LEMMA FirstSnapshotsKeepStore ==
  ASSUME TrackerInv, NEW h \in Hosts, phase = "collect", h \in todo,
         NEW S \in SUBSET FirstSnapshots(h, kind), TakeSnapshots(S)
  PROVE  /\ snap' \in [Items -> Taken] /\ gen' \in [Items -> Nat]
         /\ \A i \in Items : snap[i] # NoSnapshot => snap'[i] = snap[i] /\ gen'[i] = gen[i]
         /\ \A c \in store : c.gen = gen'[c.item]
<1>1. S \subseteq Items /\ \A i \in S : live[i] \in Contents
  BY DEF FirstSnapshots, ItemsOf
<1>2. snap' \in [Items -> Taken] /\ gen' \in [Items -> Nat]
  BY <1>1, SnapshotsTyped DEF TrackerInv
<1>3. \A i \in Items : snap[i] # NoSnapshot => i \notin S
  BY DEF FirstSnapshots
<1>4. ASSUME NEW c \in store PROVE c.item \in Items /\ c.item \notin S /\ c.gen = gen[c.item]
  <2>1. kind \in kind..Len(Kinds)
    BY DEF TrackerInv, TypeOK, Kinds
  <2>2. Collected(c.item) /\ c.gen = gen[c.item]
    BY DEF TrackerInv, StoreInv
  <2>3. c.item \in Items
    BY DEF TrackerInv, TypeOK, Change
  <2> QED
    BY <2>1, <2>2, <2>3 DEF Collected, FirstSnapshots, ItemsOf
<1> QED
  BY <1>2, <1>3, <1>4 DEF TakeSnapshots

(* A collector adds at most one change per item of its host and kind,      *)
(* whether it passes or raises on its way.                                 *)
LEMMA CollectKeepsInv ==
  ASSUME TrackerInv, NEW h \in Hosts, CollectDiffs(h) \/ CollectFails(h) PROVE TrackerInv'
<1>0. PICK D \in SUBSET Differ(h, kind) : store' = store \cup {ChangeOf(i) : i \in D}
  BY DEF CollectDiffs, CollectFails, Kept
<1> DEFINE N == {ChangeOf(i) : i \in D}
<1> /\ phase = "collect" /\ h \in todo /\ todo' = todo \ {h} /\ faults' \in {faults, faults + 1}
    /\ UNCHANGED <<live, diff, archive, locked, phase, kind, text, pending, vanished, edits, slips>>
    /\ store' = store \cup N
  BY <1>0 DEF CollectDiffs, CollectFails, Fault
<1>1. /\ snap' \in [Items -> Taken] /\ gen' \in [Items -> Nat]
      /\ \A i \in Items : snap[i] # NoSnapshot => snap'[i] = snap[i] /\ gen'[i] = gen[i]
      /\ \A c \in store : c.gen = gen'[c.item]
  <2>1. PICK S \in SUBSET FirstSnapshots(h, kind) : TakeSnapshots(S)
    BY DEF CollectDiffs, CollectFails
  <2> QED
    BY <2>1, FirstSnapshotsKeepStore
<1>2. \A c \in N : /\ c \in Change /\ c.item \in ItemsOf(h, kind) /\ c = ChangeOf(c.item)
                    /\ c.gen = gen[c.item] /\ snap[c.item] # NoSnapshot
  BY ChangeTyped DEF TrackerInv, ChangeOf, Differ
<1>3. faults' \in Nat
  BY DEF TrackerInv, TypeOK
<1>4. TypeOK'
  <2>1. store' \subseteq Change
    BY <1>2 DEF TrackerInv, TypeOK
  <2> QED
    BY <1>1, <1>3, <2>1 DEF TrackerInv, TypeOK, Taken
<1>5. kind \in kind..Len(Kinds) /\ kind \in 1..Len(Kinds)
  BY DEF TrackerInv, TypeOK, Kinds
<1>6. \A c \in store : c.item \notin ItemsOf(h, kind)
  BY <1>5 DEF TrackerInv, StoreInv, Collected, ItemsOf
<1>7. StoreInv'
  <2>1. \A c, d \in store' : c.item = d.item => c = d
    BY <1>2, <1>6 DEF TrackerInv, StoreInv
  <2>2. \A c \in store' : c.gen = gen'[c.item]
    BY <1>1, <1>2 DEF ItemsOf
  <2>3. \A c \in store : Collected(c.item)'
    BY DEF TrackerInv, StoreInv, Collected
  <2>4. ASSUME NEW i \in ItemsOf(h, kind), NEW k \in kind..Len(Kinds), KindOf[i] = Kinds[k]
        PROVE  k = kind
    BY <2>4, <1>5 DEF ItemsOf, Kinds
  <2>5. \A c \in N : Collected(c.item)'
    BY <1>2, <2>4 DEF Collected, ItemsOf
  <2> QED
    BY <2>1, <2>2, <2>3, <2>5 DEF StoreInv
<1>8. WriteInv' /\ PendingInv' /\ LockInv'
  BY DEF TrackerInv, WriteInv, PendingInv, LockInv
<1> QED
  BY <1>4, <1>7, <1>8 DEF TrackerInv

(* The next kind begins on all hosts when every host is done with this one.*)
LEMMA NextCollectorKeepsInv == ASSUME TrackerInv, NextCollector PROVE TrackerInv'
<1>1. TypeOK'
  BY DEF TrackerInv, TypeOK, NextCollector, disk, counters, Kinds
<1>2. ASSUME kind < Len(Kinds), kind' = kind + 1, NEW c \in store PROVE Collected(c.item)'
  <2>1. Collected(c.item)
    BY DEF TrackerInv, StoreInv, NextCollector
  <2>2. KindOf' = KindOf /\ HostOf' = HostOf /\ kind \in 1..Len(Kinds)
    BY DEF TrackerInv, TypeOK
  <2>3. ASSUME NEW k \in kind'..Len(Kinds), KindOf[c.item] = Kinds[k] PROVE FALSE
    BY <1>2, <2>1, <2>2, <2>3 DEF Collected, Kinds
  <2> QED
    BY <2>3 DEF Collected
<1>3. StoreInv'
  BY <1>2 DEF TrackerInv, StoreInv, NextCollector, disk
<1>4. WriteInv' /\ PendingInv' /\ LockInv'
  BY DEF TrackerInv, WriteInv, PendingInv, LockInv, NextCollector, disk
<1> QED
  BY <1>1, <1>3, <1>4 DEF TrackerInv

(* A writer that leaves the memory alone and goes back to idle keeps the   *)
(* invariant.                                                              *)
LEMMA WriterStopsKeepsInv ==
  ASSUME TrackerInv, WriterFails \/ NothingToWrite \/ WriteRaises PROVE TrackerInv'
<1> USE DEF WriterFails, NothingToWrite, WriteRaises, Goto, disk, counters, Fault
<1>0. faults' \in Nat /\ slips' \in Nat
  BY DEF TrackerInv, TypeOK
<1>1. TypeOK'
  BY <1>0 DEF TrackerInv, TypeOK
<1>2. StoreInv' /\ WriteInv' /\ PendingInv' /\ LockInv'
  BY DEF TrackerInv, StoreInv, WriteInv, PendingInv, LockInv
<1> QED
  BY <1>1, <1>2 DEF TrackerInv

(* What goes to diff.json ends with the run's changes.                     *)
LEMMA TextKeepsInv == ASSUME TrackerInv, RotateFile \/ PrepareText PROVE TrackerInv'
<1> USE DEF Goto, disk, counters
<1>0. store \in SUBSET Change /\ text \in Seq(SUBSET Change) /\ archive \in Seq(Seq(SUBSET Change))
  BY DEF TrackerInv, TypeOK
<1>1. text' \in Seq(SUBSET Change) /\ text' # <<>> /\ text'[Len(text')] = store
  <2>1. CASE RotateFile
    BY <1>0, <2>1 DEF RotateFile
  <2>2. CASE PrepareText
    <3>1. PICK s \in Seq(SUBSET Change) : text' = Append(s, store)
      <4>1. CASE diff = NoFile
        <5>1. <<>> \in Seq(SUBSET Change) /\ text' = Append(<<>>, store)
          BY <2>2, <4>1 DEF PrepareText
        <5> QED
          BY <5>1
      <4>2. CASE diff # NoFile
        BY <2>2, <4>2 DEF PrepareText, TrackerInv, TypeOK
      <4> QED
        BY <4>1, <4>2
    <3> QED
      BY <1>0, <3>1
  <2> QED
    BY <2>1, <2>2
<1>2. archive' \in Seq(Seq(SUBSET Change))
  <2>1. CASE RotateFile
    <3>1. diff \in Seq(SUBSET Change)
      BY <2>1 DEF RotateFile, TrackerInv, TypeOK
    <3>2. <<diff>> \o archive \in Seq(Seq(SUBSET Change)) /\ Len(<<diff>> \o archive) = Len(archive) + 1
      BY <1>0, <3>1
    <3>3. Backups \in Nat
      BY TrackerAssumption
    <3> DEFINE n == IF Len(archive) < Backups THEN Len(archive) + 1 ELSE Backups
    <3>4. n \in Nat /\ n <= Len(archive) + 1
      BY <1>0, <3>3
    <3>5. archive' = SubSeq(<<diff>> \o archive, 1, n)
      BY <2>1 DEF RotateFile
    <3> HIDE DEF n
    <3>6. \A j \in 1..n : (<<diff>> \o archive)[j] \in Seq(SUBSET Change)
      BY <1>0, <3>2, <3>4
    <3> QED
      BY <3>4, <3>5, <3>6, SubSeqProperties
  <2>2. CASE PrepareText
    BY <1>0, <2>2 DEF PrepareText
  <2> QED
    BY <2>1, <2>2
<1>3. phase' = "open" /\ (diff' = diff \/ diff' = NoFile)
      /\ UNCHANGED <<live, snap, gen, locked, kind, todo, store, pending, vanished, edits, faults, slips>>
  BY DEF RotateFile, PrepareText
<1>4. phase = "write"
  BY DEF RotateFile, PrepareText
<1>5. TypeOK'
  BY <1>1, <1>2, <1>3 DEF TrackerInv, TypeOK
<1>6. StoreInv' /\ WriteInv' /\ PendingInv' /\ LockInv'
  BY <1>1, <1>3, <1>4 DEF TrackerInv, StoreInv, WriteInv, PendingInv, LockInv
<1> QED
  BY <1>5, <1>6 DEF TrackerInv

(* Opening diff.json empties it and leaves the text in memory.             *)
LEMMA OpenDiffKeepsInv == ASSUME TrackerInv, OpenDiff PROVE TrackerInv'
<1> USE DEF OpenDiff, Goto, counters
<1>1. TypeOK'
  BY DEF TrackerInv, TypeOK
<1>2. StoreInv' /\ WriteInv' /\ PendingInv' /\ LockInv'
  BY DEF TrackerInv, StoreInv, WriteInv, PendingInv, LockInv
<1> QED
  BY <1>1, <1>2 DEF TrackerInv

(* The text is on disk, then the update begins with the changes in it.     *)
LEMMA WriteInFileKeepsInv == ASSUME TrackerInv, WriteInFile \/ WriterPasses PROVE TrackerInv'
<1> USE DEF WriteInFile, WriterPasses, Goto, disk, counters
<1>1. TypeOK'
  BY DEF TrackerInv, TypeOK
<1>2. StoreInv' /\ WriteInv' /\ PendingInv' /\ LockInv'
  BY DEF TrackerInv, StoreInv, WriteInv, PendingInv, LockInv
<1> QED
  BY <1>1, <1>2 DEF TrackerInv

(* A new snapshot concerns no other change that is pending.                *)
LEMMA UpdateSnapshotKeepsInv ==
  ASSUME TrackerInv, NEW c \in pending, UpdateSnapshot(c) PROVE TrackerInv'
<1> USE DEF UpdateSnapshot, counters
<1>1. c \in store /\ c \in Change /\ c.item \in Items /\ c.gen \in Nat
  BY DEF TrackerInv, TypeOK, Change
<1>2. /\ snap' \in [Items -> Taken] /\ gen' \in [Items -> Nat] /\ vanished' \subseteq Items \X Nat
      /\ \A i \in Items \ {c.item} : gen'[i] = gen[i]
  <2>1. CASE Renamed(c) /\ snap' = [snap EXCEPT ![c.item] = NoSnapshot] /\ UNCHANGED <<gen, vanished>>
    BY <1>1, <2>1 DEF TrackerInv, TypeOK, Taken
  <2>2. CASE ~Renamed(c) /\ TakeSnapshots({c.item}) /\ UNCHANGED vanished
             /\ (live[c.item] \in Contents \/ KindOf[c.item] = "folder")
    <3>1. live[c.item] \in Contents \cup {Absent}
      BY <1>1, <2>2 DEF TrackerInv, TypeOK, Possible
    <3>2. snap' \in [Items -> Taken] /\ gen' \in [Items -> Nat]
      BY <1>1, <2>2, <3>1, SnapshotsTyped DEF TrackerInv
    <3> QED
      BY <2>2, <3>2 DEF TakeSnapshots, TrackerInv, TypeOK
  <2>3. CASE vanished' = vanished \cup {<<c.item, c.gen>>} /\ UNCHANGED <<snap, gen>>
    BY <1>1, <2>3 DEF TrackerInv, TypeOK, Taken
  <2> QED
    BY <2>1, <2>2, <2>3
<1>3. TypeOK'
  BY <1>2 DEF TrackerInv, TypeOK, Taken
<1>4. StoreInv' /\ WriteInv' /\ LockInv'
  BY DEF TrackerInv, StoreInv, WriteInv, LockInv
<1>5. \A d \in pending' : d.item \in Items \ {c.item}
  BY <1>1 DEF TrackerInv, TypeOK, StoreInv, Change
<1>6. PendingInv'
  BY <1>2, <1>5 DEF TrackerInv, PendingInv
<1> QED
  BY <1>3, <1>4, <1>6 DEF TrackerInv

(* A host that fails, or has nothing left to do, leaves the changes alone. *)
LEMMA UpdateEndsKeepsInv ==
  ASSUME TrackerInv, NEW h \in Hosts, UpdateFails(h) \/ UpdateEnds(h) PROVE TrackerInv'
<1>1. /\ phase = "update" /\ todo' = todo \ {h} /\ (locked' = TRUE \/ locked' = locked)
      /\ UNCHANGED <<live, snap, gen, diff, archive, phase, kind, store, text, pending, vanished, edits>>
      /\ faults' \in {faults, faults + 1} /\ slips' \in {slips, slips + 1}
  <2>1. CASE UpdateFails(h)
    BY <2>1 DEF UpdateFails, Fault
  <2>2. CASE UpdateEnds(h)
    BY <2>2 DEF UpdateEnds, disk, counters
  <2> QED
    BY <2>1, <2>2
<1>2. faults' \in Nat /\ slips' \in Nat
  <2>1. faults \in Nat /\ slips \in Nat
    BY DEF TrackerInv, TypeOK
  <2> QED
    BY <1>1, <2>1
<1>5. locked' \in BOOLEAN
  BY <1>1, Zenon DEF TrackerInv, TypeOK
<1>3. TypeOK'
  BY <1>1, <1>2, <1>5 DEF TrackerInv, TypeOK
<1>4. StoreInv' /\ WriteInv' /\ PendingInv' /\ LockInv'
  BY <1>1 DEF TrackerInv, StoreInv, WriteInv, PendingInv, LockInv
<1> QED
  BY <1>3, <1>4 DEF TrackerInv

(* The end of a run, or of its process, leaves nothing pending.            *)
LEMMA EndKeepsInv == ASSUME TrackerInv, Finish \/ Crash PROVE TrackerInv'
<1>1. /\ UNCHANGED <<live, snap, gen, diff, archive, locked, vanished, edits>>
      /\ phase' = "idle" /\ pending' = {} /\ store' \in {store, {}}
      /\ todo' \in {todo, {}} /\ kind' \in {kind, 1} /\ text' \in {text, <<>>}
      /\ faults' \in Nat /\ slips' \in Nat
  BY DEF Finish, Crash, Fault, disk, counters, TrackerInv, TypeOK
<1>2. kind' \in 1..Len(Kinds) /\ text' \in Seq(SUBSET Change)
  <2>1. kind \in 1..Len(Kinds) /\ 1 \in 1..Len(Kinds)
    BY DEF TrackerInv, TypeOK, Kinds
  <2>2. text \in Seq(SUBSET Change) /\ <<>> \in Seq(SUBSET Change)
    BY DEF TrackerInv, TypeOK
  <2> QED
    BY <1>1, <2>1, <2>2
<1>3. TypeOK'
  BY <1>1, <1>2 DEF TrackerInv, TypeOK
<1>4. StoreInv' /\ WriteInv' /\ PendingInv' /\ LockInv'
  BY <1>1 DEF TrackerInv, StoreInv, WriteInv, PendingInv, LockInv
<1> QED
  BY <1>3, <1>4 DEF TrackerInv

(* Edits and the removal of the lock file disturb nothing in memory.       *)
LEMMA AroundKeepsInv == ASSUME TrackerInv, Edit \/ Unlock PROVE TrackerInv'
<1>1. CASE Edit
  <2> PICK i \in Items : \E v \in Possible(i) \ {live[i]} : live' = [live EXCEPT ![i] = v]
    BY <1>1 DEF Edit
  <2>1. PICK v \in Possible(i) : live' = [live EXCEPT ![i] = v]
    OBVIOUS
  <2>2. v \in Contents \cup {Absent, Unreadable, NoDirectory}
    BY TrackerAssumption DEF Possible
  <2>3. \A j \in Items : Possible(j)' = Possible(j)
    BY DEF Possible
  <2>4. /\ live' \in [Items -> Contents \cup {Absent, Unreadable, NoDirectory}]
        /\ \A j \in Items : live'[j] \in Possible(j)'
    BY <2>1, <2>2, <2>3 DEF TrackerInv, TypeOK
  <2>5. TypeOK'
    BY <1>1, <2>4 DEF TrackerInv, TypeOK, Edit, disk, run
  <2> QED
    BY <1>1, <2>5 DEF TrackerInv, StoreInv, WriteInv, PendingInv, LockInv, Collected, Edit, disk, run
<1>2. CASE Unlock
  <2>1. TypeOK'
    <3>1. faults' \in Nat /\ slips' \in Nat
      BY <1>2 DEF TrackerInv, TypeOK, Unlock, Fault
    <3>2. /\ UNCHANGED <<live, snap, gen, diff, archive, run, vanished, edits>>
          /\ locked' = FALSE
      BY <1>2 DEF Unlock
    <3> QED
      BY <3>1, <3>2 DEF TrackerInv, TypeOK, run
  <2> QED
    BY <1>2, <2>1 DEF TrackerInv, StoreInv, WriteInv, PendingInv, LockInv, Collected, Unlock, run
<1> QED
  BY <1>1, <1>2

(* Every step keeps the invariant.                                         *)
LEMMA StepKeepsInv == ASSUME TrackerInv, [Next]_vars PROVE TrackerInv'
<1>1. CASE Start
  BY <1>1, StartKeepsInv
<1>2. CASE NextCollector
  BY <1>2, NextCollectorKeepsInv
<1>3. CASE Writer
  BY <1>3, WriterStopsKeepsInv, TextKeepsInv, OpenDiffKeepsInv, WriteInFileKeepsInv DEF Writer
<1>4. CASE WriteRaises
  BY <1>4, WriterStopsKeepsInv
<1>5. CASE Finish \/ Crash
  BY <1>5, EndKeepsInv
<1>6. CASE Edit \/ Unlock
  BY <1>6, AroundKeepsInv
<1>7. ASSUME NEW h \in Hosts, HostStep(h) \/ CollectFails(h) PROVE TrackerInv'
  <2>1. CASE \E c \in Of(h) : UpdateSnapshot(c)
    BY <2>1, UpdateSnapshotKeepsInv DEF Of
  <2> QED
    BY <1>7, <2>1, CollectKeepsInv, UpdateEndsKeepsInv DEF HostStep
<1>8. CASE UNCHANGED vars
  <2>1. TypeOK'
    BY <1>8 DEF TrackerInv, TypeOK, vars, disk, run, counters, Possible
  <2> QED
    BY <1>8, <2>1 DEF TrackerInv, StoreInv, WriteInv, PendingInv, LockInv, Collected, vars, disk, run
<1> QED
  BY <1>1, <1>2, <1>3, <1>4, <1>5, <1>6, <1>7, <1>8 DEF Next

(* The invariant holds in every reachable state.                           *)
THEOREM InvariantHolds == Spec => []TrackerInv
BY InitTrackerInv, StepKeepsInv, PTL DEF Spec

(* The state of the tracker keeps its types, for any hosts and items.      *)
THEOREM TypeCorrect == Spec => []TypeOK
<1>1. TrackerInv => TypeOK
  BY DEF TrackerInv
<1> QED
  BY <1>1, InvariantHolds, PTL

(* Whatever fails and whenever the run is killed, a snapshot gives way     *)
(* only to a change that is in diff.json.                                  *)
THEOREM ReportedBeforeReplacedHolds == Spec => ReportedBeforeReplaced
<1> DEFINE Reported(i) == snap[i] # NoSnapshot /\ <<snap'[i], gen'[i]>> # <<snap[i], gen[i]>> =>
                            IsJson /\ Reporting(diff, i, gen[i]) # {}
<1>1. ASSUME TrackerInv, [Next]_vars, NEW i \in Items PROVE Reported(i)
  <2>1. CASE UNCHANGED <<snap, gen>>
    BY <2>1
  <2>2. ASSUME NEW h \in Hosts, CollectDiffs(h) \/ CollectFails(h) PROVE Reported(i)
    <3>1. PICK S \in SUBSET FirstSnapshots(h, kind) : TakeSnapshots(S)
      BY <2>2 DEF CollectDiffs, CollectFails
    <3> QED
      BY <1>1, <2>2, <3>1, FirstSnapshotsKeepStore DEF CollectDiffs, CollectFails
  <2>3. ASSUME NEW c \in pending, UpdateSnapshot(c) PROVE Reported(i)
    <3>1. c \in store /\ c.item \in Items /\ c.gen = gen[c.item]
      BY <1>1 DEF TrackerInv, TypeOK, PendingInv, Change
    <3>2. i # c.item => snap'[i] = snap[i] /\ gen'[i] = gen[i]
      BY <1>1, <2>3, <3>1 DEF UpdateSnapshot, TakeSnapshots, TrackerInv, TypeOK
    <3>3. diff \in Seq(SUBSET Change) /\ diff # <<>> /\ diff[Len(diff)] = store
      BY <1>1, <2>3 DEF UpdateSnapshot, TrackerInv, TypeOK, WriteInv
    <3>4. IsJson
      BY <3>3, TrackerAssumption DEF IsJson
    <3>5. Len(diff) \in DOMAIN diff
      BY <3>3
    <3>6. Len(diff) \in Reporting(diff, c.item, gen[c.item])
      BY <3>1, <3>3, <3>5 DEF Reporting
    <3> QED
      BY <3>2, <3>4, <3>6
  <2> QED
    <3>1. CASE Start \/ NextCollector \/ Writer \/ WriteRaises \/ Finish \/ Edit \/ Crash \/ Unlock \/ UNCHANGED vars
      <4>1. UNCHANGED <<snap, gen>>
        BY <3>1 DEF Start, NextCollector, Writer, WriterFails, NothingToWrite, RotateFile, PrepareText,
                    OpenDiff, WriteInFile, WriterPasses, Goto, WriteRaises, Finish, Edit, Crash, Unlock, vars, disk
      <4> QED
        BY <4>1
    <3>2. CASE \E h \in Hosts : UpdateFails(h) \/ UpdateEnds(h)
      <4>1. UNCHANGED <<snap, gen>>
        BY <3>2 DEF UpdateFails, UpdateEnds, disk
      <4> QED
        BY <4>1
    <3> QED
      BY <1>1, <2>2, <2>3, <3>1, <3>2 DEF Next, HostStep, Of
<1>2. TrackerInv /\ [Next]_vars => [\A i \in Items : Reported(i)]_vars
  BY <1>1
<1> QED
  BY <1>2, InvariantHolds, PTL DEF Spec, ReportedBeforeReplaced

(* Nothing is written to diff.json while the tracker is locked.            *)
THEOREM NoReportWhileLockedHolds == Spec => NoReportWhileLocked
<1>1. ASSUME TrackerInv, [Next]_vars, locked PROVE diff' = diff /\ archive' = archive
  <2>1. phase \in {"idle", "update"}
    BY <1>1 DEF TrackerInv, LockInv
  <2>2. CASE \E h \in Hosts : HostStep(h) \/ CollectFails(h)
    BY <2>2 DEF HostStep, CollectDiffs, CollectFails, UpdateFails, UpdateEnds, UpdateSnapshot, disk
  <2>3. CASE Start \/ NextCollector \/ Writer \/ WriteRaises
    BY <1>1, <2>1, <2>3 DEF Start, NextCollector, Writer, WriterFails, NothingToWrite, RotateFile, PrepareText,
                            OpenDiff, WriteInFile, WriterPasses, Goto, WriteRaises, disk
  <2>4. CASE Finish \/ Edit \/ Crash \/ Unlock \/ UNCHANGED vars
    BY <2>4 DEF Finish, Edit, Crash, Unlock, vars, disk
  <2> QED
    BY <1>1, <2>2, <2>3, <2>4 DEF Next
<1> QED
  BY <1>1, InvariantHolds, PTL DEF Spec, NoReportWhileLocked

-----------------------------------------------------------------------------
(* When "no changes" is said of changes that were found: only after the    *)
(* write raised, or when there were more of them than the file may hold.   *)
WhyNoDiff ==
  phase = "idle" /\ diff = NoFile /\ store # {} => TooBig \/ faults > 0

(* At first nothing has been found.                                        *)
LEMMA InitWhyNoDiff == ASSUME Init PROVE WhyNoDiff
BY DEF Init, WhyNoDiff

(* A step that leaves the phase, diff.json and the changes alone keeps what *)
(* is said of them.                                                        *)
LEMMA StillWhyNoDiff ==
  ASSUME TypeOK, WhyNoDiff, UNCHANGED <<phase, diff, store>>, faults' \in {faults, faults + 1}
  PROVE  WhyNoDiff' /\ (NoDiffNoChanges => NoDiffNoChanges')
BY DEF TypeOK, WhyNoDiff, TooBig, Size, NoDiffNoChanges

(* The step after which changes were found and there is no diff.json is a  *)
(* write that raised, or the writer refusing what is too big.              *)
LEMMA StepKeepsWhyNoDiff ==
  ASSUME TrackerInv, WhyNoDiff, [Next]_vars
  PROVE  /\ WhyNoDiff'
         /\ NoDiffNoChanges /\ ~NoDiffNoChanges' => WriteRaises \/ (WriterFails /\ TooBig)
<1> TypeOK
  BY DEF TrackerInv
<1>1. CASE phase' # "idle"
  BY <1>1 DEF WhyNoDiff, NoDiffNoChanges
<1>2. CASE WriterFails
  <2>1. UNCHANGED <<diff, store>> /\ (diff = Truncated \/ TooBig)
    BY <1>2 DEF WriterFails, Goto, disk
  <2>2. TooBig' = TooBig
    BY <2>1 DEF TooBig, Size
  <2> QED
    BY <1>2, <2>1, <2>2, TrackerAssumption DEF WhyNoDiff, NoDiffNoChanges
<1>3. CASE NothingToWrite \/ Crash
  <2>1. store' = {}
    BY <1>3 DEF NothingToWrite, Goto, Crash
  <2> QED
    BY <2>1 DEF WhyNoDiff, NoDiffNoChanges
<1>4. CASE WriteRaises
  <2>1. faults' > 0
    BY <1>4 DEF WriteRaises, Fault, TypeOK
  <2> QED
    BY <1>4, <2>1 DEF WhyNoDiff
<1>5. CASE Finish
  <2>1. diff' = diff /\ diff = text /\ text \in Seq(SUBSET Change)
    BY <1>5 DEF Finish, disk, TrackerInv, WriteInv, TypeOK
  <2>2. diff' # NoFile
    BY <2>1, TrackerAssumption
  <2> QED
    BY <2>2 DEF WhyNoDiff, NoDiffNoChanges
<1>6. CASE Edit \/ Unlock \/ UNCHANGED vars
  <2>1. UNCHANGED <<phase, diff, store>> /\ faults' \in {faults, faults + 1}
    BY <1>6 DEF Edit, Unlock, Fault, vars, disk, run, counters
  <2> QED
    BY <2>1, StillWhyNoDiff
<1>7. CASE \/ Start \/ NextCollector \/ RotateFile \/ PrepareText \/ OpenDiff
           \/ WriteInFile \/ WriterPasses
  BY <1>1, <1>7 DEF Start, NextCollector, RotateFile, PrepareText, OpenDiff, WriteInFile,
                    WriterPasses, Goto
<1>8. ASSUME NEW h \in Hosts, HostStep(h) \/ CollectFails(h) PROVE phase' # "idle"
  BY <1>8 DEF HostStep, CollectDiffs, CollectFails, UpdateFails, UpdateEnds, UpdateSnapshot
<1> QED
  BY <1>1, <1>2, <1>3, <1>4, <1>5, <1>6, <1>7, <1>8 DEF Next, Writer

(* A run that found changes and ends without a diff.json either saw a      *)
(* command or the write fail, or found more than diff.json may hold:       *)
(* "No changes found" is right wherever neither happened.                  *)
THEOREM NoDiffNoChangesHolds ==
  Spec => [](faults = 0 /\ ~TooBig => NoDiffNoChanges)
<1>1. TrackerInv /\ WhyNoDiff /\ [Next]_vars => WhyNoDiff'
  BY StepKeepsWhyNoDiff
<1>2. WhyNoDiff => (faults = 0 /\ ~TooBig => NoDiffNoChanges)
  BY DEF WhyNoDiff, NoDiffNoChanges
<1> QED
  BY <1>1, <1>2, InitWhyNoDiff, InvariantHolds, PTL DEF Spec

(* The two steps after which "No changes found" is said of changes that    *)
(* were found (DiffsWriter).                                               *)
NoDiffOnlyByTheWriter ==
  [][NoDiffNoChanges /\ ~NoDiffNoChanges' => WriteRaises \/ (WriterFails /\ TooBig)]_vars

(* It takes a write that raised before there was a diff.json, or a writer  *)
(* that refused what is too big: no crash, and no failure of a collector   *)
(* or of an update, makes the message wrong.                               *)
THEOREM NoDiffOnlyByTheWriterHolds == Spec => NoDiffOnlyByTheWriter
<1>1. TrackerInv /\ WhyNoDiff /\ [Next]_vars => WhyNoDiff'
  BY StepKeepsWhyNoDiff
<1>2. ASSUME TrackerInv, WhyNoDiff, [Next]_vars
      PROVE  [NoDiffNoChanges /\ ~NoDiffNoChanges' => WriteRaises \/ (WriterFails /\ TooBig)]_vars
  BY <1>2, StepKeepsWhyNoDiff
<1> QED
  BY <1>1, <1>2, InitWhyNoDiff, InvariantHolds, PTL DEF Spec, NoDiffOnlyByTheWriter
=============================================================================
