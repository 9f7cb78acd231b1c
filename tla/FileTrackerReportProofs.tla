------------------------ MODULE FileTrackerReportProofs ------------------------
(***************************************************************************)
(* The proof that FileTracker reports a change once: how often a change is *)
(* found in diff.json and in the rotated files, through every step of a    *)
(* run, its failures and its crashes.                                      *)
(***************************************************************************)
EXTENDS FileTrackerProofs, FiniteSetTheorems

Runs == SUBSET Change

(* The reports of a change in the rotated files: which file, which run.    *)
Archived(a, i, g) == UNION {{<<k, r>> : r \in Reporting(a[k], i, g)} : k \in DOMAIN a}

(* How many runs of a file, and of the rotated ones, report a change.      *)
InFile(f, i, g) == Cardinality(Reporting(f, i, g))
InArchive(i, g) == Cardinality(Archived(archive, i, g))
-----------------------------------------------------------------------------
(* The runs of a file that report a change are finitely many.              *)
LEMMA ReportingFinite ==
  ASSUME NEW f \in Seq(Runs), NEW i, NEW g
  PROVE  IsFiniteSet(Reporting(f, i, g)) /\ InFile(f, i, g) \in Nat
<1>1. Reporting(f, i, g) \subseteq 1..Len(f) /\ IsFiniteSet(1..Len(f))
  BY FS_Interval DEF Reporting
<1> QED
  BY <1>1, FS_Subset, FS_CardinalityType DEF InFile

(* Marking the members of a finite set leaves as many of them.             *)
LEMMA MarkedFinite ==
  ASSUME NEW S, IsFiniteSet(S), NEW k
  PROVE  LET T == {<<k, r>> : r \in S}
         IN  IsFiniteSet(T) /\ Cardinality(T) <= Cardinality(S)
<1> DEFINE T == {<<k, r>> : r \in S}
           f == [r \in S |-> <<k, r>>]
<1>1. f \in Surjection(S, T)
  BY DEF Surjection
<1> HIDE DEF f
<1> QED
  BY <1>1, FS_Surjection

(* So are the reports in the rotated files.                                *)
LEMMA ArchivedFinite ==
  ASSUME NEW a \in Seq(Seq(Runs)), NEW i, NEW g
  PROVE  IsFiniteSet(Archived(a, i, g)) /\ Cardinality(Archived(a, i, g)) \in Nat
<1> DEFINE F(k) == {<<k, r>> : r \in Reporting(a[k], i, g)}
           D == {F(k) : k \in 1..Len(a)}
           f == [k \in 1..Len(a) |-> F(k)]
<1>1. \A k \in 1..Len(a) : IsFiniteSet(F(k))
  <2> TAKE k \in 1..Len(a)
  <2>1. a[k] \in Seq(Runs)
    OBVIOUS
  <2>2. IsFiniteSet(Reporting(a[k], i, g))
    BY <2>1, ReportingFinite
  <2> QED
    BY <2>2, MarkedFinite
<1> HIDE DEF F
<1>2. f \in Surjection(1..Len(a), D)
  BY DEF Surjection
<1> HIDE DEF f
<1>3. IsFiniteSet(D)
  BY <1>2, FS_Interval, FS_Surjection
<1>4. IsFiniteSet(UNION D)
  BY <1>1, <1>3, FS_UNION
<1>5. Archived(a, i, g) = UNION D
  BY DEF Archived, F
<1> QED
  BY <1>4, <1>5, FS_CardinalityType

(* One more run adds at most one report, and none when it has no such      *)
(* change.                                                                 *)
LEMMA AppendReports ==
  ASSUME NEW f \in Seq(Runs), NEW s \in Runs, NEW i, NEW g
  PROVE  /\ InFile(Append(f, s), i, g) <= InFile(f, i, g) + 1
         /\ (~\E c \in s : c.item = i /\ c.gen = g) => InFile(Append(f, s), i, g) = InFile(f, i, g)
<1> DEFINE h == Append(f, s)
           n == Len(f) + 1
<1>1. /\ Len(f) \in Nat /\ DOMAIN f = 1..Len(f) /\ DOMAIN h = 1..n
      /\ \A r \in 1..Len(f) : h[r] = f[r]
      /\ h[n] = s /\ n \notin DOMAIN f
  BY AppendProperties
<1> HIDE DEF h, n
<1>2. 1..n = (1..Len(f)) \cup {n}
  BY <1>1 DEF n
<1>3. Reporting(h, i, g) = Reporting(f, i, g) \cup (IF \E c \in s : c.item = i /\ c.gen = g THEN {n} ELSE {})
  BY <1>1, <1>2 DEF Reporting
<1>4. IsFiniteSet(Reporting(f, i, g)) /\ InFile(f, i, g) \in Nat
  BY ReportingFinite
<1>5. InFile(h, i, g) <= InFile(f, i, g) + 1
  <2>1. CASE \E c \in s : c.item = i /\ c.gen = g
    <3>1. Reporting(h, i, g) = Reporting(f, i, g) \cup {n}
      BY <1>3, <2>1
    <3>2. Cardinality(Reporting(h, i, g)) <= Cardinality(Reporting(f, i, g)) + 1
      <4> DEFINE R == Reporting(f, i, g)
      <4>1. IsFiniteSet(R) /\ Cardinality(R) \in Nat
        BY <1>4 DEF InFile
      <4> HIDE DEF R
      <4>2. Cardinality(R \cup {n}) = IF n \in R THEN Cardinality(R) ELSE Cardinality(R) + 1
        BY <4>1, FS_AddElement
      <4>3. Cardinality(R \cup {n}) <= Cardinality(R) + 1
        BY <4>1, <4>2
      <4> QED
        BY <3>1, <4>3 DEF R
    <3> QED
      BY <3>2 DEF InFile
  <2>2. CASE ~\E c \in s : c.item = i /\ c.gen = g
    BY <1>3, <1>4, <2>2 DEF InFile
  <2> QED
    BY <2>1, <2>2
<1>6. (~\E c \in s : c.item = i /\ c.gen = g) => InFile(h, i, g) = InFile(f, i, g)
  BY <1>3 DEF InFile
<1> QED
  BY <1>5, <1>6 DEF h

(* A rotation moves reports, and loses those of the last file.             *)
LEMMA RotatedReports ==
  ASSUME NEW f \in Seq(Runs), NEW a \in Seq(Seq(Runs)), NEW n \in Nat, n <= Len(a) + 1, NEW i, NEW g
  PROVE  Cardinality(Archived(SubSeq(<<f>> \o a, 1, n), i, g))
           <= InFile(f, i, g) + Cardinality(Archived(a, i, g))
<1> DEFINE b == SubSeq(<<f>> \o a, 1, n)
           M == {<<0, r>> : r \in Reporting(f, i, g)}
           S == M \cup Archived(a, i, g)
           T == Archived(b, i, g)
<1>1. /\ DOMAIN b = 1..n /\ DOMAIN a = 1..Len(a)
      /\ \A k \in 1..n : b[k] = IF k = 1 THEN f ELSE a[k - 1]
  <2>1. <<f>> \in Seq(Seq(Runs)) /\ Len(<<f>>) = 1 /\ <<f>>[1] = f
    OBVIOUS
  <2>2. \A k \in 1..Len(a) + 1 : (<<f>> \o a)[k] = IF k = 1 THEN f ELSE a[k - 1]
    BY <2>1, ConcatProperties
  <2>3. \A k \in 1..n : (<<f>> \o a)[k] \in Seq(Runs)
    BY <2>2
  <2>4. Len(b) = n /\ \A k \in 1..n : b[k] = (<<f>> \o a)[k]
    BY <2>3, SubSeqProperties
  <2>5. b \in Seq(Seq(Runs))
    BY <2>3, SubSeqProperties
  <2> HIDE DEF b
  <2> QED
    BY <2>2, <2>4, <2>5
<1>2. IsFiniteSet(M) /\ Cardinality(M) <= InFile(f, i, g)
  BY ReportingFinite, MarkedFinite DEF InFile
<1>3. IsFiniteSet(Archived(a, i, g)) /\ Cardinality(Archived(a, i, g)) \in Nat
  BY ArchivedFinite
<1> HIDE DEF b, M
<1>4. IsFiniteSet(S) /\ Cardinality(S) <= Cardinality(M) + Cardinality(Archived(a, i, g))
  <2>1. Cardinality(M \cap Archived(a, i, g)) \in Nat /\ Cardinality(M) \in Nat
    BY <1>2, FS_Intersection, FS_CardinalityType
  <2> DEFINE A == Archived(a, i, g)
  <2>2. IsFiniteSet(A) /\ Cardinality(A) \in Nat
    BY <1>3
  <2> HIDE DEF A
  <2>3. /\ IsFiniteSet(M \cup A)
        /\ Cardinality(M \cup A) = Cardinality(M) + Cardinality(A) - Cardinality(M \cap A)
    BY <1>2, <2>2, FS_Union
  <2>4. Cardinality(M \cap A) \in Nat
    BY <2>1 DEF A
  <2>5. Cardinality(M \cup A) <= Cardinality(M) + Cardinality(A)
    BY <2>1, <2>2, <2>3, <2>4
  <2> QED
    BY <2>3, <2>5 DEF A
<1> DEFINE back == [p \in T |-> <<p[1] - 1, p[2]>>]
<1>5. \A p \in T : \E k \in 1..n : p = <<k, p[2]>> /\ p[2] \in Reporting(b[k], i, g)
  BY <1>1 DEF Archived
<1>6. back \in Injection(T, S)
  <2>1. ASSUME NEW p \in T PROVE <<p[1] - 1, p[2]>> \in S
    <3>1. PICK k \in 1..n : p = <<k, p[2]>> /\ p[2] \in Reporting(b[k], i, g)
      BY <1>5
    <3>2. CASE k = 1
      <4>1. <<0, p[2]>> \in M
        BY <1>1, <3>1, <3>2 DEF M
      <4>2. p[1] - 1 = 0
        BY <3>1, <3>2
      <4> QED
        BY <4>1, <4>2
    <3>3. CASE k # 1
      <4>1. k - 1 \in 1..Len(a) /\ p[2] \in Reporting(a[k - 1], i, g)
        BY <1>1, <3>1, <3>3
      <4>2. <<k - 1, p[2]>> \in Archived(a, i, g)
        BY <1>1, <4>1 DEF Archived
      <4>3. p[1] = k
        BY <3>1
      <4> QED
        BY <4>2, <4>3
    <3> QED
      BY <3>2, <3>3
  <2>2. ASSUME NEW p \in T, NEW q \in T, <<p[1] - 1, p[2]>> = <<q[1] - 1, q[2]>> PROVE p = q
    <3>1. PICK k \in 1..n : p = <<k, p[2]>>
      BY <1>5
    <3>2. PICK l \in 1..n : q = <<l, q[2]>>
      BY <1>5
    <3>3. p[1] = k /\ q[1] = l
      BY <3>1, <3>2
    <3>4. k - 1 = l - 1 /\ p[2] = q[2]
      BY <2>2, <3>3
    <3> QED
      BY <3>1, <3>2, <3>4
  <2> HIDE DEF S, T
  <2> QED
    BY <2>1, <2>2 DEF Injection, IsInjective
<1> HIDE DEF S, T, back
<1>7. IsFiniteSet(T) /\ Cardinality(T) <= Cardinality(S)
  BY <1>4, <1>6, FS_Injection
<1>8. Cardinality(S) \in Nat /\ Cardinality(T) \in Nat /\ Cardinality(M) \in Nat /\ InFile(f, i, g) \in Nat
  BY <1>2, <1>4, <1>7, FS_CardinalityType, ReportingFinite
<1> QED
  BY <1>2, <1>3, <1>4, <1>7, <1>8 DEF T, b
-----------------------------------------------------------------------------
(* What is written is about snapshots that were taken.                     *)
Old(f) == \A r \in DOMAIN f : \A c \in f[r] : c.gen <= gen[c.item]

OldInv ==
  /\ IsJson => Old(diff)
  /\ phase \in {"open", "opened"} => Old(text)
  /\ \A a \in DOMAIN archive : Old(archive[a])

(* A change is collected against a snapshot, which is there until the      *)
(* update.                                                                 *)
SnapshotInv ==
  phase \in {"collect", "write", "open", "opened", "written"} => \A c \in store : snap[c.item] # NoSnapshot

Pending(i) == \E c \in store : c.item = i

(* A change is on disk and its host will update the snapshot.              *)
Due(i) ==
  \/ phase = "written" /\ Pending(i)
  \/ phase = "update" /\ HostOf[i] \in todo /\ \E c \in pending : c.item = i

(* The present snapshot of an item may be compared again.                  *)
Compared(i, g) == g = gen[i] /\ snap[i] # NoSnapshot

(* A change that may be reported again has one report less than it may     *)
(* have; what is being written counts with the files it is written to.     *)
CountInv(i, g) ==
  /\ Reports(i, g) <= slips + 1
  /\ Compared(i, g) /\ ~Due(i) /\ ~locked => Reports(i, g) <= slips
  /\ phase \in {"open", "opened"} =>
       /\ InFile(text, i, g) + InArchive(i, g) <= slips + 1
       /\ Compared(i, g) /\ ~Pending(i) => InFile(text, i, g) + InArchive(i, g) <= slips

CountsInv == \A i \in Items, g \in Nat : <<i, g>> \notin vanished => CountInv(i, g)

ReportInv == OldInv /\ SnapshotInv /\ CountsInv
-----------------------------------------------------------------------------
(* Reports are those of diff.json and those of the rotated files.          *)
LEMMA ReportsAre ==
  ASSUME TypeOK, NEW i, NEW g
  PROVE  /\ Reports(i, g) = (IF IsJson THEN InFile(diff, i, g) ELSE 0) + InArchive(i, g)
         /\ Reports(i, g) \in Nat /\ InArchive(i, g) \in Nat
         /\ InFile(text, i, g) \in Nat /\ (IsJson => InFile(diff, i, g) \in Nat)
<1>1. text \in Seq(Runs) /\ archive \in Seq(Seq(Runs)) /\ (IsJson => diff \in Seq(Runs))
  BY DEF TypeOK, Runs, IsJson
<1>2. InArchive(i, g) \in Nat
  BY <1>1, ArchivedFinite DEF InArchive
<1>3. InFile(text, i, g) \in Nat /\ (IsJson => InFile(diff, i, g) \in Nat)
  BY <1>1, ReportingFinite
<1>4. Reports(i, g) = (IF IsJson THEN InFile(diff, i, g) ELSE 0) + InArchive(i, g)
  BY DEF Reports, InFile, InArchive, Archived
<1> QED
  BY <1>2, <1>3, <1>4

(* The same of the state after a step.                                     *)
LEMMA ReportsAreNext ==
  ASSUME TypeOK', NEW i, NEW g
  PROVE  /\ Reports(i, g)' = (IF IsJson' THEN InFile(diff', i, g) ELSE 0) + InArchive(i, g)'
         /\ Reports(i, g)' \in Nat /\ InArchive(i, g)' \in Nat
<1>1. archive' \in Seq(Seq(Runs)) /\ (IsJson' => diff' \in Seq(Runs))
  BY DEF TypeOK, Runs, IsJson
<1>2. InArchive(i, g)' \in Nat
  BY <1>1, ArchivedFinite DEF InArchive
<1>3. IsJson' => InFile(diff', i, g) \in Nat
  BY <1>1, ReportingFinite
<1>4. Reports(i, g)' = (IF IsJson' THEN InFile(diff', i, g) ELSE 0) + InArchive(i, g)'
  BY DEF Reports, InFile, InArchive, Archived
<1> QED
  BY <1>2, <1>3, <1>4

(* No change is reported against a snapshot that is yet to be taken.       *)
LEMMA NoneAhead ==
  ASSUME TypeOK, OldInv, NEW i \in Items, NEW g \in Nat, g > gen[i]
  PROVE  Reports(i, g) = 0
<1>0. gen[i] \in Nat /\ ~(g <= gen[i])
  BY DEF TypeOK
<1>1. IsJson => Reporting(diff, i, g) = {}
  BY <1>0 DEF OldInv, Old, Reporting
<1>2. \A a \in DOMAIN archive : Reporting(archive[a], i, g) = {}
  BY <1>0 DEF OldInv, Old, Reporting
<1>3. Archived(archive, i, g) = {}
  BY <1>2 DEF Archived
<1> QED
  BY <1>1, <1>3, ReportsAre, FS_EmptySet DEF InFile, InArchive

(* A step that leaves the files alone and is not about to write keeps the  *)
(* counts, when it is a slip or makes no more changes free to be reported. *)
LEMMA QuietKeepsCounts ==
  ASSUME TypeOK, TypeOK', OldInv, CountsInv, UNCHANGED <<diff, archive>>,
         vanished \subseteq vanished', phase' \notin {"open", "opened"},
         \A i \in Items : gen'[i] >= gen[i],
         \/ slips' = slips + 1
         \/ /\ slips' = slips
            /\ \A i \in Items : /\ snap'[i] # NoSnapshot /\ gen'[i] = gen[i] /\ ~locked'
                                /\ <<i, gen[i]>> \notin vanished' /\ ~Due(i)'
                                => snap[i] # NoSnapshot /\ ~locked /\ ~Due(i)
  PROVE  OldInv' /\ CountsInv'
<1>1. OldInv'
  <2>1. ASSUME NEW c \in Change, c.gen <= gen[c.item] PROVE c.gen <= gen'[c.item]
    <3>1. c.item \in Items /\ c.gen \in Nat
      BY DEF Change
    <3>2. gen[c.item] \in Nat /\ gen'[c.item] \in Nat /\ gen'[c.item] >= gen[c.item]
      BY <3>1 DEF TypeOK
    <3> QED
      BY <2>1, <3>1, <3>2
  <2>2. IsJson => diff \in Seq(SUBSET Change)
    BY DEF TypeOK, IsJson
  <2>3. \A a \in DOMAIN archive : archive[a] \in Seq(SUBSET Change)
    BY DEF TypeOK
  <2> QED
    BY <2>1, <2>2, <2>3 DEF OldInv, Old, IsJson
<1>2. ASSUME NEW i \in Items, NEW g \in Nat, <<i, g>> \notin vanished'
      PROVE  CountInv(i, g)'
  <2>1. Reports(i, g)' = Reports(i, g)
    BY DEF Reports, IsJson, Reporting
  <2>2. /\ Reports(i, g) \in Nat /\ slips \in Nat /\ slips' \in Nat
        /\ gen[i] \in Nat /\ gen'[i] \in Nat /\ gen'[i] >= gen[i]
    BY ReportsAre DEF TypeOK
  <2>3. CountInv(i, g)
    BY <1>2 DEF CountsInv
  <2>4. CASE slips' = slips + 1
    BY <2>1, <2>2, <2>3, <2>4 DEF CountInv
  <2>5. CASE slips' = slips /\ gen'[i] = gen[i]
    BY <1>2, <2>1, <2>3, <2>5 DEF CountInv, Compared
  <2>6. CASE slips' = slips /\ gen'[i] # gen[i]
    <3>1. g > gen[i] => Reports(i, g) = 0
      BY NoneAhead
    <3> QED
      BY <2>1, <2>2, <2>3, <2>6, <3>1 DEF CountInv, Compared
  <2> QED
    BY <2>4, <2>5, <2>6
<1> QED
  BY <1>1, <1>2 DEF CountsInv

(* The collectors add changes against snapshots, and first snapshots,      *)
(* which no report is about.                                               *)
LEMMA CollectKeepsReports ==
  ASSUME TrackerInv, TrackerInv', ReportInv, NEW h \in Hosts, CollectDiffs(h) \/ CollectFails(h)
  PROVE  ReportInv'
<1>1. PICK S \in SUBSET FirstSnapshots(h, kind) : TakeSnapshots(S)
  BY DEF CollectDiffs, CollectFails
<1>2. /\ phase = "collect" /\ h \in todo /\ phase' = phase /\ slips' = slips
      /\ UNCHANGED <<diff, archive, vanished, locked>>
  BY DEF CollectDiffs, CollectFails
<1>3. \A i \in Items : snap[i] # NoSnapshot => snap'[i] = snap[i] /\ gen'[i] = gen[i]
  BY <1>1, <1>2, FirstSnapshotsKeepStore
<1>4. \A i \in Items : gen'[i] \in {gen[i], gen[i] + 1} /\ gen[i] \in Nat
                       /\ (gen'[i] = gen[i] => snap'[i] = snap[i])
  BY <1>1 DEF TakeSnapshots, TrackerInv, TypeOK
<1>5. OldInv' /\ CountsInv'
  <2>1. \A i \in Items : gen'[i] >= gen[i]
    BY <1>4
  <2>2. \A i \in Items : snap'[i] # NoSnapshot /\ gen'[i] = gen[i] /\ ~locked'
                         => snap[i] # NoSnapshot /\ ~locked /\ ~Due(i)
    BY <1>2, <1>4 DEF Due
  <2> QED
    BY <1>2, <2>1, <2>2, QuietKeepsCounts DEF TrackerInv, ReportInv
<1>6. SnapshotInv'
  <2>1. ASSUME NEW c \in store' PROVE c.item \in Items /\ snap[c.item] # NoSnapshot
    <3>1. CASE c \in store
      BY <1>2, <3>1 DEF ReportInv, SnapshotInv, TrackerInv, TypeOK, Change
    <3>2. CASE c \notin store
      <4>1. \E i \in Differ(h, kind) : c = ChangeOf(i)
        BY <2>1, <3>2 DEF CollectDiffs, CollectFails, Kept
      <4> QED
        BY <4>1 DEF Differ, ItemsOf, ChangeOf
    <3> QED
      BY <3>1, <3>2
  <2> QED
    BY <1>3, <2>1 DEF SnapshotInv
<1> QED
  BY <1>5, <1>6 DEF ReportInv

(* What is to be written counts one report more for the changes it has,    *)
(* which had room for it.                                                  *)
LEMMA TextKeepsReports ==
  ASSUME TrackerInv, TrackerInv', ReportInv, RotateFile \/ PrepareText
  PROVE  ReportInv'
<1>1. /\ phase = "write" /\ phase' = "open" /\ ~locked /\ ~locked' /\ store' = store
      /\ UNCHANGED <<snap, gen, vanished, slips>>
  BY DEF RotateFile, PrepareText, Goto, counters, disk, TrackerInv, LockInv
<1>2. store \in Runs /\ text' \in Seq(Runs) /\ archive \in Seq(Seq(Runs)) /\ archive' \in Seq(Seq(Runs))
      /\ diff \in Seq(Runs) \cup {NoFile, Truncated} /\ slips \in Nat
  BY DEF TrackerInv, TypeOK, Runs
<1>3. PICK f \in Seq(Runs) :
        /\ text' = Append(f, store) /\ Old(f)
        /\ \A i, g : InFile(f, i, g) + Cardinality(Archived(archive', i, g)) <= Reports(i, g)
        /\ \A a \in DOMAIN archive' : Old(archive'[a])
        /\ diff' = NoFile \/ (diff' = diff /\ archive' = archive)
        /\ archive' = archive \/ diff' = NoFile
  <2>1. CASE RotateFile
    <3>1. IsJson /\ diff \in Seq(Runs) /\ text' = <<store>> /\ diff' = NoFile
      BY <1>2, <2>1 DEF RotateFile, IsJson
    <3>2. PICK n \in Nat : n <= Len(archive) + 1 /\ archive' = SubSeq(<<diff>> \o archive, 1, n)
      <4> DEFINE m == IF Len(archive) < Backups THEN Len(archive) + 1 ELSE Backups
      <4>1. m \in Nat /\ m <= Len(archive) + 1
        BY <1>2, TrackerAssumption
      <4>2. archive' = SubSeq(<<diff>> \o archive, 1, m)
        BY <2>1 DEF RotateFile
      <4> HIDE DEF m
      <4> QED
        BY <4>1, <4>2
    <3>3. ASSUME NEW i, NEW g
          PROVE  InFile(<<>>, i, g) + Cardinality(Archived(archive', i, g)) <= Reports(i, g)
      <4>1. InFile(<<>>, i, g) = 0
        BY FS_EmptySet DEF InFile, Reporting
      <4>2. Cardinality(Archived(archive', i, g)) <= InFile(diff, i, g) + Cardinality(Archived(archive, i, g))
        BY <1>2, <3>1, <3>2, RotatedReports
      <4>3. Reports(i, g) = InFile(diff, i, g) + Cardinality(Archived(archive, i, g))
        BY <3>1, ReportsAre DEF TrackerInv, InArchive
      <4>4. Cardinality(Archived(archive', i, g)) \in Nat
        BY <1>2, ArchivedFinite
      <4> QED
        BY <4>1, <4>2, <4>3, <4>4
    <3>4. \A a \in DOMAIN archive' : Old(archive'[a])
      <4>1. <<diff>> \in Seq(Seq(Runs)) /\ Len(<<diff>>) = 1 /\ <<diff>>[1] = diff
        BY <3>1
      <4>2. \A k \in 1..Len(archive) + 1 : (<<diff>> \o archive)[k] = IF k = 1 THEN diff ELSE archive[k - 1]
        BY <1>2, <4>1, ConcatProperties
      <4>3. \A k \in 1..n : (<<diff>> \o archive)[k] \in Seq(Runs)
        BY <1>2, <3>1, <3>2, <4>2
      <4>4. DOMAIN archive' = 1..n /\ \A k \in 1..n : archive'[k] = (<<diff>> \o archive)[k]
        BY <1>2, <3>2, <4>3, SubSeqProperties
      <4>5. Old(diff) /\ \A a \in 1..Len(archive) : Old(archive[a])
        BY <1>2, <3>1 DEF ReportInv, OldInv
      <4> QED
        BY <1>2, <3>2, <4>2, <4>4, <4>5
    <3>5. <<>> \in Seq(Runs) /\ text' = Append(<<>>, store) /\ Old(<<>>)
      BY <3>1 DEF Old
    <3> QED
      BY <3>1, <3>3, <3>4, <3>5
  <2>2. CASE PrepareText
    <3> DEFINE f == IF diff = NoFile THEN <<>> ELSE diff
    <3>1. diff' = diff /\ archive' = archive /\ text' = Append(f, store) /\ diff # Truncated
      BY <2>2 DEF PrepareText, Goto, disk
    <3>2. f \in Seq(Runs) /\ Old(f)
      BY <1>2, <3>1 DEF ReportInv, OldInv, IsJson, Old
    <3>3. ASSUME NEW i, NEW g
          PROVE  InFile(f, i, g) + Cardinality(Archived(archive', i, g)) <= Reports(i, g)
      <4>1. InFile(<<>>, i, g) = 0
        BY FS_EmptySet DEF InFile, Reporting
      <4>2. InFile(f, i, g) = IF IsJson THEN InFile(diff, i, g) ELSE 0
        BY <3>1, <4>1 DEF IsJson
      <4>3. Reports(i, g) = InFile(f, i, g) + Cardinality(Archived(archive', i, g)) /\ Reports(i, g) \in Nat
        BY <3>1, <4>2, ReportsAre DEF TrackerInv, InArchive
      <4> QED
        BY <4>3
    <3>4. \A a \in DOMAIN archive' : Old(archive'[a])
      BY <3>1 DEF ReportInv, OldInv
    <3> HIDE DEF f
    <3> QED
      BY <3>1, <3>2, <3>3, <3>4
  <2> QED
    BY <2>1, <2>2
<1>4. OldInv'
  <2>1. Old(text')
    <3>1. \A c \in store : c.gen = gen[c.item] /\ gen[c.item] \in Nat
      BY <1>1 DEF TrackerInv, TypeOK, StoreInv, Change
    <3>2. /\ DOMAIN f = 1..Len(f) /\ Len(f) \in Nat /\ DOMAIN text' = 1..(Len(f) + 1)
          /\ text'[Len(f) + 1] = store /\ \A r \in 1..Len(f) : text'[r] = f[r]
      BY <1>2, <1>3, AppendProperties
    <3> QED
      BY <1>3, <3>1, <3>2 DEF Old
  <2>2. IsJson' => diff' = diff /\ IsJson
    BY <1>3 DEF IsJson
  <2> QED
    BY <1>1, <1>3, <2>1, <2>2 DEF OldInv, Old, ReportInv
<1>5. ASSUME NEW i \in Items, NEW g \in Nat, <<i, g>> \notin vanished'
      PROVE  CountInv(i, g)'
  <2>1. CountInv(i, g) /\ ~Due(i) /\ Reports(i, g) \in Nat
    BY <1>1, <1>5, ReportsAre DEF ReportInv, CountsInv, Due, TrackerInv
  <2>2. Reports(i, g)' <= Reports(i, g)
    <3>1. CASE diff' = NoFile
      <4>1. Reports(i, g)' = InArchive(i, g)'
        <5>1. ~IsJson'
          BY <3>1 DEF IsJson
        <5>2. Reports(i, g)' = (IF IsJson' THEN InFile(diff', i, g) ELSE 0) + InArchive(i, g)'
              /\ InArchive(i, g)' \in Nat
          BY ReportsAreNext DEF TrackerInv
        <5> QED
          BY <5>1, <5>2
      <4>2. InFile(f, i, g) \in Nat /\ Cardinality(Archived(archive', i, g)) \in Nat
        BY <1>2, ReportingFinite, ArchivedFinite
      <4> QED
        BY <1>3, <2>1, <4>1, <4>2 DEF InArchive
    <3>2. CASE diff' = diff /\ archive' = archive
      <4>1. Reports(i, g)' = Reports(i, g)
        BY <3>2 DEF Reports, IsJson, Reporting
      <4> QED
        BY <2>1, <4>1
    <3> QED
      BY <1>3, <3>1, <3>2
  <2>3. /\ InFile(text', i, g) <= InFile(f, i, g) + 1
        /\ (~\E c \in store : c.item = i /\ c.gen = g) => InFile(text', i, g) = InFile(f, i, g)
    BY <1>2, <1>3, AppendReports
  <2>4. InFile(f, i, g) + InArchive(i, g)' <= Reports(i, g)
    BY <1>3 DEF InArchive
  <2>5. InFile(f, i, g) \in Nat /\ InFile(text', i, g) \in Nat /\ InArchive(i, g)' \in Nat
    BY <1>2, ReportingFinite, ArchivedFinite DEF InArchive
  <2>6. \A c \in store : c.item = i /\ c.gen = g => Compared(i, g)
    BY <1>1 DEF TrackerInv, StoreInv, ReportInv, SnapshotInv, Compared
  <2>7. Reports(i, g)' \in Nat
    BY ReportsAreNext DEF TrackerInv
  <2>8. InFile(text', i, g) + InArchive(i, g)' <= slips + 1
    BY <1>1, <1>2, <2>1, <2>3, <2>4, <2>5, <2>6 DEF CountInv
  <2>9. Compared(i, g) /\ ~Pending(i) => InFile(text', i, g) + InArchive(i, g)' <= slips
    BY <1>1, <1>2, <2>1, <2>3, <2>4, <2>5 DEF CountInv, Pending
  <2>10. Reports(i, g)' <= slips + 1 /\ (Compared(i, g) => Reports(i, g)' <= slips)
    BY <1>1, <1>2, <2>1, <2>2, <2>7 DEF CountInv
  <2>11. InFile(text, i, g)' = InFile(text', i, g) /\ Compared(i, g)' = Compared(i, g) /\ Pending(i)' = Pending(i)
    BY <1>1 DEF InFile, Reporting, Compared, Pending
  <2> QED
    BY <1>1, <2>8, <2>9, <2>10, <2>11 DEF CountInv
<1> QED
  BY <1>1, <1>4, <1>5 DEF ReportInv, CountsInv, SnapshotInv

(* Opening diff.json takes away the reports it had, which the text has.    *)
LEMMA OpenKeepsReports ==
  ASSUME TrackerInv, TrackerInv', ReportInv, OpenDiff
  PROVE  ReportInv'
<1>1. /\ phase = "open" /\ phase' = "opened" /\ diff' = Truncated
      /\ UNCHANGED <<snap, gen, archive, locked, text, store, vanished, slips>>
  BY DEF OpenDiff, Goto, counters
<1>2. OldInv' /\ SnapshotInv'
  BY <1>1 DEF ReportInv, OldInv, SnapshotInv, Old, IsJson
<1>3. ASSUME NEW i \in Items, NEW g \in Nat, <<i, g>> \notin vanished'
      PROVE  CountInv(i, g)'
  <2>1. CountInv(i, g) /\ ~Due(i)
    BY <1>1, <1>3 DEF ReportInv, CountsInv, Due
  <2>2. Reports(i, g)' = InArchive(i, g)' /\ InArchive(i, g)' = InArchive(i, g)
    BY <1>1, ReportsAreNext DEF TrackerInv, IsJson, InArchive
  <2>3. Reports(i, g)' <= Reports(i, g)
    BY <2>2, ReportsAre DEF TrackerInv
  <2>4. Reports(i, g) \in Nat /\ Reports(i, g)' \in Nat /\ slips \in Nat
    BY ReportsAre, ReportsAreNext DEF TrackerInv, TypeOK
  <2>5. /\ InFile(text, i, g)' = InFile(text, i, g)
        /\ Compared(i, g)' = Compared(i, g) /\ Pending(i)' = Pending(i)
    BY <1>1 DEF InFile, Reporting, Compared, Pending
  <2> QED
    BY <1>1, <2>1, <2>2, <2>3, <2>4, <2>5 DEF CountInv
<1> QED
  BY <1>2, <1>3 DEF ReportInv, CountsInv

(* The text becomes diff.json, and what was added to it is due once the    *)
(* writer passes.                                                          *)
LEMMA WriteKeepsReports ==
  ASSUME TrackerInv, TrackerInv', ReportInv, WriteInFile
  PROVE  ReportInv'
<1>1. /\ phase = "opened" /\ phase' = "written" /\ diff' = text
      /\ UNCHANGED <<snap, gen, archive, locked, store, vanished, slips>>
  BY DEF WriteInFile, Goto, counters
<1>2. text \in Seq(SUBSET Change) /\ IsJson'
  BY <1>1, TrackerAssumption DEF TrackerInv, TypeOK, IsJson
<1>3. OldInv' /\ SnapshotInv'
  BY <1>1 DEF ReportInv, OldInv, SnapshotInv, Old
<1>4. ASSUME NEW i \in Items, NEW g \in Nat, <<i, g>> \notin vanished'
      PROVE  CountInv(i, g)'
  <2>1. CountInv(i, g)
    BY <1>1, <1>4 DEF ReportInv, CountsInv
  <2>2. Reports(i, g)' = InFile(text, i, g) + InArchive(i, g)
    BY <1>1, <1>2, ReportsAreNext DEF TrackerInv, InArchive
  <2>3. Pending(i) => Due(i)'
    BY <1>1 DEF Pending, Due
  <2>4. Compared(i, g)' = Compared(i, g)
    BY <1>1 DEF Compared
  <2> QED
    BY <1>1, <2>1, <2>2, <2>3, <2>4 DEF CountInv
<1> QED
  BY <1>3, <1>4 DEF ReportInv, CountsInv

(* What is due when the text is on disk is due when the writer passes.     *)
LEMMA PassKeepsReports ==
  ASSUME TrackerInv, TrackerInv', ReportInv, WriterPasses
  PROVE  ReportInv'
<1>1. /\ phase = "written" /\ phase' = "update" /\ pending' = store /\ todo' = Hosts
      /\ UNCHANGED <<snap, gen, diff, archive, locked, vanished, slips>>
  BY DEF WriterPasses, disk, counters
<1>2. \A i \in Items : Due(i) => Due(i)'
  BY <1>1, TrackerAssumption DEF Due, Pending
<1>3. \A i \in Items : gen'[i] >= gen[i]
  BY <1>1 DEF TrackerInv, TypeOK
<1>4. phase' \notin {"open", "opened"}
  BY <1>1
<1>5. OldInv' /\ CountsInv'
  BY <1>1, <1>2, <1>3, <1>4, QuietKeepsCounts DEF TrackerInv, ReportInv
<1>6. SnapshotInv'
  BY <1>1 DEF SnapshotInv
<1> QED
  BY <1>5, <1>6 DEF ReportInv

(* A new snapshot, or none, makes the change that was due impossible to    *)
(* report again, or it is one that was gone.                               *)
LEMMA UpdateKeepsReports ==
  ASSUME TrackerInv, TrackerInv', ReportInv, NEW c \in pending, UpdateSnapshot(c)
  PROVE  ReportInv'
<1>1. /\ phase = "update" /\ phase' = phase /\ pending' = pending \ {c}
      /\ UNCHANGED <<diff, archive, locked, todo, slips>>
  BY DEF UpdateSnapshot, counters
<1>2. c.item \in Items /\ c.gen = gen[c.item]
  BY DEF TrackerInv, TypeOK, PendingInv, Change
<1>3. /\ vanished \subseteq vanished' /\ \A i \in Items : gen'[i] \in {gen[i], gen[i] + 1}
      /\ \A i \in Items : i # c.item => snap'[i] = snap[i]
      /\ snap'[c.item] # NoSnapshot /\ gen'[c.item] = gen[c.item] => <<c.item, gen[c.item]>> \in vanished'
  <2>1. gen \in [Items -> Nat] /\ snap \in [Items -> Taken]
    BY DEF TrackerInv, TypeOK, Taken
  <2>2. CASE Renamed(c) /\ snap' = [snap EXCEPT ![c.item] = NoSnapshot] /\ UNCHANGED <<gen, vanished>>
    BY <1>2, <2>1, <2>2
  <2>3. CASE TakeSnapshots({c.item}) /\ UNCHANGED vanished
    BY <1>2, <2>1, <2>3 DEF TakeSnapshots
  <2>4. CASE vanished' = vanished \cup {<<c.item, c.gen>>} /\ UNCHANGED <<snap, gen>>
    BY <1>2, <2>1, <2>4
  <2> QED
    BY <2>2, <2>3, <2>4 DEF UpdateSnapshot
<1>4. ASSUME NEW i \in Items, snap'[i] # NoSnapshot, gen'[i] = gen[i], ~locked',
             <<i, gen[i]>> \notin vanished', ~Due(i)'
      PROVE  snap[i] # NoSnapshot /\ ~locked /\ ~Due(i)
  <2>1. i # c.item
    BY <1>3, <1>4
  <2> QED
    BY <1>1, <1>3, <1>4, <2>1 DEF Due
<1>5. ASSUME NEW i \in Items PROVE gen'[i] >= gen[i]
  <2>1. gen[i] \in Nat /\ gen'[i] \in {gen[i], gen[i] + 1}
    BY <1>3 DEF TrackerInv, TypeOK
  <2> QED
    BY <2>1
<1>6. phase' \notin {"open", "opened"}
  BY <1>1
<1>7. OldInv' /\ CountsInv'
  BY <1>1, <1>3, <1>4, <1>5, <1>6, QuietKeepsCounts DEF TrackerInv, ReportInv
<1>8. SnapshotInv'
  BY <1>1 DEF SnapshotInv
<1> QED
  BY <1>7, <1>8 DEF ReportInv

(* A host that cannot update locks the tracker, or that is a slip.         *)
LEMMA UpdateEndsKeepsReports ==
  ASSUME TrackerInv, TrackerInv', ReportInv, NEW h \in Hosts, UpdateFails(h) \/ UpdateEnds(h)
  PROVE  ReportInv'
<1>1. /\ phase = "update" /\ phase' = phase /\ todo' = todo \ {h}
      /\ UNCHANGED <<snap, gen, diff, archive, pending, vanished>>
  BY DEF UpdateFails, UpdateEnds, disk, counters
<1>2. \/ slips' = slips + 1
      \/ slips' = slips /\ locked' = TRUE
      \/ slips' = slips /\ locked' = locked /\ Of(h) = {}
  BY DEF UpdateFails, UpdateEnds, disk, counters
<1>3. ASSUME Of(h) = {}, NEW i \in Items, Due(i)
      PROVE  Due(i)'
  <2>1. PICK c \in pending : c.item = i
    BY <1>1, <1>3 DEF Due
  <2>2. HostOf[i] # h
    BY <1>3, <2>1 DEF Of
  <2> QED
    BY <1>1, <1>3, <2>2 DEF Due
<1>4. \A i \in Items : gen'[i] >= gen[i]
  BY <1>1 DEF TrackerInv, TypeOK
<1>5. phase' \notin {"open", "opened"}
  BY <1>1
<1>6. OldInv' /\ CountsInv'
  BY <1>1, <1>2, <1>3, <1>4, <1>5, QuietKeepsCounts DEF TrackerInv, ReportInv
<1>7. SnapshotInv'
  BY <1>1 DEF SnapshotInv
<1> QED
  BY <1>6, <1>7 DEF ReportInv

(* The other steps of a run write nothing, take no snapshot and end no     *)
(* update early, but for a crash and a writer that raises when the text is *)
(* on disk, which are slips; so is an unlock.                              *)
LEMMA OthersKeepReports ==
  ASSUME TrackerInv, TrackerInv', ReportInv,
         \/ Start \/ NextCollector \/ WriterFails \/ NothingToWrite \/ WriteRaises
         \/ Finish \/ Crash \/ Unlock
  PROVE  ReportInv'
<1>1. UNCHANGED <<snap, gen, diff, archive, vanished>>
  BY DEF Start, NextCollector, WriterFails, NothingToWrite, WriteRaises, Finish, Crash, Unlock, disk
<1>2. phase' \in {"idle", "collect", "write"}
      /\ (phase' # "idle" => store' = {} \/ (store' = store /\ phase = "collect"))
  BY DEF Start, NextCollector, WriterFails, NothingToWrite, WriteRaises, Finish, Crash, Unlock, Goto, run
<1>3. \/ slips' = slips + 1
      \/ /\ slips' = slips /\ locked' = locked
         /\ \A i \in Items : ~Due(i)
  BY DEF Start, NextCollector, WriterFails, NothingToWrite, WriteRaises, Finish, Crash, Unlock, Due,
         disk, counters
<1>4. \A i \in Items : gen'[i] >= gen[i]
  BY <1>1 DEF TrackerInv, TypeOK
<1>5. OldInv' /\ CountsInv'
  BY <1>1, <1>2, <1>3, <1>4, QuietKeepsCounts DEF TrackerInv, ReportInv
<1>6. SnapshotInv'
  BY <1>1, <1>2 DEF SnapshotInv, ReportInv
<1> QED
  BY <1>5, <1>6 DEF ReportInv

(* Edits touch nothing that is counted.                                    *)
LEMMA EditKeepsReports ==
  ASSUME ReportInv, Edit \/ UNCHANGED vars
  PROVE  ReportInv'
<1>1. UNCHANGED <<disk, run, vanished, slips>>
  BY DEF Edit, vars, counters
<1>2. OldInv' /\ SnapshotInv'
  BY <1>1 DEF disk, run, ReportInv, OldInv, SnapshotInv, Old, IsJson
<1>3. \A i, g : /\ Reports(i, g)' = Reports(i, g) /\ Due(i)' = Due(i) /\ Compared(i, g)' = Compared(i, g)
                /\ InFile(text, i, g)' = InFile(text, i, g) /\ InArchive(i, g)' = InArchive(i, g)
                /\ Pending(i)' = Pending(i)
  BY <1>1 DEF disk, run, Reports, IsJson, Reporting, Due, Compared, InFile, InArchive, Archived, Pending
<1>4. ASSUME NEW i \in Items, NEW g \in Nat, CountInv(i, g)
      PROVE  CountInv(i, g)'
  BY <1>1, <1>3, <1>4 DEF CountInv, disk, run
<1> QED
  BY <1>1, <1>2, <1>4 DEF ReportInv, CountsInv

(* There is nothing to count at first.                                     *)
LEMMA InitReports == ASSUME Init PROVE ReportInv
<1>1. TypeOK /\ IsJson = FALSE /\ archive = <<>> /\ slips = 0 /\ phase = "idle" /\ ~locked
  BY InitTrackerInv DEF Init, TrackerInv, IsJson
<1>2. ASSUME NEW i \in Items, NEW g \in Nat PROVE CountInv(i, g)
  <2>1. Archived(archive, i, g) = {}
    BY <1>1 DEF Archived
  <2>2. InArchive(i, g) = 0
    BY <2>1, FS_EmptySet DEF InArchive
  <2>3. Reports(i, g) = 0
    BY <1>1, <2>2, ReportsAre
  <2> QED
    BY <1>1, <2>3 DEF CountInv
<1> QED
  BY <1>1, <1>2 DEF ReportInv, OldInv, SnapshotInv, CountsInv

(* Every step keeps the counts.                                            *)
LEMMA StepKeepsReports ==
  ASSUME TrackerInv, TrackerInv', ReportInv, [Next]_vars
  PROVE  ReportInv'
<1>1. ASSUME NEW h \in Hosts, HostStep(h) \/ CollectFails(h) PROVE ReportInv'
  <2>1. CASE \E c \in Of(h) : UpdateSnapshot(c)
    BY <2>1, UpdateKeepsReports DEF Of
  <2> QED
    BY <1>1, <2>1, CollectKeepsReports, UpdateEndsKeepsReports DEF HostStep
<1>2. CASE Writer
  BY <1>2, OthersKeepReports, TextKeepsReports, OpenKeepsReports, WriteKeepsReports,
           PassKeepsReports DEF Writer
<1> QED
  BY <1>1, <1>2, OthersKeepReports, EditKeepsReports DEF Next

(* For any items, hosts and contents, any limits and any number of faults: *)
(* a change is in the reports, rotated ones included, once and once more   *)
(* for each slip (DiffsWriter, SnapshotsUpdater, rotate_file).             *)
THEOREM ReportedOnceHolds == Spec => []ReportedOnce
<1>1. Init => ReportInv
  BY InitReports
<1>2. TrackerInv /\ TrackerInv' /\ ReportInv /\ [Next]_vars => ReportInv'
  BY StepKeepsReports
<1>3. TrackerInv /\ ReportInv => ReportedOnce
  <2> SUFFICES ASSUME TrackerInv, ReportInv, NEW i \in Items, NEW g \in 1..MaxEdits + 1,
                      <<i, g>> \notin vanished
               PROVE  Reports(i, g) <= 1 + slips
    BY DEF ReportedOnce
  <2>1. g \in Nat /\ slips \in Nat /\ Reports(i, g) \in Nat
    <3>1. 1..MaxEdits + 1 \subseteq Nat
      BY TrackerAssumption
    <3>2. slips \in Nat /\ TypeOK
      BY DEF TrackerInv, TypeOK
    <3> QED
      BY <3>1, <3>2, ReportsAre
  <2>2. Reports(i, g) <= slips + 1
    BY <2>1 DEF ReportInv, CountsInv, CountInv
  <2> QED
    BY <2>1, <2>2
<1> QED
  BY <1>1, <1>2, <1>3, InvariantHolds, PTL DEF Spec
================================================================================
