--------------------------- MODULE KeepingProofs ----------------------------
(* Vault implements Archive, for every set of actors without the purge, when   *)
(* they take turns and nothing fails but the process itself and GitHub, which  *)
(* may lose the repository and bring it back; and for the jobs without the     *)
(* handlers, whatever fails.                                                   *)
EXTENDS VaultProofs

-----------------------------------------------------------------------------
(* The invariant.                                                              *)

Calmness == Overlap = {} /\ Env \subseteq {"vanish"} /\ "purge" \notin Actors

(* What can be at the two paths: a bundle is whole or not there, and what is   *)
(* left of a removal has no version.                                           *)
Shapes == /\ bundle = NoCopy \/ Whole(bundle)
          /\ clone.st \in {"none", "nohead", "torn", "partial"} => clone.ver = 0
          /\ Whole(clone) => bundle.ver <= clone.ver

(* Who keeps what is recorded: the bundle, or else the clone, if the row names *)
(* it and dates it.                                                            *)
Keeping ==
    \/ row.source <= bundle.ver
    \/ /\ row.format = "clone" /\ row.last
       /\ Whole(clone) /\ row.source <= clone.ver

(* A row that dates a bundle where there is none, and beside it a clone that   *)
(* alone keeps anything.                                                       *)
Misdated ==
    row.format = "bundle" /\ row.last /\ bundle.st = "none" /\ Whole(clone)

(* A refresh is about to make that bundle, or Reconcile to reset the row. *)
Dated ==
    Misdated =>
        \/ \E a \in AllActors : pc[a] \in {"build", "promote"} /\ job[a].reused
        \/ ~booted /\ pc["boot"] \in {"idle", "reconcile", "rec_stat", "rec_reset"}

(* A damaged clone is removed by the next boot. *)
Damaged ==
    clone.st = "rotten" =>
        /\ row.format = "bundle" /\ Whole(bundle)
        /\ ~booted /\ pc["boot"] \in {"idle", "reconcile", "rec_drop"}

Backups == {"compare", "checked", "ensure", "cloning", "fetch", "clear",
            "refresh", "scratch", "build", "promote", "mark", "cleanup", "copied"}
Reconciles == {"reconcile", "rec_drop", "rec_stat", "rec_reset"}

(* The format an actor works on is that of the row, which nobody changes.      *)
Formatted(a) ==
    /\ pc[a] \in Backups \cup Reconciles \cup {"verify", "passed"} =>
          job[a].fmt = row.format
    /\ pc[a] = "clear" => row.format = "clone"
    /\ pc[a] \in {"refresh", "scratch", "build", "promote", "mark", "cleanup"} =>
          row.format = "bundle"
    /\ pc[a] \in {"sb_create", "sb_promote", "sb_row"} => row.format = "clone"
    /\ pc[a] \in {"sb_drop", "sc_drop", "sc_build", "sc_promote", "sc_row"} =>
          row.format = "bundle"
    /\ pc[a] = "sc_bundle" => row.format = "clone" /\ row.source <= clone.ver
    /\ pc[a] \in {"sb_create", "sb_promote", "sb_row", "sb_drop"} => job[a].fmt = "bundle"
    /\ pc[a] \in {"sc_drop", "sc_build", "sc_promote", "sc_row", "sc_bundle"} =>
          job[a].fmt = "clone"
    /\ pc[a] = "fallback" => /\ row.source <= bundle.ver
                             /\ job[a].fmt = "bundle" => ~Whole(clone)
    /\ pc[a] = "sc_drop" => row.last
    /\ pc[a] \in {"sc_promote", "sc_row"} => Whole(bundle)
    /\ pc[a] \notin {"purge_files", "purge_row"}

(* What Reconcile and a verification have found. *)
Reconciled(a) ==
    /\ pc[a] \in {"reconcile", "rec_drop", "rec_stat"} => (Claims => job[a].claims)
    /\ pc[a] = "rec_drop"  => row.format = "bundle" /\ Whole(bundle)
    /\ pc[a] = "rec_reset" => PathOf(row.format).st = "none"
    /\ pc[a] = "list" => (PathOf(row.format).st = "none" => ~row.last /\ ~row.verified)
    /\ pc[a] = "passed" => PathOf(row.format).st # "none"

(* What a copy will be recorded to represent, it holds. *)
Copied(a) ==
    /\ pc[a] \in Backups => row.source = job[a].src /\ job[a].src <= job[a].seen
    /\ pc[a] = "checked" =>
          /\ PathOf(row.format).st # "none"
          /\ job[a].src # job[a].seen =>
                /\ job[a].seen <= PathOf(row.format).ver
                /\ PathOf(row.format).st = "ok" \/ job[a].seen = 0
    /\ pc[a] = "cloning" => clone.st = "partial"
    /\ pc[a] \in {"scratch", "build", "promote", "mark"} /\ ~job[a].reused => clone.st = "none"
    /\ pc[a] \in {"ensure", "cloning", "fetch"} /\ job[a].fmt = "bundle" => job[a].reused
    /\ pc[a] = "scratch" => ~job[a].reused
    /\ pc[a] = "build" => /\ job[a].seen <= BundleSource(a).ver
                          /\ bundle.ver <= BundleSource(a).ver
    /\ pc[a] = "promote" => job[a].seen <= job[a].tmp /\ bundle.ver <= job[a].tmp
    /\ pc[a] = "clear" => clone.st = "ok" /\ job[a].seen <= clone.ver
    /\ pc[a] \in {"mark", "cleanup"} => Whole(bundle) /\ job[a].seen <= bundle.ver
    /\ pc[a] = "copied" => /\ PathOf(row.format).st = "ok"
                           /\ job[a].seen <= PathOf(row.format).ver

Work(a) == Formatted(a) /\ Reconciled(a) /\ Copied(a)

KInv == /\ Shapes /\ Keeping /\ Dated /\ Damaged
        /\ pc["boot"] \in {"idle", "list"} \cup Reconciles
        /\ \A a \in AllActors : Work(a)

-----------------------------------------------------------------------------
(* The steps of Archive.                                                       *)

Simulated == \/ Promise!Next
             \/ UNCHANGED <<head, row.lastPush, Held, row.source>>

LEMMA HeldIs == \A v : v \in Held <=> \/ Whole(clone) /\ v = clone.ver
                                      \/ Whole(bundle) /\ v = bundle.ver
BY DEF Held

LEMMA HeldNext == \A v : v \in Held' <=> \/ Whole(clone)' /\ v = clone'.ver
                                         \/ Whole(bundle)' /\ v = bundle'.ver
BY DEF Held, Whole

(* What is not recorded, nor a copy, is nothing to Archive. *)
LEMMA SameSimulates ==
    ASSUME UNCHANGED <<head, disk>>, row'.lastPush = row.lastPush,
           row'.source = row.source
    PROVE  Simulated
BY DEF Simulated, Held, Whole, disk

LEMMA RecordSimulates ==
    ASSUME TypeOK, TypeOK', UNCHANGED <<head, disk>>, row'.lastPush = row.lastPush,
           row.source <= row'.source, row'.source <= row.lastPush,
           \/ row'.source = 0
           \/ Whole(clone) /\ row'.source <= clone.ver
           \/ Whole(bundle) /\ row'.source <= bundle.ver
    PROVE  Simulated
<1>1. Held' = Held
  BY DEF Held, Whole, disk
<1>2. row.source \in Nat /\ row'.source \in Nat /\ row.lastPush \in Nat
  BY DEF TypeOK, Rows
<1>3. CASE row'.source = 0
  BY <1>1, <1>2, <1>3 DEF Simulated
<1>4. CASE row'.source # 0
  <2>1. Promise!Covers(Held, row'.source)
    BY <1>4, HeldIs DEF Promise!Covers
  <2>2. row'.source \in row.source..row.lastPush
    BY <1>2
  <2> QED
    BY <1>1, <2>1, <2>2 DEF Simulated, Promise!Next, Promise!Record
<1> QED
  BY <1>3, <1>4

(* A new copy takes the place of an older one, or of none. *)
LEMMA CopySimulates ==
    ASSUME TypeOK, TypeOK', UNCHANGED <<head, row.lastPush, row.source>>,
           NEW v \in Nat, v <= head,
           \/ /\ clone'.st = "ok" /\ clone'.ver = v /\ UNCHANGED bundle
              /\ Whole(clone) => clone.ver <= v
           \/ /\ bundle'.st = "ok" /\ bundle'.ver = v /\ UNCHANGED clone
              /\ Whole(bundle) => bundle.ver <= v
    PROVE  Simulated
<1> USE Numbers, MadeVersions
<1>1. clone.ver \in Nat /\ bundle.ver \in Nat /\ head \in Nat
  OBVIOUS
<1>2. CASE v = 0
  <2>1. \A w : w \in Held' <=> w \in Held
    BY <1>1, <1>2, HeldIs, HeldNext DEF Whole
  <2>2. Held' = Held
    BY <2>1, Zenon DEF Held
  <2> QED
    BY <2>2 DEF Simulated
<1>3. CASE v > 0
  <2>1. Held' \subseteq Held \cup {v} /\ v \in Held'
    BY <1>1, <1>3, HeldIs, HeldNext DEF Whole
  <2>2. \A w \in Held \ Held' : w <= v
    BY <1>1, <1>3, HeldIs, HeldNext DEF Whole
  <2>3. v \in 1..head
    BY <1>1, <1>3
  <2> QED
    BY <2>1, <2>2, <2>3 DEF Simulated, Promise!Next, Promise!Copy
<1> QED
  BY <1>2, <1>3

(* One copy goes, the other stays and is as new as what is recorded. *)
LEMMA DropSimulates ==
    ASSUME TypeOK, TypeOK', UNCHANGED <<head, row.lastPush, row.source>>,
           \/ /\ UNCHANGED bundle /\ (~Whole(clone') \/ UNCHANGED clone)
              /\ Whole(clone) => Whole(bundle) /\ row.source <= bundle.ver
           \/ /\ UNCHANGED clone /\ bundle' = NoCopy
              /\ Whole(clone) /\ row.source <= clone.ver
    PROVE  Simulated
<1> USE MadeVersions
<1>1. CASE \A w : w \in Held' <=> w \in Held
  <2>1. Held' = Held
    BY <1>1, Zenon DEF Held
  <2> QED
    BY <2>1 DEF Simulated
<1>2. CASE ~(\A w : w \in Held' <=> w \in Held)
  <2>1. Held' \subseteq Held
    BY HeldIs, HeldNext DEF Whole
  <2>2. \E w \in Held' : row.source <= w
    BY <1>2, HeldIs, HeldNext DEF Whole
  <2> QED
    BY <2>1, <2>2 DEF Simulated, Promise!Next, Promise!Discard, Promise!Covers
<1> QED
  BY <1>1, <1>2

-----------------------------------------------------------------------------
(* What a step has to keep.                                                    *)

Facts == /\ RInv /\ RInv' /\ KInv /\ WatermarkBehindSync
         /\ ~Fails

LEMMA IdleWorks == ASSUME NEW a, pc'[a] = "idle" PROVE Work(a)'
BY DEF Work, Formatted, Reconciled, Copied, Backups, Reconciles

(* A step of an actor: the others are idle. *)
LEMMA StepKeeps ==
    ASSUME Facts, NEW a \in AllActors, pc[a] # "idle",
           \A b \in AllActors \ {a} : pc'[b] = pc[b],
           Shapes', Keeping', Dated', Damaged', Work(a)',
           a = "boot" => pc'["boot"] \in {"idle", "list"} \cup Reconciles
    PROVE  KInv'
<1>1. \A b \in AllActors \ {a} : pc'[b] = "idle"
  BY DEF Facts, RInv, Turns
<1>2. \A b \in AllActors : Work(b)'
  BY <1>1, IdleWorks
<1>3. "boot" \in AllActors
  BY DEF AllActors
<1> QED
  BY <1>1, <1>2, <1>3 DEF KInv

(* Once Reconcile is over the program is up, and nothing is amiss. *)
LEMMA WorkIsUp ==
    ASSUME RInv, KInv, NEW a \in AllActors, pc[a] \notin {"idle", "list"} \cup Reconciles
    PROVE  /\ a # "boot" /\ booted /\ clone.st # "rotten"
           /\ Misdated => pc[a] \in {"build", "promote"} /\ job[a].reused
           /\ Shapes /\ Keeping /\ Work(a)
<1>1. a # "boot"
  BY DEF KInv
<1>2. booted
  BY <1>1 DEF RInv, Turns
<1>3. \A b \in AllActors : pc[b] # "idle" => b = a
  BY DEF RInv, Turns
<1>4. Misdated => pc[a] \in {"build", "promote"} /\ job[a].reused
  BY <1>2, <1>3 DEF KInv, Dated
<1> QED
  BY <1>1, <1>2, <1>4 DEF KInv, Damaged

(* What is left to show of the step of an actor at work. *)
Onward(a) ==
    /\ Shapes' /\ Keeping' /\ clone'.st # "rotten"
    /\ Misdated' => pc'[a] \in {"build", "promote"} /\ job'[a].reused
    /\ Work(a)'
    /\ Simulated

LEMMA OnwardKeeps ==
    ASSUME Facts, NEW a \in AllActors, a # "boot", pc[a] # "idle", Onward(a),
           \A b \in AllActors \ {a} : pc'[b] = pc[b]
    PROVE  KInv' /\ Simulated
<1>1. Dated'
  BY DEF Onward, Dated
<1>2. Damaged'
  BY DEF Onward, Damaged
<1> QED
  BY <1>1, <1>2, StepKeeps DEF Onward

(* A step that neither copies nor records. *)
LEMMA Untouched ==
    ASSUME Shapes, Keeping, clone.st # "rotten", UNCHANGED <<head, disk, row>>
    PROVE  /\ Shapes' /\ Keeping' /\ clone'.st # "rotten" /\ Simulated
           /\ Misdated' <=> Misdated
BY SameSimulates DEF Shapes, Keeping, Misdated, Whole, NoCopy, disk

(* The numbers an actor works with. *)
LEMMA WorkNumbers ==
    ASSUME TypeOK, WatermarkBehindSync, NEW a \in AllActors
    PROVE  /\ row.source \in Nat /\ row.lastPush \in Nat /\ head \in Nat
           /\ clone.ver \in Nat /\ bundle.ver \in Nat
           /\ job[a].seen \in Nat /\ job[a].src \in Nat /\ job[a].tmp \in Nat
           /\ row.source <= row.lastPush /\ row.lastPush <= head
           /\ job[a].seen <= row.lastPush /\ job[a].seen <= head
           /\ job[a].fmt \in Formats /\ row.format \in Formats
<1>1. /\ row.source \in Nat /\ row.lastPush \in Nat /\ head \in Nat /\ pushedAt \in Nat
      /\ job[a].seen \in Nat /\ job[a].src \in Nat /\ job[a].tmp \in Nat
      /\ clone.ver \in Nat /\ bundle.ver \in Nat
      /\ job[a].fmt \in Formats /\ row.format \in Formats
  BY DEF TypeOK, Rows, Jobs, Copies
<1> QED
  BY <1>1 DEF WatermarkBehindSync

-----------------------------------------------------------------------------
(* The steps of a backup.                                                      *)

LEMMA CompareOnward ==
    ASSUME Facts, NEW a \in AllActors, Compare(a), UNCHANGED booted
    PROVE  Onward(a)
<1>1. pc[a] = "compare"
  BY DEF Compare
<1>2. /\ booted /\ clone.st # "rotten" /\ ~Misdated /\ Shapes /\ Keeping /\ Work(a)
  BY <1>1, WorkIsUp DEF Facts, Reconciles
<1>3. /\ Shapes' /\ Keeping' /\ clone'.st # "rotten" /\ Simulated /\ ~Misdated'
  BY <1>2, Untouched DEF Compare, github
<1>4. /\ job[a].fmt = row.format /\ row.source = job[a].src /\ job[a].src <= job[a].seen
  BY <1>1, <1>2 DEF Work, Formatted, Copied, Backups
<1>5. CASE pc'[a] = "checked" /\ CopyUsable(PathOf(job[a].fmt)) /\ ~SourceChanged(a)
  <2>1. PathOf(row.format).st # "none"
    BY <1>4, <1>5 DEF CopyUsable
  <2>2. ASSUME job[a].src # job[a].seen
        PROVE  /\ job[a].seen <= PathOf(row.format).ver
               /\ PathOf(row.format).st = "ok" \/ job[a].seen = 0
    <3>1. ~RefsDiffer(PathOf(row.format))
      BY <1>4, <1>5, <2>2 DEF SourceChanged
    <3>2. PathOf(row.format).ver = head /\ PathOf(row.format).st # "torn"
      BY <3>1 DEF RefsDiffer
    <3>3. PathOf(row.format).st \in {"partial", "ok"}
      BY <1>2, <1>4, <1>5, <3>2, MadeVersions DEF CopyUsable, PathOf, Shapes, Whole
    <3>4. PathOf(row.format).st = "partial" => PathOf(row.format).ver = 0
      BY <1>2, MadeVersions DEF PathOf, Shapes, Whole
    <3> QED
      BY <3>2, <3>3, <3>4, WorkNumbers DEF Facts, RInv
  <2>3. job' = job /\ row' = row /\ clone' = clone /\ bundle' = bundle
    BY DEF Compare, disk
  <2>4. Work(a)'
    BY <1>4, <1>5, <2>1, <2>2, <2>3
    DEF Work, Formatted, Reconciled, Copied, Backups, Reconciles, PathOf
  <2> QED
    BY <1>3, <2>4 DEF Onward
<1>6. CASE pc'[a] = AfterCompare(a)
  <2>1. job' = job /\ row' = row
    BY DEF Compare
  <2>2. Work(a)'
    BY <1>4, <1>6, <2>1, WorkNumbers
    DEF Work, Formatted, Reconciled, Copied, Backups, Reconciles, AfterCompare,
        Formats, Facts, RInv
  <2> QED
    BY <1>3, <2>2 DEF Onward
<1> QED
  BY <1>5, <1>6, GotoSteps DEF Compare, Facts, RInv

LEMMA RecordCheckedOnward ==
    ASSUME Facts, NEW a \in AllActors, RecordChecked(a), UNCHANGED booted
    PROVE  Onward(a)
<1>1. pc[a] = "checked"
  BY DEF RecordChecked
<1>2. /\ booted /\ clone.st # "rotten" /\ ~Misdated /\ Shapes /\ Keeping /\ Work(a)
  BY <1>1, WorkIsUp DEF Facts, Reconciles
<1>3. /\ row.source = job[a].src /\ job[a].src <= job[a].seen
      /\ PathOf(row.format).st # "none"
      /\ job[a].src # job[a].seen =>
            /\ job[a].seen <= PathOf(row.format).ver
            /\ PathOf(row.format).st = "ok" \/ job[a].seen = 0
  BY <1>1, <1>2 DEF Work, Copied, Backups
<1>4. /\ row'.last /\ row'.format = row.format /\ row'.lastPush = row.lastPush
      /\ row'.source = job[a].seen
  BY <1>3 DEF RecordChecked, Represents, Facts, RInv, TypeOK, Rows
<1>5. UNCHANGED <<head, disk>> /\ clone' = clone /\ bundle' = bundle
  BY DEF RecordChecked, github, disk
<1>6. \/ job[a].seen = row.source
      \/ row.format = "bundle" /\ bundle.st = "ok" /\ job[a].seen <= bundle.ver
      \/ row.format = "clone" /\ Whole(clone) /\ job[a].seen <= clone.ver
  BY <1>3, WorkNumbers DEF PathOf, Whole, Formats, Facts, RInv
<1>7. Keeping'
  BY <1>2, <1>4, <1>5, <1>6 DEF Keeping, Whole
<1>8. ~Misdated'
  BY <1>3, <1>4, <1>5 DEF Misdated, PathOf
<1>9. Simulated
  <2>1. \/ row'.source = 0
        \/ Whole(clone) /\ row'.source <= clone.ver
        \/ Whole(bundle) /\ row'.source <= bundle.ver
    BY <1>2, <1>4, <1>6, WorkNumbers, MadeVersions
    DEF Keeping, Shapes, Whole, Facts, RInv
  <2> QED
    BY <1>3, <1>4, <1>5, <2>1, WorkNumbers, RecordSimulates DEF Facts, RInv
<1>10. Work(a)'
  BY FinishSteps, IdleWorks DEF RecordChecked, Facts, RInv
<1>11. Shapes' /\ clone'.st # "rotten"
  BY <1>2, <1>5 DEF Shapes, Whole
<1> QED
  BY <1>7, <1>8, <1>9, <1>10, <1>11 DEF Onward

(* What an actor knows while it copies. *)
LEMMA BackupKnows ==
    ASSUME Facts, NEW a \in AllActors, pc[a] \in Backups
    PROVE  /\ a # "boot" /\ booted /\ clone.st # "rotten" /\ Shapes /\ Keeping
           /\ Misdated => pc[a] \in {"build", "promote"} /\ job[a].reused
           /\ job[a].fmt = row.format /\ row.source = job[a].src
           /\ job[a].src <= job[a].seen /\ row.source <= job[a].seen
           /\ Formatted(a) /\ Copied(a)
           /\ clone.ver <= head /\ bundle.ver <= head
<1>1. pc[a] \notin {"idle", "list"} \cup Reconciles
  BY DEF Backups, Reconciles
<1>2. Formatted(a) /\ Copied(a)
  BY <1>1, WorkIsUp DEF Facts, Work
<1>3. /\ job[a].fmt = row.format /\ row.source = job[a].src
      /\ job[a].src <= job[a].seen
  BY <1>2 DEF Formatted, Copied
<1>4. clone.ver <= head /\ bundle.ver <= head
  BY DEF Facts, RInv, Versions
<1> QED
  BY <1>1, <1>2, <1>3, <1>4, WorkIsUp DEF Facts

(* A clone is made, or renewed, from what GitHub has now. *)
LEMMA ClonedOnward ==
    ASSUME Facts, NEW a \in AllActors, pc[a] \in {"cloning", "fetch"},
           clone'.st = "ok", clone'.ver = head, pc'[a] = AfterEnsure(a),
           UNCHANGED <<github, row, bundle, job, booted>>
    PROVE  Onward(a)
<1> USE BackupKnows, WorkNumbers, MadeVersions DEF Facts, RInv, github
<1>1. /\ pc[a] \in Backups
      /\ clone.ver <= head /\ bundle.ver <= head /\ clone.st # "rotten"
      /\ Shapes /\ Keeping /\ Copied(a)
      /\ job[a].fmt = row.format /\ row.source = job[a].src
      /\ job[a].src <= job[a].seen
  BY DEF Backups
<1>2. clone'.ver = head /\ clone'.st = "ok"
  OBVIOUS
<1>3. Shapes'
  BY <1>1, <1>2 DEF Shapes, Whole, NoCopy
<1>4. Keeping'
  BY <1>1, <1>2 DEF Keeping, Whole
<1>5. row.format = "bundle" => job[a].reused
  BY <1>1 DEF Copied
<1>6. Misdated' => pc'[a] \in {"build", "promote"} /\ job'[a].reused
  BY <1>1, <1>5 DEF Misdated, AfterEnsure
<1>7. Work(a)'
  <2>1. CASE row.format = "clone"
    BY <1>1, <1>2, <2>1
    DEF Work, Formatted, Reconciled, Copied, Backups, Reconciles, AfterEnsure
  <2>2. CASE row.format = "bundle"
    BY <1>1, <1>2, <1>5, <2>2
    DEF Work, Formatted, Reconciled, Copied, Backups, Reconciles, AfterEnsure, BundleSource
  <2> QED
    BY <2>1, <2>2 DEF Formats
<1>8. Simulated
  BY <1>1, CopySimulates DEF Whole
<1> QED
  BY <1>2, <1>3, <1>4, <1>6, <1>7, <1>8 DEF Onward

(* Nothing whole was at the clone's path, and nothing whole gets there. *)
LEMMA LeftoverOnward ==
    ASSUME Facts, NEW a \in AllActors, pc[a] \in Backups, Work(a)',
           clone.st \in {"none", "nohead", "partial"},
           clone' = NoCopy \/ clone' = Dir("partial"),
           UNCHANGED <<head, row, bundle, booted>>
    PROVE  Onward(a)
<1> USE MadeVersions DEF Facts, RInv
<1>1. Shapes /\ Keeping /\ ~Whole(clone) /\ ~Whole(clone')
  BY BackupKnows DEF Whole
<1>2. Shapes' /\ Keeping' /\ ~Misdated' /\ clone'.st # "rotten"
  BY <1>1 DEF Shapes, Keeping, Misdated, Whole, NoCopy
<1>3. Simulated
  BY <1>1, DropSimulates
<1> QED
  BY <1>2, <1>3 DEF Onward

(* An actor that gives up, and has changed nothing. *)
LEMMA GivingUpOnward ==
    ASSUME Facts, NEW a \in AllActors, pc[a] \in Backups, Finish(a),
           ~Misdated, UNCHANGED <<github, disk, row, booted>>
    PROVE  Onward(a)
<1>1. Shapes /\ Keeping /\ clone.st # "rotten"
  BY BackupKnows
<1>2. Work(a)'
  BY FinishSteps, IdleWorks DEF Facts, RInv
<1> QED
  BY <1>1, <1>2, Untouched DEF Onward, github

LEMMA EnsureCloneOnward ==
    ASSUME Facts, NEW a \in AllActors, EnsureClone(a), UNCHANGED booted
    PROVE  Onward(a)
<1> USE DEF Facts, RInv
<1>1. /\ pc[a] = "ensure" /\ pc[a] \in Backups
      /\ UNCHANGED <<github, row, bundle, booted>>
  BY DEF EnsureClone, Backups
<1>2. /\ job[a].fmt = row.format /\ row.source = job[a].src
      /\ job[a].src <= job[a].seen /\ ~Misdated
      /\ clone.st # "rotten" /\ Shapes /\ Keeping
      /\ job[a].fmt = "bundle" => job[a].reused
  BY <1>1, BackupKnows DEF Copied
<1>3. CASE NeedsClone(clone) /\ clone' = Dir("partial") /\ Goto(a, "cloning") /\ UNCHANGED job
  <2>1. pc'[a] = "cloning" /\ clone'.st = "partial"
    BY <1>3, GotoSteps, MadeVersions
  <2>2. Work(a)'
    BY <1>1, <1>2, <1>3, <2>1
    DEF Work, Formatted, Reconciled, Copied, Backups, Reconciles
  <2> QED
    BY <1>1, <1>3, <2>2, LeftoverOnward DEF NeedsClone, github
<1>4. CASE Goto(a, "fetch") /\ UNCHANGED <<clone, job>>
  <2>1. pc'[a] = "fetch"
    BY <1>4, GotoSteps
  <2>2. Work(a)'
    BY <1>1, <1>2, <1>4, <2>1
    DEF Work, Formatted, Reconciled, Copied, Backups, Reconciles
  <2> QED
    BY <1>1, <1>2, <1>4, <2>2, Untouched DEF Onward, github, disk
<1>5. CASE Finish(a) /\ UNCHANGED clone
  BY <1>1, <1>2, <1>5, GivingUpOnward DEF disk
<1> QED
  BY <1>3, <1>4, <1>5 DEF EnsureClone

LEMMA GitCloneOnward ==
    ASSUME Facts, NEW a \in AllActors, GitClone(a), UNCHANGED booted
    PROVE  Onward(a)
<1> USE DEF Facts, RInv
<1>1. /\ pc[a] = "cloning" /\ pc[a] \in Backups
      /\ UNCHANGED <<github, row, bundle, booted>>
  BY DEF GitClone, Backups
<1>2. clone.st = "partial"
  BY <1>1, BackupKnows DEF Copied
<1>3. CASE clone' = Complete(head, tag) /\ Goto(a, AfterEnsure(a)) /\ UNCHANGED job
  BY <1>1, <1>3, GotoSteps, MadeVersions, ClonedOnward
<1>4. CASE clone' = NoCopy /\ Finish(a)
  <2>1. Work(a)'
    BY <1>4, FinishSteps, IdleWorks
  <2> QED
    BY <1>1, <1>2, <1>4, <2>1, LeftoverOnward DEF github
<1> QED
  BY <1>3, <1>4 DEF GitClone

LEMMA GitFetchOnward ==
    ASSUME Facts, NEW a \in AllActors, GitFetch(a), UNCHANGED booted
    PROVE  Onward(a)
<1> USE DEF Facts, RInv
<1>1. /\ pc[a] = "fetch" /\ pc[a] \in Backups
      /\ UNCHANGED <<github, row, bundle, booted>>
  BY DEF GitFetch, Backups
<1>2. clone.st # "rotten" /\ ~Misdated
  BY <1>1, BackupKnows
<1>3. CASE /\ clone'.st = "ok" /\ clone'.ver = head
           /\ Goto(a, AfterEnsure(a)) /\ UNCHANGED job
  BY <1>1, <1>3, GotoSteps, ClonedOnward
<1>4. CASE Finish(a) /\ UNCHANGED clone
  BY <1>1, <1>2, <1>4, GivingUpOnward DEF disk
<1> QED
  BY <1>2, <1>3, <1>4, FetchSteps

LEMMA ClearVerifiedOnward ==
    ASSUME Facts, NEW a \in AllActors, ClearVerified(a), UNCHANGED booted
    PROVE  Onward(a)
<1> USE DEF Facts, RInv
<1>1. /\ pc[a] = "clear" /\ pc[a] \in Backups /\ pc'[a] = "copied"
      /\ row' = [row EXCEPT !.verified = FALSE]
      /\ clone' = clone /\ bundle' = bundle /\ job' = job
      /\ UNCHANGED <<head, disk>>
  BY GotoSteps DEF ClearVerified, Backups, disk, github
<1>2. /\ row'.format = row.format /\ row'.last = row.last
      /\ row'.source = row.source /\ row'.lastPush = row.lastPush
  BY <1>1 DEF TypeOK, Rows
<1>3. /\ row.format = "clone" /\ clone.st = "ok" /\ job[a].seen <= clone.ver
      /\ job[a].fmt = row.format /\ row.source = job[a].src
      /\ job[a].src <= job[a].seen
      /\ Shapes /\ Keeping
  BY <1>1, BackupKnows DEF Copied, Formatted
<1>4. Shapes' /\ Keeping' /\ ~Misdated' /\ clone'.st # "rotten"
  BY <1>1, <1>2, <1>3 DEF Shapes, Keeping, Misdated, Whole, NoCopy
<1>5. Work(a)'
  BY <1>1, <1>2, <1>3
  DEF Work, Formatted, Reconciled, Copied, Backups, Reconciles, PathOf
<1> QED
  BY <1>1, <1>2, <1>4, <1>5, SameSimulates DEF Onward

LEMMA RecordCopiedOnward ==
    ASSUME Facts, NEW a \in AllActors, RecordCopied(a), UNCHANGED booted
    PROVE  Onward(a)
<1> USE DEF Facts, RInv
<1>1. /\ pc[a] = "copied" /\ pc[a] \in Backups
      /\ row' = [row EXCEPT !.last = TRUE, !.source = job[a].seen]
      /\ clone' = clone /\ bundle' = bundle
      /\ UNCHANGED <<head, disk>>
  BY DEF RecordCopied, Represents, Backups, disk, github
<1>2. /\ row'.format = row.format /\ row'.last
      /\ row'.source = job[a].seen /\ row'.lastPush = row.lastPush
  BY <1>1 DEF TypeOK, Rows
<1>3. /\ PathOf(row.format).st = "ok" /\ job[a].seen <= PathOf(row.format).ver
      /\ row.source <= job[a].seen /\ clone.st # "rotten"
      /\ Shapes
  BY <1>1, BackupKnows DEF Copied
<1>4. \/ row.format = "bundle" /\ bundle.st = "ok" /\ job[a].seen <= bundle.ver
      \/ row.format = "clone" /\ Whole(clone) /\ job[a].seen <= clone.ver
      \/ row.format = "clone" /\ job[a].seen = 0
  BY <1>3, WorkNumbers DEF PathOf, Whole, Formats
<1>5. Keeping' /\ ~Misdated'
  BY <1>1, <1>2, <1>4, WorkNumbers DEF Keeping, Misdated, Whole
<1>6. Shapes' /\ clone'.st # "rotten"
  BY <1>1, <1>3 DEF Shapes, Whole, NoCopy
<1>7. Simulated
  <2>1. \/ row'.source = 0
        \/ Whole(clone) /\ row'.source <= clone.ver
        \/ Whole(bundle) /\ row'.source <= bundle.ver
    BY <1>2, <1>3, <1>4, WorkNumbers DEF Shapes, NoCopy
  <2> QED
    BY <1>1, <1>2, <1>3, <2>1, WorkNumbers, RecordSimulates
<1>8. Work(a)'
  BY FinishSteps, IdleWorks DEF RecordCopied
<1> QED
  BY <1>5, <1>6, <1>7, <1>8 DEF Onward

LEMMA StartRefreshOnward ==
    ASSUME Facts, NEW a \in AllActors, StartRefresh(a), UNCHANGED booted
    PROVE  Onward(a)
<1> USE DEF Facts, RInv
<1>1. /\ pc[a] = "refresh" /\ pc[a] \in Backups
      /\ pc'[a] = IF clone.st = "none" THEN "scratch" ELSE "ensure"
      /\ clone' = clone /\ bundle' = bundle /\ row' = row
      /\ UNCHANGED <<head, disk, row>>
  BY GotoSteps DEF StartRefresh, Backups, disk, github
<1>2. /\ job'[a].reused = (clone.st # "none")
      /\ job'[a].fmt = job[a].fmt /\ job'[a].src = job[a].src
      /\ job'[a].seen = job[a].seen
  BY DEF StartRefresh, TypeOK, Jobs
<1>3. /\ row.format = "bundle" /\ ~Misdated
      /\ job[a].fmt = row.format /\ row.source = job[a].src
      /\ job[a].src <= job[a].seen
      /\ Shapes /\ Keeping /\ clone.st # "rotten"
  BY <1>1, BackupKnows DEF Formatted
<1>4. Work(a)'
  <2>1. CASE clone.st = "none"
    BY <1>1, <1>2, <1>3, <2>1
    DEF Work, Formatted, Reconciled, Copied, Backups, Reconciles
  <2>2. CASE clone.st # "none"
    BY <1>1, <1>2, <1>3, <2>2
    DEF Work, Formatted, Reconciled, Copied, Backups, Reconciles
  <2> QED
    BY <2>1, <2>2
<1> QED
  BY <1>1, <1>3, <1>4, Untouched DEF Onward

LEMMA ScratchCloneOnward ==
    ASSUME Facts, NEW a \in AllActors, ScratchClone(a), UNCHANGED booted
    PROVE  Onward(a)
<1> USE DEF Facts, RInv
<1>1. /\ pc[a] = "scratch" /\ pc[a] \in Backups
      /\ clone' = clone /\ bundle' = bundle /\ row' = row
      /\ UNCHANGED <<github, head, disk, row>>
  BY DEF ScratchClone, Backups, disk, github
<1>2. /\ row.format = "bundle" /\ ~Misdated
      /\ job[a].fmt = row.format /\ row.source = job[a].src
      /\ job[a].src <= job[a].seen
      /\ Shapes /\ Keeping /\ clone.st = "none" /\ ~job[a].reused
      /\ bundle.ver <= head
  BY <1>1, BackupKnows DEF Formatted, Copied
<1>3. CASE job' = [job EXCEPT ![a].tmp = head, ![a].tag = tag] /\ Goto(a, "build")
  <2>1. /\ pc'[a] = "build" /\ job'[a].tmp = head
        /\ job'[a].fmt = job[a].fmt /\ job'[a].src = job[a].src
        /\ job'[a].seen = job[a].seen /\ job'[a].reused = job[a].reused
    BY <1>3, GotoSteps DEF TypeOK, Jobs
  <2>2. BundleSource(a)'.ver = head
    BY <1>2, <2>1 DEF BundleSource, Scratch, Complete
  <2>3. Work(a)'
    BY <1>1, <1>2, <2>1, <2>2, WorkNumbers
    DEF Work, Formatted, Reconciled, Copied, Backups, Reconciles
  <2> QED
    BY <1>1, <1>2, <2>3, Untouched DEF Onward
<1>4. CASE Finish(a)
  BY <1>1, <1>2, <1>4, GivingUpOnward
<1> QED
  BY <1>3, <1>4 DEF ScratchClone

LEMMA BuildBundleOnward ==
    ASSUME Facts, NEW a \in AllActors, BuildBundle(a), UNCHANGED booted
    PROVE  Onward(a)
<1> USE DEF Facts, RInv
<1>1. /\ pc[a] = "build" /\ pc[a] \in Backups
      /\ clone' = clone /\ bundle' = bundle /\ row' = row
      /\ UNCHANGED <<github, head, disk, row>>
  BY DEF BuildBundle, Backups, disk, github
<1>2. /\ row.format = "bundle" /\ (Misdated => job[a].reused)
      /\ job[a].fmt = row.format /\ row.source = job[a].src
      /\ job[a].src <= job[a].seen
      /\ Shapes /\ Keeping /\ clone.st # "rotten"
      /\ ~job[a].reused => clone.st = "none"
      /\ job[a].seen <= BundleSource(a).ver /\ bundle.ver <= BundleSource(a).ver
  BY <1>1, BackupKnows DEF Formatted, Copied
<1>3. CASE /\ Whole(BundleSource(a)) /\ Goto(a, "promote")
           /\ job' = [job EXCEPT ![a].tmp = BundleSource(a).ver,
                                 ![a].tag = BundleSource(a).tag]
  <2>1. /\ pc'[a] = "promote" /\ job'[a].tmp = BundleSource(a).ver
        /\ job'[a].fmt = job[a].fmt /\ job'[a].src = job[a].src
        /\ job'[a].seen = job[a].seen /\ job'[a].reused = job[a].reused
    BY <1>3, GotoSteps DEF TypeOK, Jobs
  <2>2. Work(a)'
    BY <1>1, <1>2, <2>1
    DEF Work, Formatted, Reconciled, Copied, Backups, Reconciles
  <2> QED
    BY <1>1, <1>2, <2>1, <2>2, Untouched DEF Onward
<1>4. CASE ~Whole(BundleSource(a)) /\ Finish(a)
  <2>1. ~Misdated
    BY <1>2, <1>4 DEF Misdated, BundleSource
  <2> QED
    BY <1>1, <1>4, <2>1, GivingUpOnward
<1> QED
  BY <1>3, <1>4 DEF BuildBundle

LEMMA PromoteBundleOnward ==
    ASSUME Facts, NEW a \in AllActors, PromoteBundle(a), UNCHANGED booted
    PROVE  Onward(a)
<1> USE MadeVersions DEF Facts, RInv
<1>1. /\ pc[a] = "promote" /\ pc[a] \in Backups /\ pc'[a] = "mark"
      /\ bundle' = Scratch(a) /\ clone' = clone /\ row' = row /\ job' = job
      /\ UNCHANGED head
  BY GotoSteps DEF PromoteBundle, Backups, github
<1>2. /\ row.format = "bundle"
      /\ job[a].fmt = row.format /\ row.source = job[a].src
      /\ job[a].src <= job[a].seen
      /\ Shapes /\ Keeping /\ clone.st # "rotten"
      /\ ~job[a].reused => clone.st = "none"
      /\ job[a].seen <= job[a].tmp /\ bundle.ver <= job[a].tmp
  BY <1>1, BackupKnows DEF Formatted, Copied
<1>3. /\ job[a].tmp > 0 /\ (job[a].reused => Whole(clone) /\ job[a].tmp = clone.ver)
      /\ job[a].tmp <= head
  BY <1>1 DEF Ready, Source, Versions
<1>4. bundle'.ver = job[a].tmp /\ bundle'.st = "ok"
  BY <1>1
<1>5. Shapes'
  BY <1>1, <1>2, <1>3, <1>4, WorkNumbers DEF Shapes, Whole
<1>6. Keeping' /\ ~Misdated'
  BY <1>1, <1>2, <1>4, WorkNumbers DEF Keeping, Misdated
<1>7. Work(a)'
  BY <1>1, <1>2, <1>3, <1>4
  DEF Work, Formatted, Reconciled, Copied, Backups, Reconciles, Whole
<1>8. Simulated
  BY <1>1, <1>2, <1>3, CopySimulates, WorkNumbers DEF Whole
<1> QED
  BY <1>1, <1>2, <1>5, <1>6, <1>7, <1>8 DEF Onward

LEMMA MarkVerifiedOnward ==
    ASSUME Facts, NEW a \in AllActors, MarkVerified(a), UNCHANGED booted
    PROVE  Onward(a)
<1> USE DEF Facts, RInv
<1>1. /\ pc[a] = "mark" /\ pc[a] \in Backups
      /\ pc'[a] = IF job[a].reused THEN "cleanup" ELSE "copied"
      /\ row' = [row EXCEPT !.verified = TRUE]
      /\ clone' = clone /\ bundle' = bundle /\ job' = job
      /\ UNCHANGED <<head, disk>>
  BY GotoSteps DEF MarkVerified, Backups, disk, github
<1>2. /\ row'.format = row.format /\ row'.last = row.last
      /\ row'.source = row.source /\ row'.lastPush = row.lastPush
  BY <1>1 DEF TypeOK, Rows
<1>3. /\ row.format = "bundle" /\ Whole(bundle) /\ job[a].seen <= bundle.ver
      /\ job[a].fmt = row.format /\ row.source = job[a].src
      /\ job[a].src <= job[a].seen /\ ~Misdated
      /\ Shapes /\ Keeping /\ clone.st # "rotten"
  BY <1>1, BackupKnows DEF Copied, Formatted
<1>4. Shapes' /\ Keeping' /\ ~Misdated' /\ clone'.st # "rotten"
  BY <1>1, <1>2, <1>3 DEF Shapes, Keeping, Misdated, Whole, NoCopy
<1>5. Work(a)'
  <2>1. CASE job[a].reused
    BY <1>1, <1>2, <1>3, <2>1
    DEF Work, Formatted, Reconciled, Copied, Backups, Reconciles, Whole
  <2>2. CASE ~job[a].reused
    BY <1>1, <1>2, <1>3, <2>2
    DEF Work, Formatted, Reconciled, Copied, Backups, Reconciles, Whole, PathOf
  <2> QED
    BY <2>1, <2>2
<1> QED
  BY <1>1, <1>2, <1>4, <1>5, SameSimulates DEF Onward

LEMMA CleanupOnward ==
    ASSUME Facts, NEW a \in AllActors, Cleanup(a), UNCHANGED booted
    PROVE  Onward(a)
<1> USE MadeVersions DEF Facts, RInv
<1>1. /\ pc[a] = "cleanup" /\ pc[a] \in Backups /\ pc'[a] = "copied"
      /\ clone' = NoCopy /\ bundle' = bundle /\ row' = row /\ job' = job
      /\ UNCHANGED head
  BY GotoSteps DEF Cleanup, Backups, github
<1>2. /\ row.format = "bundle" /\ Whole(bundle) /\ job[a].seen <= bundle.ver
      /\ job[a].fmt = row.format /\ row.source = job[a].src
      /\ job[a].src <= job[a].seen /\ row.source <= job[a].seen
      /\ Shapes /\ Keeping
  BY <1>1, BackupKnows DEF Copied, Formatted
<1>3. row.source <= bundle.ver
  BY <1>2, WorkNumbers
<1>4. Shapes' /\ Keeping' /\ ~Misdated' /\ clone'.st # "rotten"
  BY <1>1, <1>2, <1>3 DEF Shapes, Keeping, Misdated, Whole, NoCopy
<1>5. Work(a)'
  BY <1>1, <1>2
  DEF Work, Formatted, Reconciled, Copied, Backups, Reconciles, Whole, PathOf
<1>6. Simulated
  BY <1>1, <1>2, <1>3, DropSimulates DEF Whole
<1> QED
  BY <1>4, <1>5, <1>6 DEF Onward

LEMMA CopyingOnward ==
    ASSUME Facts, NEW a \in AllActors, Copying(a), UNCHANGED booted
    PROVE  a # "boot" /\ Onward(a)
<1>1. pc[a] \in Backups
  BY DEF Copying, Compare, RecordChecked, EnsureClone, GitClone, GitFetch, ClearVerified,
         RecordCopied, StartRefresh, ScratchClone, BuildBundle, PromoteBundle,
         MarkVerified, Cleanup, Backups
<1> QED
  BY <1>1, BackupKnows, CompareOnward, RecordCheckedOnward, EnsureCloneOnward, GitCloneOnward,
     GitFetchOnward, ClearVerifiedOnward, RecordCopiedOnward, StartRefreshOnward,
     ScratchCloneOnward, BuildBundleOnward, PromoteBundleOnward,
     MarkVerifiedOnward, CleanupOnward DEF Copying

-----------------------------------------------------------------------------
(* The steps of a change of format.                                            *)

Switches == {"sb_create", "sb_promote", "sb_row", "sb_drop",
             "sc_drop", "sc_build", "sc_promote", "sc_row", "sc_bundle", "fallback"}

LEMMA SwitchKnows ==
    ASSUME Facts, NEW a \in AllActors, pc[a] \in Switches
    PROVE  /\ a # "boot" /\ booted /\ clone.st # "rotten" /\ Shapes /\ Keeping
           /\ ~Misdated /\ Formatted(a) /\ Ready(a)
           /\ clone.ver <= head /\ bundle.ver <= head /\ job[a].tmp <= head
<1>1. pc[a] \notin {"idle", "list"} \cup Reconciles
      /\ pc[a] \notin {"build", "promote"}
  BY DEF Switches, Reconciles
<1> QED
  BY <1>1, WorkIsUp DEF Facts, Work, RInv, Versions

(* What a change of format relies on is the format it works on. *)
LEMMA SwitchWorks ==
    ASSUME NEW a, pc'[a] \in Switches, Formatted(a)' PROVE Work(a)'
BY DEF Switches, Work, Reconciled, Copied, Backups, Reconciles

(* It goes on, or gives up, and has changed nothing. *)
LEMMA SwitchUntouched ==
    ASSUME Facts, NEW a \in AllActors, pc[a] \in Switches, pc'[a] \in Switches,
           Formatted(a)', UNCHANGED <<head, disk, row>>
    PROVE  Onward(a)
BY SwitchKnows, SwitchWorks, Untouched DEF Onward

LEMMA SwBundleOnward ==
    ASSUME Facts, NEW a \in AllActors, UNCHANGED booted,
           \/ SwBundleCreate(a) \/ SwBundlePromote(a) \/ SwBundleRow(a) \/ SwBundleDrop(a)
    PROVE  a # "boot" /\ Onward(a)
<1> USE MadeVersions, WorkNumbers DEF Facts, RInv
<1>0. pc[a] \in Switches
  BY DEF SwBundleCreate, SwBundlePromote, SwBundleRow, SwRow, SwBundleDrop, Switches
<1>1. /\ a # "boot" /\ clone.st # "rotten" /\ Shapes /\ Keeping /\ ~Misdated
      /\ clone.ver <= head /\ bundle.ver <= head /\ job[a].tmp <= head
      /\ Formatted(a) /\ Ready(a)
  BY <1>0, SwitchKnows
<1>2. CASE SwBundleCreate(a)
  <2>1. /\ pc[a] = "sb_create" /\ clone' = clone /\ bundle' = bundle /\ row' = row
        /\ UNCHANGED <<head, disk, row>>
        /\ row.format = "clone" /\ job[a].fmt = "bundle"
    BY <1>1, <1>2 DEF SwBundleCreate, github, disk, Formatted
  <2>2. CASE /\ Goto(a, "sb_promote")
             /\ job' = [job EXCEPT ![a].tmp = clone.ver, ![a].tag = clone.tag]
    <3>1. pc'[a] = "sb_promote" /\ job'[a].fmt = job[a].fmt
      BY <2>2, GotoSteps DEF TypeOK, Jobs
    <3>2. Formatted(a)'
      BY <2>1, <3>1 DEF Formatted, Backups, Reconciles
    <3> QED
      BY <1>0, <1>1, <2>1, <3>1, <3>2, SwitchUntouched DEF Switches
  <2>3. CASE ~Whole(clone) /\ Goto(a, "fallback") /\ UNCHANGED job
    <3>1. pc'[a] = "fallback" /\ job' = job
      BY <2>3, GotoSteps
    <3>2. row.source <= bundle.ver
      BY <1>1, <2>3 DEF Keeping
    <3>3. Formatted(a)'
      BY <2>1, <2>3, <3>1, <3>2 DEF Formatted, Backups, Reconciles, Whole
    <3> QED
      BY <1>0, <1>1, <2>1, <3>1, <3>3, SwitchUntouched DEF Switches
  <2> QED
    BY <1>2, <2>2, <2>3 DEF SwBundleCreate
<1>3. CASE SwBundlePromote(a)
  <2>1. /\ pc[a] = "sb_promote" /\ bundle' = Scratch(a) /\ pc'[a] = "sb_row"
        /\ clone' = clone /\ row' = row /\ job' = job /\ UNCHANGED head
    BY <1>3, GotoSteps DEF SwBundlePromote, github
  <2>2. /\ Whole(clone) /\ job[a].tmp = clone.ver
        /\ row.format = "clone" /\ job[a].fmt = "bundle"
    BY <1>1, <2>1 DEF Ready, Source, Formatted
  <2>3. bundle'.ver = clone.ver /\ bundle'.st = "ok" /\ clone.ver > 0
    BY <2>1, <2>2 DEF Whole
  <2>4. Shapes'
    BY <1>1, <2>1, <2>3 DEF Shapes, Whole
  <2>5. Keeping'
    BY <1>1, <2>1, <2>2, <2>3 DEF Keeping, Shapes
  <2>6. ~Misdated'
    BY <2>1, <2>2 DEF Misdated
  <2>7. Work(a)'
    BY <2>1, <2>2, SwitchWorks DEF Switches, Formatted, Backups, Reconciles
  <2>8. Simulated
    BY <1>1, <2>1, <2>2, CopySimulates DEF Shapes
  <2> QED
    BY <1>1, <2>1, <2>4, <2>5, <2>6, <2>7, <2>8 DEF Onward
<1>4. CASE SwBundleRow(a)
  <2>1. /\ pc[a] = "sb_row" /\ pc'[a] = "sb_drop"
        /\ row' = [row EXCEPT !.format = "bundle", !.verified = FALSE]
        /\ clone' = clone /\ bundle' = bundle /\ job' = job /\ UNCHANGED <<head, disk>>
    BY <1>4, GotoSteps DEF SwBundleRow, SwRow, github, disk
  <2>2. /\ row'.format = "bundle" /\ row'.last = row.last
        /\ row'.source = row.source /\ row'.lastPush = row.lastPush
    BY <2>1 DEF TypeOK, Rows
  <2>3. /\ Whole(bundle) /\ bundle.ver = clone.ver
        /\ row.format = "clone" /\ job[a].fmt = "bundle"
    BY <1>1, <2>1 DEF Ready, Replaced, Formatted
  <2>4. Shapes' /\ Keeping' /\ ~Misdated'
    BY <1>1, <2>1, <2>2, <2>3 DEF Shapes, Keeping, Misdated, Whole, NoCopy
  <2>5. Work(a)'
    BY <2>1, <2>2, <2>3, SwitchWorks DEF Switches, Formatted, Backups, Reconciles
  <2> QED
    BY <1>1, <2>1, <2>2, <2>4, <2>5, SameSimulates DEF Onward
<1>5. CASE SwBundleDrop(a)
  <2>1. /\ pc[a] = "sb_drop" /\ clone' = NoCopy /\ bundle' = bundle
        /\ row' = [row EXCEPT !.last = TRUE] /\ UNCHANGED head /\ Finish(a)
    BY <1>5 DEF SwBundleDrop, github
  <2>2. /\ row'.format = row.format
        /\ row'.source = row.source /\ row'.lastPush = row.lastPush
    BY <2>1 DEF TypeOK, Rows
  <2>3. Whole(bundle) /\ row.format = "bundle"
    BY <1>1, <2>1 DEF Ready, Replaced, Formatted
  <2>4. row.source <= bundle.ver
    BY <1>1, <2>3 DEF Keeping
  <2>5. Shapes' /\ Keeping' /\ ~Misdated' /\ clone'.st # "rotten"
    BY <1>1, <2>1, <2>2, <2>3, <2>4 DEF Shapes, Keeping, Misdated, Whole, NoCopy
  <2>6. Simulated
    BY <2>1, <2>2, <2>3, <2>4, DropSimulates DEF Whole
  <2>7. Work(a)'
    BY <2>1, FinishSteps, IdleWorks
  <2> QED
    BY <1>1, <2>5, <2>6, <2>7 DEF Onward
<1> QED
  BY <1>2, <1>3, <1>4, <1>5

LEMMA SwCloneOnward ==
    ASSUME Facts, NEW a \in AllActors, UNCHANGED booted,
           \/ SwCloneDrop(a) \/ SwCloneBuild(a) \/ SwClonePromote(a) \/ SwCloneRow(a)
           \/ SwCloneDropBundle(a)
    PROVE  a # "boot" /\ Onward(a)
<1> USE MadeVersions, WorkNumbers DEF Facts, RInv
<1>0. pc[a] \in Switches
  BY DEF SwCloneDrop, SwCloneBuild, SwClonePromote, SwCloneRow, SwRow, SwCloneDropBundle,
         Switches
<1>1. /\ a # "boot" /\ clone.st # "rotten" /\ Shapes /\ Keeping /\ ~Misdated
      /\ clone.ver <= head /\ bundle.ver <= head /\ job[a].tmp <= head
      /\ Formatted(a) /\ Ready(a)
  BY <1>0, SwitchKnows
<1>2. ASSUME pc[a] \in {"sc_drop", "sc_build", "sc_promote"}
      PROVE  row.format = "bundle" /\ job[a].fmt = "clone" /\ row.source <= bundle.ver
  BY <1>1, <1>2 DEF Formatted, Keeping
<1>3. ASSUME pc[a] \in {"sc_drop", "sc_build", "sc_promote"}, Goto(a, "fallback"),
             UNCHANGED <<github, disk, row, job>>
      PROVE  Onward(a)
  <2>1. /\ pc'[a] = "fallback" /\ job' = job /\ row' = row /\ clone' = clone /\ bundle' = bundle
        /\ UNCHANGED head
    BY <1>3, GotoSteps DEF disk, github
  <2>2. Formatted(a)'
    BY <1>2, <1>3, <2>1 DEF Formatted, Backups, Reconciles, Whole
  <2> QED
    BY <1>0, <1>3, <2>1, <2>2, SwitchUntouched DEF Switches
<1>4. CASE SwCloneDrop(a)
  <2>0. pc[a] = "sc_drop"
    BY <1>4 DEF SwCloneDrop
  <2>1. CASE clone' = NoCopy /\ Goto(a, "sc_build")
    <3>1. /\ pc'[a] = "sc_build" /\ bundle' = bundle /\ row' = row /\ job' = job
          /\ UNCHANGED head
      BY <1>4, <2>1, GotoSteps DEF SwCloneDrop, github
    <3>2. /\ row.format = "bundle" /\ row.last /\ job[a].fmt = "clone"
          /\ row.source <= bundle.ver
      BY <1>1, <1>2, <2>0 DEF Formatted
    <3>3. Whole(clone) => Whole(bundle)
      BY <1>1, <3>2 DEF Misdated, Shapes
    <3>4. Shapes' /\ Keeping' /\ ~Misdated' /\ clone'.st # "rotten"
      BY <1>1, <2>1, <3>1, <3>2 DEF Shapes, Keeping, Misdated, Whole, NoCopy
    <3>5. Simulated
      BY <2>1, <3>1, <3>2, <3>3, DropSimulates DEF Whole
    <3>6. Work(a)'
      BY <3>1, <3>2, SwitchWorks DEF Switches, Formatted, Backups, Reconciles
    <3> QED
      BY <1>1, <3>4, <3>5, <3>6 DEF Onward
  <2>2. CASE Goto(a, "fallback") /\ UNCHANGED clone
    BY <1>1, <1>3, <1>4, <2>0, <2>2 DEF SwCloneDrop, disk
  <2> QED
    BY <1>1, <1>4, <2>1, <2>2 DEF SwCloneDrop
<1>5. CASE SwCloneBuild(a)
  <2>0. pc[a] = "sc_build"
    BY <1>5 DEF SwCloneBuild
  <2>1. CASE /\ bundle.st = "ok" /\ Goto(a, "sc_promote")
             /\ \E t \in Followed(bundle) : job' = [job EXCEPT ![a].tmp = head, ![a].tag = t]
    <3>0. job'[a].fmt = job[a].fmt
      BY <2>1 DEF TypeOK, Jobs
    <3>1. /\ pc'[a] = "sc_promote" /\ clone' = clone /\ bundle' = bundle /\ row' = row
          /\ UNCHANGED <<head, disk, row>> /\ job'[a].fmt = job[a].fmt
      BY <1>5, <2>1, <3>0, GotoSteps DEF SwCloneBuild, github, disk
    <3>2. Whole(bundle)
      BY <1>1, <2>1 DEF Shapes
    <3>3. Formatted(a)'
      BY <1>2, <2>0, <3>1, <3>2 DEF Formatted, Backups, Reconciles, Whole
    <3> QED
      BY <1>0, <1>1, <3>1, <3>3, SwitchUntouched DEF Switches
  <2>2. CASE Goto(a, "fallback") /\ UNCHANGED job
    BY <1>1, <1>3, <1>5, <2>0, <2>2 DEF SwCloneBuild
  <2> QED
    BY <1>1, <1>5, <2>1, <2>2 DEF SwCloneBuild
<1>6. CASE SwClonePromote(a)
  <2>0. pc[a] = "sc_promote"
    BY <1>6 DEF SwClonePromote
  <2>1. CASE clone.st = "none" /\ clone' = Scratch(a) /\ Goto(a, "sc_row")
    <3>1. /\ pc'[a] = "sc_row" /\ bundle' = bundle /\ row' = row /\ job' = job
          /\ UNCHANGED head
      BY <1>6, <2>1, GotoSteps DEF SwClonePromote, github
    <3>2. job[a].tmp > 0 /\ bundle.ver <= job[a].tmp /\ Whole(bundle)
      BY <1>1, <2>0 DEF Ready, Formatted
    <3>3. clone'.ver = job[a].tmp /\ clone'.st = "ok"
      BY <2>1
    <3>4. Shapes' /\ Keeping' /\ ~Misdated'
      BY <1>1, <1>2, <2>0, <3>1, <3>2, <3>3 DEF Shapes, Keeping, Misdated, Whole, NoCopy
    <3>5. Simulated
      BY <1>1, <2>1, <3>1, CopySimulates DEF Whole
    <3>6. Work(a)'
      BY <1>2, <2>0, <3>1, <3>2, SwitchWorks
      DEF Switches, Formatted, Backups, Reconciles, Whole
    <3> QED
      BY <1>1, <3>3, <3>4, <3>5, <3>6 DEF Onward
  <2>2. CASE Goto(a, "fallback") /\ UNCHANGED clone
    BY <1>1, <1>3, <1>6, <2>0, <2>2 DEF SwClonePromote, disk
  <2> QED
    BY <1>1, <1>6, <2>1, <2>2 DEF SwClonePromote
<1>7. CASE SwCloneRow(a)
  <2>1. /\ pc[a] = "sc_row" /\ pc'[a] = "sc_bundle"
        /\ row' = [row EXCEPT !.format = "clone", !.verified = FALSE]
        /\ clone' = clone /\ bundle' = bundle /\ job' = job /\ UNCHANGED <<head, disk>>
    BY <1>7, GotoSteps DEF SwCloneRow, SwRow, github, disk
  <2>2. /\ row'.format = "clone" /\ row'.last = row.last
        /\ row'.source = row.source /\ row'.lastPush = row.lastPush
    BY <2>1 DEF TypeOK, Rows
  <2>3. /\ Whole(clone) /\ bundle.ver <= clone.ver
        /\ row.format = "bundle" /\ job[a].fmt = "clone"
    BY <1>1, <2>1 DEF Ready, Formatted
  <2>4. row.source <= bundle.ver /\ row.source <= clone.ver
    BY <1>1, <2>3 DEF Keeping
  <2>5. Shapes' /\ Keeping' /\ ~Misdated'
    BY <1>1, <2>1, <2>2, <2>4 DEF Shapes, Keeping, Misdated, Whole, NoCopy
  <2>6. Work(a)'
    BY <2>1, <2>2, <2>3, <2>4, SwitchWorks DEF Switches, Formatted, Backups, Reconciles
  <2> QED
    BY <1>1, <2>1, <2>2, <2>5, <2>6, SameSimulates DEF Onward
<1>8. CASE SwCloneDropBundle(a)
  <2>1. /\ pc[a] = "sc_bundle" /\ bundle' = NoCopy /\ clone' = clone
        /\ row' = [row EXCEPT !.last = TRUE] /\ UNCHANGED head /\ Finish(a)
    BY <1>8 DEF SwCloneDropBundle, github
  <2>2. /\ row'.format = row.format /\ row'.last
        /\ row'.source = row.source /\ row'.lastPush = row.lastPush
    BY <2>1 DEF TypeOK, Rows
  <2>3. Whole(clone) /\ row.format = "clone" /\ row.source <= clone.ver
    BY <1>1, <2>1 DEF Ready, Formatted
  <2>4. Shapes' /\ Keeping' /\ ~Misdated'
    BY <1>1, <2>1, <2>2, <2>3 DEF Shapes, Keeping, Misdated, Whole, NoCopy
  <2>5. Simulated
    BY <2>1, <2>2, <2>3, DropSimulates
  <2>6. Work(a)'
    BY <2>1, FinishSteps, IdleWorks
  <2> QED
    BY <1>1, <2>1, <2>4, <2>5, <2>6 DEF Onward
<1> QED
  BY <1>4, <1>5, <1>6, <1>7, <1>8

LEMMA FallbackOnward ==
    ASSUME Facts, Fallback
    PROVE  Onward("web")
<1> USE DEF Facts, RInv
<1>1. /\ pc["web"] = "fallback" /\ "web" \in AllActors /\ pc["web"] \in Switches
      /\ row' = [row EXCEPT !.format = job["web"].fmt]
      /\ clone' = clone /\ bundle' = bundle /\ UNCHANGED <<head, disk>>
      /\ Finish("web")
  BY DEF Fallback, AllActors, Switches, disk, github
<1>2. /\ clone.st # "rotten" /\ Shapes /\ Keeping
      /\ row.source <= bundle.ver
      /\ job["web"].fmt = "bundle" => ~Whole(clone)
  BY <1>1, SwitchKnows DEF Formatted
<1>3. /\ row'.format = job["web"].fmt
      /\ row'.source = row.source /\ row'.lastPush = row.lastPush
  BY <1>1 DEF TypeOK, Rows
<1>4. Shapes' /\ Keeping' /\ ~Misdated'
  BY <1>1, <1>2, <1>3 DEF Shapes, Keeping, Misdated, Whole, NoCopy
<1>5. Work("web")'
  BY <1>1, FinishSteps, IdleWorks
<1> QED
  BY <1>1, <1>2, <1>3, <1>4, <1>5, SameSimulates DEF Onward

-----------------------------------------------------------------------------
(* The steps of a verification.                                                *)

LEMMA VerifyingOnward ==
    ASSUME Facts, NEW a \in AllActors, Verifying(a), UNCHANGED booted
    PROVE  a # "boot" /\ Onward(a)
<1> USE DEF Facts, RInv
<1>1. /\ pc[a] \in {"verify", "passed"}
      /\ clone' = clone /\ bundle' = bundle /\ UNCHANGED <<head, disk>>
  BY DEF Verifying, VerifyCopy, RecordVerified, disk, github
<1>2. /\ a # "boot" /\ clone.st # "rotten" /\ Shapes /\ Keeping /\ ~Misdated
      /\ Work(a)
  BY <1>1, WorkIsUp DEF Reconciles
<1>3. job[a].fmt = row.format
  BY <1>1, <1>2 DEF Work, Formatted
<1>4. CASE VerifyCopy(a)
  <2>1. row' = row
    BY <1>4 DEF VerifyCopy
  <2>2. CASE PassesVerify(job[a].fmt) /\ Goto(a, "passed") /\ UNCHANGED job
    <3>1. pc'[a] = "passed" /\ PathOf(row.format).st # "none"
      BY <1>3, <2>2, GotoSteps DEF PassesVerify
    <3>2. Work(a)'
      BY <1>1, <1>3, <2>1, <2>2, <3>1
      DEF Work, Formatted, Reconciled, Copied, Backups, Reconciles, PathOf
    <3> QED
      BY <1>1, <1>2, <2>1, <3>2, Untouched DEF Onward
  <2>3. CASE Finish(a)
    <3>1. Work(a)'
      BY <2>3, FinishSteps, IdleWorks
    <3> QED
      BY <1>1, <1>2, <2>1, <3>1, Untouched DEF Onward
  <2> QED
    BY <1>2, <1>4, <2>2, <2>3 DEF VerifyCopy
<1>5. CASE RecordVerified(a)
  <2>1. /\ row' = [row EXCEPT !.verified = TRUE, !.last = TRUE] /\ Finish(a)
        /\ pc[a] = "passed"
    BY <1>5 DEF RecordVerified
  <2>2. /\ row'.format = row.format /\ row'.last
        /\ row'.source = row.source /\ row'.lastPush = row.lastPush
    BY <2>1 DEF TypeOK, Rows
  <2>3. PathOf(row.format).st # "none"
    BY <1>2, <2>1 DEF Work, Reconciled
  <2>4. Shapes' /\ Keeping' /\ ~Misdated'
    BY <1>1, <1>2, <2>2, <2>3 DEF Shapes, Keeping, Misdated, Whole, NoCopy, PathOf
  <2>5. Work(a)'
    BY <2>1, FinishSteps, IdleWorks
  <2> QED
    BY <1>1, <1>2, <2>2, <2>4, <2>5, SameSimulates DEF Onward
<1> QED
  BY <1>4, <1>5 DEF Verifying

-----------------------------------------------------------------------------
(* The steps of Reconcile, which may find what a crash has left.               *)

LEMMA ReconcilingOnward ==
    ASSUME Facts, NEW a \in AllActors, Reconciling(a), UNCHANGED booted
    PROVE  KInv' /\ Simulated
<1> USE MadeVersions, WorkNumbers DEF Facts, RInv
<1>1. /\ pc[a] \in Reconciles /\ pc[a] # "idle" /\ Work(a) /\ job[a].fmt = row.format
      /\ Shapes /\ Keeping /\ Dated /\ Damaged
      /\ job' = job /\ bundle' = bundle
  BY DEF Reconciling, RemoveRedundant, DropRedundant, StatPath, ResetRow, Reconciles, KInv,
         Work, Formatted, disk
<1>2. /\ \A b \in AllActors \ {a} : pc'[b] = pc[b] /\ pc[b] = "idle"
      /\ a # "boot" => booted
  BY <1>1, ReconcilingSteps DEF Turns, Stepping
<1>3. ASSUME pc[a] \in {"rec_stat", "rec_reset"} PROVE clone.st # "rotten"
  BY <1>1, <1>2, <1>3 DEF Damaged, AllActors
<1>4. ASSUME a # "boot" PROVE ~Misdated /\ clone.st # "rotten"
  BY <1>1, <1>2, <1>4 DEF Dated, Damaged, Reconciles, AllActors
<1>5. CASE RemoveRedundant(a)
  <2>1. /\ pc[a] = "reconcile" /\ clone' = clone /\ row' = row /\ UNCHANGED <<head, disk>>
    BY <1>5 DEF RemoveRedundant, disk, github
  <2>2. Shapes' /\ Keeping' /\ (Misdated' <=> Misdated) /\ Simulated
    BY <1>1, <2>1, SameSimulates DEF Shapes, Keeping, Misdated, Whole, NoCopy
  <2>3. CASE Redundant(row.format) /\ Goto(a, "rec_drop")
    <3>1. pc'[a] = "rec_drop" /\ row.format = "bundle" /\ Whole(bundle)
      BY <1>1, <2>3, GotoSteps DEF Redundant, Shapes
    <3>2. Dated' /\ Damaged'
      BY <1>1, <1>2, <1>4, <2>1, <2>2, <3>1 DEF Dated, Damaged, Whole, Misdated
    <3>3. Work(a)'
      BY <1>1, <2>1, <3>1 DEF Work, Formatted, Reconciled, Copied, Backups, Reconciles,
                             Whole, Claims
    <3> QED
      BY <1>1, <1>2, <2>2, <3>1, <3>2, <3>3, StepKeeps DEF Reconciles
  <2>4. CASE ~Redundant(row.format) /\ Goto(a, "rec_stat")
    <3>1. pc'[a] = "rec_stat"
      BY <2>4, GotoSteps
    <3>2. clone.st # "rotten"
      BY <1>1, <2>4 DEF Damaged, Redundant, Whole
    <3>3. Dated' /\ Damaged'
      BY <1>1, <1>2, <1>4, <2>1, <2>2, <3>1, <3>2 DEF Dated, Damaged
    <3>4. Work(a)'
      BY <1>1, <2>1, <3>1 DEF Work, Formatted, Reconciled, Copied, Backups, Reconciles,
                             Claims
    <3> QED
      BY <1>1, <1>2, <2>2, <3>1, <3>3, <3>4, StepKeeps DEF Reconciles
  <2> QED
    BY <1>1, <1>5, <2>3, <2>4 DEF RemoveRedundant
<1>6. CASE DropRedundant(a)
  <2>1. /\ pc[a] = "rec_drop" /\ pc'[a] = "rec_stat" /\ clone' = NoCopy /\ row' = row
        /\ UNCHANGED head
    BY <1>6, GotoSteps DEF DropRedundant, github
  <2>2. row.format = "bundle" /\ Whole(bundle)
    BY <1>1, <2>1 DEF Work, Reconciled
  <2>3. row.source <= bundle.ver
    BY <1>1, <2>2 DEF Keeping
  <2>4. Shapes' /\ Keeping' /\ Dated' /\ Damaged'
    BY <1>1, <2>1, <2>2, <2>3
    DEF Shapes, Keeping, Dated, Misdated, Damaged, Whole, NoCopy
  <2>5. Simulated
    BY <1>1, <2>1, <2>2, <2>3, DropSimulates DEF Whole
  <2>6. Work(a)'
    BY <1>1, <2>1, <2>2
    DEF Work, Formatted, Reconciled, Copied, Backups, Reconciles, Claims
  <2> QED
    BY <1>1, <1>2, <2>1, <2>4, <2>5, <2>6, StepKeeps DEF Reconciles
<1>7. CASE StatPath(a)
  <2>1. /\ pc[a] = "rec_stat" /\ clone' = clone /\ row' = row /\ UNCHANGED <<head, disk>>
        /\ clone.st # "rotten"
    BY <1>3, <1>7 DEF StatPath, disk, github
  <2>2. Shapes' /\ Keeping' /\ (Misdated' <=> Misdated) /\ Simulated /\ Damaged'
    BY <1>1, <2>1, SameSimulates DEF Shapes, Keeping, Misdated, Damaged, Whole, NoCopy
  <2>3. CASE PathOf(row.format).st = "none" /\ Goto(a, "rec_reset")
    <3>1. pc'[a] = "rec_reset"
      BY <2>3, GotoSteps
    <3>2. Dated'
      BY <1>1, <1>2, <1>4, <2>1, <2>2, <3>1 DEF Dated
    <3>3. Work(a)'
      BY <1>1, <2>1, <2>3, <3>1
      DEF Work, Formatted, Reconciled, Copied, Backups, Reconciles, PathOf
    <3> QED
      BY <1>1, <1>2, <2>2, <3>1, <3>2, <3>3, StepKeeps DEF Reconciles
  <2>4. CASE (~job[a].claims \/ PathOf(row.format).st # "none") /\ Goto(a, "list")
    <3>1. pc'[a] = "list"
      BY <2>4, GotoSteps
    <3>2. PathOf(row.format).st = "none" => ~row.last /\ ~row.verified
      BY <1>1, <2>1, <2>4 DEF Work, Reconciled, Claims
    <3>3. ~Misdated
      BY <3>2 DEF Misdated, PathOf
    <3>4. Dated'
      BY <2>2, <3>3 DEF Dated
    <3>5. Work(a)'
      BY <1>1, <2>1, <3>1, <3>2
      DEF Work, Formatted, Reconciled, Copied, Backups, Reconciles, PathOf
    <3> QED
      BY <1>1, <1>2, <2>2, <3>1, <3>4, <3>5, StepKeeps
  <2> QED
    BY <1>1, <1>7, <2>3, <2>4 DEF StatPath
<1>8. CASE ResetRow(a)
  <2>1. /\ pc[a] = "rec_reset" /\ pc'[a] = "list" /\ clone' = clone /\ UNCHANGED <<head, disk>>
        /\ row' = [row EXCEPT !.last = FALSE, !.verified = FALSE]
        /\ clone.st # "rotten"
    BY <1>3, <1>8, GotoSteps DEF ResetRow, disk, github
  <2>2. /\ row'.format = row.format /\ ~row'.last /\ ~row'.verified
        /\ row'.source = row.source /\ row'.lastPush = row.lastPush
    BY <2>1 DEF TypeOK, Rows
  <2>3. PathOf(row.format).st = "none"
    BY <1>1, <2>1 DEF Work, Reconciled
  <2>4. Shapes' /\ Keeping' /\ Dated' /\ Damaged'
    BY <1>1, <2>1, <2>2, <2>3
    DEF Shapes, Keeping, Dated, Misdated, Damaged, Whole, NoCopy, PathOf
  <2>5. Work(a)'
    BY <1>1, <2>1, <2>2 DEF Work, Formatted, Reconciled, Copied, Backups, Reconciles
  <2> QED
    BY <1>1, <1>2, <2>1, <2>2, <2>4, <2>5, StepKeeps, SameSimulates
<1> QED
  BY <1>5, <1>6, <1>7, <1>8 DEF Reconciling

LEMMA EngineOnward ==
    ASSUME Facts, NEW a \in AllActors, Engine(a)
    PROVE  KInv' /\ Simulated
<1>1. CASE Reconciling(a)
  BY <1>1, ReconcilingOnward DEF Engine
<1>2. CASE Copying(a) \/ Switching(a) \/ Verifying(a)
  <2>1. a # "boot" /\ Onward(a)
    BY <1>2, CopyingOnward, SwBundleOnward, SwCloneOnward, VerifyingOnward
    DEF Engine, Switching
  <2>2. pc[a] # "idle" /\ \A b \in AllActors \ {a} : pc'[b] = pc[b]
    BY <1>2, CopyingSteps, SwitchingSteps, VerifyingSteps DEF Facts, Stepping
  <2> QED
    BY <2>1, <2>2, OnwardKeeps
<1> QED
  BY <1>1, <1>2 DEF Engine

-----------------------------------------------------------------------------
(* The others.                                                                 *)

(* While everyone is idle and the program is up, nothing is amiss. *)
LEMMA QuietIsUp ==
    ASSUME KInv, Quiet, booted
    PROVE  Shapes /\ Keeping /\ ~Misdated /\ clone.st # "rotten"
BY DEF KInv, Dated, Damaged, Quiet

(* One starts; the row may be written, not the disk. *)
LEMMA StartOnward ==
    ASSUME Facts, Quiet, booted, NEW a \in AllActors, a # "boot",
           \A b \in AllActors \ {a} : pc'[b] = pc[b], Work(a)',
           UNCHANGED <<head, disk>>,
           row'.source = row.source, row'.lastPush = row.lastPush,
           Keeping', ~Misdated'
    PROVE  KInv' /\ Simulated
<1>1. Shapes' /\ clone'.st # "rotten"
  BY QuietIsUp DEF Shapes, Whole, NoCopy, disk, Facts
<1>2. Dated' /\ Damaged'
  BY <1>1 DEF Dated, Damaged
<1>3. \A b \in AllActors : Work(b)'
  BY IdleWorks DEF Quiet
<1>4. pc'["boot"] = "idle"
  BY DEF Quiet, AllActors
<1> QED
  BY <1>1, <1>2, <1>3, <1>4, SameSimulates DEF KInv

(* One starts, and nothing else happens. *)
LEMMA StartUntouched ==
    ASSUME Facts, Quiet, booted, NEW a \in AllActors, a # "boot",
           \A b \in AllActors \ {a} : pc'[b] = pc[b], Work(a)',
           UNCHANGED <<head, disk, row>>
    PROVE  KInv' /\ Simulated
BY QuietIsUp, Untouched, StartOnward DEF Facts

LEMMA BeginWorks ==
    ASSUME TypeOK, ~Fails, NEW a \in AllActors, BeginReconcile(a)
    PROVE  /\ Work(a)' /\ pc'[a] = "reconcile"
           /\ \A b \in AllActors \ {a} : pc'[b] = pc[b]
           /\ UNCHANGED <<head, disk, row, booted>>
<1>1. /\ pc'[a] = "reconcile" /\ row' = row
      /\ \A b \in AllActors \ {a} : pc'[b] = pc[b]
      /\ UNCHANGED <<head, disk, row, booted>>
  BY GotoSteps DEF BeginReconcile, github
<1>2. job'[a].fmt = row.format /\ job'[a].claims = Claims
  BY DEF BeginReconcile, TypeOK, Jobs
<1>3. Work(a)'
  BY <1>1, <1>2 DEF Work, Formatted, Reconciled, Copied, Backups, Reconciles, Claims
<1> QED
  BY <1>1, <1>3

LEMMA TakeRowWorks ==
    ASSUME Facts, NEW a \in AllActors, TakeRow(a), Goto(a, "compare"), UNCHANGED row
    PROVE  Work(a)'
<1>1. /\ pc'[a] = "compare" /\ job'[a].fmt = row.format
      /\ job'[a].seen = row.lastPush /\ job'[a].src = row.source
  BY GotoSteps DEF TakeRow, NoJob, Facts, RInv, TypeOK
<1>2. row.source <= row.lastPush
  BY DEF Facts, WatermarkBehindSync
<1> QED
  BY <1>1, <1>2 DEF Work, Formatted, Reconciled, Copied, Backups, Reconciles

LEMMA BootOnward == ASSUME Facts, Boot PROVE KInv' /\ Simulated
<1> USE DEF Facts, RInv
<1>1. Quiet /\ ~booted /\ "boot" \in AllActors
  BY DEF Boot, Quiet, Turns, AllActors
<1>2. /\ Work("boot")' /\ pc'["boot"] = "reconcile"
      /\ \A b \in AllActors \ {"boot"} : pc'[b] = pc[b]
      /\ UNCHANGED <<head, disk, row, booted>>
  BY <1>1, BeginWorks DEF Boot
<1>3. Shapes' /\ Keeping' /\ Simulated
  BY <1>2, SameSimulates DEF KInv, Shapes, Keeping, Whole, NoCopy, disk
<1>4. Dated'
  BY <1>1, <1>2 DEF Dated
<1>5. Damaged'
  BY <1>1, <1>2 DEF KInv, Damaged, Whole, disk
<1>6. \A b \in AllActors : Work(b)'
  BY <1>1, <1>2, IdleWorks DEF Quiet
<1> QED
  BY <1>2, <1>3, <1>4, <1>5, <1>6 DEF KInv, Reconciles

LEMMA BootedOnward == ASSUME Facts, Booted PROVE KInv' /\ Simulated
<1> USE DEF Facts, RInv
<1>1. /\ pc["boot"] = "list" /\ "boot" \in AllActors /\ UNCHANGED <<head, disk, row>>
  BY DEF Booted, AllActors, github
<1>2. \A b \in AllActors \ {"boot"} : pc[b] = "idle"
  BY <1>1 DEF Turns
<1>3. \A b \in AllActors : pc'[b] = "idle"
  BY <1>1, <1>2, FinishSteps DEF Booted
<1>4. ~Misdated /\ clone.st # "rotten" /\ Shapes /\ Keeping
  BY <1>1, <1>2 DEF KInv, Dated, Damaged
<1>5. /\ Shapes' /\ Keeping' /\ clone'.st # "rotten" /\ Simulated /\ ~Misdated'
  BY <1>1, <1>4, Untouched
<1>6. Dated' /\ Damaged'
  BY <1>5 DEF Dated, Damaged
<1> QED
  BY <1>1, <1>3, <1>5, <1>6, IdleWorks DEF KInv

LEMMA StartingOnward ==
    ASSUME Calmness, Facts, Starting PROVE KInv' /\ Simulated
<1> USE DEF Facts, RInv
<1>0. /\ Actors \subseteq AllActors /\ Overlap = {}
      /\ \A a \in {"web", "verify", "purge"} : a \in AllActors
  BY ActorsAssumption DEF Calmness, AllActors
<1>1. CASE Boot
  BY <1>1, BootOnward
<1>2. CASE Booted
  BY <1>2, BootedOnward
<1>3. CASE TriggerBackup
  BY <1>0, <1>3, CanStartQuiet, BeginWorks, StartUntouched DEF TriggerBackup
<1>4. CASE StartChecked
  <2>1. Quiet /\ booted
    BY <1>0, <1>4, CanStartQuiet DEF StartChecked
  <2>2. Work("web")' /\ \A b \in AllActors \ {"web"} : pc'[b] = pc[b]
    BY <1>0, <1>4, TakeRowWorks, GotoSteps DEF StartChecked
  <2> QED
    BY <1>0, <1>4, <2>1, <2>2, StartUntouched DEF StartChecked, github
<1>5. CASE StartSwitch
  <2>1. Quiet /\ booted
    BY <1>0, <1>5, CanStartQuiet DEF StartSwitch
  <2>2. /\ pc'["web"] = IF row.format = "clone" THEN "sb_create" ELSE "sc_drop"
        /\ \A b \in AllActors \ {"web"} : pc'[b] = pc[b]
        /\ row.last /\ row' = row
    BY <1>0, <1>5, GotoSteps DEF StartSwitch
  <2>3. job'["web"].fmt = Other(row.format) /\ row.format \in Formats
    BY <1>0, <1>5 DEF StartSwitch, TypeOK, Jobs, Rows
  <2>4. Work("web")'
    <3>1. CASE row.format = "clone"
      BY <2>2, <2>3, <3>1, SwitchWorks
      DEF Switches, Formatted, Backups, Reconciles, Other
    <3>2. CASE row.format = "bundle"
      BY <2>2, <2>3, <3>2, SwitchWorks
      DEF Switches, Formatted, Backups, Reconciles, Other
    <3> QED
      BY <2>3, <3>1, <3>2 DEF Formats
  <2> QED
    BY <1>0, <1>5, <2>1, <2>2, <2>4, StartUntouched DEF StartSwitch, github
<1>6. CASE SetFormat
  <2>1. Quiet /\ booted
    BY <1>0, <1>6, CanStartQuiet DEF SetFormat
  <2>2. /\ ~row.last /\ pc' = pc /\ clone' = clone /\ bundle' = bundle
        /\ row' = [row EXCEPT !.format = Other(@)] /\ UNCHANGED <<head, disk>>
    BY <1>6 DEF SetFormat, github, disk
  <2>3. /\ row'.last = row.last
        /\ row'.source = row.source /\ row'.lastPush = row.lastPush
    BY <2>2 DEF TypeOK, Rows
  <2>4. Keeping' /\ ~Misdated'
    BY <2>1, <2>2, <2>3, QuietIsUp DEF Keeping, Misdated
  <2>5. Work("web")'
    BY <1>0, <2>1, <2>2, IdleWorks DEF Quiet
  <2> QED
    BY <1>0, <2>1, <2>2, <2>3, <2>4, <2>5, StartOnward
<1>7. CASE StartVerify
  <2>1. Quiet /\ booted
    BY <1>0, <1>7, CanStartQuiet DEF StartVerify
  <2>2. /\ pc'["verify"] = "verify" /\ row' = row
        /\ \A b \in AllActors \ {"verify"} : pc'[b] = pc[b]
    BY <1>0, <1>7, GotoSteps DEF StartVerify
  <2>3. job'["verify"].fmt = row.format
    BY <1>0, <1>7 DEF StartVerify, TypeOK, Jobs
  <2>4. Work("verify")'
    BY <2>2, <2>3 DEF Work, Formatted, Reconciled, Copied, Backups, Reconciles
  <2> QED
    BY <1>0, <1>7, <2>1, <2>2, <2>4, StartUntouched DEF StartVerify, github
<1>8. CASE StartPurge
  BY <1>8, Zenon DEF StartPurge, CanStart, Calmness
<1>9. ASSUME NEW a \in Actors, StartBackup(a) PROVE KInv' /\ Simulated
  <2>1. Quiet /\ booted /\ a # "boot" /\ a \in AllActors
    BY <1>0, <1>9, CanStartQuiet DEF StartBackup
  <2> QED
    BY <1>9, <2>1, BeginWorks, StartUntouched DEF StartBackup
<1> QED
  BY <1>1, <1>2, <1>3, <1>4, <1>5, <1>6, <1>7, <1>8, <1>9 DEF Starting

LEMMA HandlingOnward ==
    ASSUME Facts, Handling PROVE KInv' /\ Simulated
<1> USE DEF Facts, RInv
<1>0. /\ Actors \subseteq AllActors
      /\ \A a \in {"web", "purge"} : a \in AllActors
  BY ActorsAssumption DEF AllActors
<1>1. CASE Fallback
  <2>1. \A b \in AllActors \ {"web"} : pc'[b] = pc[b]
    BY <1>0, <1>1, FinishSteps DEF Fallback
  <2> QED
    BY <1>0, <1>1, <2>1, FallbackOnward, OnwardKeeps DEF Fallback
<1>2. ~PurgeFiles /\ ~PurgeRow
  BY <1>0 DEF PurgeFiles, PurgeRow, KInv, Work, Formatted
<1>3. ASSUME NEW a \in Actors, ListRow(a) PROVE KInv' /\ Simulated
  <2>1. /\ pc[a] = "list" /\ a # "boot" /\ a \in AllActors
        /\ UNCHANGED <<head, disk, row, booted>>
    BY <1>0, <1>3 DEF ListRow, github
  <2>2. booted /\ \A b \in AllActors : pc[b] # "idle" => b = a
    BY <2>1 DEF Turns
  <2>3. Shapes /\ Keeping /\ ~Misdated /\ clone.st # "rotten"
    BY <2>1, <2>2 DEF KInv, Dated, Damaged
  <2>4. Work(a)' /\ \A b \in AllActors \ {a} : pc'[b] = pc[b]
    BY <1>3, <2>1, TakeRowWorks, GotoSteps, FinishSteps, IdleWorks DEF ListRow
  <2>5. Onward(a)
    BY <2>1, <2>3, <2>4, Untouched DEF Onward
  <2> QED
    BY <2>1, <2>4, <2>5, OnwardKeeps
<1> QED
  BY <1>1, <1>2, <1>3 DEF Handling

-----------------------------------------------------------------------------
(* The surroundings.                                                           *)

(* What happens elsewhere changes nothing the invariant speaks of. *)
LEMMA ElsewhereKeeps ==
    ASSUME KInv, UNCHANGED <<disk, pc, job, booted>>,
           row'.format = row.format, row'.last = row.last, row'.source = row.source,
           row'.verified = row.verified
    PROVE  KInv'
<1>1. clone' = clone /\ bundle' = bundle /\ pc' = pc /\ job' = job /\ booted' = booted
  BY DEF disk
<1>2. Shapes' /\ Keeping'
  BY <1>1 DEF KInv, Shapes, Keeping, Whole, NoCopy
<1>3. Dated' /\ Damaged'
  BY <1>1 DEF KInv, Dated, Misdated, Damaged, Whole
<1>4. \A a \in AllActors : Work(a)'
  <2>1. ASSUME NEW a \in AllActors PROVE Work(a)'
    <3>1. Formatted(a)'
      BY <1>1 DEF KInv, Work, Formatted, Whole
    <3>2. Reconciled(a)'
      BY <1>1 DEF KInv, Work, Reconciled, PathOf, Claims, Whole
    <3>3. Copied(a)'
      BY <1>1 DEF KInv, Work, Copied, PathOf, BundleSource, Scratch, Complete, Whole
    <3> QED
      BY <3>1, <3>2, <3>3 DEF Work
  <2> QED
    BY <2>1
<1> QED
  BY <1>1, <1>2, <1>3, <1>4 DEF KInv

(* A removal that a crash has stopped is one of what is kept elsewhere. *)
LEMMA RemovingKeeps ==
    ASSUME Facts, NEW a \in AllActors, pc[a] \in RemovesClone
    PROVE  /\ row.format = "bundle" /\ row.source <= bundle.ver
           /\ Whole(clone) => Whole(bundle)
           /\ \A b \in AllActors : HalfDone(b) = {row}
<1> USE DEF Facts, RInv
<1>1. pc[a] \in {"rec_drop", "cleanup", "sb_drop", "sc_drop"}
      /\ Shapes /\ Keeping /\ Work(a) /\ Ready(a)
  BY DEF RemovesClone, KInv, Work, Formatted
<1>2. row.format = "bundle"
  BY <1>1 DEF Work, Formatted, Reconciled
<1>3. row.source <= bundle.ver
  BY <1>1, <1>2 DEF Keeping
<1>4. Whole(clone) => Whole(bundle)
  <2>1. CASE pc[a] = "sc_drop"
    <3>1. ~Misdated /\ row.last
      BY <2>1, SwitchKnows DEF Switches, Formatted
    <3> QED
      BY <1>1, <1>2, <3>1 DEF Misdated, Shapes, NoCopy
  <2>2. CASE pc[a] # "sc_drop"
    BY <1>1, <2>2 DEF Work, Reconciled, Ready, Replaced
  <2> QED
    BY <2>1, <2>2
<1>5. ASSUME NEW b \in AllActors PROVE HalfDone(b) = {row}
  <2>1. pc[b] \in {"idle", "rec_drop", "cleanup", "sb_drop", "sc_drop"}
    BY <1>1 DEF Turns
  <2> QED
    BY <2>1 DEF HalfDone
<1> QED
  BY <1>2, <1>3, <1>4, <1>5

(* What of the row may be written when the process dies. *)
LEMMA HalfDoneKeeps ==
    ASSUME Facts, NEW a \in AllActors, NEW r \in HalfDone(a)
    PROVE  /\ r.source = row.source /\ r.lastPush = row.lastPush
           /\ \/ row.source <= bundle.ver
              \/ /\ r.format = "clone" /\ r.last
                 /\ Whole(clone) /\ row.source <= clone.ver
           /\ clone.st = "rotten" => r.format = "bundle"
<1> USE WorkNumbers DEF Facts, RInv
<1>1. Shapes /\ Keeping /\ Damaged /\ Work(a) /\ Ready(a)
  BY DEF KInv
<1>2. CASE r = row
  BY <1>1, <1>2 DEF Keeping, Damaged
<1>3. CASE pc[a] \in {"checked", "copied"} /\ r = [row EXCEPT !.last = TRUE]
  <2>1. clone.st # "rotten"
    BY <1>3, WorkIsUp DEF Reconciles
  <2>2. r.source = row.source /\ r.lastPush = row.lastPush /\ r.last
        /\ r.format = row.format
    BY <1>3 DEF TypeOK, Rows
  <2> QED
    BY <1>1, <2>1, <2>2 DEF Keeping
<1>4. CASE pc[a] = "passed" /\ r = [row EXCEPT !.verified = TRUE]
  <2>1. clone.st # "rotten"
    BY <1>4, WorkIsUp DEF Reconciles
  <2>2. r.source = row.source /\ r.lastPush = row.lastPush /\ r.last = row.last
        /\ r.format = row.format
    BY <1>4 DEF TypeOK, Rows
  <2> QED
    BY <1>1, <2>1, <2>2 DEF Keeping
<1>5. CASE pc[a] = "rec_reset" /\ r = [row EXCEPT !.last = FALSE]
  <2>1. clone.st # "rotten"
    <3>1. CASE a = "boot"
      BY <1>1, <1>5, <3>1 DEF Damaged
    <3>2. CASE a # "boot"
      <4>1. booted
        BY <1>5, <3>2 DEF Turns
      <4> QED
        BY <1>1, <4>1 DEF Damaged
    <3> QED
      BY <3>1, <3>2
  <2>2. r.source = row.source /\ r.lastPush = row.lastPush /\ r.format = row.format
    BY <1>5 DEF TypeOK, Rows
  <2>3. row.source <= bundle.ver
    BY <1>1, <1>5 DEF Work, Reconciled, Keeping, PathOf, Whole
  <2> QED
    BY <2>1, <2>2, <2>3
<1>6. CASE pc[a] = "sb_row" /\ r = [row EXCEPT !.format = "bundle"]
  <2>1. r.source = row.source /\ r.lastPush = row.lastPush /\ r.format = "bundle"
    BY <1>6 DEF TypeOK, Rows
  <2>2. row.source <= bundle.ver
    BY <1>1, <1>6 DEF Ready, Replaced, Keeping
  <2> QED
    BY <2>1, <2>2
<1>7. CASE pc[a] = "sc_row" /\ r = [row EXCEPT !.format = "clone"]
  <2>1. clone.st # "rotten" /\ row.format = "bundle"
    BY <1>1, <1>7, WorkIsUp DEF Reconciles, Work, Formatted
  <2>2. r.source = row.source /\ r.lastPush = row.lastPush
    BY <1>7 DEF TypeOK, Rows
  <2> QED
    BY <1>1, <2>1, <2>2 DEF Keeping
<1>8. pc[a] # "purge_row"
  BY <1>1 DEF Work, Formatted
<1> QED
  BY <1>2, <1>3, <1>4, <1>5, <1>6, <1>7, <1>8 DEF HalfDone

(* What is left of a clone by a removal that stops. *)
LEMMA TornIs ==
    ASSUME NEW c \in Copies, NEW d \in {NoCopy} \cup Torn(c), d # c
    PROVE  \/ d.st \in {"none", "nohead", "torn", "partial"} /\ d.ver = 0
           \/ d.st = "rotten" /\ Whole(c)
<1>1. CASE d \in {NoCopy, Dir("nohead"), Dir("torn"), Dir("partial")}
  BY <1>1 DEF NoCopy, Dir
<1>2. CASE Whole(c) /\ d = [c EXCEPT !.st = "rotten"]
  BY <1>2 DEF Copies
<1> QED
  BY <1>1, <1>2 DEF Torn, Whole

LEMMA CrashOnward == ASSUME Facts, Crash PROVE KInv' /\ Simulated
<1> USE MadeVersions, WorkNumbers DEF Facts, RInv
<1>1. /\ \A a \in AllActors : pc'[a] = "idle"
      /\ ~booted' /\ bundle' = bundle /\ UNCHANGED head
      /\ \E a \in AllActors : row' \in HalfDone(a)
      /\ "boot" \in AllActors
  BY DEF Crash, github, AllActors
<1>2. Shapes /\ Keeping /\ Damaged
  BY DEF KInv
<1>3. Dated'
  BY <1>1 DEF Dated
<1>4. \A a \in AllActors : Work(a)'
  BY <1>1, IdleWorks
<1>5. CASE clone' = clone
  <2>1. /\ row'.source = row.source /\ row'.lastPush = row.lastPush
        /\ \/ row.source <= bundle.ver
           \/ /\ row'.format = "clone" /\ row'.last
              /\ Whole(clone) /\ row.source <= clone.ver
        /\ clone.st = "rotten" => row'.format = "bundle"
    BY <1>1, HalfDoneKeeps
  <2>2. Shapes' /\ Keeping'
    BY <1>1, <1>2, <1>5, <2>1 DEF Shapes, Keeping, Whole, NoCopy
  <2>3. Damaged'
    BY <1>1, <1>2, <1>5, <2>1 DEF Damaged, Whole
  <2>4. Simulated
    BY <1>1, <1>5, <2>1, SameSimulates DEF disk
  <2> QED
    BY <1>1, <1>3, <1>4, <2>2, <2>3, <2>4 DEF KInv
<1>6. CASE clone' # clone
  <2>1. /\ clone' \in {NoCopy} \cup Torn(clone)
        /\ \E a \in AllActors : pc[a] \in RemovesClone
    BY <1>6 DEF Crash
  <2>2. /\ row.format = "bundle" /\ row.source <= bundle.ver
        /\ Whole(clone) => Whole(bundle)
        /\ row' = row
    BY <1>1, <2>1, RemovingKeeps
  <2>3. \/ clone'.st \in {"none", "nohead", "torn", "partial"} /\ clone'.ver = 0
        \/ clone'.st = "rotten" /\ Whole(clone)
    BY <1>6, <2>1, TornIs DEF TypeOK
  <2>4. Shapes' /\ Keeping' /\ ~Whole(clone')
    BY <1>1, <1>2, <2>2, <2>3 DEF Shapes, Keeping, Whole, NoCopy
  <2>5. Damaged'
    BY <1>1, <2>2, <2>3 DEF Damaged, Whole
  <2>6. Simulated
    BY <1>1, <2>2, <2>4, DropSimulates
  <2> QED
    BY <1>1, <1>3, <1>4, <2>4, <2>5, <2>6 DEF KInv
<1> QED
  BY <1>5, <1>6

LEMMA SurroundingsOnward ==
    ASSUME Calmness, Facts, Surroundings PROVE KInv' /\ Simulated
<1> USE DEF Facts, RInv
<1>1. CASE SyncRow
  <2>1. /\ row'.format = row.format /\ row'.last = row.last /\ row'.source = row.source
        /\ row'.verified = row.verified
        /\ row'.lastPush \in {row.lastPush, pushedAt}
    BY <1>1 DEF SyncRow, TypeOK, Rows
  <2>2. KInv'
    BY <1>1, <2>1, ElsewhereKeeps DEF SyncRow
  <2>3. CASE row'.lastPush = row.lastPush
    BY <1>1, <2>1, <2>2, <2>3, SameSimulates DEF SyncRow, github
  <2>4. CASE row'.lastPush = pushedAt
    <3>1. Held' = Held
      BY <1>1 DEF SyncRow, Held, Whole, disk
    <3>2. row'.lastPush \in row.lastPush..head
      BY <2>4 DEF WatermarkBehindSync, TypeOK, Rows
    <3> QED
      BY <1>1, <2>1, <2>2, <3>1, <3>2 DEF SyncRow, github, Simulated, Promise!Next,
         Promise!Learn
  <2> QED
    BY <2>1, <2>2, <2>3, <2>4
<1>2. CASE ToggleBackup
  <2>1. /\ row'.format = row.format /\ row'.last = row.last /\ row'.source = row.source
        /\ row'.verified = row.verified /\ row'.lastPush = row.lastPush
    BY <1>2 DEF ToggleBackup, TypeOK, Rows
  <2> QED
    BY <1>2, <2>1, ElsewhereKeeps, SameSimulates DEF ToggleBackup, github
<1>3. CASE Push
  <2>1. KInv'
    BY <1>3, ElsewhereKeeps DEF Push
  <2>2. Held' = Held
    BY <1>3 DEF Push, Held, Whole, disk
  <2> QED
    BY <1>3, <2>1, <2>2 DEF Push, Simulated, Promise!Next, Promise!Change
<1>4. CASE Vanish
  BY <1>4, ElsewhereKeeps, SameSimulates DEF Vanish
<1>5. ~LoseFiles /\ ~Rot
  BY DEF LoseFiles, Rot, Calmness
<1>6. CASE Crash
  BY <1>6, CrashOnward
<1>7. CASE PushTag
  BY <1>7, ElsewhereKeeps, SameSimulates DEF PushTag
<1> QED
  BY <1>1, <1>2, <1>3, <1>4, <1>5, <1>6, <1>7 DEF Surroundings

-----------------------------------------------------------------------------
(* The theorems.                                                               *)

LEMMA InitKInv == Init /\ RInv => KInv
<1> SUFFICES ASSUME Init, RInv PROVE KInv
  OBVIOUS
<1> USE MadeVersions
<1>1. /\ \A a \in AllActors : pc[a] = "idle"
      /\ clone = NoCopy /\ bundle = NoCopy /\ ~booted
  BY DEF Init
<1>2. row.source = 0 /\ ~row.last
  BY DEF Init
<1>3. Shapes /\ Keeping /\ Dated /\ Damaged
  BY <1>1, <1>2 DEF Shapes, Keeping, Dated, Misdated, Damaged, Whole
<1>4. \A a \in AllActors : Work(a)
  BY <1>1 DEF Work, Formatted, Reconciled, Copied, Backups, Reconciles
<1> QED
  BY <1>1, <1>3, <1>4 DEF KInv, AllActors

LEMMA StepOnward ==
    ASSUME Calmness, RInv, RInv', KInv, WatermarkBehindSync, [Next]_vars
    PROVE  KInv' /\ Simulated
<1>1. Facts
  BY DEF Facts, Calmness, Fails
<1>2. CASE UNCHANGED vars
  <2>1. /\ UNCHANGED <<head, disk, pc, job, booted>> /\ row' = row
    BY <1>2 DEF vars, disk
  <2> QED
    BY <2>1, ElsewhereKeeps, SameSimulates
<1>3. CASE \E a \in Actors : Engine(a)
  BY <1>1, <1>3, EngineOnward, ActorsAssumption
<1> QED
  BY <1>1, <1>2, <1>3, StartingOnward, HandlingOnward, SurroundingsOnward DEF Next

LEMMA KeptAlong == ASSUME Calmness PROVE Spec => [](RInv /\ KInv) /\ [][Simulated]_vars
<1>1. Overlap = {}
  BY DEF Calmness
<1>2. Spec => []RInv
  BY <1>1, TurnByTurn
<1>3. RInv /\ RInv' /\ KInv /\ WatermarkBehindSync /\ [Next]_vars
        => KInv' /\ [Simulated]_vars
  BY StepOnward
<1> QED
  BY <1>2, <1>3, InitKInv, WatermarkCorrect, PTL DEF Spec

(* When the actors take turns, nothing is purged, and nothing fails but the    *)
(* process and GitHub, which may lose the repository and bring it back, the    *)
(* program keeps the promise of Archive: what is recorded grows, and no        *)
(* further than what is kept; what is kept is given up only for something      *)
(* newer, or when something as new as what is recorded stays.                  *)
THEOREM PromiseAlwaysKept ==
    ASSUME Overlap = {}, Env \subseteq {"vanish"}, "purge" \notin Actors
    PROVE  Spec => PromiseKept
<1>1. Calmness
  BY DEF Calmness
<1>2. Init => Promise!Init
  BY DEF Init, Promise!Init, Held, Whole, NoCopy
<1>3. [Simulated]_vars => [Promise!Next]_(Promise!vars)
  BY DEF Simulated, Promise!vars, vars, Held, Whole
<1> QED
  BY <1>1, <1>2, <1>3, KeptAlong, PTL DEF Spec, PromiseKept, Promise!Spec

(* Under the same assumptions some complete copy holds every push that is      *)
(* recorded as copied, between any two steps and after a crash in any of them. *)
THEOREM RecordAlwaysHeld ==
    ASSUME Overlap = {}, Env \subseteq {"vanish"}, "purge" \notin Actors
    PROVE  Spec => []RecordedHeld
<1>1. Calmness
  BY DEF Calmness
<1>2. RInv /\ KInv => RecordedHeld
  <2> SUFFICES ASSUME RInv, KInv, row.source > 0
               PROVE  \E c \in {clone, bundle} : Whole(c) /\ c.ver >= row.source
    BY DEF RecordedHeld
  <2>1. row.source \in Nat /\ clone.ver \in Nat /\ bundle.ver \in Nat
    BY Numbers DEF RInv, TypeOK, Rows
  <2>2. \/ Whole(clone) /\ row.source <= clone.ver
        \/ Whole(bundle) /\ row.source <= bundle.ver
    BY <2>1, MadeVersions DEF KInv, Shapes, Keeping
  <2> QED
    BY <2>1, <2>2
<1> QED
  BY <1>1, <1>2, KeptAlong, PTL

(* The promise is not given up with the last copy. *)
LEMMA SimulatedKeepsCopy ==
    [Simulated]_vars => [HasCopy => \/ HasCopy'
                                    \/ LoseFiles \/ Rot
                                    \/ row.deleted /\ pc["purge"] = "purge_files"]_vars
<1>1. HasCopy <=> Held # {}
  BY HeldIs DEF HasCopy
<1>2. HasCopy' <=> Held' # {}
  BY HeldNext DEF HasCopy, Whole
<1> QED
  BY <1>1, <1>2 DEF Simulated, Promise!Next, Promise!Change, Promise!Learn, Promise!Copy,
     Promise!Discard, Promise!Record

(* Under the same assumptions no step takes the last complete copy away. *)
THEOREM CopyAlwaysKept ==
    ASSUME Overlap = {}, Env \subseteq {"vanish"}, "purge" \notin Actors
    PROVE  Spec => OnlyCopyKept
<1>1. Calmness
  BY DEF Calmness
<1> QED
  BY <1>1, SimulatedKeepsCopy, KeptAlong, PTL DEF OnlyCopyKept

(* Under the same assumptions no row dates a copy at a path where nothing is,  *)
(* when Reconcile is over.                                                     *)
THEOREM ReconcileAlwaysTruthful ==
    ASSUME Overlap = {}, Env \subseteq {"vanish"}, "purge" \notin Actors
    PROVE  Spec => []ReconcileTruthful
<1>1. Calmness
  BY DEF Calmness
<1>2. KInv => ReconcileTruthful
  BY DEF KInv, Work, Reconciled, ReconcileTruthful
<1> QED
  BY <1>1, <1>2, KeptAlong, PTL

-----------------------------------------------------------------------------
(* The jobs alone, whatever fails.  While no handler converts or purges a      *)
(* copy, the format stays, and the copy is at the path of the format.          *)

JobsAlone == /\ Overlap = {} /\ Env \subseteq {"vanish", "fail"}
             /\ Actors \subseteq {"boot", "backup", "backup_sweep", "verify"}

(* The copy at the path of the format is as new as v. *)
Holds(v) == v = 0 \/ (Whole(PathOf(row.format)) /\ v <= PathOf(row.format).ver)

(* What is on disk; beside a bundle there can be any remains of a clone. *)
Stored ==
    /\ bundle = NoCopy \/ Whole(bundle)
    /\ row.format = "clone" => bundle = NoCopy /\ clone.st \in {"none", "partial", "ok"}
    /\ clone.st = "partial" => clone.ver = 0
    /\ Holds(row.source)

Refreshes == {"refresh", "scratch", "build", "promote", "mark", "cleanup"}

(* What an actor relies on, that no failure of an earlier step takes away. *)
Serving(a) ==
    /\ pc[a] \in {"idle", "list", "verify", "passed"} \cup Reconciles \cup Backups
    /\ pc[a] \in Backups \cup Reconciles => job[a].fmt = row.format
    /\ pc[a] \in Backups => row.source = job[a].src /\ job[a].src <= job[a].seen
    /\ pc[a] \in Refreshes \cup {"rec_drop"} => row.format = "bundle"
    /\ pc[a] \in {"rec_drop", "mark", "cleanup"} => Whole(bundle)
    /\ pc[a] = "clear" => row.format = "clone"
    /\ pc[a] = "checked" /\ job[a].src # job[a].seen => Holds(job[a].seen)
    /\ pc[a] \in {"clear", "mark", "cleanup", "copied"} => Holds(job[a].seen)
    /\ pc[a] = "cloning" => ~Whole(clone)
    /\ pc[a] \in {"ensure", "cloning", "fetch"} /\ row.format = "bundle" => job[a].reused
    /\ pc[a] = "scratch" => ~job[a].reused
    /\ pc[a] = "build" /\ Whole(BundleSource(a)) => /\ job[a].seen <= BundleSource(a).ver
                                                    /\ bundle.ver <= BundleSource(a).ver
    /\ pc[a] = "promote" => job[a].seen <= job[a].tmp /\ bundle.ver <= job[a].tmp

JInv == Stored /\ \A a \in AllActors : Serving(a)

Known == RInv /\ RInv' /\ JInv /\ WatermarkBehindSync

LEMMA IdleServes == ASSUME NEW a, pc'[a] = "idle" PROVE Serving(a)'
BY DEF Serving, Reconciles, Backups, Refreshes

(* What a step of an actor at work has to show. *)
Served(a) == Stored' /\ Serving(a)' /\ Simulated

LEMMA ServedKeeps ==
    ASSUME Known, NEW a \in AllActors, pc[a] # "idle", Served(a),
           \A b \in AllActors \ {a} : pc'[b] = pc[b]
    PROVE  JInv' /\ Simulated
<1>1. \A b \in AllActors \ {a} : pc'[b] = "idle"
  BY DEF Known, RInv, Turns
<1> QED
  BY <1>1, IdleServes DEF JInv, Served

(* What an actor at work knows. *)
LEMMA ServesWell ==
    ASSUME Known, NEW a \in AllActors
    PROVE  /\ TypeOK /\ TypeOK' /\ Stored /\ Serving(a) /\ Versions /\ Ready(a)
           /\ row.source \in Nat /\ row.lastPush \in Nat /\ head \in Nat
           /\ clone.ver \in Nat /\ bundle.ver \in Nat /\ job[a].tmp \in Nat
           /\ job[a].seen \in Nat /\ job[a].src \in Nat
           /\ job[a].seen <= row.lastPush /\ job[a].seen <= head
           /\ row.format \in Formats
BY WorkNumbers DEF Known, RInv, JInv

(* A step that leaves the files and what is recorded alone. *)
LEMMA SameStored ==
    ASSUME Stored, UNCHANGED <<head, disk>>, row'.format = row.format,
           row'.source = row.source, row'.lastPush = row.lastPush
    PROVE  /\ Stored' /\ Simulated
           /\ \A v : Holds(v) => Holds(v)'
           /\ Whole(bundle) => Whole(bundle)'
BY SameSimulates DEF Stored, Holds, PathOf, Whole, NoCopy, disk

(* A record of what is held. *)
LEMMA RecordServed ==
    ASSUME Known, NEW a \in AllActors, Holds(job[a].seen), row.source = job[a].src,
           job[a].src <= job[a].seen, UNCHANGED <<head, disk>>, row'.format = row.format,
           row'.source = job[a].seen, row'.lastPush = row.lastPush, pc'[a] = "idle"
    PROVE  Served(a)
<1> USE ServesWell
<1>1. Simulated
  <2>1. \/ row'.source = 0
        \/ Whole(clone) /\ row'.source <= clone.ver
        \/ Whole(bundle) /\ row'.source <= bundle.ver
    BY DEF Holds, PathOf
  <2> QED
    BY <2>1, RecordSimulates
<1>2. Stored'
  BY DEF Stored, Holds, PathOf, Whole, NoCopy, disk
<1> QED
  BY <1>1, <1>2, IdleServes DEF Served

LEMMA CompareServed ==
    ASSUME Known, NEW a \in AllActors, Compare(a) PROVE Served(a)
<1> USE ServesWell
<1>1. /\ pc[a] = "compare" /\ UNCHANGED <<github, row, disk, job>>
      /\ job[a].fmt = row.format /\ row.source = job[a].src /\ job[a].src <= job[a].seen
  BY DEF Compare, Serving, Backups
<1>2. Stored' /\ Simulated /\ \A v : Holds(v) => Holds(v)'
  BY <1>1, SameStored DEF github
<1>3. CASE pc'[a] = "checked" /\ CopyUsable(PathOf(row.format)) /\ ~SourceChanged(a)
  <2>1. ASSUME job[a].src # job[a].seen PROVE Holds(job[a].seen)
    <3>1. ~RefsDiffer(PathOf(row.format))
      BY <1>1, <1>3, <2>1 DEF SourceChanged
    <3>2. PathOf(row.format).ver = head /\ PathOf(row.format).st # "torn"
      BY <3>1 DEF RefsDiffer
    <3>3. PathOf(row.format).st \in {"partial", "ok"}
      BY <1>3, <3>2, MadeVersions DEF CopyUsable, PathOf, Stored, Whole, Formats
    <3>4. PathOf(row.format).st = "partial" => PathOf(row.format).ver = 0
      BY MadeVersions DEF PathOf, Stored, Whole
    <3> QED
      BY <3>2, <3>3, <3>4 DEF Holds, Whole
  <2>2. Serving(a)'
    BY <1>1, <1>2, <1>3, <2>1 DEF Serving, Backups, Reconciles, Refreshes
  <2> QED
    BY <1>2, <2>2 DEF Served
<1>4. CASE pc'[a] = AfterCompare(a)
  <2>1. Serving(a)'
    BY <1>1, <1>4 DEF Serving, Backups, Reconciles, Refreshes, AfterCompare, Formats
  <2> QED
    BY <1>2, <2>1 DEF Served
<1> QED
  BY <1>1, <1>3, <1>4, GotoSteps DEF Compare

LEMMA RecordCheckedServed ==
    ASSUME Known, NEW a \in AllActors, RecordChecked(a) PROVE Served(a)
<1> USE ServesWell
<1>1. /\ pc[a] = "checked" /\ pc'[a] = "idle" /\ UNCHANGED <<head, disk>>
      /\ row.source = job[a].src /\ job[a].src <= job[a].seen
      /\ job[a].src # job[a].seen => Holds(job[a].seen)
  BY FinishSteps DEF RecordChecked, Serving, Backups, github
<1>2. /\ row'.format = row.format /\ row'.lastPush = row.lastPush
      /\ \/ row'.source = row.source
         \/ job[a].src # job[a].seen /\ row'.source = job[a].seen
  BY DEF RecordChecked, HalfDone, Represents, TypeOK, Rows
<1>3. CASE row'.source = row.source
  BY <1>1, <1>2, <1>3, SameStored, IdleServes DEF Served
<1>4. CASE job[a].src # job[a].seen /\ row'.source = job[a].seen
  BY <1>1, <1>2, <1>4, RecordServed
<1> QED
  BY <1>2, <1>3, <1>4

LEMMA RecordCopiedServed ==
    ASSUME Known, NEW a \in AllActors, RecordCopied(a) PROVE Served(a)
<1> USE ServesWell
<1>1. /\ pc[a] = "copied" /\ pc'[a] = "idle" /\ UNCHANGED <<head, disk>>
      /\ row.source = job[a].src /\ job[a].src <= job[a].seen /\ Holds(job[a].seen)
  BY FinishSteps DEF RecordCopied, Serving, Backups, github
<1>2. /\ row'.format = row.format /\ row'.lastPush = row.lastPush
      /\ row'.source = row.source \/ row'.source = job[a].seen
  BY DEF RecordCopied, HalfDone, Represents, TypeOK, Rows
<1>3. CASE row'.source = row.source
  BY <1>1, <1>2, <1>3, SameStored, IdleServes DEF Served
<1>4. CASE row'.source = job[a].seen
  BY <1>1, <1>2, <1>4, RecordServed
<1> QED
  BY <1>2, <1>3, <1>4

(* A clone that is not whole is no copy, nor is what becomes of it. *)
LEMMA RemainsServed ==
    ASSUME Known, NEW a \in AllActors, UNCHANGED <<head, row, bundle>>,
           ~Whole(clone), ~Whole(clone)', clone'.st = "partial" => clone'.ver = 0,
           row.format = "clone" => clone'.st \in {"none", "partial", "ok"},
           Serving(a)'
    PROVE  Served(a)
<1> USE ServesWell
<1>1. Simulated
  BY DropSimulates DEF Whole
<1>2. Stored'
  BY DEF Stored, Holds, PathOf, Whole, NoCopy
<1> QED
  BY <1>1, <1>2 DEF Served

LEMMA EnsureCloneServed ==
    ASSUME Known, NEW a \in AllActors, EnsureClone(a) PROVE Served(a)
<1> USE ServesWell
<1>1. /\ pc[a] = "ensure" /\ UNCHANGED <<head, row, bundle>>
      /\ job[a].fmt = row.format /\ row.source = job[a].src /\ job[a].src <= job[a].seen
      /\ row.format = "bundle" => job[a].reused
  BY DEF EnsureClone, Serving, Backups, github
<1>2. CASE NeedsClone(clone) /\ clone' = Dir("partial") /\ Goto(a, "cloning") /\ UNCHANGED job
  <2>1. ~Whole(clone) /\ ~Whole(clone)' /\ clone'.st = "partial" /\ clone'.ver = 0
    BY <1>2, MadeVersions DEF NeedsClone, Whole
  <2>2. Serving(a)'
    BY <1>1, <1>2, <2>1, GotoSteps DEF Serving, Backups, Reconciles, Refreshes
  <2> QED
    BY <1>1, <2>1, <2>2, RemainsServed
<1>3. CASE UNCHANGED clone /\ pc'[a] = "fetch" /\ UNCHANGED job
  <2>1. Serving(a)'
    BY <1>1, <1>3 DEF Serving, Backups, Reconciles, Refreshes
  <2> QED
    BY <1>1, <1>3, <2>1, SameStored DEF Served, disk
<1>4. CASE UNCHANGED clone /\ pc'[a] = "idle"
  BY <1>1, <1>4, SameStored, IdleServes DEF Served, disk
<1> QED
  BY <1>2, <1>3, <1>4, GotoSteps, FinishSteps DEF EnsureClone

(* The clone is everything that is on GitHub. *)
LEMMA FetchedServed ==
    ASSUME Known, NEW a \in AllActors, pc[a] \in {"cloning", "fetch"},
           clone'.st = "ok", clone'.ver = head, pc'[a] = AfterEnsure(a),
           UNCHANGED <<github, row, bundle, job>>
    PROVE  Served(a)
<1> USE ServesWell, MadeVersions
<1>1. /\ job[a].fmt = row.format /\ row.source = job[a].src /\ job[a].src <= job[a].seen
      /\ row.format = "bundle" => job[a].reused
  BY DEF Serving, Backups
<1>2. Simulated
  BY CopySimulates DEF Versions, github
<1>3. Stored' /\ (row.format = "clone" => Holds(job[a].seen)')
  BY <1>1 DEF Stored, Holds, PathOf, Whole, NoCopy, Formats
<1>4. /\ bundle'.ver <= clone'.ver /\ job[a].seen <= clone'.ver
  BY DEF Versions
<1>5. Serving(a)'
  BY <1>1, <1>3, <1>4 DEF Serving, Backups, Reconciles, Refreshes, AfterEnsure, BundleSource,
     Formats
<1> QED
  BY <1>2, <1>3, <1>5 DEF Served

LEMMA GitCloneServed ==
    ASSUME Known, NEW a \in AllActors, GitClone(a) PROVE Served(a)
<1> USE ServesWell
<1>1. /\ pc[a] = "cloning" /\ ~Whole(clone) /\ UNCHANGED <<github, head, row, bundle>>
  BY DEF GitClone, Serving, github
<1>2. CASE clone' = Complete(head, tag) /\ Goto(a, AfterEnsure(a)) /\ UNCHANGED job
  BY <1>1, <1>2, GotoSteps, MadeVersions, FetchedServed
<1>3. CASE clone' \in {NoCopy, clone} /\ Finish(a)
  <2>1. ~Whole(clone)'
    BY <1>1, <1>3, MadeVersions DEF Whole
  <2> QED
    BY <1>1, <1>3, <2>1, FinishSteps, IdleServes, RemainsServed, MadeVersions DEF Stored
<1> QED
  BY <1>2, <1>3 DEF GitClone

LEMMA GitFetchServed ==
    ASSUME Known, NEW a \in AllActors, GitFetch(a) PROVE Served(a)
<1> USE ServesWell
<1>1. /\ pc[a] = "fetch" /\ UNCHANGED <<github, head, row, bundle>>
      /\ job[a].fmt = row.format /\ row.source = job[a].src /\ job[a].src <= job[a].seen
      /\ row.format = "bundle" => job[a].reused
  BY DEF GitFetch, Serving, Backups, github
<1>2. CASE /\ clone'.st = "ok" /\ clone'.ver = head
           /\ Goto(a, AfterEnsure(a)) /\ UNCHANGED job
  BY <1>1, <1>2, GotoSteps, FetchedServed
<1>3. CASE /\ clone.st = "rotten" /\ clone'.st = "rotten"
           /\ Goto(a, AfterEnsure(a)) /\ UNCHANGED job
  <2>1. clone'.st = "rotten" /\ ~Whole(clone) /\ ~Whole(clone)' /\ row.format = "bundle"
    BY <1>3 DEF TypeOK, Copies, Whole, Stored, Formats
  <2>2. Serving(a)'
    BY <1>1, <1>3, <2>1, GotoSteps DEF Serving, Backups, Reconciles, Refreshes, AfterEnsure,
       BundleSource, Whole
  <2> QED
    BY <1>1, <2>1, <2>2, RemainsServed
<1>4. CASE Finish(a) /\ UNCHANGED clone
  BY <1>1, <1>4, FinishSteps, SameStored, IdleServes DEF Served, disk
<1> QED
  BY <1>2, <1>3, <1>4, FetchSteps

LEMMA ClearVerifiedServed ==
    ASSUME Known, NEW a \in AllActors, ClearVerified(a) PROVE Served(a)
<1> USE ServesWell
<1>1. /\ pc[a] = "clear" /\ pc'[a] = "copied" /\ UNCHANGED <<head, disk, job>>
      /\ row'.format = row.format /\ row'.source = row.source /\ row'.lastPush = row.lastPush
  BY GotoSteps DEF ClearVerified, TypeOK, Rows, github
<1>2. Stored' /\ Simulated /\ (Holds(job[a].seen) => Holds(job[a].seen)')
  BY <1>1, SameStored
<1>3. Serving(a)'
  BY <1>1, <1>2 DEF Serving, Backups, Reconciles, Refreshes
<1> QED
  BY <1>2, <1>3 DEF Served

LEMMA StartRefreshServed ==
    ASSUME Known, NEW a \in AllActors, StartRefresh(a) PROVE Served(a)
<1> USE ServesWell
<1>1. /\ pc[a] = "refresh" /\ pc'[a] \in {"scratch", "ensure"}
      /\ job'[a] = [job[a] EXCEPT !.reused = clone.st # "none"]
      /\ pc'[a] = "scratch" <=> clone.st = "none"
      /\ UNCHANGED <<head, disk, row>>
  BY GotoSteps DEF StartRefresh, TypeOK, github
<1>2. /\ job'[a].fmt = job[a].fmt /\ job'[a].src = job[a].src /\ job'[a].seen = job[a].seen
      /\ job'[a].reused = (clone.st # "none")
  BY <1>1 DEF TypeOK, Jobs
<1>3. Serving(a)'
  BY <1>1, <1>2 DEF Serving, Backups, Reconciles, Refreshes
<1> QED
  BY <1>1, <1>3, SameStored DEF Served

LEMMA ScratchCloneServed ==
    ASSUME Known, NEW a \in AllActors, ScratchClone(a) PROVE Served(a)
<1> USE ServesWell
<1>1. pc[a] = "scratch" /\ UNCHANGED <<head, disk, row>>
  BY DEF ScratchClone, github
<1>2. CASE pc'[a] = "build" /\ job' = [job EXCEPT ![a].tmp = head, ![a].tag = tag]
  <2>1. /\ job'[a].fmt = job[a].fmt /\ job'[a].src = job[a].src /\ job'[a].seen = job[a].seen
        /\ job'[a].reused = job[a].reused /\ job'[a].tmp = head
    BY <1>2 DEF TypeOK, Jobs
  <2>2. BundleSource(a)'.ver = head
    BY <1>1, <2>1 DEF BundleSource, Scratch, Complete, Serving
  <2>3. job'[a].seen <= BundleSource(a)'.ver /\ bundle'.ver <= BundleSource(a)'.ver
    BY <1>1, <2>1, <2>2, MadeVersions DEF Versions, disk
  <2>4. Serving(a)'
    BY <1>1, <1>2, <2>1, <2>3 DEF Serving, Backups, Reconciles, Refreshes
  <2> QED
    BY <1>1, <2>4, SameStored DEF Served
<1>3. CASE pc'[a] = "idle"
  BY <1>1, <1>3, SameStored, IdleServes DEF Served
<1> QED
  BY <1>2, <1>3, GotoSteps, FinishSteps DEF ScratchClone

LEMMA BuildBundleServed ==
    ASSUME Known, NEW a \in AllActors, BuildBundle(a) PROVE Served(a)
<1> USE ServesWell
<1>1. pc[a] = "build" /\ UNCHANGED <<head, disk, row>>
  BY DEF BuildBundle, github
<1>2. CASE /\ Whole(BundleSource(a)) /\ pc'[a] = "promote"
           /\ job' = [job EXCEPT ![a].tmp = BundleSource(a).ver,
                                 ![a].tag = BundleSource(a).tag]
  <2>1. /\ job'[a].fmt = job[a].fmt /\ job'[a].src = job[a].src /\ job'[a].seen = job[a].seen
        /\ job'[a].tmp = BundleSource(a).ver
    BY <1>2 DEF TypeOK, Jobs
  <2>2. Serving(a)'
    BY <1>1, <1>2, <2>1 DEF Serving, Backups, Reconciles, Refreshes, disk
  <2> QED
    BY <1>1, <2>2, SameStored DEF Served
<1>3. CASE pc'[a] = "idle"
  BY <1>1, <1>3, SameStored, IdleServes DEF Served
<1> QED
  BY <1>2, <1>3, GotoSteps, FinishSteps DEF BuildBundle

LEMMA PromoteBundleServed ==
    ASSUME Known, NEW a \in AllActors, PromoteBundle(a) PROVE Served(a)
<1> USE ServesWell, MadeVersions
<1>1. /\ pc[a] = "promote" /\ UNCHANGED <<head, clone, row>> /\ row.format = "bundle"
      /\ job[a].seen <= job[a].tmp /\ bundle.ver <= job[a].tmp /\ job[a].tmp > 0
      /\ job[a].fmt = row.format /\ row.source = job[a].src /\ job[a].src <= job[a].seen
  BY DEF PromoteBundle, Serving, Ready, Backups, Refreshes, github
<1>2. CASE bundle' = Scratch(a) /\ Goto(a, "mark") /\ UNCHANGED job
  <2>1. Simulated
    BY <1>1, <1>2, CopySimulates DEF Versions
  <2>2. Whole(bundle)' /\ Stored' /\ Holds(job[a].seen)'
    BY <1>1, <1>2 DEF Stored, Holds, PathOf, Whole
  <2>3. Serving(a)'
    BY <1>1, <1>2, <2>2, GotoSteps DEF Serving, Backups, Reconciles, Refreshes
  <2> QED
    BY <2>1, <2>2, <2>3 DEF Served
<1>3. CASE Finish(a) /\ UNCHANGED bundle
  BY <1>1, <1>3, FinishSteps, SameStored, IdleServes DEF Served, disk
<1> QED
  BY <1>2, <1>3 DEF PromoteBundle

LEMMA MarkVerifiedServed ==
    ASSUME Known, NEW a \in AllActors, MarkVerified(a) PROVE Served(a)
<1> USE ServesWell
<1>1. /\ pc[a] = "mark" /\ pc'[a] \in {"cleanup", "copied"} /\ UNCHANGED <<head, disk, job>>
      /\ row'.format = row.format /\ row'.source = row.source /\ row'.lastPush = row.lastPush
  BY GotoSteps DEF MarkVerified, TypeOK, Rows, github
<1>2. /\ Stored' /\ Simulated /\ (Holds(job[a].seen) => Holds(job[a].seen)')
      /\ Whole(bundle) => Whole(bundle)'
  BY <1>1, SameStored
<1>3. Serving(a)'
  BY <1>1, <1>2 DEF Serving, Backups, Reconciles, Refreshes
<1> QED
  BY <1>2, <1>3 DEF Served

(* A clone beside the bundle goes, or a part of it. *)
LEMMA RemovalStored ==
    ASSUME Known, UNCHANGED <<head, bundle>>, row'.source = row.source,
           row'.lastPush = row.lastPush, row'.format = row.format,
           row.format = "bundle", Whole(bundle),
           clone' \in {NoCopy} \cup Torn(clone)
    PROVE  /\ Stored' /\ Simulated /\ Whole(bundle)'
           /\ \A v : Holds(v) => Holds(v)'
<1> USE ServesWell
<1>0. "boot" \in AllActors
  BY DEF AllActors
<1>1. TypeOK /\ TypeOK' /\ Stored /\ clone \in Copies
  BY <1>0 DEF TypeOK
<1>2. clone' = clone \/ (~Whole(clone') /\ (clone'.st = "partial" => clone'.ver = 0))
  BY <1>1, TornIs DEF Whole
<1>3. row.source <= bundle.ver
  BY <1>0 DEF Stored, Holds, PathOf
<1>4. Simulated
  BY <1>1, <1>2, <1>3, DropSimulates
<1>5. Stored' /\ Whole(bundle)' /\ \A v : Holds(v) => Holds(v)'
  BY <1>1, <1>2 DEF Stored, Holds, PathOf, Whole
<1> QED
  BY <1>4, <1>5

LEMMA CleanupServed ==
    ASSUME Known, NEW a \in AllActors, Cleanup(a) PROVE Served(a)
<1> USE ServesWell
<1>1. /\ pc[a] = "cleanup" /\ pc'[a] = "copied" /\ UNCHANGED <<head, bundle, row, job>>
      /\ row.format = "bundle" /\ Whole(bundle) /\ clone' \in {NoCopy} \cup Torn(clone)
  BY GotoSteps DEF Cleanup, Serving, Refreshes, github
<1>2. Stored' /\ Simulated /\ (Holds(job[a].seen) => Holds(job[a].seen)')
  BY <1>1, RemovalStored
<1>3. Serving(a)'
  BY <1>1, <1>2 DEF Serving, Backups, Reconciles, Refreshes
<1> QED
  BY <1>2, <1>3 DEF Served

LEMMA ReconcilingServed ==
    ASSUME Known, NEW a \in AllActors, Reconciling(a) PROVE Served(a)
<1> USE ServesWell
<1>1. CASE RemoveRedundant(a)
  <2>1. /\ pc[a] = "reconcile" /\ pc'[a] \in {"rec_drop", "rec_stat"}
        /\ pc'[a] = "rec_drop" => Redundant(job[a].fmt)
        /\ UNCHANGED <<head, disk, row, job>>
    BY <1>1, GotoSteps DEF RemoveRedundant, github
  <2>2. pc'[a] = "rec_drop" => row.format = "bundle" /\ Whole(bundle)
    BY <2>1, MadeVersions DEF Redundant, Serving, Reconciles, Stored
  <2>3. Stored' /\ Simulated /\ (Whole(bundle) => Whole(bundle)')
    BY <2>1, SameStored
  <2>4. Serving(a)'
    BY <2>1, <2>2, <2>3 DEF Serving, Backups, Reconciles, Refreshes
  <2> QED
    BY <2>3, <2>4 DEF Served
<1>2. CASE DropRedundant(a)
  <2>1. /\ pc[a] = "rec_drop" /\ pc'[a] = "rec_stat" /\ UNCHANGED <<head, bundle, row, job>>
        /\ row.format = "bundle" /\ Whole(bundle) /\ clone' \in {NoCopy} \cup Torn(clone)
    BY <1>2, GotoSteps DEF DropRedundant, Serving, Refreshes, github
  <2>2. Stored' /\ Simulated
    BY <2>1, RemovalStored
  <2>3. Serving(a)'
    BY <2>1 DEF Serving, Backups, Reconciles, Refreshes
  <2> QED
    BY <2>2, <2>3 DEF Served
<1>3. CASE StatPath(a)
  <2>1. /\ pc[a] = "rec_stat" /\ pc'[a] \in {"rec_reset", "list"}
        /\ UNCHANGED <<head, disk, row, job>>
    BY <1>3, GotoSteps DEF StatPath, github
  <2>2. Serving(a)'
    BY <2>1 DEF Serving, Backups, Reconciles, Refreshes
  <2> QED
    BY <2>1, <2>2, SameStored DEF Served
<1>4. CASE ResetRow(a)
  <2>1. /\ pc[a] = "rec_reset" /\ pc'[a] = "list" /\ UNCHANGED <<head, disk>>
        /\ row'.format = row.format /\ row'.source = row.source /\ row'.lastPush = row.lastPush
    BY <1>4, GotoSteps DEF ResetRow, HalfDone, TypeOK, Rows, github
  <2>2. Serving(a)'
    BY <2>1 DEF Serving, Backups, Reconciles, Refreshes
  <2> QED
    BY <2>1, <2>2, SameStored DEF Served
<1> QED
  BY <1>1, <1>2, <1>3, <1>4 DEF Reconciling

LEMMA VerifyingServed ==
    ASSUME Known, NEW a \in AllActors, Verifying(a) PROVE Served(a)
<1> USE ServesWell
<1>1. /\ UNCHANGED <<head, disk>> /\ pc'[a] \in {"idle", "passed"}
      /\ row'.format = row.format /\ row'.source = row.source /\ row'.lastPush = row.lastPush
  BY GotoSteps, FinishSteps DEF Verifying, VerifyCopy, RecordVerified, HalfDone, TypeOK, Rows,
     github
<1>2. Serving(a)'
  BY <1>1 DEF Serving, Backups, Reconciles, Refreshes
<1> QED
  BY <1>1, <1>2, SameStored DEF Served

LEMMA EngineServes ==
    ASSUME Known, NEW a \in AllActors, Engine(a) PROVE JInv' /\ Simulated
<1>1. pc[a] # "idle" /\ \A b \in AllActors \ {a} : pc'[b] = pc[b]
  BY ServesWell, CopyingSteps, ReconcilingSteps, VerifyingSteps, SwitchingSteps
  DEF Engine, Stepping, Known
<1>2. ~Switching(a)
  BY ServesWell DEF Switching, SwBundleCreate, SwBundlePromote, SwBundleRow, SwBundleDrop,
     SwCloneDrop, SwCloneBuild, SwClonePromote, SwCloneRow, SwCloneDropBundle, SwRow,
     Serving, Backups, Reconciles
<1>3. Served(a)
  BY <1>2, CompareServed, RecordCheckedServed, EnsureCloneServed, GitCloneServed,
     GitFetchServed, ClearVerifiedServed, RecordCopiedServed, StartRefreshServed,
     ScratchCloneServed, BuildBundleServed, PromoteBundleServed, MarkVerifiedServed,
     CleanupServed, ReconcilingServed, VerifyingServed DEF Engine, Copying
<1> QED
  BY <1>1, <1>3, ServedKeeps

(* One starts, or goes on with the row, the others being idle. *)
LEMMA StartServes ==
    ASSUME Known, NEW a \in AllActors, UNCHANGED <<head, disk, row>>, Serving(a)',
           \A b \in AllActors \ {a} : pc'[b] = "idle"
    PROVE  JInv' /\ Simulated
BY SameStored, IdleServes, ServesWell DEF JInv

LEMMA OthersServes ==
    ASSUME JobsAlone, Known, Starting \/ Handling PROVE JInv' /\ Simulated
<1>0. /\ TypeOK /\ Actors \subseteq AllActors /\ "boot" \in AllActors /\ "verify" \in AllActors
      /\ \A a \in AllActors : Serving(a)
      /\ \A a, b \in AllActors : pc[a] # "idle" /\ pc[b] # "idle" => a = b
  BY ActorsAssumption DEF Known, RInv, Turns, JInv, AllActors
<1>b. ASSUME NEW a \in AllActors, BeginReconcile(a), \A b \in AllActors : pc[b] = "idle"
      PROVE  JInv' /\ Simulated
  <2>1. /\ pc'[a] \in {"reconcile", "list"} /\ UNCHANGED <<head, disk, row>>
        /\ pc'[a] = "reconcile" => job'[a].fmt = row.format
        /\ \A b \in AllActors \ {a} : pc'[b] = "idle"
    BY <1>0, <1>b, GotoSteps DEF BeginReconcile, TypeOK, Jobs, github
  <2>2. Serving(a)'
    BY <2>1 DEF Serving, Backups, Reconciles, Refreshes
  <2> QED
    BY <2>1, <2>2, StartServes
<1>q. ASSUME NEW a, CanStart(a) PROVE \A b \in AllActors : pc[b] = "idle"
  BY <1>q, CanStartQuiet DEF JobsAlone, Quiet
<1> USE <1>0
<1>1. CASE Boot
  BY <1>1, <1>b DEF Boot, Known, RInv, Turns
<1>2. CASE Booted
  BY <1>2, FinishSteps, IdleServes, StartServes DEF Booted, github
<1>3. ~TriggerBackup /\ ~StartChecked /\ ~StartSwitch /\ ~SetFormat /\ ~StartPurge
  BY DEF TriggerBackup, StartChecked, StartSwitch, SetFormat, StartPurge, CanStart, JobsAlone
<1>4. CASE StartVerify
  <2>1. /\ pc'["verify"] = "verify" /\ UNCHANGED <<head, disk, row>>
        /\ \A b \in AllActors \ {"verify"} : pc'[b] = "idle"
    BY <1>4, <1>q, GotoSteps DEF StartVerify, github
  <2>2. Serving("verify")'
    BY <2>1 DEF Serving, Backups, Reconciles, Refreshes
  <2> QED
    BY <2>1, <2>2, StartServes
<1>5. ASSUME NEW a \in Actors, StartBackup(a) PROVE JInv' /\ Simulated
  BY <1>5, <1>b, <1>q DEF StartBackup
<1>6. ~Fallback /\ ~PurgeFiles /\ ~PurgeRow
  BY DEF Fallback, PurgeFiles, PurgeRow, Serving, Backups, Reconciles, AllActors
<1>7. ASSUME NEW a \in Actors, ListRow(a) PROVE JInv' /\ Simulated
  <2>1. pc[a] = "list" /\ UNCHANGED <<head, disk, row>>
    BY <1>7 DEF ListRow, github
  <2>2. \A b \in AllActors \ {a} : pc'[b] = "idle"
    BY <1>7, <2>1, GotoSteps, FinishSteps DEF ListRow
  <2>3. CASE pc'[a] = "idle"
    BY <2>1, <2>2, <2>3, IdleServes, StartServes
  <2>4. CASE TakeRow(a) /\ pc'[a] = "compare"
    <3>1. job'[a] = [NoJob EXCEPT !.fmt = row.format, !.seen = row.lastPush, !.src = row.source]
      BY <2>4 DEF TakeRow, TypeOK
    <3>2. /\ job'[a].fmt = row.format /\ job'[a].seen = row.lastPush
          /\ job'[a].src = row.source
      BY <3>1 DEF NoJob
    <3>3. row.source <= row.lastPush
      BY DEF Known, WatermarkBehindSync
    <3>4. Serving(a)'
      BY <2>1, <2>4, <3>2, <3>3 DEF Serving, Backups, Reconciles, Refreshes
    <3> QED
      BY <2>1, <2>2, <3>4, StartServes
  <2> QED
    BY <1>7, <2>3, <2>4, GotoSteps, FinishSteps DEF ListRow
<1> QED
  BY <1>1, <1>2, <1>3, <1>4, <1>5, <1>6, <1>7 DEF Starting, Handling

(* What happens elsewhere leaves what an actor relies on. *)
LEMMA ElsewhereServes ==
    ASSUME JInv, UNCHANGED <<disk, pc, job>>, row'.format = row.format,
           row'.source = row.source
    PROVE  JInv'
<1>1. Stored' /\ \A v : Holds(v)' <=> Holds(v)
  BY DEF JInv, Stored, Holds, PathOf, Whole, NoCopy, disk
<1>2. \A a \in AllActors : Serving(a)'
  BY <1>1 DEF JInv, Serving, BundleSource, Scratch, Complete, Whole, disk
<1> QED
  BY <1>1, <1>2 DEF JInv

LEMMA CrashServes == ASSUME Known, Crash PROVE JInv' /\ Simulated
<1>0. TypeOK /\ Stored /\ \A a \in AllActors : Serving(a)
  BY DEF Known, RInv, JInv
<1>1. /\ \A a \in AllActors : pc'[a] = "idle"
      /\ bundle' = bundle /\ UNCHANGED head
  BY DEF Crash, github
<1>2. /\ row'.format = row.format /\ row'.source = row.source /\ row'.lastPush = row.lastPush
  <2>1. PICK a \in AllActors : row' \in HalfDone(a)
    BY DEF Crash
  <2> QED
    BY <1>0, <2>1 DEF HalfDone, Serving, Backups, Reconciles, TypeOK, Rows
<1>3. CASE clone' = clone
  BY <1>0, <1>1, <1>2, <1>3, SameStored, IdleServes DEF JInv, disk
<1>4. CASE clone' # clone
  <2>1. PICK a \in AllActors : pc[a] \in RemovesClone
    BY <1>4 DEF Crash
  <2>2. pc[a] \in {"rec_drop", "cleanup"}
    BY <1>0, <2>1 DEF RemovesClone, Serving, Backups, Reconciles
  <2>3. row.format = "bundle" /\ Whole(bundle) /\ clone' \in {NoCopy} \cup Torn(clone)
    BY <1>0, <1>4, <2>2 DEF Crash, Serving, Refreshes
  <2> QED
    BY <1>1, <1>2, <2>3, RemovalStored, IdleServes DEF JInv
<1> QED
  BY <1>3, <1>4

LEMMA SurroundingsServe ==
    ASSUME JobsAlone, Known, Surroundings PROVE JInv' /\ Simulated
<1>0. TypeOK /\ JInv /\ Stored
  BY DEF Known, RInv, JInv
<1>1. CASE SyncRow \/ ToggleBackup
  <2>1. /\ row'.format = row.format /\ row'.source = row.source
        /\ row'.lastPush \in {row.lastPush, pushedAt} /\ UNCHANGED <<head, disk, pc, job>>
    BY <1>0, <1>1 DEF SyncRow, ToggleBackup, TypeOK, Rows, github
  <2>2. JInv'
    BY <1>0, <2>1, ElsewhereServes
  <2>3. CASE row'.lastPush = row.lastPush
    BY <2>1, <2>2, <2>3, SameSimulates
  <2>4. CASE row'.lastPush = pushedAt
    <3>1. Held' = Held
      BY <2>1 DEF Held, Whole, disk
    <3>2. row'.lastPush \in row.lastPush..head
      BY <1>0, <2>4 DEF Known, WatermarkBehindSync, TypeOK, Rows
    <3> QED
      BY <2>1, <2>2, <3>1, <3>2 DEF Simulated, Promise!Next, Promise!Learn
  <2> QED
    BY <2>1, <2>3, <2>4
<1>2. CASE Push
  <2>1. JInv'
    BY <1>0, <1>2, ElsewhereServes DEF Push
  <2>2. Held' = Held
    BY <1>2 DEF Push, Held, Whole, disk
  <2> QED
    BY <1>2, <2>1, <2>2 DEF Push, Simulated, Promise!Next, Promise!Change
<1>3. CASE Vanish
  BY <1>0, <1>3, ElsewhereServes, SameSimulates DEF Vanish
<1>4. ~LoseFiles /\ ~Rot
  BY DEF LoseFiles, Rot, JobsAlone
<1>5. CASE Crash
  BY <1>5, CrashServes
<1>6. CASE PushTag
  BY <1>0, <1>6, ElsewhereServes, SameSimulates DEF PushTag
<1> QED
  BY <1>1, <1>2, <1>3, <1>4, <1>5, <1>6 DEF Surroundings

LEMMA ServedAlong == ASSUME JobsAlone PROVE Spec => [](RInv /\ JInv) /\ [][Simulated]_vars
<1>1. Spec => []RInv
  BY TurnByTurn DEF JobsAlone
<1>2. Init /\ RInv => JInv
  BY IdleServes, MadeVersions DEF Init, JInv, Stored, Holds, Serving, Reconciles, Backups,
     Refreshes
<1>3. RInv /\ RInv' /\ JInv /\ WatermarkBehindSync /\ [Next]_vars => JInv' /\ [Simulated]_vars
  <2> SUFFICES ASSUME RInv, RInv', JInv, WatermarkBehindSync, [Next]_vars
               PROVE  JInv' /\ [Simulated]_vars
    OBVIOUS
  <2>0. Known
    BY DEF Known
  <2>1. CASE UNCHANGED vars
    BY <2>1, ElsewhereServes DEF vars, disk
  <2>2. ASSUME NEW a \in Actors, Engine(a) PROVE JInv' /\ Simulated
    BY <2>0, <2>2, EngineServes, ActorsAssumption
  <2> QED
    BY <2>0, <2>1, <2>2, OthersServes, SurroundingsServe DEF Next
<1> QED
  BY <1>1, <1>2, <1>3, WatermarkCorrect, PTL DEF Spec

(* While the jobs of cron work alone and take turns, the program keeps the     *)
(* promise of Archive whatever fails: any command of git, any write of the     *)
(* row, the first or the second of a pair, any removal half-way, the process   *)
(* at any point, with GitHub there or not.                                     *)
THEOREM PromiseKeptByJobs ==
    ASSUME Overlap = {}, Env \subseteq {"vanish", "fail"},
           Actors \subseteq {"boot", "backup", "backup_sweep", "verify"}
    PROVE  Spec => PromiseKept
<1>1. JobsAlone
  BY DEF JobsAlone
<1>2. Init => Promise!Init
  BY DEF Init, Promise!Init, Held, Whole, NoCopy
<1>3. [Simulated]_vars => [Promise!Next]_(Promise!vars)
  BY DEF Simulated, Promise!vars, vars, Held, Whole
<1> QED
  BY <1>1, <1>2, <1>3, ServedAlong, PTL DEF Spec, PromiseKept, Promise!Spec

(* Under the same assumptions the copy at the path the row names holds every   *)
(* push that is recorded as copied.                                            *)
THEOREM RecordHeldByJobs ==
    ASSUME Overlap = {}, Env \subseteq {"vanish", "fail"},
           Actors \subseteq {"boot", "backup", "backup_sweep", "verify"}
    PROVE  Spec => [](RecordedHeld /\ WatermarkSound)
<1>1. JobsAlone
  BY DEF JobsAlone
<1>2. RInv /\ JInv => RecordedHeld /\ WatermarkSound
  <2> SUFFICES ASSUME RInv, JInv PROVE RecordedHeld /\ WatermarkSound
    OBVIOUS
  <2>1. row.source \in Nat /\ clone.ver \in Nat /\ bundle.ver \in Nat
    BY Numbers DEF RInv, TypeOK, Rows
  <2> QED
    BY <2>1 DEF JInv, Stored, Holds, PathOf, RecordedHeld, WatermarkSound
<1> QED
  BY <1>1, <1>2, ServedAlong, PTL

(* Under the same assumptions no step takes the last complete copy away, and   *)
(* none that fails half-way.                                                   *)
THEOREM CopyKeptByJobs ==
    ASSUME Overlap = {}, Env \subseteq {"vanish", "fail"},
           Actors \subseteq {"boot", "backup", "backup_sweep", "verify"}
    PROVE  Spec => OnlyCopyKept
<1>1. JobsAlone
  BY DEF JobsAlone
<1> QED
  BY <1>1, SimulatedKeepsCopy, ServedAlong, PTL DEF OnlyCopyKept

(* Under the same assumptions a backup that calls a copy current, for its      *)
(* pushed_at or for its refs, has one with every push sync knew of.            *)
THEOREM SkipSoundByJobs ==
    ASSUME Overlap = {}, Env \subseteq {"vanish", "fail"},
           Actors \subseteq {"boot", "backup", "backup_sweep", "verify"}
    PROVE  Spec => []SkipSound
<1>1. JobsAlone
  BY DEF JobsAlone
<1>2. RInv /\ WatermarkBehindSync /\ JInv => SkipSound
  <2> SUFFICES ASSUME RInv, WatermarkBehindSync, JInv, NEW a \in AllActors,
                      pc[a] = "checked"
               PROVE  PathOf(job[a].fmt).ver >= job[a].seen
    BY DEF SkipSound
  <2>1. clone.ver \in Nat /\ bundle.ver \in Nat /\ job[a].seen \in Nat
    BY WorkNumbers DEF RInv
  <2>2. job[a].fmt = row.format /\ row.source = job[a].src
    BY DEF JInv, Serving, Backups
  <2>3. Holds(job[a].seen)
    BY <2>2 DEF JInv, Serving, Stored
  <2> QED
    BY <2>1, <2>2, <2>3 DEF Holds, PathOf
<1> QED
  BY <1>1, <1>2, ServedAlong, WatermarkCorrect, PTL

==============================================================================
