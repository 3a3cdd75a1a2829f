---------------------------- MODULE SoundProofs -----------------------------
(* A skip is justified, and what the row says a copy represents is in it, when *)
(* the actors take turns, nothing is purged, and nothing fails but the process *)
(* itself, at any point.                                                       *)
EXTENDS KeepingProofs

-----------------------------------------------------------------------------
(* The invariant.                                                              *)

(* What is recorded is at the path the row names, and dated. *)
Placed == /\ row.format = "clone" => row.source <= clone.ver
          /\ ~row.last => row.source = 0

(* What a removal has left beside a bundle is removed by the next boot. *)
Leftover ==
    clone.st \in {"nohead", "torn"} /\ Whole(bundle) =>
        /\ row.format = "bundle"
        /\ ~booted /\ pc["boot"] \in {"idle", "reconcile", "rec_drop"}

(* A conversion fails only where there is nothing to convert. *)
Converting(a) ==
    /\ pc[a] = "fallback" => row.source = 0
    /\ pc[a] \in {"sc_build", "sc_promote"} => clone.st = "none"

SInv == onGitHub /\ Placed /\ Leftover /\ \A a \in AllActors : Converting(a)

Truth == Facts /\ KInv' /\ SInv /\ Env = {}

LEMMA IdleConverts == ASSUME NEW a, pc'[a] = "idle" PROVE Converting(a)'
BY DEF Converting

(* A step of an actor: the others are idle. *)
LEMMA SoundStep ==
    ASSUME Truth, NEW a \in AllActors, pc[a] # "idle",
           \A b \in AllActors \ {a} : pc'[b] = pc[b],
           UNCHANGED onGitHub, Placed', Leftover', Converting(a)'
    PROVE  SInv'
<1>1. \A b \in AllActors \ {a} : pc'[b] = "idle"
  BY DEF Truth, Facts, RInv, Turns
<1> QED
  BY <1>1, IdleConverts DEF Truth, SInv

(* While the program is up, nothing is left beside a bundle. *)
LEMMA NothingLeft ==
    ASSUME Truth, booted
    PROVE  /\ Whole(bundle) => clone.st \notin {"nohead", "torn"}
           /\ Placed /\ onGitHub
BY DEF Truth, SInv, Leftover

LEMMA UntouchedSound ==
    ASSUME Truth, booted, UNCHANGED disk, row'.format = row.format,
           row'.source = row.source, row'.last = row.last \/ row'.last
    PROVE  Placed' /\ Leftover'
BY NothingLeft DEF Placed, Leftover, Whole, disk

(* The numbers of a state. *)
LEMMA SoundNumbers ==
    ASSUME Truth
    PROVE  /\ row.source \in Nat /\ clone.ver \in Nat /\ bundle.ver \in Nat /\ head \in Nat
           /\ row.source <= head /\ clone.ver <= head
           /\ row.format \in Formats
           /\ Shapes /\ Keeping
           /\ clone.st = "none" => clone.ver = 0
           /\ bundle.st = "none" => bundle.ver = 0
<1>1. "boot" \in AllActors
  BY DEF AllActors
<1>2. /\ row.source \in Nat /\ clone.ver \in Nat /\ bundle.ver \in Nat /\ head \in Nat
      /\ row.source <= row.lastPush /\ row.lastPush <= head /\ row.lastPush \in Nat
      /\ row.format \in Formats
  BY <1>1, WorkNumbers DEF Truth, Facts, RInv
<1>3. clone.ver <= head /\ Shapes /\ Keeping
  BY DEF Truth, Facts, RInv, Versions, KInv
<1> QED
  BY <1>2, <1>3 DEF Shapes, NoCopy, Whole

-----------------------------------------------------------------------------
(* The steps of a backup.                                                      *)

LEMMA CopyingSound ==
    ASSUME Truth, NEW a \in AllActors, Copying(a), UNCHANGED booted
    PROVE  SInv'
<1> USE MadeVersions, SoundNumbers
<1>0. /\ TypeOK /\ TypeOK' /\ Facts
  BY DEF Truth, Facts, RInv
<1>1. pc[a] \in Backups
  BY DEF Copying, Compare, RecordChecked, EnsureClone, GitClone, GitFetch, ClearVerified,
         RecordCopied, StartRefresh, ScratchClone, BuildBundle, PromoteBundle,
         MarkVerified, Cleanup, Backups
<1>2. /\ booted /\ a # "boot" /\ Copied(a) /\ Formatted(a) /\ Placed /\ onGitHub
      /\ Whole(bundle) => clone.st \notin {"nohead", "torn"}
      /\ job[a].fmt = row.format /\ row.source = job[a].src /\ row.source <= job[a].seen
      /\ clone.st # "rotten"
  BY <1>0, <1>1, BackupKnows, NothingLeft
<1>3. /\ pc[a] # "idle" /\ UNCHANGED onGitHub
      /\ \A b \in AllActors \ {a} : pc'[b] = pc[b]
  BY <1>0, CopyingSteps DEF Stepping, Facts, Copying, Compare, RecordChecked, EnsureClone,
     GitClone, GitFetch, ClearVerified, RecordCopied, StartRefresh, ScratchClone,
     BuildBundle, PromoteBundle, MarkVerified, Cleanup, github
<1>4. Converting(a)'
  <2>1. CASE GitFetch(a)
    BY <1>0, <2>1, FetchSteps, GotoSteps, FinishSteps DEF Converting, AfterEnsure
  <2>2. CASE \/ Compare(a) \/ RecordChecked(a) \/ EnsureClone(a) \/ GitClone(a)
             \/ ClearVerified(a) \/ RecordCopied(a)
    BY <1>0, <2>2, GotoSteps, FinishSteps
    DEF Converting, Compare, RecordChecked, EnsureClone, GitClone, ClearVerified,
        RecordCopied, AfterCompare, AfterEnsure
  <2>3. CASE \/ StartRefresh(a) \/ ScratchClone(a) \/ BuildBundle(a)
             \/ PromoteBundle(a) \/ MarkVerified(a) \/ Cleanup(a)
    BY <1>0, <2>3, GotoSteps, FinishSteps
    DEF Converting, StartRefresh, ScratchClone, BuildBundle, PromoteBundle, MarkVerified,
        Cleanup
  <2> QED
    BY <2>1, <2>2, <2>3 DEF Copying
<1>5. Placed' /\ Leftover'
  <2>1. CASE Compare(a) \/ StartRefresh(a) \/ ScratchClone(a) \/ BuildBundle(a)
    BY <1>2, <2>1, UntouchedSound DEF Compare, StartRefresh, ScratchClone, BuildBundle
  <2>2. CASE ClearVerified(a) \/ MarkVerified(a)
    <3>1. row'.format = row.format /\ row'.source = row.source /\ row'.last = row.last
      BY <1>0, <2>2 DEF ClearVerified, MarkVerified, TypeOK, Rows
    <3> QED
      BY <1>2, <2>2, <3>1, UntouchedSound DEF ClearVerified, MarkVerified
  <2>3. CASE RecordChecked(a)
    <3>1. /\ row'.format = row.format /\ row'.last /\ row'.source = job[a].seen
          /\ clone' = clone /\ bundle' = bundle
      BY <1>0, <1>2, <2>3 DEF RecordChecked, Represents, TypeOK, Rows, Facts, disk
    <3>2. row.format = "clone" => job[a].seen <= clone.ver
      BY <1>2, <2>3 DEF RecordChecked, Copied, Placed, PathOf
    <3> QED
      BY <1>2, <3>1, <3>2 DEF Placed, Leftover, Whole
  <2>4. CASE RecordCopied(a)
    <3>1. /\ row'.format = row.format /\ row'.last /\ row'.source = job[a].seen
          /\ clone' = clone /\ bundle' = bundle
      BY <1>0, <1>2, <2>4 DEF RecordCopied, Represents, TypeOK, Rows, Facts, disk
    <3>2. row.format = "clone" => job[a].seen <= clone.ver
      BY <1>2, <2>4 DEF RecordCopied, Copied, PathOf
    <3> QED
      BY <1>2, <3>1, <3>2 DEF Placed, Leftover, Whole
  <2>5. CASE EnsureClone(a)
    <3>1. row' = row /\ bundle' = bundle
      BY <2>5 DEF EnsureClone
    <3>2. CASE clone' = clone
      BY <1>2, <3>1, <3>2 DEF Placed, Leftover, Whole
    <3>3. CASE NeedsClone(clone) /\ clone' = Dir("partial")
      BY <1>2, <3>1, <3>3 DEF Placed, Leftover, Shapes, NeedsClone
    <3> QED
      BY <2>5, <3>2, <3>3 DEF EnsureClone
  <2>6. CASE GitClone(a) \/ GitFetch(a)
    <3>1. row' = row /\ bundle' = bundle
      BY <1>0, <2>6, FetchSteps DEF GitClone
    <3>2. CASE clone' = clone
      BY <1>2, <3>1, <3>2 DEF Placed, Leftover, Whole
    <3>3. CASE clone'.ver = head /\ clone'.st = "ok"
      BY <1>2, <3>1, <3>3 DEF Placed, Leftover
    <3>4. CASE GitClone(a) /\ clone' = NoCopy
      BY <1>0, <1>2, <3>4 DEF GitClone, Copied, Facts
    <3>5. CASE GitFetch(a)
      BY <1>0, <1>2, <3>2, <3>3, <3>5, FetchSteps
    <3>6. CASE GitClone(a)
      BY <3>2, <3>3, <3>4, <3>6 DEF GitClone
    <3> QED
      BY <2>6, <3>5, <3>6
  <2>7. CASE PromoteBundle(a)
    <3>1. row' = row /\ clone' = clone
      BY <2>7 DEF PromoteBundle
    <3>2. clone.st \notin {"nohead", "torn"}
      BY <1>0, <1>2, <2>7 DEF PromoteBundle, Copied, Facts, RInv, Ready, Source, Whole
    <3> QED
      BY <1>2, <3>1, <3>2 DEF Placed, Leftover
  <2>8. CASE Cleanup(a)
    BY <1>0, <1>2, <2>8 DEF Cleanup, Formatted, Facts, Placed, Leftover
  <2> QED
    BY <2>1, <2>2, <2>3, <2>4, <2>5, <2>6, <2>7, <2>8 DEF Copying
<1> QED
  BY <1>3, <1>4, <1>5, SoundStep

LEMMA VerifyingSound ==
    ASSUME Truth, NEW a \in AllActors, Verifying(a), UNCHANGED booted
    PROVE  SInv'
<1>0. /\ TypeOK /\ TypeOK' /\ Facts /\ KInv /\ RInv
  BY DEF Truth, Facts, RInv
<1>1. pc[a] \in {"verify", "passed"} /\ UNCHANGED <<onGitHub, disk>>
  BY DEF Verifying, VerifyCopy, RecordVerified, github
<1>2. booted
  BY <1>0, <1>1, WorkIsUp DEF Reconciles
<1>3. \A b \in AllActors \ {a} : pc'[b] = pc[b]
  BY <1>0, VerifyingSteps DEF Stepping
<1>4. Converting(a)'
  BY <1>0, GotoSteps, FinishSteps, IdleConverts
  DEF Converting, Verifying, VerifyCopy, RecordVerified
<1>5. row'.format = row.format /\ row'.source = row.source /\ (row'.last = row.last \/ row'.last)
  BY <1>0 DEF Verifying, VerifyCopy, RecordVerified, TypeOK, Rows, Facts
<1> QED
  BY <1>1, <1>2, <1>3, <1>4, <1>5, UntouchedSound, SoundStep

-----------------------------------------------------------------------------
(* The steps of Reconcile.                                                     *)

LEMMA ReconcilingSound ==
    ASSUME Truth, NEW a \in AllActors, Reconciling(a), UNCHANGED booted
    PROVE  SInv'
<1> USE MadeVersions, SoundNumbers
<1>0. /\ TypeOK /\ TypeOK' /\ Facts /\ KInv /\ RInv /\ Placed /\ Leftover
  BY DEF Truth, Facts, RInv, SInv
<1>1. /\ pc[a] \in Reconciles /\ pc[a] # "idle" /\ Work(a) /\ UNCHANGED onGitHub
      /\ job[a].fmt = row.format /\ bundle' = bundle
  BY <1>0 DEF Reconciling, RemoveRedundant, DropRedundant, StatPath, ResetRow, Reconciles,
     KInv, Work, Formatted, github, disk
<1>2. /\ \A b \in AllActors \ {a} : pc'[b] = pc[b] /\ pc[b] = "idle"
      /\ a # "boot" => booted
  BY <1>0, <1>1, ReconcilingSteps DEF Turns, Stepping, RInv
<1>3. Converting(a)'
  BY <1>0, GotoSteps
  DEF Converting, Reconciling, RemoveRedundant, DropRedundant, StatPath, ResetRow
<1>4. ASSUME pc[a] \in {"rec_stat", "rec_reset"} \/ a # "boot"
      PROVE  Whole(bundle) => clone.st \notin {"nohead", "torn"}
  BY <1>0, <1>1, <1>2, <1>4 DEF Leftover, AllActors
<1>5. Placed' /\ Leftover'
  <2>1. CASE RemoveRedundant(a)
    <3>1. pc[a] = "reconcile" /\ clone' = clone /\ row' = row
      BY <2>1 DEF RemoveRedundant, disk
    <3>2. pc'[a] = "rec_drop" \/ (pc'[a] = "rec_stat" /\ ~Redundant(row.format))
      BY <1>0, <1>1, <2>1, GotoSteps DEF RemoveRedundant, Facts
    <3>3. Leftover'
      BY <1>0, <1>1, <1>2, <1>4, <3>1, <3>2 DEF Leftover, Redundant, Whole
    <3> QED
      BY <1>0, <3>1, <3>3 DEF Placed
  <2>2. CASE DropRedundant(a)
    BY <1>0, <1>1, <2>2
    DEF DropRedundant, Work, Reconciled, Facts, Placed, Leftover
  <2>3. CASE StatPath(a)
    BY <1>0, <1>1, <1>4, <2>3 DEF StatPath, Placed, Leftover, Whole, disk
  <2>4. CASE ResetRow(a)
    <3>1. row'.format = row.format /\ row'.source = row.source /\ clone' = clone
      BY <1>0, <2>4 DEF ResetRow, TypeOK, Rows, Facts, disk
    <3>2. row.source = 0
      BY <1>0, <1>1, <2>4 DEF ResetRow, Work, Reconciled, PathOf, Placed, Keeping, Formats
    <3>3. pc[a] = "rec_reset"
      BY <2>4 DEF ResetRow
    <3> QED
      BY <1>1, <1>4, <3>1, <3>2, <3>3 DEF Placed, Leftover, Whole
  <2> QED
    BY <2>1, <2>2, <2>3, <2>4 DEF Reconciling
<1> QED
  BY <1>1, <1>2, <1>3, <1>5, SoundStep

-----------------------------------------------------------------------------
(* The steps of a change of format.                                            *)

LEMMA SwBundleSound ==
    ASSUME Truth, NEW a \in AllActors, UNCHANGED booted,
           \/ SwBundleCreate(a) \/ SwBundlePromote(a) \/ SwBundleRow(a) \/ SwBundleDrop(a)
    PROVE  Placed' /\ Leftover' /\ Converting(a)'
<1> USE MadeVersions, SoundNumbers
<1>0. /\ TypeOK /\ TypeOK' /\ Facts
  BY DEF Truth, Facts, RInv
<1>1. pc[a] \in Switches
  BY DEF SwBundleCreate, SwBundlePromote, SwBundleRow, SwRow, SwBundleDrop, Switches
<1>2. /\ booted /\ clone.st # "rotten" /\ Formatted(a) /\ Ready(a) /\ Placed
      /\ Whole(bundle) => clone.st \notin {"nohead", "torn"}
  BY <1>0, <1>1, SwitchKnows, NothingLeft
<1>3. CASE SwBundleCreate(a)
  <2>1. pc[a] = "sb_create" /\ UNCHANGED <<disk, row>> /\ row.format = "clone"
    BY <1>2, <1>3 DEF SwBundleCreate, Formatted
  <2>2. Placed' /\ Leftover'
    BY <1>2, <2>1, UntouchedSound
  <2>3. ~Whole(clone) => row.source = 0
    BY <1>0, <1>2, <2>1 DEF Placed, Shapes, Whole, Facts, RInv, TypeOK, Copies, States
  <2>4. CASE pc'[a] = "sb_promote"
    BY <2>2, <2>4 DEF Converting
  <2>5. CASE pc'[a] = "fallback" /\ ~Whole(clone)
    BY <2>1, <2>2, <2>3, <2>5 DEF Converting
  <2> QED
    BY <1>0, <1>3, <2>4, <2>5, GotoSteps DEF SwBundleCreate, Facts
<1>4. CASE SwBundlePromote(a)
  <2>1. /\ pc'[a] = "sb_row" /\ clone' = clone /\ row' = row /\ Whole(clone)
    BY <1>0, <1>2, <1>4, GotoSteps DEF SwBundlePromote, Ready, Source, Facts
  <2> QED
    BY <1>2, <2>1 DEF Placed, Leftover, Converting, Whole
<1>5. CASE SwBundleRow(a)
  <2>1. /\ pc'[a] = "sb_drop" /\ UNCHANGED disk
        /\ row'.format = "bundle" /\ row'.last = row.last /\ row'.source = row.source
    <3>1. /\ row' = [row EXCEPT !.format = "bundle", !.verified = FALSE]
          /\ Goto(a, "sb_drop") /\ UNCHANGED disk
      BY <1>0, <1>5 DEF SwBundleRow, SwRow, Facts
    <3> QED
      BY <1>0, <3>1, GotoSteps DEF TypeOK, Rows
  <2> QED
    BY <1>2, <2>1 DEF Placed, Leftover, Converting, Whole, disk
<1>6. CASE SwBundleDrop(a)
  <2>1. /\ pc'[a] = "idle" /\ clone' = NoCopy
        /\ row'.format = row.format /\ row'.last
    BY <1>0, <1>6, FinishSteps DEF SwBundleDrop, Facts, TypeOK, Rows
  <2>2. row.format = "bundle"
    BY <1>2, <1>6 DEF SwBundleDrop, Formatted
  <2> QED
    BY <2>1, <2>2, IdleConverts DEF Placed, Leftover
<1> QED
  BY <1>3, <1>4, <1>5, <1>6

LEMMA SwCloneSound ==
    ASSUME Truth, NEW a \in AllActors, UNCHANGED booted,
           \/ SwCloneDrop(a) \/ SwCloneBuild(a) \/ SwClonePromote(a) \/ SwCloneRow(a)
           \/ SwCloneDropBundle(a)
    PROVE  Placed' /\ Leftover' /\ Converting(a)'
<1> USE MadeVersions, SoundNumbers
<1>0. /\ TypeOK /\ TypeOK' /\ Facts
  BY DEF Truth, Facts, RInv
<1>1. pc[a] \in Switches
  BY DEF SwCloneDrop, SwCloneBuild, SwClonePromote, SwCloneRow, SwRow, SwCloneDropBundle,
         Switches
<1>2. /\ booted /\ Formatted(a) /\ Ready(a) /\ Placed /\ onGitHub
      /\ Whole(bundle) => clone.st \notin {"nohead", "torn"}
      /\ Converting(a)
  BY <1>0, <1>1, SwitchKnows, NothingLeft DEF Truth, SInv
<1>3. ASSUME row.format = "bundle", ~Whole(bundle) PROVE row.source = 0
  BY <1>3 DEF Keeping, Shapes, Whole
<1>4. CASE SwCloneDrop(a)
  <2>1. pc[a] = "sc_drop" /\ row' = row /\ bundle' = bundle /\ row.format = "bundle"
    BY <1>2, <1>4 DEF SwCloneDrop, Formatted
  <2>2. CASE pc'[a] = "sc_build" /\ clone' = NoCopy
    BY <1>2, <2>1, <2>2 DEF Placed, Leftover, Converting
  <2>3. CASE pc'[a] = "fallback" /\ clone.st \in {"nohead", "torn"} /\ clone' = clone
    <3>1. ~Whole(bundle) /\ row.source = 0
      BY <1>2, <1>3, <2>1, <2>3
    <3> QED
      BY <1>2, <2>1, <2>3, <3>1 DEF Placed, Leftover, Converting, Whole
  <2> QED
    BY <1>0, <1>4, <2>2, <2>3, GotoSteps DEF SwCloneDrop, Facts
<1>5. CASE SwCloneBuild(a)
  <2>1. /\ pc[a] = "sc_build" /\ row' = row /\ UNCHANGED disk /\ row.format = "bundle"
        /\ clone' = clone
    BY <1>2, <1>5 DEF SwCloneBuild, Formatted, disk
  <2>2. Placed' /\ Leftover'
    BY <1>2, <2>1, UntouchedSound
  <2>3. CASE pc'[a] = "sc_promote"
    BY <1>2, <2>1, <2>2, <2>3 DEF Converting
  <2>4. CASE pc'[a] = "fallback" /\ bundle.st # "ok"
    BY <1>3, <2>1, <2>2, <2>4 DEF Converting, Whole
  <2> QED
    BY <1>0, <1>2, <1>5, <2>3, <2>4, GotoSteps DEF SwCloneBuild, Facts
<1>6. CASE SwClonePromote(a)
  <2>1. /\ pc[a] = "sc_promote" /\ pc'[a] = "sc_row" /\ row' = row /\ bundle' = bundle
        /\ clone' = Scratch(a)
    BY <1>0, <1>2, <1>6, GotoSteps DEF SwClonePromote, Converting, Facts
  <2>2. row.format = "bundle"
    BY <1>2, <2>1 DEF Formatted
  <2> QED
    BY <1>2, <2>1, <2>2 DEF Placed, Leftover, Converting
<1>7. CASE SwCloneRow(a)
  <2>1. /\ pc'[a] = "sc_bundle" /\ UNCHANGED disk /\ pc[a] = "sc_row"
        /\ row'.format = "clone" /\ row'.last = row.last /\ row'.source = row.source
    <3>1. /\ row' = [row EXCEPT !.format = "clone", !.verified = FALSE]
          /\ Goto(a, "sc_bundle") /\ UNCHANGED disk /\ pc[a] = "sc_row"
      BY <1>0, <1>7 DEF SwCloneRow, SwRow, Facts
    <3> QED
      BY <1>0, <3>1, GotoSteps DEF TypeOK, Rows
  <2>2. row.source <= clone.ver
    BY <1>2, <2>1 DEF Formatted, Ready, Keeping
  <2> QED
    BY <1>2, <2>1, <2>2 DEF Placed, Leftover, Converting, Whole, disk
<1>8. CASE SwCloneDropBundle(a)
  <2>1. /\ pc'[a] = "idle" /\ clone' = clone /\ bundle' = NoCopy
        /\ row'.format = row.format /\ row'.last /\ row'.source = row.source
    BY <1>0, <1>8, FinishSteps DEF SwCloneDropBundle, Facts, TypeOK, Rows
  <2> QED
    BY <1>2, <2>1, IdleConverts DEF Placed, Leftover, Whole
<1> QED
  BY <1>4, <1>5, <1>6, <1>7, <1>8

LEMMA EngineSound == ASSUME Truth, NEW a \in AllActors, Engine(a) PROVE SInv'
<1>1. CASE Copying(a) \/ Reconciling(a) \/ Verifying(a)
  BY <1>1, CopyingSound, ReconcilingSound, VerifyingSound DEF Engine
<1>2. CASE Switching(a)
  <2>1. Placed' /\ Leftover' /\ Converting(a)'
    BY <1>2, SwBundleSound, SwCloneSound DEF Switching, Engine
  <2>2. pc[a] # "idle" /\ \A b \in AllActors \ {a} : pc'[b] = pc[b]
    BY <1>2, SwitchingSteps DEF Truth, Facts, Stepping
  <2>3. UNCHANGED onGitHub
    BY <1>2 DEF Switching, SwBundleCreate, SwBundlePromote, SwBundleRow, SwRow, SwBundleDrop,
       SwCloneDrop, SwCloneBuild, SwClonePromote, SwCloneRow, SwCloneDropBundle, github
  <2> QED
    BY <2>1, <2>2, <2>3, SoundStep
<1> QED
  BY <1>1, <1>2 DEF Engine

-----------------------------------------------------------------------------
(* The others.                                                                 *)

(* One starts, or goes on, and writes no copy. *)
LEMMA StartSound ==
    ASSUME Truth, booted, NEW a \in AllActors,
           \A b \in AllActors \ {a} : pc[b] = "idle" /\ pc'[b] = pc[b],
           pc'[a] \notin {"fallback", "sc_build", "sc_promote"},
           UNCHANGED <<onGitHub, disk>>, Placed'
    PROVE  SInv'
<1>1. Leftover'
  BY NothingLeft DEF Leftover, Whole, disk
<1>2. \A b \in AllActors : Converting(b)'
  BY DEF Converting
<1> QED
  BY <1>1, <1>2, NothingLeft DEF SInv

LEMMA StartingSound == ASSUME Calmness, Truth, Starting PROVE SInv'
<1> USE DEF Facts, RInv
<1>0. /\ Actors \subseteq AllActors /\ Overlap = {} /\ TypeOK /\ TypeOK' /\ ~Fails
      /\ \A a \in {"boot", "web", "verify", "purge"} : a \in AllActors
      /\ Placed /\ Leftover /\ onGitHub /\ Turns
  BY ActorsAssumption DEF Calmness, AllActors, Truth, SInv
<1>1. ASSUME row' = row, UNCHANGED disk PROVE Placed'
  BY <1>0, <1>1 DEF Placed, disk
<1>2. CASE Boot
  <2>1. /\ pc'["boot"] = "reconcile" /\ row' = row /\ UNCHANGED <<onGitHub, disk, booted>>
        /\ \A b \in AllActors \ {"boot"} : pc'[b] = pc[b] /\ pc[b] = "idle"
        /\ pc["boot"] = "idle"
    BY <1>0, <1>2, BeginWorks DEF Boot, BeginReconcile, github, Turns
  <2>2. \A b \in AllActors : Converting(b)'
    BY <2>1 DEF Converting
  <2>3. Leftover'
    BY <1>0, <2>1 DEF Leftover, Whole, disk
  <2> QED
    BY <1>0, <1>1, <2>1, <2>2, <2>3 DEF SInv
<1>3. CASE Booted
  <2>1. /\ pc["boot"] = "list" /\ row' = row /\ UNCHANGED <<onGitHub, disk>>
        /\ \A b \in AllActors : pc'[b] = "idle"
    BY <1>0, <1>3, FinishSteps DEF Booted, github, Turns
  <2>2. Leftover'
    BY <1>0, <2>1 DEF Leftover, Whole, disk
  <2> QED
    BY <1>0, <1>1, <2>1, <2>2, IdleConverts DEF SInv
<1>4. CASE TriggerBackup
  <2>1. /\ Quiet /\ booted /\ row' = row /\ UNCHANGED <<onGitHub, disk>>
        /\ pc'["web"] = "reconcile"
        /\ \A b \in AllActors \ {"web"} : pc'[b] = pc[b]
    BY <1>0, <1>4, CanStartQuiet, BeginWorks DEF TriggerBackup, BeginReconcile, github
  <2> QED
    BY <1>0, <1>1, <2>1, StartSound DEF Quiet
<1>5. CASE StartChecked
  <2>1. /\ Quiet /\ booted /\ row' = row /\ UNCHANGED <<onGitHub, disk>>
        /\ pc'["web"] = "compare"
        /\ \A b \in AllActors \ {"web"} : pc'[b] = pc[b]
    BY <1>0, <1>5, CanStartQuiet, GotoSteps DEF StartChecked, github
  <2> QED
    BY <1>0, <1>1, <2>1, StartSound DEF Quiet
<1>6. CASE StartSwitch
  <2>1. /\ Quiet /\ booted /\ row' = row /\ UNCHANGED <<onGitHub, disk>>
        /\ pc'["web"] \in {"sb_create", "sc_drop"}
        /\ \A b \in AllActors \ {"web"} : pc'[b] = pc[b]
    BY <1>0, <1>6, CanStartQuiet, GotoSteps DEF StartSwitch, github
  <2> QED
    BY <1>0, <1>1, <2>1, StartSound DEF Quiet
<1>7. CASE SetFormat
  <2>1. /\ Quiet /\ booted /\ ~row.last /\ UNCHANGED <<onGitHub, disk>> /\ pc' = pc
        /\ clone' = clone
    BY <1>0, <1>7, CanStartQuiet DEF SetFormat, github, disk
  <2>2. row'.source = row.source
    BY <1>0, <1>7 DEF SetFormat, TypeOK, Rows
  <2>3. row.source = 0 /\ clone.ver \in Nat
    BY <1>0, <2>1, SoundNumbers DEF Placed
  <2>4. Placed'
    BY <2>1, <2>2, <2>3 DEF Placed
  <2> QED
    BY <1>0, <2>1, <2>4, StartSound DEF Quiet
<1>8. CASE StartVerify
  <2>1. /\ Quiet /\ booted /\ row' = row /\ UNCHANGED <<onGitHub, disk>>
        /\ pc'["verify"] = "verify"
        /\ \A b \in AllActors \ {"verify"} : pc'[b] = pc[b]
    BY <1>0, <1>8, CanStartQuiet, GotoSteps DEF StartVerify, github
  <2> QED
    BY <1>0, <1>1, <2>1, StartSound DEF Quiet
<1>9. CASE StartPurge
  BY <1>9, Zenon DEF StartPurge, CanStart, Calmness
<1>10. ASSUME NEW a \in Actors, StartBackup(a) PROVE SInv'
  <2>1. /\ Quiet /\ booted /\ row' = row /\ UNCHANGED <<onGitHub, disk>>
        /\ pc'[a] = "reconcile" /\ a \in AllActors
        /\ \A b \in AllActors \ {a} : pc'[b] = pc[b]
    BY <1>0, <1>10, CanStartQuiet, BeginWorks DEF StartBackup, BeginReconcile, github
  <2> QED
    BY <1>0, <1>1, <2>1, StartSound DEF Quiet
<1> QED
  BY <1>2, <1>3, <1>4, <1>5, <1>6, <1>7, <1>8, <1>9, <1>10 DEF Starting

LEMMA HandlingSound == ASSUME Truth, Handling PROVE SInv'
<1>0. /\ Actors \subseteq AllActors /\ TypeOK /\ TypeOK' /\ ~Fails /\ Facts /\ KInv /\ RInv
      /\ \A a \in {"web", "purge"} : a \in AllActors
      /\ Placed /\ Leftover /\ onGitHub /\ Turns
  BY ActorsAssumption DEF AllActors, Truth, SInv, Facts, RInv
<1>1. CASE Fallback
  <2>1. /\ pc["web"] = "fallback" /\ pc'["web"] = "idle" /\ UNCHANGED <<onGitHub, disk>>
        /\ clone' = clone
        /\ \A b \in AllActors \ {"web"} : pc'[b] = pc[b] /\ pc[b] = "idle"
    BY <1>0, <1>1, FinishSteps DEF Fallback, github, disk, Turns
  <2>2. booted /\ row.source = 0 /\ clone.ver \in Nat
    BY <1>0, <2>1, SwitchKnows, SoundNumbers DEF Switches, Truth, SInv, Converting
  <2>3. row'.source = row.source
    BY <1>0, <1>1 DEF Fallback, TypeOK, Rows
  <2>4. Placed'
    BY <2>1, <2>2, <2>3 DEF Placed
  <2> QED
    BY <1>0, <2>1, <2>2, <2>4, StartSound
<1>2. ~PurgeFiles /\ ~PurgeRow
  BY <1>0 DEF PurgeFiles, PurgeRow, KInv, Work, Formatted
<1>3. ASSUME NEW a \in Actors, ListRow(a) PROVE SInv'
  <2>1. /\ pc[a] = "list" /\ a # "boot" /\ a \in AllActors /\ row' = row
        /\ UNCHANGED <<onGitHub, disk>> /\ clone' = clone
        /\ pc'[a] \in {"compare", "idle"}
        /\ \A b \in AllActors \ {a} : pc'[b] = pc[b]
    BY <1>0, <1>3, GotoSteps, FinishSteps DEF ListRow, github, disk
  <2>2. booted /\ \A b \in AllActors \ {a} : pc[b] = "idle"
    BY <1>0, <2>1 DEF Turns
  <2>3. Placed'
    BY <1>0, <2>1 DEF Placed
  <2> QED
    BY <2>1, <2>2, <2>3, StartSound
<1> QED
  BY <1>1, <1>2, <1>3 DEF Handling

(* What happens elsewhere changes nothing the invariant speaks of. *)
LEMMA ElsewhereSound ==
    ASSUME SInv, UNCHANGED <<onGitHub, disk, pc, booted>>,
           row'.format = row.format, row'.last = row.last, row'.source = row.source
    PROVE  SInv'
<1>1. clone' = clone /\ bundle' = bundle /\ pc' = pc /\ booted' = booted
  BY DEF disk
<1>2. Placed' /\ Leftover'
  BY <1>1 DEF SInv, Placed, Leftover, Whole
<1>3. \A a \in AllActors : Converting(a)'
  BY <1>1 DEF SInv, Converting
<1> QED
  BY <1>2, <1>3 DEF SInv

(* What of the row may be written when the process dies. *)
LEMMA HalfDonePlaced ==
    ASSUME Truth, NEW a \in AllActors, NEW r \in HalfDone(a)
    PROVE  /\ r.format = "clone" => r.source <= clone.ver
           /\ ~r.last => r.source = 0
<1> USE SoundNumbers
<1>0. /\ TypeOK /\ Placed /\ Work(a) /\ Ready(a)
  BY DEF Truth, Facts, RInv, SInv, KInv
<1>1. CASE r = row
  BY <1>0, <1>1 DEF Placed
<1>2. CASE /\ pc[a] \in {"checked", "copied", "passed"}
           /\ r = [row EXCEPT !.last = TRUE] \/ r = [row EXCEPT !.verified = TRUE]
  <2>1. r.source = row.source /\ r.format = row.format /\ (r.last \/ r.last = row.last)
    BY <1>0, <1>2 DEF TypeOK, Rows
  <2> QED
    BY <1>0, <2>1 DEF Placed
<1>3. CASE pc[a] = "rec_reset" /\ r = [row EXCEPT !.last = FALSE]
  <2>1. r.source = row.source /\ r.format = row.format
    BY <1>0, <1>3 DEF TypeOK, Rows
  <2>2. row.source = 0
    BY <1>0, <1>3 DEF Work, Reconciled, PathOf, Placed, Keeping, Formats
  <2> QED
    BY <2>1, <2>2
<1>4. CASE pc[a] = "sb_row" /\ r = [row EXCEPT !.format = "bundle"]
  <2>1. r.source = row.source /\ r.format = "bundle" /\ r.last = row.last
    BY <1>0, <1>4 DEF TypeOK, Rows
  <2> QED
    BY <1>0, <2>1 DEF Placed
<1>5. CASE pc[a] = "sc_row" /\ r = [row EXCEPT !.format = "clone"]
  <2>1. r.source = row.source /\ r.last = row.last
    BY <1>0, <1>5 DEF TypeOK, Rows
  <2>2. row.source <= clone.ver
    BY <1>0, <1>5 DEF Work, Formatted, Ready, Keeping
  <2> QED
    BY <1>0, <2>1, <2>2 DEF Placed
<1>6. pc[a] # "purge_row"
  BY <1>0 DEF Work, Formatted
<1> QED
  BY <1>1, <1>2, <1>3, <1>4, <1>5, <1>6 DEF HalfDone

LEMMA CrashSound == ASSUME Truth, Crash PROVE SInv'
<1>0. /\ Facts /\ Placed /\ Leftover /\ onGitHub /\ Turns /\ KInv /\ RInv
  BY DEF Truth, Facts, RInv, SInv
<1>1. /\ \A a \in AllActors : pc'[a] = "idle"
      /\ ~booted' /\ bundle' = bundle /\ UNCHANGED onGitHub
      /\ \E a \in AllActors : row' \in HalfDone(a)
      /\ "boot" \in AllActors
  BY DEF Crash, github, AllActors
<1>2. \A a \in AllActors : Converting(a)'
  BY <1>1, IdleConverts
<1>3. Placed' /\ Leftover'
  <2>1. CASE clone' = clone
    <3>1. Placed'
      BY <1>1, <2>1, HalfDonePlaced DEF Placed
    <3>2. ASSUME clone.st \in {"nohead", "torn"}, Whole(bundle)
          PROVE  row' = row
      <4>1. ~booted /\ pc["boot"] \in {"idle", "reconcile", "rec_drop"}
        BY <1>0, <3>2 DEF Leftover
      <4>2. \A a \in AllActors : pc[a] \in {"idle", "reconcile", "rec_drop"}
        BY <1>0, <4>1 DEF Turns
      <4>3. \A a \in AllActors : HalfDone(a) = {row}
        BY <4>2 DEF HalfDone
      <4> QED
        BY <1>1, <4>3
    <3>3. Leftover'
      BY <1>0, <1>1, <2>1, <3>2 DEF Leftover, Whole
    <3> QED
      BY <3>1, <3>3
  <2>2. CASE clone' # clone
    <3>1. \E a \in AllActors : pc[a] \in RemovesClone
      BY <2>2 DEF Crash
    <3>2. row' = row /\ row.format = "bundle"
      BY <1>0, <1>1, <3>1, RemovingKeeps
    <3> QED
      BY <1>0, <1>1, <3>2 DEF Placed, Leftover
  <2> QED
    BY <2>1, <2>2
<1> QED
  BY <1>0, <1>1, <1>2, <1>3 DEF SInv

LEMMA SurroundingsSound == ASSUME Truth, Surroundings PROVE SInv'
<1>0. TypeOK /\ SInv
  BY DEF Truth, Facts, RInv
<1>1. CASE SyncRow \/ ToggleBackup
  <2>1. row'.format = row.format /\ row'.last = row.last /\ row'.source = row.source
    BY <1>0, <1>1 DEF SyncRow, ToggleBackup, TypeOK, Rows
  <2> QED
    BY <1>0, <1>1, <2>1, ElsewhereSound DEF SyncRow, ToggleBackup, github
<1>2. CASE Push
  BY <1>0, <1>2, ElsewhereSound DEF Push
<1>3. ~Vanish /\ ~LoseFiles /\ ~Rot
  BY DEF Truth, Vanish, LoseFiles, Rot
<1>4. CASE Crash
  BY <1>4, CrashSound
<1>5. CASE PushTag
  BY <1>0, <1>5, ElsewhereSound DEF PushTag
<1> QED
  BY <1>1, <1>2, <1>3, <1>4, <1>5 DEF Surroundings

-----------------------------------------------------------------------------
(* The theorems.                                                               *)

LEMMA InitSInv == Init => SInv
<1> SUFFICES ASSUME Init PROVE SInv
  OBVIOUS
<1>1. /\ \A a \in AllActors : pc[a] = "idle"
      /\ clone = NoCopy /\ bundle = NoCopy /\ onGitHub
  BY DEF Init
<1>2. row.source = 0
  BY DEF Init
<1>3. Placed /\ Leftover
  BY <1>1, <1>2, MadeVersions DEF Placed, Leftover
<1>4. \A a \in AllActors : Converting(a)
  BY <1>1 DEF Converting
<1> QED
  BY <1>1, <1>3, <1>4 DEF SInv

LEMMA StepSound ==
    ASSUME Overlap = {}, Env = {}, "purge" \notin Actors,
           RInv, RInv', KInv, KInv', WatermarkBehindSync, SInv, [Next]_vars
    PROVE  SInv'
<1>1. Calmness /\ Truth
  BY DEF Calmness, Truth, Facts, Fails
<1>2. CASE UNCHANGED vars
  <2>1. UNCHANGED <<onGitHub, disk, pc, booted>> /\ row' = row
    BY <1>2 DEF vars, disk
  <2> QED
    BY <2>1, ElsewhereSound
<1>3. CASE \E a \in Actors : Engine(a)
  BY <1>1, <1>3, EngineSound, ActorsAssumption
<1> QED
  BY <1>1, <1>2, <1>3, StartingSound, HandlingSound, SurroundingsSound DEF Next

LEMMA SoundAlong ==
    ASSUME Overlap = {}, Env = {}, "purge" \notin Actors
    PROVE  Spec => [](RInv /\ KInv /\ WatermarkBehindSync /\ SInv)
<1>1. Calmness
  BY DEF Calmness
<1>2. RInv /\ RInv' /\ KInv /\ KInv' /\ WatermarkBehindSync /\ SInv /\ [Next]_vars
        => SInv'
  BY StepSound
<1> QED
  BY <1>1, <1>2, InitSInv, KeptAlong, WatermarkCorrect, PTL DEF Spec

(* When the actors take turns, nothing is purged, and nothing fails but the    *)
(* process, at any point, whatever is found at the path the row names holds    *)
(* every push that the row says was copied.                                    *)
THEOREM WatermarkAlwaysSound ==
    ASSUME Overlap = {}, Env = {}, "purge" \notin Actors
    PROVE  Spec => []WatermarkSound
<1>1. ASSUME RInv, KInv, WatermarkBehindSync, SInv PROVE WatermarkSound
  <2>1. row.source \in Nat /\ clone.ver \in Nat /\ bundle.ver \in Nat /\ row.format \in Formats
    BY <1>1, Numbers DEF RInv, TypeOK, Rows
  <2> QED
    BY <1>1, <2>1 DEF WatermarkSound, PathOf, SInv, Placed, KInv, Keeping, Formats
<1> QED
  BY <1>1, SoundAlong, PTL

(* Under the same assumptions a backup that calls a copy current, for its      *)
(* pushed_at or for its refs, has one with every push sync knew of.            *)
THEOREM SkipAlwaysSound ==
    ASSUME Overlap = {}, Env = {}, "purge" \notin Actors
    PROVE  Spec => []SkipSound
<1>1. ASSUME RInv, KInv, WatermarkBehindSync, SInv PROVE SkipSound
  <2> SUFFICES ASSUME NEW a \in AllActors, pc[a] = "checked"
               PROVE  PathOf(job[a].fmt).ver >= job[a].seen
    BY DEF SkipSound
  <2>1. /\ row.source \in Nat /\ clone.ver \in Nat /\ bundle.ver \in Nat
        /\ row.format \in Formats /\ job[a].seen \in Nat
    BY <1>1, WorkNumbers DEF RInv
  <2>2. Formatted(a) /\ Copied(a) /\ Placed /\ Keeping
    BY <1>1 DEF KInv, Work, SInv
  <2>3. job[a].fmt = row.format
    BY <2>2 DEF Formatted, Backups
  <2>4. CASE job[a].src = job[a].seen
    BY <2>1, <2>2, <2>3, <2>4 DEF Copied, Backups, PathOf, Placed, Keeping, Formats
  <2>5. CASE job[a].src # job[a].seen
    BY <2>1, <2>2, <2>3, <2>5 DEF Copied, PathOf
  <2> QED
    BY <2>4, <2>5
<1> QED
  BY <1>1, SoundAlong, PTL

==============================================================================
