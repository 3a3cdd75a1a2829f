----------------------------- MODULE NightProofs -----------------------------
(* Theorems about what is left on disk when the cron jobs meet: the nightly    *)
(* backup, the weekly sweep and the verification work on the same files and    *)
(* the same row, while handlers and the start happen to work alone.            *)
EXTENDS VaultProofs

CronJobs == {"backup", "backup_sweep", "verify"}

-----------------------------------------------------------------------------
(* The invariant, whatever fails.                                              *)

(* Who is at work beside another is a cron job, and Reconcile is the first. *)
Meets == /\ \A a, b \in AllActors :
              pc[a] # "idle" /\ pc[b] # "idle" => (a = b \/ {a, b} \subseteq CronJobs)
         /\ IF booted THEN pc["boot"] = "idle"
            ELSE \A a \in AllActors \ {"boot"} : pc[a] = "idle"

(* The points of a conversion, and those where an actor knows no format. *)
Conversion == {"sb_create", "sb_promote", "sb_row", "sb_drop", "sc_drop", "sc_build",
               "sc_promote", "sc_row", "sc_bundle", "fallback"}
Unread     == {"idle", "list", "purge_files", "purge_row"}

(* What an actor's next steps rely on, and no other cron job takes away: the   *)
(* format it read is still that of the row, for handlers alone change it, and  *)
(* a bundle stays where it is.                                                 *)
Prepared(a) ==
    /\ pc[a] \in Conversion => a = "web"
    /\ pc[a] \in {"purge_files", "purge_row"} => a = "purge"
    /\ pc[a] \notin Conversion \cup Unread => job[a].fmt = row.format
    /\ pc[a] = "rec_drop"   => row.format = "bundle" /\ bundle.st # "none"
    /\ pc[a] \in {"promote", "sb_promote", "sc_promote"} => job[a].tmp > 0
    /\ pc[a] = "sc_promote" => bundle.ver <= job[a].tmp
    /\ pc[a] \in {"sc_row", "sc_bundle"} => Whole(clone) /\ bundle.ver <= clone.ver
    /\ pc[a] = "sc_bundle"  => row.format = "clone"

MInv == TypeOK /\ Versions /\ Meets /\ \A a \in AllActors : Prepared(a)

LEMMA IdlePrepared ==
    /\ \A a : pc[a] = "idle" => Prepared(a)
    /\ \A a : pc'[a] = "idle" => Prepared(a)'
BY DEF Prepared, Conversion, Unread

LEMMA InitMInv == Init /\ TypeOK => MInv
<1> SUFFICES ASSUME Init, TypeOK PROVE MInv
  OBVIOUS
<1>1. Versions
  BY DEF Init, Versions, NoCopy, NoJob
<1>2. Meets
  BY DEF Init, Meets, AllActors
<1>3. \A a \in AllActors : Prepared(a)
  BY IdlePrepared DEF Init
<1> QED
  BY <1>1, <1>2, <1>3 DEF MInv

(* A step of one actor, which leaves the others what they rely on. *)
Aside(a) == \A b \in AllActors \ {a} : pc'[b] = pc[b] /\ job'[b] = job[b]

Polite(a) == /\ Aside(a) /\ Prepared(a)' /\ Versions'
             /\ a \in CronJobs => /\ row'.format = row.format
                                  /\ bundle.st # "none" => bundle'.st # "none"

LEMMA OthersPrepared ==
    ASSUME MInv, NEW a \in AllActors, Polite(a), NEW b \in AllActors \ {a},
           pc[b] # "idle" => {a, b} \subseteq CronJobs
    PROVE  Prepared(b)'
<1>1. CASE pc[b] = "idle"
  BY <1>1, IdlePrepared DEF Polite, Aside
<1>2. CASE pc[b] # "idle"
  <2>1. /\ pc'[b] = pc[b] /\ job'[b] = job[b] /\ b # "web"
        /\ row'.format = row.format /\ (bundle.st # "none" => bundle'.st # "none")
    BY <1>2 DEF Polite, Aside, CronJobs
  <2>2. pc[b] \notin Conversion
    BY <2>1 DEF MInv, Prepared
  <2> QED
    BY <2>1, <2>2 DEF MInv, Prepared, Conversion
<1> QED
  BY <1>1, <1>2

LEMMA PoliteKeeps ==
    ASSUME MInv, TypeOK', NEW a \in AllActors, Polite(a), pc[a] # "idle",
           UNCHANGED booted
    PROVE  MInv'
<1>1. \A b \in AllActors \ {a} : pc[b] # "idle" => {a, b} \subseteq CronJobs
  BY DEF MInv, Meets
<1>2. \A b \in AllActors : Prepared(b)'
  BY <1>1, OthersPrepared DEF Polite
<1>3. Meets'
  BY DEF MInv, Meets, Polite, Aside, AllActors
<1> QED
  BY <1>2, <1>3 DEF MInv, Polite

(* An actor starts beside others that are all cron jobs, as it is. *)
LEMMA StartMeets ==
    ASSUME MInv, TypeOK', NEW a \in AllActors, Polite(a), a # "boot", booted,
           \A b \in AllActors : pc[b] # "idle" => {a, b} \subseteq CronJobs,
           UNCHANGED booted
    PROVE  MInv'
<1>1. \A b \in AllActors : Prepared(b)'
  BY OthersPrepared DEF Polite
<1>2. Meets'
  BY DEF MInv, Meets, Polite, Aside, AllActors
<1> QED
  BY <1>1, <1>2 DEF MInv, Polite

-----------------------------------------------------------------------------
(* The steps of the engine.                                                    *)

(* Half of a pair of writes leaves the format, but for a conversion's. *)
LEMMA HalfFormat ==
    ASSUME TypeOK, NEW a, pc[a] \notin {"sb_row", "sc_row"}, NEW r \in HalfDone(a)
    PROVE  r.format = row.format
BY DEF HalfDone, TypeOK, Rows

LEMMA GotoAside ==
    ASSUME TypeOK, NEW a \in AllActors, NEW l, Goto(a, l), UNCHANGED job
    PROVE  pc'[a] = l /\ Aside(a)
BY DEF Goto, Aside, TypeOK

LEMMA FinishAside ==
    ASSUME TypeOK, NEW a \in AllActors, Finish(a)
    PROVE  Aside(a) /\ pc'[a] = "idle" /\ Prepared(a)' /\ job'[a] = NoJob
BY IdlePrepared DEF Finish, Aside, TypeOK

(* The points where nothing is relied on but the format. *)
Simple == {"idle", "reconcile", "rec_stat", "rec_reset", "list", "compare", "checked",
           "ensure", "cloning", "fetch", "clear", "refresh", "scratch", "build", "mark",
           "cleanup", "copied", "verify", "passed"}

(* What an actor holds of a copy that was, or is, on GitHub. *)
LEMMA MadeOfHead ==
    ASSUME MInv, NEW a \in AllActors, Aside(a), UNCHANGED github,
           clone'.ver \in {0, clone.ver, head, job[a].tmp},
           job'[a].tmp \in {0, job[a].tmp, clone.ver, head},
           \/ UNCHANGED bundle
           \/ bundle' = NoCopy
           \/ bundle' = Scratch(a) /\ job[a].tmp > 0
    PROVE  Versions'
<1>1. \A b \in AllActors : job'[b].tmp <= head
  BY Numbers DEF MInv, Versions, Aside
<1> QED
  BY <1>1, Numbers, MadeVersions DEF MInv, Versions, github

(* Going on to a point where nothing else is relied on. *)
LEMMA SimpleSteps ==
    ASSUME MInv, NEW a \in AllActors, Aside(a), UNCHANGED github,
           pc[a] \notin Conversion \cup Unread, pc'[a] \in Simple,
           pc'[a] # "idle" => job'[a].fmt = job[a].fmt,
           row'.format = row.format, bundle.st # "none" => bundle'.st # "none",
           clone'.ver \in {0, clone.ver, head, job[a].tmp},
           job'[a].tmp \in {0, job[a].tmp, clone.ver, head},
           UNCHANGED bundle \/ (bundle' = Scratch(a) /\ job[a].tmp > 0)
    PROVE  Polite(a)
<1>1. Versions'
  BY MadeOfHead
<1>2. Prepared(a)'
  BY IdlePrepared DEF MInv, Prepared, Simple, Conversion, Unread
<1> QED
  BY <1>1, <1>2 DEF Polite

(* Where an actor is, if it takes a step of the engine. *)
LEMMA AtWork ==
    ASSUME NEW a, Copying(a) \/ Reconciling(a) \/ Verifying(a)
    PROVE  pc[a] \notin Conversion \cup Unread /\ UNCHANGED github
BY DEF Copying, Reconciling, Verifying, Compare, RecordChecked, EnsureClone, GitClone,
       GitFetch, ClearVerified, RecordCopied, StartRefresh, ScratchClone, BuildBundle,
       PromoteBundle, MarkVerified, Cleanup, RemoveRedundant, DropRedundant, StatPath,
       ResetRow, VerifyCopy, RecordVerified, Conversion, Unread

LEMMA CopyingPolite ==
    ASSUME MInv, NEW a \in AllActors, Copying(a)
    PROVE  Polite(a)
<1>0. pc[a] \notin Conversion \cup Unread /\ UNCHANGED github /\ TypeOK
  BY AtWork DEF MInv
<1>h. \A r \in HalfDone(a) : r.format = row.format
  BY <1>0, HalfFormat DEF Conversion
<1>n. NoJob.tmp = 0
  BY DEF NoJob
<1> USE <1>0, <1>n DEF disk
<1>1. CASE Compare(a)
  BY <1>1, GotoAside, SimpleSteps DEF Compare, Simple, AfterCompare
<1>2. CASE RecordChecked(a)
  <2>1. row'.format = row.format
    BY <1>2, <1>h DEF RecordChecked, TypeOK, Rows
  <2> QED
    BY <1>2, <2>1, FinishAside, SimpleSteps DEF RecordChecked, Simple
<1>3. CASE EnsureClone(a)
  BY <1>3, GotoAside, FinishAside, SimpleSteps, MadeVersions DEF EnsureClone, Simple
<1>4. CASE GitClone(a)
  BY <1>4, GotoAside, FinishAside, SimpleSteps, MadeVersions
  DEF GitClone, Simple, AfterEnsure
<1>5. CASE GitFetch(a)
  <2>1. clone'.ver \in {0, clone.ver, head}
    BY <1>5, FetchSteps
  <2> QED
    BY <1>5, <2>1, FetchSteps, GotoAside, FinishAside, SimpleSteps DEF Simple, AfterEnsure
<1>6. CASE ClearVerified(a)
  <2>1. row'.format = row.format
    BY <1>6 DEF ClearVerified, TypeOK, Rows
  <2> QED
    BY <1>6, <2>1, GotoAside, SimpleSteps DEF ClearVerified, Simple
<1>7. CASE RecordCopied(a)
  <2>1. row'.format = row.format
    BY <1>7, <1>h DEF RecordCopied, TypeOK, Rows
  <2> QED
    BY <1>7, <2>1, FinishAside, SimpleSteps DEF RecordCopied, Simple
<1>8. CASE StartRefresh(a)
  <2>1. /\ job'[a].tmp = job[a].tmp /\ job'[a].fmt = job[a].fmt
        /\ pc'[a] \in {"scratch", "ensure"} /\ Aside(a)
    BY <1>8 DEF StartRefresh, Goto, Aside, TypeOK, Jobs
  <2> QED
    BY <1>8, <2>1, SimpleSteps DEF StartRefresh, Simple
<1>9. CASE ScratchClone(a)
  <2>1. CASE Finish(a)
    BY <1>9, <2>1, FinishAside, SimpleSteps DEF ScratchClone, Simple
  <2>2. CASE job' = [job EXCEPT ![a].tmp = head, ![a].tag = tag] /\ Goto(a, "build")
    <3>1. /\ job'[a].tmp = head /\ job'[a].fmt = job[a].fmt
          /\ pc'[a] = "build" /\ Aside(a)
      BY <2>2 DEF Goto, Aside, TypeOK, Jobs
    <3> QED
      BY <1>9, <3>1, SimpleSteps DEF ScratchClone, Simple
  <2> QED
    BY <1>9, <2>1, <2>2 DEF ScratchClone
<1>10. CASE BuildBundle(a)
  <2>1. CASE Finish(a)
    BY <1>10, <2>1, FinishAside, SimpleSteps DEF BuildBundle, Simple
  <2>2. CASE /\ Whole(BundleSource(a)) /\ Goto(a, "promote")
             /\ job' = [job EXCEPT ![a].tmp = BundleSource(a).ver,
                                   ![a].tag = BundleSource(a).tag]
    <3>1. /\ job'[a].tmp = BundleSource(a).ver /\ job'[a].fmt = job[a].fmt
          /\ pc'[a] = "promote" /\ Aside(a)
      BY <2>2 DEF Goto, Aside, TypeOK, Jobs
    <3>2. BundleSource(a).ver \in {clone.ver, job[a].tmp} /\ BundleSource(a).ver > 0
      BY <2>2, MadeVersions DEF BundleSource, Whole
    <3>3. Versions'
      BY <1>10, <3>1, <3>2, MadeOfHead DEF BuildBundle
    <3>4. Prepared(a)'
      BY <1>10, <3>1, <3>2 DEF BuildBundle, MInv, Prepared, Conversion, Unread
    <3> QED
      BY <1>10, <3>1, <3>3, <3>4 DEF BuildBundle, Polite
  <2> QED
    BY <1>10, <2>1, <2>2 DEF BuildBundle
<1>11. CASE PromoteBundle(a)
  <2>1. job[a].tmp > 0
    BY <1>11 DEF PromoteBundle, MInv, Prepared
  <2> QED
    BY <1>11, <2>1, GotoAside, FinishAside, SimpleSteps, MadeVersions
    DEF PromoteBundle, Simple
<1>12. CASE MarkVerified(a)
  <2>1. row'.format = row.format
    BY <1>12 DEF MarkVerified, TypeOK, Rows
  <2> QED
    BY <1>12, <2>1, GotoAside, SimpleSteps DEF MarkVerified, Simple
<1>13. CASE Cleanup(a)
  <2>1. clone'.ver \in {0, clone.ver}
    BY <1>13, TornVersions, MadeVersions, Numbers DEF Cleanup
  <2> QED
    BY <1>13, <2>1, GotoAside, SimpleSteps DEF Cleanup, Simple
<1> QED
  BY <1>1, <1>2, <1>3, <1>4, <1>5, <1>6, <1>7, <1>8, <1>9, <1>10, <1>11, <1>12, <1>13 DEF Copying

LEMMA ReconcilingPolite ==
    ASSUME MInv, NEW a \in AllActors, Reconciling(a)
    PROVE  Polite(a)
<1>0. pc[a] \notin Conversion \cup Unread /\ UNCHANGED github /\ TypeOK
  BY AtWork DEF MInv
<1>h. \A r \in HalfDone(a) : r.format = row.format
  BY <1>0, HalfFormat DEF Conversion
<1> USE <1>0 DEF disk
<1>1. CASE RemoveRedundant(a)
  <2>1. CASE Goto(a, "rec_drop") /\ Redundant(job[a].fmt)
    <3>1. pc'[a] = "rec_drop" /\ Aside(a) /\ UNCHANGED <<row, disk, job>>
      BY <1>1, <2>1, GotoAside DEF RemoveRedundant
    <3>2. row.format = "bundle" /\ bundle.st # "none" /\ job[a].fmt = row.format
      BY <1>1, <2>1 DEF RemoveRedundant, Redundant, MInv, Prepared
    <3>3. Versions'
      BY <3>1, MadeOfHead
    <3>4. Prepared(a)'
      BY <3>1, <3>2 DEF Prepared, Conversion, Unread
    <3> QED
      BY <3>1, <3>3, <3>4 DEF Polite
  <2>2. CASE Goto(a, "rec_stat")
    BY <1>1, <2>2, GotoAside, SimpleSteps DEF RemoveRedundant, Simple
  <2> QED
    BY <1>1, <2>1, <2>2 DEF RemoveRedundant
<1>2. CASE DropRedundant(a)
  <2>1. clone'.ver \in {0, clone.ver}
    BY <1>2, TornVersions, MadeVersions, Numbers DEF DropRedundant
  <2> QED
    BY <1>2, <2>1, GotoAside, SimpleSteps DEF DropRedundant, Simple
<1>3. CASE StatPath(a)
  BY <1>3, GotoAside, SimpleSteps DEF StatPath, Simple
<1>4. CASE ResetRow(a)
  <2>1. row'.format = row.format
    BY <1>4, <1>h DEF ResetRow, TypeOK, Rows
  <2> QED
    BY <1>4, <2>1, GotoAside, SimpleSteps DEF ResetRow, Simple
<1> QED
  BY <1>1, <1>2, <1>3, <1>4 DEF Reconciling

LEMMA VerifyingPolite ==
    ASSUME MInv, NEW a \in AllActors, Verifying(a)
    PROVE  Polite(a)
<1>0. pc[a] \notin Conversion \cup Unread /\ UNCHANGED github /\ TypeOK
  BY AtWork DEF MInv
<1>h. \A r \in HalfDone(a) : r.format = row.format
  BY <1>0, HalfFormat DEF Conversion
<1>n. NoJob.tmp = 0
  BY DEF NoJob
<1> USE <1>0, <1>n DEF disk
<1>1. CASE VerifyCopy(a)
  BY <1>1, GotoAside, FinishAside, SimpleSteps DEF VerifyCopy, Simple
<1>2. CASE RecordVerified(a)
  <2>1. row'.format = row.format
    BY <1>2, <1>h DEF RecordVerified, TypeOK, Rows
  <2> QED
    BY <1>2, <2>1, FinishAside, SimpleSteps DEF RecordVerified, Simple
<1> QED
  BY <1>1, <1>2 DEF Verifying

(* A conversion is the web handler's, and nobody works beside it. *)
LEMMA ConversionStep ==
    ASSUME MInv, NEW a \in AllActors, pc[a] \in Conversion, Aside(a), Prepared(a)',
           Versions'
    PROVE  Polite(a)
BY DEF MInv, Prepared, Polite, CronJobs

(* It may end, or come to a point where it relies on nothing. *)
LEMMA ConversionSimple ==
    ASSUME MInv, NEW a \in AllActors, pc[a] \in Conversion, Aside(a), UNCHANGED github,
           pc'[a] \in {"idle", "fallback", "sb_row", "sb_drop", "sc_build"},
           clone'.ver \in {0, clone.ver}, UNCHANGED bundle \/ bundle' = NoCopy,
           job'[a].tmp \in {0, job[a].tmp}
    PROVE  Polite(a)
<1>1. Versions'
  BY MadeOfHead
<1>2. Prepared(a)'
  BY DEF MInv, Prepared, Conversion, Unread
<1> QED
  BY <1>1, <1>2, ConversionStep

LEMMA SwitchingPolite ==
    ASSUME MInv, NEW a \in AllActors, Switching(a)
    PROVE  Polite(a)
<1>0. /\ pc[a] \in Conversion /\ UNCHANGED github /\ TypeOK
      /\ a = "web" /\ clone.ver \in Nat /\ bundle.ver \in Nat /\ head \in Nat
  BY Numbers DEF Switching, SwBundleCreate, SwBundlePromote, SwBundleRow, SwBundleDrop,
       SwCloneDrop, SwCloneBuild, SwClonePromote, SwCloneRow, SwCloneDropBundle, SwRow,
       Conversion, MInv, Prepared
<1>n. NoJob.tmp = 0
  BY DEF NoJob
<1> USE <1>0, <1>n DEF disk
<1>1. CASE SwBundleCreate(a)
  <2>1. CASE Goto(a, "fallback") /\ UNCHANGED job
    BY <1>1, <2>1, GotoAside, ConversionSimple DEF SwBundleCreate
  <2>2. CASE /\ Whole(clone) /\ Goto(a, "sb_promote")
             /\ job' = [job EXCEPT ![a].tmp = clone.ver, ![a].tag = clone.tag]
    <3>1. job'[a].tmp = clone.ver /\ pc'[a] = "sb_promote" /\ Aside(a)
      BY <2>2 DEF Goto, Aside, TypeOK, Jobs
    <3>2. Versions'
      BY <1>1, <3>1, MadeOfHead DEF SwBundleCreate
    <3>3. Prepared(a)'
      BY <2>2, <3>1 DEF Prepared, Whole, Conversion, Unread
    <3> QED
      BY <3>1, <3>2, <3>3, ConversionStep
  <2> QED
    BY <1>1, <2>1, <2>2 DEF SwBundleCreate
<1>2. CASE SwBundlePromote(a)
  <2>1. CASE Goto(a, "fallback") /\ UNCHANGED bundle
    BY <1>2, <2>1, GotoAside, ConversionSimple DEF SwBundlePromote
  <2>2. CASE bundle' = Scratch(a) /\ Goto(a, "sb_row")
    <3>1. pc'[a] = "sb_row" /\ Aside(a) /\ job[a].tmp > 0
      BY <1>2, <2>2, GotoAside DEF SwBundlePromote, MInv, Prepared
    <3>2. Versions'
      BY <1>2, <2>2, <3>1, MadeOfHead DEF SwBundlePromote
    <3>3. Prepared(a)'
      BY <3>1 DEF Prepared, Conversion, Unread
    <3> QED
      BY <3>1, <3>2, <3>3, ConversionStep
  <2> QED
    BY <1>2, <2>1, <2>2 DEF SwBundlePromote
<1>3. CASE SwBundleRow(a)
  BY <1>3, GotoAside, ConversionSimple DEF SwBundleRow, SwRow
<1>4. CASE SwBundleDrop(a)
  <2>1. clone'.ver \in {0, clone.ver}
    BY <1>4, TornVersions, MadeVersions, Numbers DEF SwBundleDrop
  <2> QED
    BY <1>4, <2>1, GotoAside, FinishAside, ConversionSimple DEF SwBundleDrop
<1>5. CASE SwCloneDrop(a)
  <2>1. clone'.ver \in {0, clone.ver}
    BY <1>5, TornVersions, MadeVersions, Numbers DEF SwCloneDrop
  <2> QED
    BY <1>5, <2>1, GotoAside, ConversionSimple DEF SwCloneDrop
<1>6. CASE SwCloneBuild(a)
  <2>1. CASE Goto(a, "fallback") /\ UNCHANGED job
    BY <1>6, <2>1, GotoAside, ConversionSimple DEF SwCloneBuild
  <2>2. CASE /\ bundle.st = "ok" /\ Goto(a, "sc_promote")
             /\ \E t \in Followed(bundle) : job' = [job EXCEPT ![a].tmp = head, ![a].tag = t]
    <3>1. job'[a].tmp = head /\ pc'[a] = "sc_promote" /\ Aside(a)
      BY <2>2 DEF Goto, Aside, TypeOK, Jobs
    <3>2. head > 0 /\ bundle.ver <= head
      BY <2>2 DEF MInv, Versions
    <3>3. Versions'
      BY <1>6, <3>1, MadeOfHead DEF SwCloneBuild
    <3>4. Prepared(a)'
      BY <1>6, <3>1, <3>2 DEF SwCloneBuild, Prepared, Conversion, Unread
    <3> QED
      BY <3>1, <3>3, <3>4, ConversionStep
  <2> QED
    BY <1>6, <2>1, <2>2 DEF SwCloneBuild
<1>7. CASE SwClonePromote(a)
  <2>1. CASE Goto(a, "fallback") /\ UNCHANGED clone
    BY <1>7, <2>1, GotoAside, ConversionSimple DEF SwClonePromote
  <2>2. CASE clone' = Scratch(a) /\ Goto(a, "sc_row")
    <3>1. /\ pc'[a] = "sc_row" /\ Aside(a) /\ UNCHANGED <<bundle, job>>
          /\ job[a].tmp > 0 /\ bundle.ver <= job[a].tmp
      BY <1>7, <2>2, GotoAside DEF SwClonePromote, MInv, Prepared
    <3>2. Versions'
      BY <2>2, <3>1, MadeOfHead, MadeVersions
    <3>3. Prepared(a)'
      BY <2>2, <3>1, MadeVersions DEF Prepared, Whole, Conversion, Unread
    <3> QED
      BY <3>1, <3>2, <3>3, ConversionStep
  <2> QED
    BY <1>7, <2>1, <2>2 DEF SwClonePromote
<1>8. CASE SwCloneRow(a)
  <2>1. CASE Goto(a, "fallback")
    BY <1>8, <2>1, GotoAside, ConversionSimple DEF SwCloneRow, SwRow
  <2>2. CASE Goto(a, "sc_bundle") /\ row' = [row EXCEPT !.format = "clone", !.verified = FALSE]
    <3>1. /\ pc'[a] = "sc_bundle" /\ Aside(a) /\ UNCHANGED <<disk, job>>
          /\ Whole(clone) /\ bundle.ver <= clone.ver /\ row'.format = "clone"
      BY <1>8, <2>2, GotoAside DEF SwCloneRow, SwRow, MInv, Prepared, TypeOK, Rows
    <3>2. Versions'
      BY <3>1, MadeOfHead
    <3>3. Prepared(a)'
      BY <3>1 DEF Prepared, Whole, Conversion, Unread
    <3> QED
      BY <3>1, <3>2, <3>3, ConversionStep
  <2> QED
    BY <1>8, <2>1, <2>2 DEF SwCloneRow, SwRow
<1>9. CASE SwCloneDropBundle(a)
  BY <1>9, GotoAside, FinishAside, ConversionSimple DEF SwCloneDropBundle
<1> QED
  BY <1>1, <1>2, <1>3, <1>4, <1>5, <1>6, <1>7, <1>8, <1>9 DEF Switching

LEMMA EnginePolite ==
    ASSUME MInv, NEW a \in AllActors, Engine(a)
    PROVE  Polite(a) /\ pc[a] # "idle" /\ UNCHANGED booted
<1>1. Polite(a)
  BY CopyingPolite, ReconcilingPolite, VerifyingPolite, SwitchingPolite DEF Engine
<1>2. pc[a] # "idle"
  <2>1. CASE Switching(a)
    BY <2>1 DEF Switching, SwBundleCreate, SwBundlePromote, SwBundleRow, SwBundleDrop,
       SwCloneDrop, SwCloneBuild, SwClonePromote, SwCloneRow, SwCloneDropBundle, SwRow
  <2> QED
    BY <2>1, AtWork DEF Engine, Unread
<1> QED
  BY <1>1, <1>2 DEF Engine

-----------------------------------------------------------------------------
(* The others.                                                                 *)

(* Who may start finds nobody at work, or cron jobs beside a cron job. *)
LEMMA CanStartMeets ==
    ASSUME Overlap \subseteq CronJobs, NEW a, CanStart(a)
    PROVE  booted /\ \A b \in AllActors : pc[b] # "idle" => {a, b} \subseteq CronJobs
BY DEF CanStart

LEMMA AloneQuiet ==
    ASSUME Overlap \subseteq CronJobs, NEW a, a \notin CronJobs, CanStart(a)
    PROVE  Quiet /\ booted
BY CanStartMeets DEF Quiet

(* A start goes on, takes the row and touches nothing. *)
LEMMA StartPolite ==
    ASSUME MInv, NEW a \in AllActors, Aside(a), UNCHANGED <<github, row, disk>>,
           pc'[a] \in Simple \/ (a = "web" /\ pc'[a] \in {"sb_create", "sc_drop"})
                            \/ (a = "purge" /\ pc'[a] = "purge_files"),
           pc'[a] \in Simple \ {"list"} => job'[a].fmt = row.format,
           job'[a].tmp \in {0, job[a].tmp}
    PROVE  Polite(a)
<1>1. Versions'
  BY MadeOfHead DEF disk
<1>2. Prepared(a)'
  BY DEF Prepared, Simple, Conversion, Unread
<1> QED
  BY <1>1, <1>2 DEF Polite, disk

LEMMA BeginAside ==
    ASSUME TypeOK, NEW a \in AllActors, BeginReconcile(a)
    PROVE  /\ Aside(a) /\ pc'[a] \in Simple /\ job'[a].tmp = job[a].tmp
           /\ pc'[a] # "list" => job'[a].fmt = row.format
           /\ UNCHANGED <<github, row, disk, booted>>
BY DEF BeginReconcile, Goto, Aside, TypeOK, Jobs, Simple

LEMMA TakeRowAside ==
    ASSUME TypeOK, NEW a \in AllActors, TakeRow(a), Goto(a, "compare")
    PROVE  /\ Aside(a) /\ pc'[a] = "compare" /\ job'[a].tmp = 0
           /\ job'[a].fmt = row.format
BY DEF TakeRow, NoJob, Goto, Aside, TypeOK

LEMMA StartingMeets ==
    ASSUME Overlap \subseteq CronJobs, MInv, Starting
    PROVE  MInv'
<1>0. TypeOK' /\ TypeOK /\ Actors \subseteq AllActors
      /\ \A a \in {"boot", "web", "verify", "purge"} : a \in AllActors
  BY StartingType, ActorsAssumption DEF MInv, AllActors
<1>a. ASSUME NEW a \in AllActors, CanStart(a), a # "boot", UNCHANGED booted, Polite(a)
      PROVE  MInv'
  BY <1>0, <1>a, CanStartMeets, StartMeets
<1> USE <1>0
<1>1. CASE Boot
  <2>1. Polite("boot")
    BY <1>1, BeginAside, StartPolite DEF Boot, Simple
  <2>2. \A b \in AllActors : pc[b] = "idle"
    BY <1>1 DEF Boot, MInv, Meets
  <2>3. \A b \in AllActors : Prepared(b)'
    BY <2>1, <2>2, OthersPrepared DEF Polite
  <2>4. Meets'
    BY <1>1, <2>1, <2>2, BeginAside DEF Boot, Meets, Polite, Aside, AllActors
  <2> QED
    BY <2>1, <2>3, <2>4 DEF MInv, Polite
<1>2. CASE Booted
  <2>1. Aside("boot") /\ pc'["boot"] = "idle" /\ job'["boot"].tmp = 0
    BY <1>2, FinishAside DEF Booted, NoJob
  <2>2. \A b \in AllActors : pc'[b] = "idle"
    BY <1>2, <2>1 DEF Booted, MInv, Meets, Aside
  <2>3. Versions'
    BY <1>2, <2>1, MadeOfHead DEF Booted, disk
  <2>4. Meets' /\ \A b \in AllActors : Prepared(b)'
    BY <2>2, IdlePrepared DEF Meets
  <2> QED
    BY <2>3, <2>4 DEF MInv
<1>3. CASE TriggerBackup
  BY <1>3, <1>a, BeginAside, StartPolite DEF TriggerBackup
<1>4. CASE StartChecked
  BY <1>4, <1>a, TakeRowAside, StartPolite DEF StartChecked, Simple
<1>5. CASE StartSwitch
  <2>1. /\ Aside("web") /\ pc'["web"] \in {"sb_create", "sc_drop"}
        /\ job'["web"].tmp = job["web"].tmp
    BY <1>5 DEF StartSwitch, Goto, Aside, TypeOK, Jobs
  <2> QED
    BY <1>5, <1>a, <2>1, StartPolite DEF StartSwitch, Simple
<1>6. CASE SetFormat
  <2>1. Quiet
    BY <1>6, AloneQuiet DEF SetFormat, CronJobs
  <2>2. /\ \A b \in AllActors : pc'[b] = "idle"
        /\ UNCHANGED <<github, disk, job, booted>>
    BY <1>6, <2>1 DEF SetFormat, Quiet
  <2>3. Versions'
    BY <2>2 DEF MInv, Versions, github, disk
  <2>4. Meets' /\ \A b \in AllActors : Prepared(b)'
    BY <2>2, IdlePrepared DEF Meets
  <2> QED
    BY <2>3, <2>4 DEF MInv
<1>7. CASE StartVerify
  <2>1. /\ Aside("verify") /\ pc'["verify"] = "verify"
        /\ job'["verify"].tmp = job["verify"].tmp /\ job'["verify"].fmt = row.format
    BY <1>7 DEF StartVerify, Goto, Aside, TypeOK, Jobs
  <2> QED
    BY <1>7, <1>a, <2>1, StartPolite DEF StartVerify, Simple
<1>8. CASE StartPurge
  BY <1>8, <1>a, GotoAside, StartPolite DEF StartPurge, Simple
<1>9. ASSUME NEW a \in Actors, StartBackup(a) PROVE MInv'
  BY <1>9, <1>a, BeginAside, StartPolite DEF StartBackup
<1> QED
  BY <1>1, <1>2, <1>3, <1>4, <1>5, <1>6, <1>7, <1>8, <1>9 DEF Starting

LEMMA HandlingMeets == ASSUME MInv, Handling PROVE MInv'
<1>0. TypeOK' /\ TypeOK /\ Actors \subseteq AllActors
      /\ "web" \in AllActors /\ "purge" \in AllActors
  BY HandlingType, ActorsAssumption DEF MInv, AllActors
<1>n. NoJob.tmp = 0
  BY DEF NoJob
<1> USE <1>0, <1>n
<1>1. CASE Fallback
  BY <1>1, FinishAside, ConversionSimple, PoliteKeeps DEF Fallback, Conversion, disk
<1>2. CASE PurgeFiles
  <2>1. clone'.ver \in {0, clone.ver} /\ bundle' \in {NoCopy, bundle}
    BY <1>2, TornVersions, MadeVersions, Numbers DEF PurgeFiles
  <2>2. /\ Aside("purge") /\ pc'["purge"] \in {"idle", "purge_row"}
        /\ job'["purge"].tmp \in {0, job["purge"].tmp}
    BY <1>2, GotoAside, FinishAside DEF PurgeFiles
  <2>3. Versions'
    BY <1>2, <2>1, <2>2, MadeOfHead DEF PurgeFiles
  <2>4. Polite("purge")
    BY <2>2, <2>3 DEF Polite, Prepared, Conversion, Unread, CronJobs
  <2> QED
    BY <1>2, <2>4, PoliteKeeps DEF PurgeFiles
<1>3. CASE PurgeRow
  <2>1. Versions'
    BY <1>3, FinishAside, MadeOfHead DEF PurgeRow, disk
  <2> QED
    BY <1>3, <2>1, FinishAside, PoliteKeeps DEF PurgeRow, Polite, CronJobs
<1>4. ASSUME NEW a \in Actors, ListRow(a) PROVE MInv'
  <2>1. /\ Aside(a) /\ pc'[a] \in {"idle", "compare"} /\ job'[a].tmp = 0
        /\ pc'[a] = "compare" => job'[a].fmt = row.format
    BY <1>4, FinishAside, TakeRowAside DEF ListRow
  <2>2. Polite(a)
    <3>1. Versions'
      BY <1>4, <2>1, MadeOfHead DEF ListRow, disk
    <3>2. Prepared(a)'
      BY <1>4, <2>1 DEF ListRow, Prepared, Conversion, Unread
    <3> QED
      BY <1>4, <2>1, <3>1, <3>2 DEF ListRow, Polite, disk
  <2> QED
    BY <1>4, <2>2, PoliteKeeps DEF ListRow
<1> QED
  BY <1>1, <1>2, <1>3, <1>4 DEF Handling

(* What leaves the files, the format and the actors alone. *)
LEMMA WorldMeets ==
    ASSUME MInv, TypeOK', UNCHANGED <<disk, pc, job, booted>>, head <= head',
           row'.format = row.format
    PROVE  MInv'
<1>1. Versions'
  <2>1. head \in Nat /\ head' \in Nat /\ clone.ver \in Nat /\ bundle.ver \in Nat
        /\ \A a \in AllActors : job[a].tmp \in Nat
    BY Numbers DEF MInv, TypeOK
  <2> QED
    BY <2>1 DEF MInv, Versions, disk
<1>2. Meets'
  BY DEF MInv, Meets
<1>3. \A a \in AllActors : Prepared(a)'
  BY DEF MInv, Prepared, Whole, disk
<1> QED
  BY <1>1, <1>2, <1>3 DEF MInv

(* What happens to the files while nobody is at work. *)
LEMMA QuietMeets ==
    ASSUME MInv, TypeOK', \A a \in AllActors : pc'[a] = "idle" /\ job'[a].tmp <= head,
           UNCHANGED github, clone'.ver \in {0, clone.ver}, bundle'.ver \in {0, bundle.ver},
           bundle'.st = "ok" => bundle' = bundle
    PROVE  MInv'
<1>1. Versions'
  BY Numbers DEF MInv, Versions, github
<1>2. Meets' /\ \A a \in AllActors : Prepared(a)'
  BY IdlePrepared DEF Meets, AllActors
<1> QED
  BY <1>1, <1>2 DEF MInv

LEMMA SurroundingsMeet == ASSUME MInv, Surroundings PROVE MInv'
<1>0. TypeOK'
  BY SurroundingsType DEF MInv
<1> USE Numbers DEF MInv
<1>1. CASE SyncRow
  <2>1. row'.format = row.format
    BY <1>1 DEF SyncRow, TypeOK, Rows
  <2> QED
    BY <1>0, <1>1, <2>1, WorldMeets DEF SyncRow, github
<1>2. CASE ToggleBackup
  <2>1. row'.format = row.format
    BY <1>2 DEF ToggleBackup, TypeOK, Rows
  <2> QED
    BY <1>0, <1>2, <2>1, WorldMeets DEF ToggleBackup, github
<1>3. CASE Push
  BY <1>0, <1>3, WorldMeets DEF Push
<1>4. CASE Vanish
  BY <1>0, <1>4, WorldMeets DEF Vanish
<1>5. CASE LoseFiles
  <2>1. \A a \in AllActors : pc'[a] = "idle" /\ job'[a].tmp <= head
    BY <1>5 DEF LoseFiles, Quiet, Versions
  <2> QED
    BY <1>0, <1>5, <2>1, QuietMeets, MadeVersions DEF LoseFiles
<1>6. CASE Rot
  <2>1. /\ clone'.ver \in {0, clone.ver} /\ bundle'.ver \in {0, bundle.ver}
        /\ bundle'.st = "ok" => bundle' = bundle
    BY <1>6 DEF Rot, Copies
  <2>2. \A a \in AllActors : pc'[a] = "idle" /\ job'[a].tmp <= head
    BY <1>6 DEF Rot, Quiet, Versions
  <2> QED
    BY <1>0, <1>6, <2>1, <2>2, QuietMeets DEF Rot
<1>7. CASE Crash
  <2>1. \A a \in AllActors : pc'[a] = "idle" /\ job'[a].tmp = 0
    BY <1>7 DEF Crash, NoJob
  <2>2. clone'.ver \in {0, clone.ver}
    BY <1>7, TornVersions, MadeVersions DEF Crash
  <2>3. \A a \in AllActors : job'[a].tmp <= head
    BY <2>1
  <2> QED
    BY <1>0, <1>7, <2>1, <2>2, <2>3, QuietMeets DEF Crash
<1>8. CASE PushTag
  BY <1>0, <1>8, WorldMeets DEF PushTag
<1> QED
  BY <1>1, <1>2, <1>3, <1>4, <1>5, <1>6, <1>7, <1>8 DEF Surroundings

LEMMA MeetingStep == ASSUME Overlap \subseteq CronJobs PROVE MInv /\ [Next]_vars => MInv'
<1>1. ASSUME MInv, UNCHANGED vars PROVE MInv'
  <2>1. TypeOK'
    BY <1>1, NextType DEF MInv
  <2>2. head \in Nat
    BY <1>1, Numbers DEF MInv
  <2> QED
    BY <1>1, <2>1, <2>2, WorldMeets DEF vars, disk
<1>2. ASSUME MInv, NEW a \in Actors, Engine(a) PROVE MInv'
  BY <1>2, EngineType, EnginePolite, PoliteKeeps, ActorsAssumption DEF MInv
<1> QED
  BY <1>1, <1>2, StartingMeets, HandlingMeets, SurroundingsMeet DEF Next

LEMMA Met == ASSUME Overlap \subseteq CronJobs PROVE Spec => []MInv
<1>1. Init /\ TypeOK => MInv
  BY InitMInv
<1>2. MInv /\ [Next]_vars => MInv'
  BY MeetingStep
<1> QED
  BY <1>1, <1>2, TypeCorrect, PTL DEF Spec

(* When none but cron jobs meet, a switch to clone removes the bundle only     *)
(* when a complete clone that is no older is in place and the row names it,    *)
(* whatever fails.                                                             *)
THEOREM BundleAlwaysRetired ==
    ASSUME Overlap \subseteq CronJobs PROVE Spec => BundleRetired
<1>1. MInv /\ [Next]_vars =>
        [\A a \in AllActors :
           pc[a] = "sc_bundle" /\ bundle' # bundle
              => Whole(clone) /\ clone.ver >= bundle.ver /\ row.format = "clone"]_vars
  BY Numbers DEF MInv, Prepared
<1> QED
  BY <1>1, Met, PTL DEF Spec, BundleRetired

(* When none but cron jobs meet, Reconcile removes a clone only while the row  *)
(* names the bundle that makes it redundant, whatever fails: it takes a        *)
(* handler's conversion between the listing and the removal to lose a copy.    *)
THEOREM RedundantOnlyAtNight ==
    ASSUME Overlap \subseteq CronJobs PROVE Spec => RedundantOnly
<1>1. MInv /\ [Next]_vars =>
        [\A a \in AllActors :
           pc[a] = "rec_drop" /\ Whole(clone) /\ clone' # clone
              => row.format = "bundle" /\ bundle.st # "none"]_vars
  BY DEF MInv, Prepared
<1> QED
  BY <1>1, Met, PTL DEF Spec, RedundantOnly

-----------------------------------------------------------------------------
(* The last copy, when of the faults the repository vanishes and returns only. *)

(* A job that is about to put a bundle of the clone in place. *)
Making(a) == pc[a] = "promote" \/ (pc[a] = "build" /\ job[a].reused)

(* A row that dates a bundle which is not there while a clone is whole: either *)
(* Reconcile of the start comes first, or somebody is making the bundle.       *)
Claimed == Whole(clone) /\ row.format = "bundle" /\ row.last /\ bundle.st = "none"
             => (~booted \/ \E a \in AllActors : Making(a))

(* What an actor relies on that some copy is whole. *)
Sure(a) ==
    /\ pc[a] \in {"mark", "cleanup", "sb_row", "sb_drop", "sc_promote"} => Whole(bundle)
    /\ pc[a] \in {"checked", "copied", "passed"} => (job[a].fmt = "bundle" => Whole(bundle))
    /\ pc[a] \in {"ensure", "cloning", "fetch"} => (job[a].fmt = "bundle" => job[a].reused)
    /\ pc[a] \in {"clear", "sc_build"} => job[a].fmt = "clone"
    /\ pc[a] = "sc_promote" => job[a].fmt = "clone"
    /\ pc[a] = "sc_drop" => job[a].fmt = "clone" /\ (Whole(clone) => Whole(bundle))
    /\ pc[a] = "fallback" /\ job[a].fmt = "bundle" => (Whole(clone) => Whole(bundle))

(* Reconcile of the start knows whether the row claims a copy, and is over     *)
(* only when that is there.                                                    *)
BootSure ==
    /\ pc["boot"] \in {"idle", "reconcile", "rec_drop", "rec_stat", "rec_reset", "list"}
    /\ pc["boot"] \in {"reconcile", "rec_drop", "rec_stat"} => (row.last => job["boot"].claims)
    /\ pc["boot"] = "list" /\ PathOf(row.format).st = "none" => ~row.last

NInv == /\ bundle.st # "none" => Whole(bundle)
        /\ pc["purge"] = "idle"
        /\ Claimed /\ BootSure
        /\ \A a \in AllActors : Sure(a)

LEMMA IdleSure ==
    /\ \A a : pc[a] = "idle" => Sure(a) /\ ~Making(a)
    /\ \A a : pc'[a] = "idle" => Sure(a)' /\ ~Making(a)'
    /\ pc["boot"] = "idle" => BootSure
    /\ pc'["boot"] = "idle" => BootSure'
BY DEF Sure, Making, BootSure

LEMMA InitNInv == Init => NInv
BY IdleSure DEF Init, NInv, Claimed, NoCopy, Whole, AllActors

(* A step that takes the last complete copy away is that of a git clone that   *)
(* fails, the repository being gone.                                           *)
Lost(a) == ~onGitHub /\ pc[a] = "cloning" /\ pc'[a] = "idle"

(* A step of one actor that leaves the others sure. *)
Careful(a) == /\ Sure(a)' /\ Claimed' /\ (bundle.st # "none" => Whole(bundle))'
              /\ a = "boot" => BootSure'
              /\ a \in CronJobs => (Whole(bundle) => Whole(bundle)')
              /\ HasCopy => HasCopy' \/ Lost(a)

LEMMA CarefulKeeps ==
    ASSUME MInv, NInv, NEW a \in AllActors, a # "purge", Aside(a), Careful(a),
           pc[a] # "idle"
    PROVE  NInv'
<1>1. ASSUME NEW b \in AllActors \ {a} PROVE Sure(b)'
  <2>1. CASE pc[b] = "idle"
    BY <1>1, <2>1, IdleSure DEF Aside
  <2>2. CASE pc[b] # "idle"
    <3>1. /\ pc'[b] = pc[b] /\ job'[b] = job[b] /\ pc[b] \notin Conversion
          /\ (Whole(bundle) => Whole(bundle)')
      BY <1>1, <2>2 DEF MInv, Meets, Prepared, Aside, Careful, CronJobs
    <3> QED
      BY <1>1, <3>1 DEF NInv, Sure, Conversion
  <2> QED
    BY <2>1, <2>2
<1>2. BootSure'
  <2>1. CASE a # "boot"
    BY <2>1, IdleSure DEF MInv, Meets, Aside, AllActors
  <2> QED
    BY <2>1 DEF Careful
<1>3. pc'["purge"] = "idle"
  BY DEF NInv, Aside, AllActors
<1> QED
  BY <1>1, <1>2, <1>3 DEF NInv, Careful

(* The ways in which a step keeps the row's claim true. *)
LEMMA ClaimedWays ==
    ASSUME Claimed, NEW a \in AllActors, Aside(a), UNCHANGED booted,
           \/ Making(a)'
           \/ ~Whole(clone)' \/ bundle'.st # "none"
           \/ row'.format # "bundle" \/ ~row'.last
           \/ /\ ~Making(a) /\ UNCHANGED bundle /\ (Whole(clone)' => Whole(clone))
              /\ row'.format = row.format /\ row'.last = row.last
    PROVE  Claimed'
<1>1. \A b \in AllActors \ {a} : Making(b) => Making(b)'
  BY DEF Aside, Making
<1> QED
  BY <1>1 DEF Claimed, Whole

(* A step that changes no file and not what the row claims. *)
LEMMA IdlyCareful ==
    ASSUME NInv, NEW a \in AllActors, Aside(a), Sure(a)', UNCHANGED <<disk, booted>>,
           ~Making(a) \/ Making(a)' \/ bundle.st # "none" \/ ~Whole(clone),
           a = "boot" => BootSure',
           row'.format = row.format,
           row'.last = row.last \/ row'.format = "clone" \/ ~row'.last \/ Whole(bundle)
    PROVE  Careful(a)
<1>1. Claimed'
  BY ClaimedWays DEF NInv, disk, Whole, TypeOK, Formats
<1> QED
  BY <1>1 DEF NInv, Careful, disk, Whole, HasCopy

(* A copy that is whole is not that of an empty repository. *)
LEMMA HeadMade ==
    ASSUME MInv, Whole(clone) PROVE head > 0
BY Numbers DEF MInv, Versions, Whole

LEMMA MadeWhole ==
    /\ \A v, t : v > 0 => Whole(Complete(v, t))
    /\ \A a : job[a].tmp > 0 => Whole(Scratch(a))
    /\ ~Whole(NoCopy)
    /\ \A st \in States \ {"ok"} : ~Whole(Dir(st))
BY DEF Whole, Complete, Scratch, NoCopy, Dir

LEMMA CopyingCareful ==
    ASSUME ~Fails, MInv, NInv, NEW a \in AllActors, Copying(a), UNCHANGED booted
    PROVE  Careful(a)
<1>b. a # "boot"
  BY DEF Copying, Compare, RecordChecked, EnsureClone, GitClone, GitFetch, ClearVerified,
       RecordCopied, StartRefresh, ScratchClone, BuildBundle, PromoteBundle, MarkVerified,
       Cleanup, NInv, BootSure
<1>0. /\ TypeOK /\ Aside(a) /\ Sure(a) /\ (bundle.st # "none" => Whole(bundle))
      /\ pc[a] \notin Conversion \cup Unread /\ job[a].fmt = row.format
      /\ row.format \in Formats
  BY CopyingPolite, AtWork DEF MInv, NInv, Polite, Prepared, TypeOK, Rows
<1> USE <1>0, <1>b DEF disk
<1>1. CASE Compare(a)
  <2>1. Sure(a)'
    BY <1>1, GotoAside DEF Compare, AfterCompare, CopyUsable, PathOf, Sure, Whole, Formats
  <2> QED
    BY <1>1, <2>1, IdlyCareful DEF Compare, Making
<1>2. CASE RecordChecked(a)
  <2>1. /\ row'.format = row.format /\ row'.last = TRUE
        /\ row.format = "bundle" => Whole(bundle)
    BY <1>2 DEF RecordChecked, TypeOK, Rows, Sure
  <2> QED
    BY <1>2, <2>1, FinishAside, IdleSure, IdlyCareful DEF RecordChecked, Making, Formats
<1>3. CASE EnsureClone(a)
  <2>1. CASE clone' = Dir("partial") /\ NeedsClone(clone) /\ Goto(a, "cloning") /\ UNCHANGED job
    <3>1. ~Whole(clone) /\ ~Whole(clone)' /\ UNCHANGED bundle
      BY <1>3, <2>1, MadeWhole DEF EnsureClone, NeedsClone, Whole, States
    <3>2. Sure(a)'
      BY <1>3, <2>1, GotoAside DEF EnsureClone, Sure
    <3>3. Claimed'
      BY <3>1, ClaimedWays DEF NInv
    <3> QED
      BY <3>1, <3>2, <3>3 DEF Careful, HasCopy, Whole
  <2>2. CASE UNCHANGED clone /\ (Finish(a) \/ (Goto(a, "fetch") /\ UNCHANGED job))
    <3>1. Sure(a)'
      BY <1>3, <2>2, GotoAside, FinishAside, IdleSure DEF EnsureClone, Sure
    <3> QED
      BY <1>3, <2>2, <3>1, IdlyCareful DEF EnsureClone, Making
  <2> QED
    BY <1>3, <2>1, <2>2 DEF EnsureClone
<1>4. CASE GitClone(a)
  <2>1. CASE clone' = Complete(head, tag) /\ Goto(a, AfterEnsure(a)) /\ UNCHANGED job
    <3>1. /\ Whole(clone) => Whole(clone)'
          /\ UNCHANGED <<row, bundle>>
      BY <1>4, <2>1, HeadMade, MadeWhole DEF GitClone
    <3>2. /\ Sure(a)' /\ (job[a].fmt = "bundle" => Making(a)')
          /\ job[a].fmt # "bundle" => row'.format # "bundle"
      BY <1>4, <2>1, <3>1, GotoAside DEF GitClone, AfterEnsure, Sure, Making, Formats
    <3>3. Claimed'
      BY <3>2, ClaimedWays DEF NInv
    <3> QED
      BY <3>1, <3>2, <3>3 DEF Careful, HasCopy, Whole
  <2>2. CASE clone' = NoCopy /\ Finish(a) /\ (~onGitHub \/ clone.st \in {"none", "nohead", "torn"})
    <3>1. ~Whole(clone)' /\ UNCHANGED bundle /\ (Whole(clone) => ~onGitHub)
      BY <1>4, <2>2, MadeWhole DEF GitClone, Whole
    <3>2. Lost(a) \/ ~Whole(clone)
      BY <1>4, <2>2, <3>1, FinishAside, IdleSure DEF GitClone, Lost
    <3>3. Claimed'
      BY <3>1, ClaimedWays DEF NInv
    <3>4. Sure(a)'
      BY <2>2, FinishAside, IdleSure
    <3> QED
      BY <3>1, <3>2, <3>3, <3>4 DEF Careful, HasCopy, Whole
  <2> QED
    BY <1>4, <2>1, <2>2 DEF GitClone
<1>5. CASE GitFetch(a)
  <2>0. pc[a] = "fetch" /\ UNCHANGED <<row, bundle>>
    BY <1>5, FetchSteps
  <2>1. CASE /\ clone'.ver = head /\ clone'.st = "ok"
             /\ Goto(a, AfterEnsure(a)) /\ UNCHANGED job
    <3>1. Whole(clone) => Whole(clone)'
      BY <2>1, HeadMade DEF Whole
    <3>2. /\ Sure(a)' /\ (job[a].fmt = "bundle" => Making(a)')
          /\ job[a].fmt # "bundle" => row'.format # "bundle"
      BY <2>0, <2>1, GotoAside DEF AfterEnsure, Sure, Making, Formats
    <3>3. Claimed'
      BY <3>2, ClaimedWays DEF NInv
    <3> QED
      BY <2>0, <3>1, <3>2, <3>3 DEF Careful, HasCopy, Whole
  <2>2. CASE /\ clone.st = "rotten" /\ clone'.st = "rotten"
             /\ Goto(a, AfterEnsure(a)) /\ UNCHANGED job
    <3>1. ~Whole(clone) /\ ~Whole(clone)'
      BY <2>2 DEF Whole
    <3>2. Sure(a)'
      BY <2>2, GotoAside DEF AfterEnsure, Sure, Formats
    <3>3. Claimed'
      BY <3>1, ClaimedWays DEF NInv
    <3> QED
      BY <2>0, <3>1, <3>2, <3>3 DEF Careful, HasCopy, Whole
  <2>3. CASE Finish(a) /\ UNCHANGED clone
    BY <1>5, <2>3, FinishAside, IdleSure, IdlyCareful DEF GitFetch, Making
  <2> QED
    BY <1>5, <2>1, <2>2, <2>3, FetchSteps
<1>6. CASE ClearVerified(a)
  <2>1. row'.format = row.format /\ row'.last = row.last
    BY <1>6 DEF ClearVerified, TypeOK, Rows
  <2>2. Sure(a)'
    BY <1>6, GotoAside DEF ClearVerified, Sure
  <2> QED
    BY <1>6, <2>1, <2>2, IdlyCareful DEF ClearVerified, Making
<1>7. CASE RecordCopied(a)
  <2>1. /\ row'.format = row.format /\ row'.last = TRUE
        /\ row.format = "bundle" => Whole(bundle)
    BY <1>7 DEF RecordCopied, TypeOK, Rows, Sure
  <2> QED
    BY <1>7, <2>1, FinishAside, IdleSure, IdlyCareful DEF RecordCopied, Making, Formats
<1>8. CASE StartRefresh(a)
  <2>1. /\ pc'[a] = IF clone.st = "none" THEN "scratch" ELSE "ensure"
        /\ job'[a].reused = (clone.st # "none")
    BY <1>8 DEF StartRefresh, Goto, TypeOK, Jobs
  <2>2. Sure(a)'
    BY <2>1 DEF Sure
  <2> QED
    BY <1>8, <2>2, IdlyCareful DEF StartRefresh, Making
<1>9. CASE ScratchClone(a)
  <2>1. pc'[a] \in {"build", "idle"}
    BY <1>9, FinishAside DEF ScratchClone, Goto, TypeOK
  <2>2. Sure(a)'
    BY <2>1 DEF Sure
  <2> QED
    BY <1>9, <2>2, IdlyCareful DEF ScratchClone, Making
<1>10. CASE BuildBundle(a)
  <2>1. CASE Finish(a) /\ ~Whole(BundleSource(a))
    <3>1. ~Making(a) \/ ~Whole(clone)
      BY <1>10, <2>1 DEF BuildBundle, BundleSource, Making
    <3> QED
      BY <1>10, <2>1, <3>1, FinishAside, IdleSure, IdlyCareful DEF BuildBundle
  <2>2. CASE Goto(a, "promote")
    <3>1. Making(a)' /\ Sure(a)'
      BY <2>2 DEF Goto, TypeOK, Making, Sure
    <3> QED
      BY <1>10, <3>1, IdlyCareful DEF BuildBundle
  <2> QED
    BY <1>10, <2>1, <2>2 DEF BuildBundle
<1>11. CASE PromoteBundle(a)
  <2>1. Whole(bundle)' /\ bundle'.st # "none"
    BY <1>11, MadeWhole, MadeVersions DEF PromoteBundle, MInv, Prepared
  <2>2. Sure(a)'
    BY <1>11, <2>1, GotoAside DEF PromoteBundle, Sure
  <2>3. Claimed'
    BY <2>1, ClaimedWays DEF NInv
  <2> QED
    BY <2>1, <2>2, <2>3 DEF Careful, HasCopy
<1>12. CASE MarkVerified(a)
  <2>1. /\ row'.format = row.format /\ row'.last = row.last /\ Whole(bundle)
    BY <1>12 DEF MarkVerified, TypeOK, Rows, Sure
  <2>2. Sure(a)'
    BY <1>12, <2>1, GotoAside DEF MarkVerified, Sure, Whole
  <2> QED
    BY <1>12, <2>1, <2>2, IdlyCareful DEF MarkVerified, Making
<1>13. CASE Cleanup(a)
  <2>1. Whole(bundle) /\ Whole(bundle)' /\ bundle'.st # "none"
    BY <1>13 DEF Cleanup, Sure, Whole
  <2>2. Sure(a)'
    BY <1>13, <2>1, GotoAside DEF Cleanup, Sure
  <2>3. Claimed'
    BY <2>1, ClaimedWays DEF NInv
  <2> QED
    BY <2>1, <2>2, <2>3 DEF Careful, HasCopy
<1> QED
  BY <1>1, <1>2, <1>3, <1>4, <1>5, <1>6, <1>7, <1>8, <1>9, <1>10, <1>11, <1>12, <1>13 DEF Copying

LEMMA ReconcilingCareful ==
    ASSUME ~Fails, MInv, NInv, NEW a \in AllActors, Reconciling(a), UNCHANGED booted
    PROVE  Careful(a)
<1>0. /\ TypeOK /\ Aside(a) /\ (bundle.st # "none" => Whole(bundle)) /\ BootSure
      /\ pc[a] \notin Conversion \cup Unread /\ job[a].fmt = row.format
      /\ row.format \in Formats
  BY ReconcilingPolite, AtWork DEF MInv, NInv, Polite, Prepared, TypeOK, Rows
<1> USE <1>0 DEF disk
<1>1. CASE RemoveRedundant(a)
  <2>1. Sure(a)' /\ (a = "boot" => BootSure')
    BY <1>1, GotoAside DEF RemoveRedundant, Sure, BootSure
  <2> QED
    BY <1>1, <2>1, IdlyCareful DEF RemoveRedundant, Making
<1>2. CASE DropRedundant(a)
  <2>1. bundle.st # "none" /\ UNCHANGED <<row, bundle, job>> /\ pc'[a] = "rec_stat"
    BY <1>2, GotoAside DEF DropRedundant, MInv, Prepared
  <2>2. Sure(a)' /\ (a = "boot" => BootSure')
    BY <1>2, <2>1 DEF DropRedundant, Sure, BootSure
  <2>3. Claimed'
    BY <2>1, ClaimedWays DEF NInv
  <2> QED
    BY <2>1, <2>2, <2>3 DEF Careful, HasCopy, Whole
<1>3. CASE StatPath(a)
  <2>1. CASE Goto(a, "rec_reset")
    <3>1. Sure(a)' /\ (a = "boot" => BootSure')
      BY <1>3, <2>1, GotoAside DEF StatPath, Sure, BootSure
    <3> QED
      BY <1>3, <3>1, IdlyCareful DEF StatPath, Making
  <2>2. CASE Goto(a, "list") /\ (~job[a].claims \/ PathOf(job[a].fmt).st # "none")
    <3>1. pc'[a] = "list" /\ UNCHANGED <<row, disk, job>>
      BY <1>3, <2>2, GotoAside DEF StatPath
    <3>2. PathOf(row.format)' = PathOf(row.format)
      BY <3>1 DEF PathOf
    <3>3. a = "boot" => BootSure'
      BY <1>3, <2>2, <3>1, <3>2 DEF StatPath, BootSure
    <3>4. Sure(a)'
      BY <3>1 DEF Sure
    <3> QED
      BY <1>3, <3>1, <3>3, <3>4, IdlyCareful DEF StatPath, Making
  <2> QED
    BY <1>3, <2>1, <2>2 DEF StatPath
<1>4. CASE ResetRow(a)
  <2>1. row'.format = row.format /\ row'.last = FALSE /\ pc'[a] = "list"
    BY <1>4, GotoAside DEF ResetRow, TypeOK, Rows
  <2>2. Sure(a)' /\ (a = "boot" => BootSure')
    BY <2>1 DEF Sure, BootSure
  <2> QED
    BY <1>4, <2>1, <2>2, IdlyCareful DEF ResetRow, Making
<1> QED
  BY <1>1, <1>2, <1>3, <1>4 DEF Reconciling

LEMMA VerifyingCareful ==
    ASSUME ~Fails, MInv, NInv, NEW a \in AllActors, Verifying(a), UNCHANGED booted
    PROVE  Careful(a)
<1>0. /\ TypeOK /\ Aside(a) /\ Sure(a) /\ (bundle.st # "none" => Whole(bundle))
      /\ pc[a] \notin Conversion \cup Unread /\ job[a].fmt = row.format
      /\ row.format \in Formats
  BY VerifyingPolite, AtWork DEF MInv, NInv, Polite, Prepared, TypeOK, Rows
<1>b. a # "boot"
  BY DEF Verifying, VerifyCopy, RecordVerified, NInv, BootSure
<1> USE <1>0, <1>b DEF disk
<1>1. CASE VerifyCopy(a)
  <2>1. CASE Finish(a)
    BY <1>1, <2>1, FinishAside, IdleSure, IdlyCareful DEF VerifyCopy, Making
  <2>2. CASE PassesVerify(job[a].fmt) /\ Goto(a, "passed") /\ UNCHANGED job
    <3>1. job[a].fmt = "bundle" => Whole(bundle)
      BY <2>2 DEF PassesVerify, PathOf
    <3>2. Sure(a)'
      BY <1>1, <2>2, <3>1, GotoAside DEF VerifyCopy, Sure, Whole
    <3> QED
      BY <1>1, <3>2, IdlyCareful DEF VerifyCopy, Making
  <2> QED
    BY <1>1, <2>1, <2>2 DEF VerifyCopy
<1>2. CASE RecordVerified(a)
  <2>1. /\ row'.format = row.format /\ row'.last = TRUE
        /\ row.format = "bundle" => Whole(bundle)
    BY <1>2 DEF RecordVerified, TypeOK, Rows, Sure
  <2> QED
    BY <1>2, <2>1, FinishAside, IdleSure, IdlyCareful DEF RecordVerified, Making, Formats
<1> QED
  BY <1>1, <1>2 DEF Verifying

LEMMA SwitchingCareful ==
    ASSUME ~Fails, MInv, NInv, NEW a \in AllActors, Switching(a), UNCHANGED booted
    PROVE  Careful(a)
<1>0. /\ TypeOK /\ Aside(a) /\ Sure(a) /\ (bundle.st # "none" => Whole(bundle))
      /\ Prepared(a) /\ clone.ver \in Nat
  BY SwitchingPolite, Numbers DEF MInv, NInv, Polite
<1>b. a = "web" /\ ~Making(a)
  BY <1>0 DEF Switching, SwBundleCreate, SwBundlePromote, SwBundleRow, SwBundleDrop,
       SwCloneDrop, SwCloneBuild, SwClonePromote, SwCloneRow, SwCloneDropBundle, SwRow,
       Conversion, Prepared, Making
<1>c. a \notin CronJobs /\ a # "boot"
  BY <1>b DEF CronJobs
<1> USE <1>0, <1>c DEF disk
<1>1. CASE SwBundleCreate(a)
  <2>1. CASE Goto(a, "sb_promote")
    <3>1. Sure(a)'
      BY <2>1 DEF Goto, TypeOK, Sure
    <3> QED
      BY <1>1, <1>b, <3>1, IdlyCareful DEF SwBundleCreate
  <2>2. CASE ~Whole(clone) /\ Goto(a, "fallback") /\ UNCHANGED job
    <3>1. Sure(a)'
      BY <1>1, <2>2, GotoAside DEF SwBundleCreate, Sure, Whole
    <3> QED
      BY <1>1, <1>b, <3>1, IdlyCareful DEF SwBundleCreate
  <2> QED
    BY <1>1, <2>1, <2>2 DEF SwBundleCreate
<1>2. CASE SwBundlePromote(a)
  <2>1. Whole(bundle)' /\ bundle'.st # "none" /\ pc'[a] = "sb_row"
    BY <1>2, MadeWhole, MadeVersions, GotoAside DEF SwBundlePromote, Prepared
  <2>2. Sure(a)'
    BY <2>1 DEF Sure
  <2>3. Claimed'
    BY <1>2, <2>1, ClaimedWays DEF SwBundlePromote, NInv
  <2> QED
    BY <2>1, <2>2, <2>3 DEF Careful, HasCopy
<1>3. CASE SwBundleRow(a)
  <2>1. /\ Whole(bundle) /\ bundle.st # "none" /\ UNCHANGED disk
        /\ pc'[a] = "sb_drop"
    BY <1>3, GotoAside DEF SwBundleRow, SwRow, Sure, Whole
  <2>2. Sure(a)'
    BY <2>1 DEF Sure, Whole
  <2>3. Claimed'
    BY <2>1, ClaimedWays DEF NInv
  <2> QED
    BY <2>1, <2>2, <2>3 DEF Careful, HasCopy, Whole
<1>4. CASE SwBundleDrop(a)
  <2>1. Whole(bundle) /\ bundle.st # "none" /\ UNCHANGED bundle /\ pc'[a] = "idle"
    BY <1>4, FinishAside DEF SwBundleDrop, Sure, Whole
  <2>2. Sure(a)'
    BY <2>1, IdleSure
  <2>3. Claimed'
    BY <2>1, ClaimedWays DEF NInv
  <2> QED
    BY <2>1, <2>2, <2>3 DEF Careful, HasCopy, Whole
<1>5. CASE SwCloneDrop(a)
  <2>1. /\ pc'[a] \in {"sc_build", "fallback"} /\ UNCHANGED <<bundle, job>>
        /\ job[a].fmt = "clone" /\ (Whole(clone) => Whole(bundle))
        /\ ~Whole(clone)'
    BY <1>5, GotoAside, MadeWhole DEF SwCloneDrop, Sure, Whole
  <2>2. Sure(a)'
    BY <2>1 DEF Sure
  <2>3. Claimed'
    BY <2>1, ClaimedWays DEF NInv
  <2> QED
    BY <2>1, <2>2, <2>3 DEF Careful, HasCopy, Whole
<1>6. CASE SwCloneBuild(a)
  <2>1. /\ job'[a].fmt = "clone" /\ pc'[a] \in {"sc_promote", "fallback"}
        /\ pc'[a] = "sc_promote" => bundle.st = "ok"
    BY <1>6 DEF SwCloneBuild, Goto, TypeOK, Jobs, Sure
  <2>2. Sure(a)'
    BY <1>6, <2>1 DEF SwCloneBuild, Sure, Whole
  <2> QED
    BY <1>6, <1>b, <2>2, IdlyCareful DEF SwCloneBuild
<1>7. CASE SwClonePromote(a)
  <2>1. /\ Whole(bundle) /\ bundle.st # "none" /\ UNCHANGED <<bundle, job>>
        /\ job[a].fmt = "clone" /\ pc'[a] \in {"sc_row", "fallback"}
    BY <1>7, GotoAside DEF SwClonePromote, Sure, Whole
  <2>2. Sure(a)'
    BY <2>1 DEF Sure
  <2>3. Claimed'
    BY <2>1, ClaimedWays DEF NInv
  <2> QED
    BY <2>1, <2>2, <2>3 DEF Careful, HasCopy, Whole
<1>8. CASE SwCloneRow(a)
  <2>1. /\ UNCHANGED disk /\ pc'[a] = "sc_bundle" /\ row'.format = "clone"
        /\ row'.last = row.last
    BY <1>8, GotoAside DEF SwCloneRow, SwRow, TypeOK, Rows
  <2>2. Sure(a)'
    BY <2>1 DEF Sure
  <2>3. Claimed'
    BY <2>1, ClaimedWays DEF NInv
  <2> QED
    BY <2>1, <2>2, <2>3 DEF Careful, HasCopy, Whole
<1>9. CASE SwCloneDropBundle(a)
  <2>1. /\ Whole(clone) /\ UNCHANGED clone /\ bundle' = NoCopy /\ pc'[a] = "idle"
        /\ row'.format = "clone"
    BY <1>9, FinishAside DEF SwCloneDropBundle, Prepared, TypeOK, Rows
  <2>2. Sure(a)'
    BY <2>1, IdleSure
  <2>3. Claimed'
    BY <2>1, ClaimedWays DEF NInv
  <2> QED
    BY <2>1, <2>2, <2>3, MadeVersions DEF Careful, HasCopy, Whole
<1> QED
  BY <1>1, <1>2, <1>3, <1>4, <1>5, <1>6, <1>7, <1>8, <1>9 DEF Switching

LEMMA EngineCareful ==
    ASSUME ~Fails, MInv, NInv, NEW a \in AllActors, Engine(a)
    PROVE  NInv' /\ (HasCopy => HasCopy' \/ Lost(a))
<1>1. Careful(a) /\ Aside(a) /\ pc[a] # "idle"
  BY EnginePolite, CopyingCareful, ReconcilingCareful, VerifyingCareful, SwitchingCareful
  DEF Engine, Polite
<1>2. a # "purge"
  BY <1>1 DEF NInv
<1> QED
  BY <1>1, <1>2, CarefulKeeps DEF Careful

(* An actor starts beside the others and touches nothing. *)
LEMMA StartSure ==
    ASSUME NInv, NEW a \in AllActors, Aside(a), UNCHANGED <<row, disk, booted>>,
           pc[a] = "idle" \/ pc[a] = "list", a # "purge",
           Sure(a)', IF a = "boot" THEN BootSure' ELSE TRUE
    PROVE  NInv'
<1>1. \A b \in AllActors \ {a} : Sure(b)'
  BY DEF NInv, Sure, Aside, disk, Whole
<1>2. Claimed'
  BY ClaimedWays DEF NInv, disk, Making
<1>3. BootSure'
  BY DEF NInv, BootSure, PathOf, Aside, AllActors, disk
<1>4. pc'["purge"] = "idle" /\ (bundle.st # "none" => Whole(bundle))'
  BY DEF NInv, Aside, AllActors, disk, Whole
<1> QED
  BY <1>1, <1>2, <1>3, <1>4 DEF NInv

LEMMA StartingSure ==
    ASSUME ~Fails, "purge" \notin Actors, Overlap \subseteq CronJobs, MInv, NInv, Starting
    PROVE  NInv' /\ UNCHANGED disk
<1>0. /\ TypeOK /\ Actors \subseteq AllActors
      /\ \A a \in {"boot", "web", "verify", "purge"} : a \in AllActors
  BY ActorsAssumption DEF MInv, AllActors
<1> USE <1>0
<1>1. CASE Boot
  <2>1. /\ Aside("boot") /\ pc'["boot"] = "reconcile"
        /\ job'["boot"].claims = Claims /\ UNCHANGED <<row, disk, booted>>
    BY <1>1 DEF Boot, BeginReconcile, Goto, Aside, TypeOK, Jobs
  <2>2. Sure("boot")' /\ BootSure'
    BY <2>1 DEF Sure, BootSure, Claims, TypeOK, Rows
  <2> QED
    BY <1>1, <2>1, <2>2, StartSure DEF Boot
<1>2. CASE Booted
  <2>1. /\ Aside("boot") /\ pc'["boot"] = "idle" /\ UNCHANGED <<row, disk>>
    BY <1>2, FinishAside DEF Booted
  <2>2. \A b \in AllActors : pc'[b] = "idle"
    BY <1>2, <2>1 DEF Booted, MInv, Meets, Aside
  <2>3. row.format = "bundle" /\ bundle.st = "none" => ~row.last
    BY <1>2 DEF Booted, NInv, BootSure, PathOf
  <2>4. Claimed'
    BY <2>1, <2>3 DEF Claimed, disk
  <2> QED
    BY <2>1, <2>2, <2>4, IdleSure DEF NInv, disk, Whole
<1>3. CASE TriggerBackup
  <2>1. /\ Aside("web") /\ pc'["web"] = "reconcile" /\ pc["web"] = "idle"
        /\ UNCHANGED <<row, disk, booted>>
    BY <1>3 DEF TriggerBackup, BeginReconcile, CanStart, Goto, Aside, TypeOK, Jobs
  <2> QED
    BY <2>1, StartSure DEF Sure
<1>4. CASE StartChecked
  <2>1. /\ Aside("web") /\ pc'["web"] = "compare" /\ pc["web"] = "idle"
        /\ UNCHANGED <<row, disk, booted>>
    BY <1>4, TakeRowAside DEF StartChecked, CanStart
  <2> QED
    BY <2>1, StartSure DEF Sure
<1>5. CASE StartSwitch
  <2>1. /\ Quiet /\ booted /\ row.last /\ pc["web"] = "idle"
        /\ UNCHANGED <<row, disk, booted>>
    BY <1>5, AloneQuiet DEF StartSwitch, CanStart, CronJobs
  <2>2. /\ Aside("web") /\ job'["web"].fmt = Other(row.format)
        /\ pc'["web"] = IF row.format = "clone" THEN "sb_create" ELSE "sc_drop"
    BY <1>5 DEF StartSwitch, Goto, Aside, TypeOK, Jobs
  <2>3. row.format = "bundle" /\ Whole(clone) => Whole(bundle)
    BY <2>1, IdleSure DEF NInv, Claimed, Quiet
  <2>4. Sure("web")'
    BY <2>1, <2>2, <2>3 DEF Sure, Other, TypeOK, Rows, Formats, disk, Whole
  <2> QED
    BY <2>1, <2>2, <2>4, StartSure
<1>6. CASE SetFormat
  <2>1. /\ \A b \in AllActors : pc'[b] = "idle"
        /\ UNCHANGED <<disk, booted>> /\ ~row'.last
    BY <1>6, AloneQuiet DEF SetFormat, CronJobs, Quiet, TypeOK, Rows
  <2> QED
    BY <2>1, IdleSure DEF NInv, Claimed, disk, Whole
<1>7. CASE StartVerify
  <2>1. /\ Aside("verify") /\ pc'["verify"] = "verify" /\ pc["verify"] = "idle"
        /\ UNCHANGED <<row, disk, booted>>
    BY <1>7 DEF StartVerify, CanStart, Goto, Aside, TypeOK, Jobs
  <2> QED
    BY <2>1, StartSure DEF Sure
<1>8. ~StartPurge
  BY DEF StartPurge, CanStart
<1>9. ASSUME NEW a \in Actors, StartBackup(a) PROVE NInv' /\ UNCHANGED disk
  <2>1. /\ Aside(a) /\ pc'[a] = "reconcile" /\ pc[a] = "idle" /\ a # "boot" /\ a # "purge"
        /\ UNCHANGED <<row, disk, booted>>
    BY <1>9 DEF StartBackup, BeginReconcile, CanStart, Goto, Aside, TypeOK, Jobs
  <2> QED
    BY <2>1, StartSure DEF Sure
<1> QED
  BY <1>1, <1>2, <1>3, <1>4, <1>5, <1>6, <1>7, <1>8, <1>9 DEF Starting

LEMMA HandlingSure ==
    ASSUME ~Fails, MInv, NInv, Handling
    PROVE  NInv' /\ UNCHANGED disk
<1>0. /\ TypeOK /\ Actors \subseteq AllActors /\ "web" \in AllActors
  BY ActorsAssumption DEF MInv, AllActors
<1> USE <1>0
<1>1. CASE Fallback
  <2>1. /\ Aside("web") /\ pc'["web"] = "idle" /\ UNCHANGED <<disk, booted>>
        /\ row'.format = job["web"].fmt /\ pc["web"] = "fallback"
    BY <1>1, FinishAside DEF Fallback, TypeOK, Rows
  <2>2. row'.format = "bundle" => (Whole(clone) => Whole(bundle))
    BY <2>1 DEF NInv, Sure
  <2>3. Claimed'
    BY <2>2, <2>1, ClaimedWays DEF NInv, disk, Whole
  <2>4. Careful("web")
    BY <2>1, <2>3, IdleSure DEF Careful, NInv, disk, Whole, HasCopy, CronJobs
  <2> QED
    BY <2>1, <2>4, CarefulKeeps
<1>2. ~PurgeFiles /\ ~PurgeRow
  BY DEF PurgeFiles, PurgeRow, NInv
<1>3. ASSUME NEW a \in Actors, ListRow(a) PROVE NInv' /\ UNCHANGED disk
  <2>1. /\ Aside(a) /\ pc'[a] \in {"compare", "idle"} /\ a # "boot" /\ a # "purge"
        /\ pc[a] = "list" /\ UNCHANGED <<row, disk, booted>>
    BY <1>3, TakeRowAside, FinishAside DEF ListRow, NInv
  <2> QED
    BY <2>1, StartSure DEF Sure
<1> QED
  BY <1>1, <1>2, <1>3 DEF Handling

LEMMA WorldSure ==
    ASSUME NInv, UNCHANGED <<disk, pc, job, booted>>,
           row'.format = row.format, row'.last = row.last
    PROVE  NInv'
<1>1. \A a \in AllActors : Sure(a)' /\ (Making(a)' <=> Making(a))
  BY DEF NInv, Sure, Making, Whole, disk
<1>2. Claimed' /\ BootSure'
  BY <1>1 DEF NInv, Claimed, BootSure, PathOf, Whole, disk
<1> QED
  BY <1>1, <1>2 DEF NInv, Whole, disk

LEMMA SurroundingsSure ==
    ASSUME Env \subseteq {"vanish"}, MInv, NInv, Surroundings
    PROVE  NInv' /\ (HasCopy => HasCopy')
<1>0. TypeOK
  BY DEF MInv
<1>1. CASE SyncRow
  <2>1. row'.format = row.format /\ row'.last = row.last
    BY <1>0, <1>1 DEF SyncRow, TypeOK, Rows
  <2> QED
    BY <1>1, <2>1, WorldSure DEF SyncRow, disk, HasCopy, Whole
<1>2. CASE ToggleBackup
  <2>1. row'.format = row.format /\ row'.last = row.last
    BY <1>0, <1>2 DEF ToggleBackup, TypeOK, Rows
  <2> QED
    BY <1>2, <2>1, WorldSure DEF ToggleBackup, disk, HasCopy, Whole
<1>3. CASE Push
  BY <1>3, WorldSure DEF Push, disk, HasCopy, Whole
<1>4. CASE Vanish
  BY <1>4, WorldSure DEF Vanish, disk, HasCopy, Whole
<1>5. ~LoseFiles /\ ~Rot
  BY DEF LoseFiles, Rot
<1>6. CASE Crash
  <2>1. /\ \A a \in AllActors : pc'[a] = "idle"
        /\ booted' = FALSE /\ UNCHANGED bundle
    BY <1>6 DEF Crash
  <2>2. NInv'
    BY <2>1, IdleSure DEF NInv, Claimed, Whole, AllActors
  <2>3. Whole(clone) => Whole(clone)' \/ Whole(bundle)
    <3>1. ASSUME NEW a \in AllActors, pc[a] \in RemovesClone
          PROVE  Whole(clone) => Whole(bundle)
      BY <3>1 DEF RemovesClone, NInv, Sure, MInv, Prepared
    <3>2. clone' = clone \/ \E a \in AllActors : pc[a] \in RemovesClone
      BY <1>6 DEF Crash
    <3> QED
      BY <3>1, <3>2
  <2> QED
    BY <2>1, <2>2, <2>3 DEF HasCopy, Whole
<1>7. CASE PushTag
  BY <1>7, WorldSure DEF PushTag, disk, HasCopy, Whole
<1> QED
  BY <1>1, <1>2, <1>3, <1>4, <1>5, <1>6, <1>7 DEF Surroundings

(* A step takes the last complete copy of a repository away only when it is    *)
(* that of a git clone which fails because the repository is gone: git removes *)
(* the directory it had made, and with it what the fetch of another job has    *)
(* put there meanwhile.                                                        *)
OnlyCloneLoses ==
    [][HasCopy => HasCopy' \/ \E a \in Actors : Lost(a)]_vars

LEMMA SureStep ==
    ASSUME Overlap \subseteq CronJobs, Env \subseteq {"vanish"}, "purge" \notin Actors,
           MInv, NInv, [Next]_vars
    PROVE  /\ NInv'
           /\ [HasCopy => HasCopy' \/ \E a \in Actors : Lost(a)]_vars
<1>0. ~Fails
  BY DEF Fails
<1>1. ASSUME UNCHANGED vars PROVE NInv'
  BY <1>1, WorldSure DEF vars, disk
<1>2. ASSUME NEW a \in Actors, Engine(a)
      PROVE  NInv' /\ (HasCopy => HasCopy' \/ Lost(a))
  BY <1>0, <1>2, EngineCareful, ActorsAssumption
<1>3. ASSUME Starting \/ Handling \/ Surroundings
      PROVE  NInv' /\ (HasCopy => HasCopy')
  BY <1>0, <1>3, StartingSure, HandlingSure, SurroundingsSure DEF HasCopy, Whole, disk
<1> QED
  BY <1>1, <1>2, <1>3 DEF Next

LEMMA AlwaysSure ==
    ASSUME Overlap \subseteq CronJobs, Env \subseteq {"vanish"}, "purge" \notin Actors
    PROVE  Spec => []NInv /\ OnlyCloneLoses
<1>1. Init => NInv
  BY InitNInv
<1>2. MInv /\ NInv /\ [Next]_vars =>
         /\ NInv'
         /\ [HasCopy => HasCopy' \/ \E a \in Actors : Lost(a)]_vars
  BY SureStep
<1> QED
  BY <1>1, <1>2, Met, PTL DEF Spec, OnlyCloneLoses

(* When none but cron jobs meet, and of the faults the repository vanishes and *)
(* returns, the last complete copy goes in one way only: a git clone fails     *)
(* because the repository has gone, and takes what another job fetched into    *)
(* its directory with it.                                                      *)
THEOREM OnlyCloneLosesAtNight ==
    ASSUME Overlap \subseteq CronJobs, Env \subseteq {"vanish"}, "purge" \notin Actors
    PROVE  Spec => OnlyCloneLoses
<1> QED
  BY AlwaysSure, PTL

LEMMA StaysOnGitHub ==
    ASSUME "vanish" \notin Env, onGitHub, [Next]_vars PROVE onGitHub'
<1>1. ASSUME NEW a \in AllActors, Engine(a) PROVE onGitHub'
  BY <1>1, AtWork DEF Engine, github, Switching, SwBundleCreate, SwBundlePromote,
     SwBundleRow, SwBundleDrop, SwCloneDrop, SwCloneBuild, SwClonePromote, SwCloneRow,
     SwCloneDropBundle, SwRow
<1>2. ASSUME Starting \/ Handling PROVE onGitHub'
  BY <1>2 DEF github, Starting, Handling, Boot, Booted, TriggerBackup, StartChecked,
     StartSwitch, SetFormat, StartVerify, StartPurge, StartBackup, BeginReconcile,
     Fallback, PurgeFiles, PurgeRow, ListRow
<1>3. ASSUME Surroundings PROVE onGitHub'
  BY <1>3 DEF github, Surroundings, SyncRow, ToggleBackup, Push, PushTag, Vanish,
     LoseFiles, Rot, Crash
<1> QED
  BY <1>1, <1>2, <1>3, ActorsAssumption DEF Next, vars

(* When none but cron jobs meet, and the repository stays on GitHub, no step   *)
(* takes the last complete copy away, neither the refresh of one bundle by two *)
(* jobs nor a crash of both.                                                   *)
THEOREM CopyKeptAtNight ==
    ASSUME Overlap \subseteq CronJobs, Env = {}, "purge" \notin Actors
    PROVE  Spec => OnlyCopyKept
<1>1. Init => onGitHub
  BY DEF Init
<1>2. onGitHub /\ [Next]_vars => onGitHub'
  BY StaysOnGitHub
<1>3. onGitHub /\ [HasCopy => HasCopy' \/ \E a \in Actors : Lost(a)]_vars
        => [HasCopy => \/ HasCopy' \/ LoseFiles \/ Rot
                       \/ row.deleted /\ pc["purge"] = "purge_files"]_vars
  BY DEF Lost
<1>4. Env \subseteq {"vanish"}
  OBVIOUS
<1> QED
  BY <1>1, <1>2, <1>3, <1>4, AlwaysSure, PTL DEF Spec, OnlyCloneLoses, OnlyCopyKept

-----------------------------------------------------------------------------
(* What the row claims when Reconcile is over, when no command fails and the   *)
(* repository stays.                                                           *)

Dated        == row.last \/ row.verified
Present      == PathOf(row.format).st # "none"
Fetchable(c) == c.st \notin {"none", "nohead", "torn"}
Refreshing   == {"refresh", "scratch", "build", "promote", "mark", "cleanup"}

(* An actor that leaves a date where it is, or sets one, has seen something at *)
(* the path, and what it clones or fetches into is still there.                *)
Truthful(a) ==
    /\ pc[a] \in Refreshing => job[a].fmt = "bundle"
    /\ pc[a] = "list" \/ (pc[a] \in {"reconcile", "rec_drop", "rec_stat"} /\ ~job[a].claims)
         => (Dated => Present)
    /\ pc[a] \in {"checked", "clear", "copied", "mark", "cleanup", "passed"} => Present
    /\ pc[a] = "cloning" /\ job[a].fmt = "clone" => Fetchable(clone)

TInv == onGitHub /\ \A a \in AllActors : Truthful(a)

LEMMA IdleTruthful ==
    /\ \A a : pc[a] \in Conversion \cup {"idle"} => Truthful(a)
    /\ \A a : pc'[a] \in Conversion \cup {"idle"} => Truthful(a)'
BY DEF Truthful, Conversion, Refreshing

(* A step that leaves something at the path, and what a clone or a fetch works *)
(* on, and dates nothing but what is there.                                    *)
Lasting == /\ Present => Present'
           /\ Dated' => Dated \/ Present'
           /\ row.format = "clone" /\ Fetchable(clone) => Fetchable(clone)'

LEMMA OthersTruthful ==
    ASSUME MInv, TInv, NEW a \in AllActors, Aside(a), Lasting, row'.format = row.format,
           NEW b \in AllActors \ {a}
    PROVE  Truthful(b)'
<1>1. pc'[b] = pc[b] /\ job'[b] = job[b] /\ Truthful(b)
  BY DEF Aside, TInv
<1>2. pc[b] = "cloning" => job[b].fmt = row.format
  BY DEF MInv, Prepared, Conversion, Unread
<1> QED
  BY <1>1, <1>2 DEF Truthful, Lasting

LEMMA TruthfulKeeps ==
    ASSUME MInv, TInv, NEW a \in AllActors, Aside(a), Truthful(a)', onGitHub',
           \/ Lasting /\ row'.format = row.format
           \/ \A b \in AllActors \ {a} : pc[b] = "idle"
    PROVE  TInv'
<1>1. \A b \in AllActors \ {a} : Truthful(b)'
  BY OthersTruthful, IdleTruthful DEF Aside
<1> QED
  BY <1>1 DEF TInv

(* A step that leaves the files and the dates alone. *)
LEMMA IdlyLasting ==
    ASSUME UNCHANGED disk, row'.format = row.format,
           Dated' => Dated \/ Present
    PROVE  Lasting /\ (Present <=> Present')
BY DEF Lasting, disk, Present, PathOf, Fetchable

LEMMA RowKept ==
    ASSUME UNCHANGED row, UNCHANGED disk
    PROVE  Lasting /\ (Present <=> Present') /\ (Dated <=> Dated')
BY IdlyLasting DEF Dated

LEMMA CopyingTruthful ==
    ASSUME ~Fails, MInv, TInv, NEW a \in AllActors, Copying(a)
    PROVE  Truthful(a)' /\ Lasting /\ row'.format = row.format
<1>0. /\ TypeOK /\ Truthful(a) /\ onGitHub /\ pc[a] \notin Conversion \cup Unread
      /\ job[a].fmt = row.format /\ row.format \in Formats
  BY AtWork DEF MInv, TInv, Prepared, TypeOK, Rows
<1>f. /\ \A v, t : Complete(v, t).st = "ok" /\ Fetchable(Complete(v, t))
      /\ Scratch(a).st = "ok"
  BY DEF Complete, Scratch, Fetchable
<1> USE <1>0, <1>f DEF disk
<1>1. CASE Compare(a)
  <2>1. pc'[a] = "checked" => Present
    BY <1>1, GotoAside DEF Compare, AfterCompare, CopyUsable, Present
  <2>2. pc'[a] \in {"checked", "ensure", "refresh"} /\ UNCHANGED <<row, disk, job>>
    BY <1>1, GotoAside DEF Compare, AfterCompare
  <2>3. pc'[a] = "refresh" => job[a].fmt = "bundle"
    BY <1>1, GotoAside DEF Compare, AfterCompare, Formats
  <2> QED
    BY <2>1, <2>2, <2>3, RowKept DEF Truthful, Refreshing
<1>2. CASE RecordChecked(a)
  <2>1. row'.format = row.format /\ UNCHANGED disk /\ Present /\ pc'[a] = "idle"
    BY <1>2, FinishAside DEF RecordChecked, TypeOK, Rows, Truthful
  <2> QED
    BY <2>1, IdlyLasting, IdleTruthful
<1>3. CASE EnsureClone(a)
  <2>1. CASE clone' = Dir("partial") /\ NeedsClone(clone) /\ Goto(a, "cloning") /\ UNCHANGED job
    <3>1. Fetchable(clone)' /\ clone'.st # "none" /\ UNCHANGED <<row, bundle>>
      BY <1>3, <2>1 DEF EnsureClone, Dir, Fetchable
    <3>2. Truthful(a)'
      BY <2>1, <3>1, GotoAside DEF Truthful, Refreshing
    <3> QED
      BY <3>1, <3>2 DEF Lasting, Present, PathOf, Dated
  <2>2. CASE UNCHANGED clone /\ (Finish(a) \/ (Goto(a, "fetch") /\ UNCHANGED job))
    <3>1. Truthful(a)'
      BY <1>3, <2>2, GotoAside, FinishAside, IdleTruthful DEF Truthful, Refreshing
    <3> QED
      BY <1>3, <2>2, <3>1, RowKept DEF EnsureClone
  <2> QED
    BY <1>3, <2>1, <2>2 DEF EnsureClone
<1>c. ASSUME UNCHANGED <<row, bundle, job>>, clone'.st # "none", Fetchable(clone)',
             pc'[a] = AfterEnsure(a)
      PROVE  Truthful(a)' /\ Lasting
  <2>1. pc'[a] = "clear" => Present'
    BY <1>c DEF AfterEnsure, Present, PathOf
  <2>2. pc'[a] = "build" => job'[a].fmt = "bundle"
    BY <1>c DEF AfterEnsure, Formats
  <2>3. pc'[a] \in {"clear", "build"}
    BY <1>c DEF AfterEnsure
  <2>4. Truthful(a)'
    BY <2>1, <2>2, <2>3 DEF Truthful, Refreshing
  <2> QED
    BY <1>c, <2>4 DEF Lasting, Present, PathOf, Dated
<1>4. CASE GitClone(a)
  <2>1. CASE clone' = Complete(head, tag) /\ Goto(a, AfterEnsure(a)) /\ UNCHANGED job
    BY <1>4, <2>1, <1>c, GotoAside DEF GitClone
  <2>2. CASE clone' = NoCopy /\ Finish(a) /\ clone.st \in {"none", "nohead", "torn"}
    <3>1. row.format # "clone" /\ UNCHANGED <<row, bundle>>
      BY <1>4, <2>2 DEF GitClone, Truthful, Fetchable
    <3>2. Truthful(a)'
      BY <2>2, FinishAside, IdleTruthful
    <3> QED
      BY <3>1, <3>2 DEF Lasting, Present, PathOf, Dated
  <2> QED
    BY <1>4, <2>1, <2>2 DEF GitClone
<1>5. CASE GitFetch(a)
  <2>1. CASE /\ clone'.st \in {"rotten", "ok"}
             /\ Goto(a, AfterEnsure(a)) /\ UNCHANGED job
    <3>1. clone'.st # "none" /\ Fetchable(clone)'
      BY <2>1 DEF Fetchable
    <3> QED
      BY <1>5, <2>1, <3>1, <1>c, GotoAside, FetchSteps
  <2>2. CASE Finish(a) /\ UNCHANGED clone
    BY <1>5, <2>2, FinishAside, IdleTruthful, RowKept DEF GitFetch
  <2> QED
    BY <1>5, <2>1, <2>2, FetchSteps
<1>6. CASE ClearVerified(a)
  <2>1. /\ row'.format = row.format /\ Present /\ pc'[a] = "copied" /\ UNCHANGED <<disk, job>>
    BY <1>6, GotoAside DEF ClearVerified, TypeOK, Rows, Truthful
  <2> QED
    BY <2>1, IdlyLasting DEF Truthful, Refreshing
<1>7. CASE RecordCopied(a)
  <2>1. row'.format = row.format /\ UNCHANGED disk /\ Present /\ pc'[a] = "idle"
    BY <1>7, FinishAside DEF RecordCopied, TypeOK, Rows, Truthful
  <2> QED
    BY <2>1, IdlyLasting, IdleTruthful
<1>8. CASE StartRefresh(a)
  <2>1. /\ pc'[a] \in {"scratch", "ensure"} /\ job'[a].fmt = "bundle" /\ UNCHANGED <<row, disk>>
    BY <1>8 DEF StartRefresh, Goto, TypeOK, Jobs, Truthful, Refreshing
  <2> QED
    BY <2>1, RowKept DEF Truthful
<1>9. CASE ScratchClone(a)
  <2>1. /\ pc'[a] \in {"build", "idle"} /\ UNCHANGED <<row, disk>>
        /\ pc'[a] = "build" => job'[a].fmt = "bundle"
    BY <1>9 DEF ScratchClone, Goto, TypeOK, Jobs, Truthful, Refreshing
  <2> QED
    BY <2>1, RowKept DEF Truthful, Refreshing
<1>10. CASE BuildBundle(a)
  <2>1. /\ pc'[a] \in {"promote", "idle"} /\ UNCHANGED <<row, disk>>
        /\ pc'[a] = "promote" => job'[a].fmt = "bundle"
    <3>1. CASE Finish(a)
      BY <1>10, <3>1, FinishAside DEF BuildBundle
    <3>2. CASE /\ Goto(a, "promote")
               /\ job' = [job EXCEPT ![a].tmp = BundleSource(a).ver,
                                     ![a].tag = BundleSource(a).tag]
      BY <1>10, <3>2 DEF BuildBundle, Goto, TypeOK, Jobs, Truthful, Refreshing
    <3> QED
      BY <1>10, <3>1, <3>2 DEF BuildBundle
  <2> QED
    BY <2>1, RowKept DEF Truthful, Refreshing
<1>11. CASE PromoteBundle(a)
  <2>1. /\ pc'[a] = "mark" /\ job[a].fmt = "bundle" /\ UNCHANGED <<row, clone, job>>
        /\ bundle'.st # "none"
    BY <1>11, GotoAside DEF PromoteBundle, Truthful, Refreshing
  <2>2. Present'
    BY <2>1 DEF Present, PathOf
  <2> QED
    BY <2>1, <2>2 DEF Truthful, Lasting, Dated, Fetchable
<1>12. CASE MarkVerified(a)
  <2>1. /\ row'.format = row.format /\ Present /\ pc'[a] \in {"cleanup", "copied"}
        /\ UNCHANGED <<disk, job>> /\ job[a].fmt = "bundle"
    BY <1>12, GotoAside DEF MarkVerified, TypeOK, Rows, Truthful, Refreshing
  <2> QED
    BY <2>1, IdlyLasting DEF Truthful
<1>13. CASE Cleanup(a)
  <2>1. /\ row.format = "bundle" /\ Present /\ pc'[a] = "copied" /\ UNCHANGED <<row, bundle, job>>
    BY <1>13, GotoAside DEF Cleanup, Truthful, Refreshing
  <2>2. Present'
    BY <2>1 DEF Present, PathOf
  <2> QED
    BY <2>1, <2>2 DEF Truthful, Lasting, Refreshing
<1> QED
  BY <1>1, <1>2, <1>3, <1>4, <1>5, <1>6, <1>7, <1>8, <1>9, <1>10, <1>11, <1>12, <1>13 DEF Copying

LEMMA ReconcilingTruthful ==
    ASSUME ~Fails, MInv, TInv, NEW a \in AllActors, Reconciling(a)
    PROVE  Truthful(a)' /\ Lasting /\ row'.format = row.format
<1>0. /\ TypeOK /\ Truthful(a) /\ job[a].fmt = row.format
      /\ pc[a] = "rec_drop" => row.format = "bundle"
  BY AtWork DEF MInv, TInv, Prepared
<1> USE <1>0 DEF disk
<1>1. CASE RemoveRedundant(a)
  <2>1. pc[a] = "reconcile" /\ pc'[a] \in {"rec_drop", "rec_stat"} /\ UNCHANGED <<row, disk, job>>
    BY <1>1, GotoAside DEF RemoveRedundant
  <2> QED
    BY <2>1, RowKept DEF Truthful, Refreshing
<1>2. CASE DropRedundant(a)
  <2>1. /\ pc[a] = "rec_drop" /\ pc'[a] = "rec_stat" /\ UNCHANGED <<row, bundle, job>>
    BY <1>2, GotoAside DEF DropRedundant
  <2>2. Present <=> Present'
    BY <2>1 DEF Present, PathOf
  <2> QED
    BY <2>1, <2>2 DEF Truthful, Lasting, Refreshing, Dated
<1>3. CASE StatPath(a)
  <2>1. CASE Goto(a, "rec_reset")
    BY <1>3, <2>1, GotoAside, RowKept DEF StatPath, Truthful, Refreshing
  <2>2. CASE Goto(a, "list") /\ (~job[a].claims \/ PathOf(job[a].fmt).st # "none")
    <3>1. pc[a] = "rec_stat" /\ pc'[a] = "list" /\ UNCHANGED <<row, disk, job>>
      BY <1>3, <2>2, GotoAside DEF StatPath
    <3>2. Dated => Present
      BY <2>2, <3>1 DEF Truthful, Present
    <3> QED
      BY <3>1, <3>2, RowKept DEF Truthful, Refreshing
  <2> QED
    BY <1>3, <2>1, <2>2 DEF StatPath
<1>4. CASE ResetRow(a)
  <2>1. row'.format = row.format /\ ~Dated' /\ pc'[a] = "list" /\ UNCHANGED disk
    BY <1>4, GotoAside DEF ResetRow, TypeOK, Rows, Dated
  <2> QED
    BY <2>1, IdlyLasting DEF Truthful, Refreshing
<1> QED
  BY <1>1, <1>2, <1>3, <1>4 DEF Reconciling

LEMMA VerifyingTruthful ==
    ASSUME ~Fails, MInv, TInv, NEW a \in AllActors, Verifying(a)
    PROVE  Truthful(a)' /\ Lasting /\ row'.format = row.format
<1>0. TypeOK /\ Truthful(a) /\ job[a].fmt = row.format
  BY AtWork DEF MInv, TInv, Prepared
<1> USE <1>0 DEF disk
<1>1. CASE VerifyCopy(a)
  <2>1. /\ UNCHANGED <<row, disk>> /\ pc'[a] \in {"idle", "passed"}
        /\ pc'[a] = "passed" => Present
    BY <1>1, GotoAside, FinishAside DEF VerifyCopy, PassesVerify, Present
  <2> QED
    BY <2>1, RowKept DEF Truthful, Refreshing
<1>2. CASE RecordVerified(a)
  <2>1. row'.format = row.format /\ UNCHANGED disk /\ Present /\ pc'[a] = "idle"
    BY <1>2, FinishAside DEF RecordVerified, TypeOK, Rows, Truthful
  <2> QED
    BY <2>1, IdlyLasting, IdleTruthful
<1> QED
  BY <1>1, <1>2 DEF Verifying

(* A conversion is a handler's, and nobody else is at work. *)
LEMMA SwitchingTruthful ==
    ASSUME ~Fails, MInv, NEW a \in AllActors, Switching(a)
    PROVE  Truthful(a)' /\ \A b \in AllActors \ {a} : pc[b] = "idle"
<1>1. pc[a] \in Conversion
  BY DEF Switching, SwBundleCreate, SwBundlePromote, SwBundleRow, SwBundleDrop,
       SwCloneDrop, SwCloneBuild, SwClonePromote, SwCloneRow, SwCloneDropBundle, SwRow,
       Conversion
<1>2. pc'[a] \in Conversion \cup {"idle"}
  BY DEF Switching, SwBundleCreate, SwBundlePromote, SwBundleRow, SwBundleDrop,
       SwCloneDrop, SwCloneBuild, SwClonePromote, SwCloneRow, SwCloneDropBundle, SwRow,
       Conversion, Goto, Finish, MInv, TypeOK
<1>3. a = "web" /\ a \notin CronJobs /\ pc[a] # "idle"
  BY <1>1 DEF MInv, Prepared, CronJobs, Conversion
<1> QED
  BY <1>2, <1>3, IdleTruthful DEF MInv, Meets

LEMMA EngineTruthful ==
    ASSUME ~Fails, MInv, TInv, NEW a \in AllActors, Engine(a), onGitHub'
    PROVE  TInv'
BY EnginePolite, CopyingTruthful, ReconcilingTruthful, VerifyingTruthful, SwitchingTruthful,
   TruthfulKeeps DEF Engine, Polite

(* An actor that starts, or goes on with the row, leaves the row and the files. *)
LEMMA StartTruthful ==
    ASSUME MInv, TInv, NEW a \in AllActors, Aside(a), UNCHANGED <<row, disk>>, onGitHub',
           pc'[a] \in {"idle", "compare", "verify", "sb_create", "sc_drop", "purge_files"}
              \/ (pc'[a] = "reconcile" /\ job'[a].claims = Claims)
    PROVE  TInv'
<1>1. Truthful(a)'
  BY RowKept DEF Truthful, Refreshing, Claims, Dated
<1> QED
  BY <1>1, RowKept, TruthfulKeeps

LEMMA StartingTruthful ==
    ASSUME ~Fails, Overlap \subseteq CronJobs, MInv, TInv, Starting, onGitHub'
    PROVE  TInv'
<1>0. /\ TypeOK /\ Actors \subseteq AllActors
      /\ \A a \in {"boot", "web", "verify", "purge"} : a \in AllActors
  BY ActorsAssumption DEF MInv, AllActors
<1>b. ASSUME NEW a \in AllActors, BeginReconcile(a) PROVE TInv'
  <2>1. /\ Aside(a) /\ pc'[a] = "reconcile" /\ job'[a].claims = Claims
        /\ UNCHANGED <<row, disk>>
    BY <1>0, <1>b DEF BeginReconcile, Goto, Aside, TypeOK, Jobs
  <2> QED
    BY <2>1, StartTruthful
<1> USE <1>0
<1>1. CASE Boot
  BY <1>1, <1>b DEF Boot
<1>2. CASE Booted
  BY <1>2, FinishAside, StartTruthful DEF Booted
<1>3. CASE TriggerBackup
  BY <1>3, <1>b DEF TriggerBackup
<1>4. CASE StartChecked
  BY <1>4, TakeRowAside, StartTruthful DEF StartChecked
<1>5. CASE StartSwitch
  <2>1. /\ Aside("web") /\ pc'["web"] \in {"sb_create", "sc_drop"} /\ UNCHANGED <<row, disk>>
    BY <1>5 DEF StartSwitch, Goto, Aside, TypeOK
  <2> QED
    BY <2>1, StartTruthful
<1>6. CASE SetFormat
  <2>1. \A b \in AllActors : pc'[b] = "idle"
    BY <1>6, AloneQuiet DEF SetFormat, CronJobs, Quiet
  <2> QED
    BY <2>1, IdleTruthful DEF TInv
<1>7. CASE StartVerify
  <2>1. /\ Aside("verify") /\ pc'["verify"] = "verify" /\ UNCHANGED <<row, disk>>
    BY <1>7 DEF StartVerify, Goto, Aside, TypeOK
  <2> QED
    BY <2>1, StartTruthful
<1>8. CASE StartPurge
  BY <1>8, GotoAside, StartTruthful DEF StartPurge
<1>9. ASSUME NEW a \in Actors, StartBackup(a) PROVE TInv'
  BY <1>9, <1>b DEF StartBackup
<1> QED
  BY <1>1, <1>2, <1>3, <1>4, <1>5, <1>6, <1>7, <1>8, <1>9 DEF Starting

LEMMA HandlingTruthful ==
    ASSUME ~Fails, MInv, TInv, Handling, onGitHub'
    PROVE  TInv'
<1>0. /\ TypeOK /\ Actors \subseteq AllActors /\ "web" \in AllActors /\ "purge" \in AllActors
  BY ActorsAssumption DEF MInv, AllActors
<1>m. \A a \in {"web", "purge"} : pc[a] # "idle" => \A b \in AllActors \ {a} : pc[b] = "idle"
  BY <1>0 DEF MInv, Meets, CronJobs
<1> USE <1>0
<1>1. CASE Fallback
  <2>1. Aside("web") /\ pc'["web"] = "idle" /\ pc["web"] # "idle"
    BY <1>1, FinishAside DEF Fallback
  <2> QED
    BY <2>1, <1>m, IdleTruthful, TruthfulKeeps
<1>2. CASE PurgeFiles
  <2>1. Aside("purge") /\ pc'["purge"] = "purge_row" /\ pc["purge"] # "idle"
    BY <1>2, GotoAside DEF PurgeFiles
  <2>2. Truthful("purge")'
    BY <2>1 DEF Truthful, Refreshing
  <2> QED
    BY <2>1, <2>2, <1>m, TruthfulKeeps
<1>3. CASE PurgeRow
  <2>1. Aside("purge") /\ pc'["purge"] = "idle" /\ pc["purge"] # "idle"
    BY <1>3, FinishAside DEF PurgeRow
  <2> QED
    BY <2>1, <1>m, IdleTruthful, TruthfulKeeps
<1>4. ASSUME NEW a \in Actors, ListRow(a) PROVE TInv'
  BY <1>4, FinishAside, TakeRowAside, StartTruthful DEF ListRow
<1> QED
  BY <1>1, <1>2, <1>3, <1>4 DEF Handling

LEMMA SurroundingsTruthful ==
    ASSUME MInv, TInv, Surroundings, onGitHub'
    PROVE  TInv'
<1>0. TypeOK
  BY DEF MInv
<1>w. ASSUME UNCHANGED <<disk, pc, job>>, row'.format = row.format, row'.last = row.last,
             row'.verified = row.verified
      PROVE  TInv'
  BY <1>w DEF TInv, Truthful, Dated, Present, PathOf, disk
<1>q. ASSUME \A a \in AllActors : pc'[a] = "idle" PROVE TInv'
  BY <1>q, IdleTruthful DEF TInv
<1>1. CASE SyncRow \/ ToggleBackup
  <2>1. row'.format = row.format /\ row'.last = row.last /\ row'.verified = row.verified
    BY <1>0, <1>1 DEF SyncRow, ToggleBackup, TypeOK, Rows
  <2> QED
    BY <1>1, <1>w, <2>1 DEF SyncRow, ToggleBackup
<1>2. CASE Push \/ PushTag \/ Vanish
  BY <1>2, <1>w DEF Push, PushTag, Vanish
<1>3. CASE LoseFiles \/ Rot
  BY <1>3, <1>q DEF LoseFiles, Rot, Quiet
<1>4. CASE Crash
  BY <1>4, <1>q DEF Crash
<1> QED
  BY <1>1, <1>2, <1>3, <1>4 DEF Surroundings

LEMMA TruthfulStep ==
    ASSUME Overlap \subseteq CronJobs, Env \subseteq {"lose", "rot"}, MInv, TInv, [Next]_vars
    PROVE  TInv'
<1>1. ~Fails /\ onGitHub'
  BY StaysOnGitHub DEF Fails, TInv
<1>2. CASE UNCHANGED vars
  BY <1>2 DEF vars, TInv, Truthful, Dated, Present, PathOf
<1>3. ASSUME NEW a \in Actors, Engine(a) PROVE TInv'
  BY <1>1, <1>3, EngineTruthful, ActorsAssumption
<1> QED
  BY <1>1, <1>2, <1>3, StartingTruthful, HandlingTruthful, SurroundingsTruthful DEF Next

(* When none but cron jobs meet, and no command fails, no row dates a copy at  *)
(* a path where nothing is once a Reconcile is over: not when another job has  *)
(* written its dates while this one looked at the disk, nor after a crash, and *)
(* whatever the operator and the disk took while nobody was at work.           *)
THEOREM ReconcileTruthfulAtNight ==
    ASSUME Overlap \subseteq CronJobs, Env \subseteq {"lose", "rot"}
    PROVE  Spec => []ReconcileTruthful
<1>1. Init => TInv
  BY IdleTruthful DEF Init, TInv
<1>2. MInv /\ TInv /\ [Next]_vars => TInv'
  BY TruthfulStep
<1>3. TInv => ReconcileTruthful
  BY DEF TInv, Truthful, ReconcileTruthful, Dated, Present
<1> QED
  BY <1>1, <1>2, <1>3, Met, PTL DEF Spec

=============================================================================
