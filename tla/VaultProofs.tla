---------------------------- MODULE VaultProofs -----------------------------
(* Theorems about Vault, for every set of actors and of faults and with no     *)
(* bound on the versions but MaxPush: types and push times, whether the actors *)
(* overlap or not, and what is removed when they take turns.                   *)
EXTENDS Vault, TLAPS

-----------------------------------------------------------------------------
(* Types.                                                                      *)

(* An actor that moves to a label stays within the labels. *)
LEMMA GotoType ==
    ASSUME pc \in [AllActors -> Labels], NEW a \in AllActors, NEW l \in Labels,
           Goto(a, l)
    PROVE  pc' \in [AllActors -> Labels]
BY DEF Goto

(* An actor that is done is idle and holds nothing. *)
LEMMA FinishType ==
    ASSUME TypeOK, NEW a \in AllActors, Finish(a)
    PROVE  pc' \in [AllActors -> Labels] /\ job' \in [AllActors -> Jobs]
<1>1. NoJob \in Jobs
  BY DEF NoJob, Jobs, Formats
<1>2. "idle" \in Labels
  BY DEF Labels
<1>. QED  BY <1>1, <1>2 DEF Finish, TypeOK

(* What is left of a copy is a copy. *)
LEMMA TornType ==
    ASSUME NEW c \in Copies
    PROVE  Torn(c) \subseteq Copies
BY DEF Torn, Copies, States, Dir

(* The copies the engine makes. *)
LEMMA CopyTypes ==
    /\ NoCopy \in Copies
    /\ \A v, t \in Nat : Complete(v, t) \in Copies
    /\ Dir("partial") \in Copies
BY DEF NoCopy, Complete, Dir, Copies, States

(* The tags a fetch leaves a copy with. *)
LEMMA FollowedType == ASSUME tag \in Nat, NEW c \in Copies PROVE Followed(c) \subseteq Nat
BY DEF Followed, Copies

(* A fetched copy is a copy, damaged or not. *)
LEMMA FetchedType ==
    ASSUME TypeOK, NEW c \in Copies
    PROVE  \A t \in Followed(c) :
              Complete(head, t) \in Copies /\ [c EXCEPT !.ver = head, !.tag = t] \in Copies
BY CopyTypes, FollowedType DEF TypeOK, Copies

(* What an actor makes in its scratch path is a copy. *)
LEMMA ScratchType ==
    ASSUME TypeOK, NEW a \in AllActors
    PROVE  Scratch(a) \in Copies /\ BundleSource(a) \in Copies
<1>1. job[a].tmp \in Nat /\ job[a].tag \in Nat
  BY DEF TypeOK, Jobs
<1>. QED  BY <1>1, CopyTypes DEF Scratch, BundleSource, TypeOK

(* What an actor notes of it. *)
LEMMA NotedType ==
    ASSUME job \in [AllActors -> Jobs], NEW a \in AllActors, NEW v \in Nat, NEW t \in Nat
    PROVE  [job EXCEPT ![a].tmp = v, ![a].tag = t] \in [AllActors -> Jobs]
BY DEF Jobs

(* A row of which half was written is a row, with the push times it had. *)
LEMMA HalfDoneType ==
    ASSUME row \in Rows, NEW a, NEW r \in HalfDone(a)
    PROVE  r \in Rows /\ r.source = row.source /\ r.lastPush = row.lastPush
<1>1. \A b \in BOOLEAN : /\ [row EXCEPT !.last = b] \in Rows
                         /\ [row EXCEPT !.verified = b] \in Rows
                         /\ [row EXCEPT !.enabled = b] \in Rows
  BY DEF Rows
<1>2. \A f \in Formats : [row EXCEPT !.format = f] \in Rows
  BY DEF Rows
<1>3. "bundle" \in Formats /\ "clone" \in Formats
  BY DEF Formats
<1>4. r \in {row, [row EXCEPT !.last = TRUE], [row EXCEPT !.last = FALSE],
             [row EXCEPT !.verified = TRUE], [row EXCEPT !.enabled = FALSE],
             [row EXCEPT !.format = "bundle"], [row EXCEPT !.format = "clone"]}
  BY DEF HalfDone
<1>5. r \in Rows
  BY <1>1, <1>2, <1>3, <1>4
<1>6. r.source = row.source /\ r.lastPush = row.lastPush
  BY <1>4 DEF Rows
<1>. QED  BY <1>5, <1>6

(* A step of a backup keeps the types. *)
LEMMA CopyingType ==
    ASSUME TypeOK, NEW a \in AllActors, Copying(a), UNCHANGED booted
    PROVE  TypeOK'
<1>. USE DEF TypeOK, github, disk
<1>1. CASE Compare(a)
  BY <1>1, GotoType DEF Compare, AfterCompare, Labels
<1>2. CASE RecordChecked(a)
  BY <1>2, FinishType, HalfDoneType DEF RecordChecked, Represents, Rows, Jobs
<1>3. CASE EnsureClone(a)
  BY <1>3, GotoType, FinishType, CopyTypes DEF EnsureClone, Labels
<1>4. CASE GitClone(a)
  BY <1>4, GotoType, FinishType, CopyTypes DEF GitClone, AfterEnsure, Labels
<1>5. CASE GitFetch(a)
  <2>1. clone' \in Copies
    BY <1>5, FetchedType DEF GitFetch
  <2>. QED  BY <1>5, <2>1, GotoType, FinishType DEF GitFetch, AfterEnsure, Labels
<1>6. CASE ClearVerified(a)
  BY <1>6, GotoType DEF ClearVerified, Rows, Labels
<1>7. CASE RecordCopied(a)
  BY <1>7, FinishType, HalfDoneType DEF RecordCopied, Represents, Rows, Jobs
<1>8. CASE StartRefresh(a)
  <2>1. \A b \in BOOLEAN : [job EXCEPT ![a].reused = b] \in [AllActors -> Jobs]
    BY DEF Jobs
  <2>2. job' \in [AllActors -> Jobs]
    BY <1>8, <2>1 DEF StartRefresh
  <2>. QED  BY <1>8, <2>2, GotoType DEF StartRefresh, Labels
<1>9. CASE ScratchClone(a)
  <2>1. CASE Goto(a, "build") /\ job' = [job EXCEPT ![a].tmp = head, ![a].tag = tag]
    BY <1>9, <2>1, NotedType, GotoType DEF ScratchClone, Labels
  <2>2. CASE Finish(a)
    BY <1>9, <2>2, FinishType DEF ScratchClone
  <2>. QED  BY <1>9, <2>1, <2>2 DEF ScratchClone
<1>10. CASE BuildBundle(a)
  <2>1. BundleSource(a).ver \in Nat /\ BundleSource(a).tag \in Nat
    BY ScratchType DEF Copies
  <2>2. CASE /\ Goto(a, "promote")
             /\ job' = [job EXCEPT ![a].tmp = BundleSource(a).ver,
                                   ![a].tag = BundleSource(a).tag]
    BY <1>10, <2>1, <2>2, NotedType, GotoType DEF BuildBundle, Labels
  <2>3. CASE Finish(a)
    BY <1>10, <2>3, FinishType DEF BuildBundle
  <2>. QED  BY <1>10, <2>2, <2>3 DEF BuildBundle
<1>11. CASE PromoteBundle(a)
  BY <1>11, GotoType, FinishType, ScratchType DEF PromoteBundle, Labels
<1>12. CASE MarkVerified(a)
  BY <1>12, GotoType DEF MarkVerified, Rows, Labels
<1>13. CASE Cleanup(a)
  BY <1>13, GotoType, TornType, CopyTypes DEF Cleanup, Labels
<1>. QED  BY <1>1, <1>2, <1>3, <1>4, <1>5, <1>6, <1>7, <1>8, <1>9, <1>10, <1>11, <1>12, <1>13 DEF Copying

(* A step of Reconcile keeps the types. *)
LEMMA ReconcilingType ==
    ASSUME TypeOK, NEW a \in AllActors, Reconciling(a), UNCHANGED booted
    PROVE  TypeOK'
<1>. USE DEF TypeOK, github, disk
<1>1. CASE RemoveRedundant(a)
  BY <1>1, GotoType DEF RemoveRedundant, Labels
<1>2. CASE DropRedundant(a)
  BY <1>2, GotoType, TornType, CopyTypes DEF DropRedundant, Labels
<1>3. CASE StatPath(a)
  BY <1>3, GotoType DEF StatPath, Labels
<1>4. CASE ResetRow(a)
  BY <1>4, GotoType, HalfDoneType DEF ResetRow, Rows, Labels
<1>. QED  BY <1>1, <1>2, <1>3, <1>4 DEF Reconciling

(* Writing the new format, or half of it, keeps the types. *)
LEMMA SwRowType ==
    ASSUME TypeOK, NEW a \in AllActors, NEW at, NEW fmt \in Formats,
           NEW next \in Labels, SwRow(a, at, fmt, next), UNCHANGED booted
    PROVE  TypeOK'
<1>1. "fallback" \in Labels
  BY DEF Labels
<1>2. pc' \in [AllActors -> Labels]
  BY <1>1, GotoType DEF SwRow, TypeOK
<1>3. [row EXCEPT !.format = fmt, !.verified = FALSE] \in Rows
  BY DEF TypeOK, Rows
<1>4. row' \in Rows
  BY <1>3, HalfDoneType DEF SwRow, TypeOK
<1>. QED  BY <1>2, <1>4 DEF SwRow, TypeOK, github, disk

(* A step of a change of format keeps the types. *)
LEMMA SwitchingType ==
    ASSUME TypeOK, NEW a \in AllActors, Switching(a), UNCHANGED booted
    PROVE  TypeOK'
<1>. USE DEF TypeOK, github, disk
<1>1. CASE SwBundleCreate(a)
  <2>1. clone.ver \in Nat /\ clone.tag \in Nat
    BY DEF Copies
  <2>2. job' \in [AllActors -> Jobs]
    <3>1. CASE job' = [job EXCEPT ![a].tmp = clone.ver, ![a].tag = clone.tag]
      BY <2>1, <3>1, NotedType
    <3>. QED  BY <1>1, <3>1 DEF SwBundleCreate
  <2>. QED  BY <1>1, <2>2, GotoType DEF SwBundleCreate, Labels
<1>2. CASE SwBundlePromote(a)
  BY <1>2, GotoType, ScratchType DEF SwBundlePromote, Labels
<1>3. CASE SwBundleRow(a)
  BY <1>3, SwRowType DEF SwBundleRow, Formats, Labels
<1>4. CASE SwBundleDrop(a)
  <2>1. row' \in Rows
    BY <1>4 DEF SwBundleDrop, Rows
  <2>2. clone' \in Copies
    BY <1>4, TornType, CopyTypes DEF SwBundleDrop
  <2>3. pc' \in [AllActors -> Labels] /\ job' \in [AllActors -> Jobs]
    BY <1>4, GotoType, FinishType DEF SwBundleDrop, Labels
  <2>. QED  BY <1>4, <2>1, <2>2, <2>3 DEF SwBundleDrop
<1>5. CASE SwCloneDrop(a)
  BY <1>5, GotoType, TornType, CopyTypes DEF SwCloneDrop, Labels
<1>6. CASE SwCloneBuild(a)
  <2>1. job' \in [AllActors -> Jobs]
    <3>1. ASSUME NEW t \in Followed(bundle), job' = [job EXCEPT ![a].tmp = head, ![a].tag = t]
          PROVE  job' \in [AllActors -> Jobs]
      BY <3>1, FollowedType, NotedType
    <3>. QED  BY <1>6, <3>1 DEF SwCloneBuild
  <2>. QED  BY <1>6, <2>1, GotoType DEF SwCloneBuild, Labels
<1>7. CASE SwClonePromote(a)
  BY <1>7, GotoType, ScratchType DEF SwClonePromote, Labels
<1>8. CASE SwCloneRow(a)
  BY <1>8, SwRowType DEF SwCloneRow, Formats, Labels
<1>9. CASE SwCloneDropBundle(a)
  BY <1>9, GotoType, FinishType, CopyTypes DEF SwCloneDropBundle, Rows, Labels
<1>. QED  BY <1>1, <1>2, <1>3, <1>4, <1>5, <1>6, <1>7, <1>8, <1>9 DEF Switching

(* A step of a verification keeps the types. *)
LEMMA VerifyingType ==
    ASSUME TypeOK, NEW a \in AllActors, Verifying(a), UNCHANGED booted
    PROVE  TypeOK'
<1>. USE DEF TypeOK, github, disk
<1>1. CASE VerifyCopy(a)
  BY <1>1, GotoType, FinishType DEF VerifyCopy, Labels
<1>2. CASE RecordVerified(a)
  BY <1>2, FinishType, HalfDoneType DEF RecordVerified, Rows
<1>. QED  BY <1>1, <1>2 DEF Verifying

(* A step of the engine keeps the types. *)
LEMMA EngineType ==
    ASSUME TypeOK, NEW a \in AllActors, Engine(a)
    PROVE  TypeOK'
BY CopyingType, ReconcilingType, SwitchingType, VerifyingType DEF Engine

(* Taking the row keeps the types of what the actors hold. *)
LEMMA TakeRowType ==
    ASSUME TypeOK, NEW a \in AllActors, TakeRow(a)
    PROVE  job' \in [AllActors -> Jobs]
<1>1. [NoJob EXCEPT !.fmt = row.format, !.seen = row.lastPush, !.src = row.source]
         \in Jobs
  BY DEF NoJob, Jobs, TypeOK, Rows, Formats
<1>. QED  BY <1>1 DEF TakeRow, TypeOK

(* The start of a Reconcile keeps the types. *)
LEMMA BeginReconcileType ==
    ASSUME TypeOK, NEW a \in AllActors, BeginReconcile(a)
    PROVE  TypeOK'
<1>1. row.format \in Formats /\ row.last \in BOOLEAN /\ row.verified \in BOOLEAN
  BY DEF TypeOK, Rows
<1>2. \A f \in Formats, b \in BOOLEAN :
         [job EXCEPT ![a].fmt = f, ![a].claims = b] \in [AllActors -> Jobs]
  BY DEF TypeOK, Jobs
<1>3. Claims \in BOOLEAN
  BY <1>1 DEF Claims
<1>4. job' \in [AllActors -> Jobs]
  <2>1. [job EXCEPT ![a].fmt = row.format, ![a].claims = Claims]
           \in [AllActors -> Jobs]
    BY <1>1, <1>2, <1>3, Zenon
  <2>. QED  BY <2>1, Zenon DEF BeginReconcile, TypeOK
<1>5. pc' \in [AllActors -> Labels]
  BY GotoType DEF BeginReconcile, TypeOK, Labels
<1>. QED  BY <1>4, <1>5 DEF BeginReconcile, TypeOK, github, disk

(* Starting an operation keeps the types. *)
LEMMA StartingType ==
    ASSUME TypeOK, Starting
    PROVE  TypeOK'
<1>. USE ActorsAssumption DEF TypeOK, github, disk
<1>0. \A a \in {"boot", "web", "verify", "purge"} : a \in AllActors
  BY DEF AllActors
<1>1. CASE Boot
  BY <1>0, <1>1, BeginReconcileType DEF Boot
<1>2. CASE Booted
  BY <1>0, <1>2, FinishType DEF Booted
<1>3. CASE StartChecked
  BY <1>0, <1>3, GotoType, TakeRowType DEF StartChecked, Labels
<1>4. CASE StartSwitch
  <2>1. \A f \in Formats : [job EXCEPT !["web"].fmt = f] \in [AllActors -> Jobs]
    BY <1>0 DEF Jobs
  <2>2. Other(row.format) \in Formats
    BY DEF Other, Formats
  <2>3. job' \in [AllActors -> Jobs]
    BY <1>4, <2>1, <2>2 DEF StartSwitch
  <2>. QED  BY <1>0, <1>4, <2>3, GotoType DEF StartSwitch, Labels
<1>5. CASE SetFormat
  BY <1>5 DEF SetFormat, Other, Rows, Formats
<1>6. CASE StartVerify
  <2>1. job' \in [AllActors -> Jobs]
    BY <1>0, <1>6 DEF StartVerify, Jobs, Rows
  <2>. QED  BY <1>0, <1>6, <2>1, GotoType DEF StartVerify, Labels
<1>7. CASE StartPurge
  BY <1>0, <1>7, GotoType DEF StartPurge, Labels
<1>8. CASE \E a \in Actors : StartBackup(a)
  BY <1>8, BeginReconcileType DEF StartBackup
<1>9. CASE TriggerBackup
  BY <1>0, <1>9, BeginReconcileType DEF TriggerBackup
<1>. QED  BY <1>1, <1>2, <1>3, <1>4, <1>5, <1>6, <1>7, <1>8, <1>9 DEF Starting

(* The handlers keep the types. *)
LEMMA HandlingType ==
    ASSUME TypeOK, Handling
    PROVE  TypeOK'
<1>. USE ActorsAssumption DEF TypeOK, github, disk
<1>0. "web" \in AllActors /\ "purge" \in AllActors
  BY DEF AllActors
<1>1. CASE Fallback
  <2>1. job["web"].fmt \in Formats
    BY <1>0 DEF Jobs
  <2>2. row' \in Rows
    BY <1>1, <2>1 DEF Fallback, Rows
  <2>. QED  BY <1>0, <1>1, <2>2, FinishType DEF Fallback
<1>2. CASE PurgeFiles
  <2>1. clone' \in Copies /\ bundle' \in Copies
    BY <1>2, TornType, CopyTypes DEF PurgeFiles
  <2>2. pc' \in [AllActors -> Labels] /\ job' \in [AllActors -> Jobs]
    BY <1>0, <1>2, GotoType, FinishType DEF PurgeFiles, Labels
  <2>. QED  BY <1>2, <2>1, <2>2 DEF PurgeFiles
<1>3. CASE PurgeRow
  <2>1. row' \in Rows
    BY <1>3, HalfDoneType DEF PurgeRow, Rows
  <2>. QED  BY <1>0, <1>3, <2>1, FinishType DEF PurgeRow
<1>4. CASE \E a \in Actors : ListRow(a)
  BY <1>4, GotoType, FinishType, TakeRowType DEF ListRow, Labels
<1>. QED  BY <1>1, <1>2, <1>3, <1>4 DEF Handling

(* The surroundings keep the types. *)
LEMMA SurroundingsType ==
    ASSUME TypeOK, Surroundings
    PROVE  TypeOK'
<1>. USE DEF TypeOK, github, disk
<1>1. CASE SyncRow
  BY <1>1 DEF SyncRow, Rows
<1>2. CASE ToggleBackup
  BY <1>2 DEF ToggleBackup, Rows
<1>3. CASE Push
  BY <1>3 DEF Push
<1>4. CASE Vanish
  BY <1>4 DEF Vanish
<1>5. CASE LoseFiles
  BY <1>5, CopyTypes DEF LoseFiles
<1>6. CASE Rot
  BY <1>6 DEF Rot, Copies, States
<1>7. CASE Crash
  <2>1. row' \in Rows
    BY <1>7, HalfDoneType DEF Crash
  <2>2. clone' \in Copies
    BY <1>7, TornType, CopyTypes DEF Crash
  <2>3. NoJob \in Jobs /\ "idle" \in Labels
    BY DEF NoJob, Jobs, Formats, Labels
  <2>. QED  BY <1>7, <2>1, <2>2, <2>3 DEF Crash
<1>8. CASE PushTag
  BY <1>8 DEF PushTag
<1>. QED  BY <1>1, <1>2, <1>3, <1>4, <1>5, <1>6, <1>7, <1>8 DEF Surroundings

(* No step leaves the types. *)
LEMMA NextType == TypeOK /\ [Next]_vars => TypeOK'
<1>1. ASSUME TypeOK, UNCHANGED vars
      PROVE  TypeOK'
  BY <1>1 DEF TypeOK, vars
<1>2. ASSUME TypeOK, Next
      PROVE  TypeOK'
  BY <1>2, ActorsAssumption, StartingType, HandlingType, SurroundingsType, EngineType
     DEF Next
<1>. QED  BY <1>1, <1>2

(* The types of the state, for every set of actors and faults. *)
THEOREM TypeCorrect == Spec => []TypeOK
<1>1. ASSUME Init PROVE TypeOK
  <2>1. row \in Rows
    <3>1. {FALSE} \subseteq BOOLEAN /\ {TRUE} \subseteq BOOLEAN /\ {0} \subseteq Nat
      OBVIOUS
    <3>2. ASSUME NEW B1, NEW B2, NEW B3, NEW N, B1 \subseteq BOOLEAN,
                 B2 \subseteq BOOLEAN, B3 \subseteq BOOLEAN, N \subseteq Nat
          PROVE  [format : Formats, last : B1, verified : B1, source : N,
                  lastPush : N, enabled : B2, deleted : B3] \subseteq Rows
      BY <3>2 DEF Rows
    <3>. QED  BY <1>1, <3>1, <3>2, Zenon DEF Init
  <2>2. NoCopy \in Copies /\ NoJob \in Jobs /\ "idle" \in Labels
    BY DEF NoCopy, NoJob, Copies, Jobs, Labels, States, Formats
  <2>. QED  BY <1>1, <2>1, <2>2 DEF Init, TypeOK
<1>. QED  BY <1>1, NextType, PTL DEF Spec

-----------------------------------------------------------------------------
(* source_pushed_at stays behind what sync has seen.                           *)

(* What a step of the engine may do to the push times: nothing to those sync   *)
(* and GitHub own, and to the recorded one nothing but write what the actor    *)
(* read of the row.  An actor never gets to hold a newer one.                  *)
Recording(a) ==
    /\ UNCHANGED <<head, pushedAt>>
    /\ row'.lastPush = row.lastPush
    /\ row'.source \in {row.source, job[a].seen}
    /\ \A b \in AllActors : job'[b].seen \in {job[b].seen, 0}

(* An actor that is done holds no push time. *)
LEMMA FinishSeen ==
    ASSUME TypeOK, NEW a \in AllActors, Finish(a)
    PROVE  \A b \in AllActors : job'[b].seen \in {job[b].seen, 0}
BY DEF Finish, NoJob, TypeOK

(* A step of a backup writes no push time but the one it read. *)
LEMMA CopyingRecords ==
    ASSUME TypeOK, NEW a \in AllActors, Copying(a)
    PROVE  Recording(a)
<1>. USE DEF TypeOK, Recording, github, disk
<1>1. CASE Compare(a)
  BY <1>1 DEF Compare
<1>2. CASE RecordChecked(a)
  BY <1>2, FinishSeen, HalfDoneType DEF RecordChecked, Represents, Rows
<1>3. CASE EnsureClone(a)
  BY <1>3, FinishSeen DEF EnsureClone
<1>4. CASE GitClone(a)
  BY <1>4, FinishSeen DEF GitClone
<1>5. CASE GitFetch(a)
  BY <1>5, FinishSeen DEF GitFetch
<1>6. CASE ClearVerified(a)
  BY <1>6 DEF ClearVerified, Rows
<1>7. CASE RecordCopied(a)
  BY <1>7, FinishSeen, HalfDoneType DEF RecordCopied, Represents, Rows
<1>8. CASE StartRefresh(a)
  BY <1>8 DEF StartRefresh, Jobs
<1>9. CASE ScratchClone(a)
  BY <1>9, FinishSeen DEF ScratchClone, Jobs
<1>10. CASE BuildBundle(a)
  BY <1>10, FinishSeen DEF BuildBundle, Jobs
<1>11. CASE PromoteBundle(a)
  BY <1>11, FinishSeen DEF PromoteBundle
<1>12. CASE MarkVerified(a)
  BY <1>12 DEF MarkVerified, Rows
<1>13. CASE Cleanup(a)
  BY <1>13 DEF Cleanup
<1>. QED  BY <1>1, <1>2, <1>3, <1>4, <1>5, <1>6, <1>7, <1>8, <1>9, <1>10, <1>11, <1>12, <1>13 DEF Copying

(* A step of Reconcile writes no push time. *)
LEMMA ReconcilingRecords ==
    ASSUME TypeOK, NEW a \in AllActors, Reconciling(a)
    PROVE  Recording(a)
<1>. USE DEF TypeOK, Recording, github, disk
<1>1. CASE RemoveRedundant(a)
  BY <1>1 DEF RemoveRedundant
<1>2. CASE DropRedundant(a)
  BY <1>2 DEF DropRedundant
<1>3. CASE StatPath(a)
  BY <1>3 DEF StatPath
<1>4. CASE ResetRow(a)
  BY <1>4, HalfDoneType DEF ResetRow, Rows
<1>. QED  BY <1>1, <1>2, <1>3, <1>4 DEF Reconciling

(* A step of a change of format writes no push time. *)
LEMMA SwitchingRecords ==
    ASSUME TypeOK, NEW a \in AllActors, Switching(a)
    PROVE  Recording(a)
<1>. USE DEF TypeOK, Recording, github, disk
<1>1. CASE SwBundleCreate(a)
  BY <1>1 DEF SwBundleCreate, Jobs
<1>2. CASE SwBundlePromote(a)
  BY <1>2 DEF SwBundlePromote
<1>3. CASE SwBundleRow(a)
  BY <1>3, HalfDoneType DEF SwBundleRow, SwRow, Rows
<1>4. CASE SwBundleDrop(a)
  BY <1>4, FinishSeen DEF SwBundleDrop, Rows
<1>5. CASE SwCloneDrop(a)
  BY <1>5 DEF SwCloneDrop
<1>6. CASE SwCloneBuild(a)
  BY <1>6 DEF SwCloneBuild, Jobs
<1>7. CASE SwClonePromote(a)
  BY <1>7 DEF SwClonePromote
<1>8. CASE SwCloneRow(a)
  BY <1>8, HalfDoneType DEF SwCloneRow, SwRow, Rows
<1>9. CASE SwCloneDropBundle(a)
  BY <1>9, FinishSeen DEF SwCloneDropBundle, Rows
<1>. QED  BY <1>1, <1>2, <1>3, <1>4, <1>5, <1>6, <1>7, <1>8, <1>9 DEF Switching

(* A step of a verification writes no push time. *)
LEMMA VerifyingRecords ==
    ASSUME TypeOK, NEW a \in AllActors, Verifying(a)
    PROVE  Recording(a)
<1>. USE DEF TypeOK, Recording, github, disk
<1>1. CASE VerifyCopy(a)
  BY <1>1, FinishSeen DEF VerifyCopy
<1>2. CASE RecordVerified(a)
  BY <1>2, FinishSeen, HalfDoneType DEF RecordVerified, Rows
<1>. QED  BY <1>1, <1>2 DEF Verifying

(* A step that only records keeps the order of the push times. *)
LEMMA RecordingBehind ==
    ASSUME TypeOK, WatermarkBehindSync, NEW a \in AllActors, Recording(a)
    PROVE  WatermarkBehindSync'
<1>1. row'.source <= row.lastPush
  BY DEF WatermarkBehindSync, Recording
<1>2. \A b \in AllActors : job'[b].seen <= row.lastPush
  BY DEF WatermarkBehindSync, Recording, TypeOK, Rows
<1>. QED  BY <1>1, <1>2 DEF WatermarkBehindSync, Recording

(* Starting an operation: what an actor takes of the row is what sync wrote. *)
LEMMA StartingBehind ==
    ASSUME TypeOK, WatermarkBehindSync, Starting
    PROVE  WatermarkBehindSync'
<1>. USE ActorsAssumption DEF TypeOK, github, disk
<1>0. \A a \in {"boot", "web", "verify", "purge"} : a \in AllActors
  BY DEF AllActors
<1>1. ASSUME NEW a \in AllActors, BeginReconcile(a)
      PROVE  Recording(a)
  BY <1>1 DEF BeginReconcile, Recording, Jobs
<1>2. CASE Boot
  BY <1>0, <1>1, <1>2, RecordingBehind DEF Boot
<1>3. CASE Booted
  BY <1>0, <1>3, FinishSeen, RecordingBehind DEF Booted, Recording
<1>4. CASE StartChecked
  BY <1>0, <1>4 DEF StartChecked, TakeRow, NoJob, WatermarkBehindSync, Rows
<1>5. CASE StartSwitch
  BY <1>0, <1>5, RecordingBehind DEF StartSwitch, Recording, Jobs
<1>6. CASE SetFormat
  BY <1>0, <1>6, RecordingBehind DEF SetFormat, Recording, Rows
<1>7. CASE StartVerify
  BY <1>0, <1>7, RecordingBehind DEF StartVerify, Recording, Jobs
<1>8. CASE StartPurge
  BY <1>0, <1>8, RecordingBehind DEF StartPurge, Recording
<1>9. CASE \E a \in Actors : StartBackup(a)
  BY <1>1, <1>9, RecordingBehind DEF StartBackup
<1>10. CASE TriggerBackup
  BY <1>0, <1>1, <1>10, RecordingBehind DEF TriggerBackup
<1>. QED  BY <1>2, <1>3, <1>4, <1>5, <1>6, <1>7, <1>8, <1>9, <1>10 DEF Starting

(* The handlers keep the order of the push times. *)
LEMMA HandlingBehind ==
    ASSUME TypeOK, WatermarkBehindSync, Handling
    PROVE  WatermarkBehindSync'
<1>. USE ActorsAssumption DEF TypeOK, github, disk
<1>0. "web" \in AllActors /\ "purge" \in AllActors
  BY DEF AllActors
<1>1. CASE Fallback
  BY <1>0, <1>1, FinishSeen, RecordingBehind DEF Fallback, Recording, Rows
<1>2. CASE PurgeFiles
  BY <1>0, <1>2, FinishSeen, RecordingBehind DEF PurgeFiles, Recording
<1>3. CASE PurgeRow
  BY <1>0, <1>3, FinishSeen, HalfDoneType, RecordingBehind DEF PurgeRow, Recording, Rows
<1>4. ASSUME NEW a \in Actors, ListRow(a)
      PROVE  WatermarkBehindSync'
  <2>1. CASE TakeRow(a)
    BY <1>4, <2>1 DEF ListRow, TakeRow, NoJob, WatermarkBehindSync, Rows
  <2>2. CASE Finish(a)
    BY <1>4, <2>2, FinishSeen, RecordingBehind DEF ListRow, Recording
  <2>. QED  BY <1>4, <2>1, <2>2 DEF ListRow
<1>. QED  BY <1>1, <1>2, <1>3, <1>4 DEF Handling

(* The surroundings: a push moves GitHub ahead of sync, and sync moves the row *)
(* ahead of what is recorded.                                                  *)
LEMMA SurroundingsBehind ==
    ASSUME TypeOK, WatermarkBehindSync, Surroundings
    PROVE  WatermarkBehindSync'
<1>. USE DEF TypeOK, github, disk
<1>1. CASE SyncRow
  BY <1>1 DEF SyncRow, WatermarkBehindSync, Rows, Jobs
<1>2. CASE ToggleBackup
  BY <1>2 DEF ToggleBackup, WatermarkBehindSync, Rows
<1>3. CASE Push
  BY <1>3 DEF Push, WatermarkBehindSync, Rows
<1>4. CASE Vanish
  BY <1>4 DEF Vanish, WatermarkBehindSync
<1>5. CASE LoseFiles
  BY <1>5 DEF LoseFiles, WatermarkBehindSync
<1>6. CASE Rot
  BY <1>6 DEF Rot, WatermarkBehindSync
<1>7. CASE Crash
  BY <1>7, HalfDoneType DEF Crash, NoJob, WatermarkBehindSync, Rows
<1>8. CASE PushTag
  BY <1>8 DEF PushTag, WatermarkBehindSync
<1>. QED  BY <1>1, <1>2, <1>3, <1>4, <1>5, <1>6, <1>7, <1>8 DEF Surroundings

(* source_pushed_at never runs ahead of what sync has seen, however the actors *)
(* overlap, whatever fails and whenever the process dies.                      *)
THEOREM WatermarkCorrect == Spec => []WatermarkBehindSync
<1>1. Init => WatermarkBehindSync
  BY DEF Init, WatermarkBehindSync, NoJob
<1>2. ASSUME TypeOK, WatermarkBehindSync, [Next]_vars
      PROVE  WatermarkBehindSync'
  <2>1. CASE UNCHANGED vars
    BY <1>2, <2>1 DEF WatermarkBehindSync, vars
  <2>2. ASSUME NEW a \in Actors, Engine(a)
        PROVE  WatermarkBehindSync'
    BY <1>2, <2>2, ActorsAssumption, RecordingBehind, CopyingRecords,
       ReconcilingRecords, SwitchingRecords, VerifyingRecords DEF Engine
  <2>. QED  BY <1>2, <2>1, <2>2, StartingBehind, HandlingBehind, SurroundingsBehind
            DEF Next
<1>. QED  BY <1>1, <1>2, TypeCorrect, PTL DEF Spec

-----------------------------------------------------------------------------
(* What the engine removes when the actors take turns: of two copies the older *)
(* one goes, and only once the newer one is in place.                          *)

(* No copy is ahead of GitHub, and a bundle that is whole is not empty. *)
Versions == /\ clone.ver <= head /\ bundle.ver <= head
            /\ \A a \in AllActors : job[a].tmp <= head
            /\ bundle.st = "ok" => bundle.ver > 0

(* One at a time, and Reconcile is the first. *)
Turns == /\ \A a, b \in AllActors : pc[a] # "idle" /\ pc[b] # "idle" => a = b
         /\ IF booted THEN pc["boot"] = "idle"
            ELSE \A a \in AllActors \ {"boot"} : pc[a] = "idle"

(* The bundle to come is that of the clone. *)
Source(a) == Whole(clone) /\ job[a].tmp = clone.ver

(* The bundle is that of the clone. *)
Replaced == Whole(bundle) /\ bundle.ver = clone.ver

(* What the next steps of an actor rely on. *)
Ready(a) ==
    /\ pc[a] = "promote"    => job[a].tmp > 0 /\ (job[a].reused => Source(a))
    /\ pc[a] = "mark"       => (job[a].reused => Replaced)
    /\ pc[a] = "sb_promote" => Source(a)
    /\ pc[a] \in {"cleanup", "sb_row", "sb_drop"} => Replaced
    /\ pc[a] = "sc_promote" => job[a].tmp > 0 /\ bundle.ver <= job[a].tmp
    /\ pc[a] \in {"sc_row", "sc_bundle"} => Whole(clone) /\ bundle.ver <= clone.ver
    /\ pc[a] = "sc_bundle"  => row.format = "clone"

RInv == TypeOK /\ Versions /\ Turns /\ \A a \in AllActors : Ready(a)

LEMMA IdleReady == ASSUME NEW a, pc[a] = "idle" PROVE Ready(a)
BY DEF Ready

LEMMA InitRInv == Init /\ TypeOK => RInv
<1> SUFFICES ASSUME Init, TypeOK PROVE RInv
  OBVIOUS
<1>1. Versions
  BY DEF Init, Versions, NoCopy, NoJob
<1>2. Turns
  BY DEF Init, Turns, AllActors
<1>3. \A a \in AllActors : Ready(a)
  BY IdleReady DEF Init
<1> QED
  BY <1>1, <1>2, <1>3 DEF RInv

(* A step of one actor while the others are idle. *)
Stepping(a) == /\ \A b \in AllActors \ {a} : pc'[b] = pc[b]
               /\ Ready(a)' /\ Versions'

LEMMA IdleReadyNext ==
    ASSUME NEW a, pc'[a] = "idle" PROVE Ready(a)'
BY DEF Ready

LEMMA SteppingKeeps ==
    ASSUME RInv, TypeOK', NEW a \in AllActors, Stepping(a), pc[a] # "idle",
           UNCHANGED booted
    PROVE  RInv'
<1>1. \A b \in AllActors \ {a} : pc[b] = "idle" /\ pc'[b] = "idle"
  BY DEF RInv, Turns, Stepping
<1>2. Turns'
  BY <1>1 DEF RInv, Turns, AllActors
<1>3. \A b \in AllActors : Ready(b)'
  BY <1>1, IdleReadyNext DEF Stepping
<1> QED
  BY <1>2, <1>3 DEF RInv, Stepping

-----------------------------------------------------------------------------
(* The steps of the engine.                                                    *)

LEMMA GotoSteps ==
    ASSUME TypeOK, NEW a \in AllActors, NEW l, Goto(a, l)
    PROVE  pc'[a] = l /\ \A b \in AllActors \ {a} : pc'[b] = pc[b]
BY DEF Goto, TypeOK

(* An actor that is done has nothing more to rely on. *)
LEMMA FinishSteps ==
    ASSUME TypeOK, NEW a \in AllActors, Finish(a)
    PROVE  /\ \A b \in AllActors \ {a} : pc'[b] = pc[b] /\ job'[b] = job[b]
           /\ pc'[a] = "idle" /\ Ready(a)' /\ job'[a].tmp = 0
BY IdleReadyNext DEF Finish, TypeOK, NoJob

LEMMA TornVersions ==
    ASSUME NEW c \in Copies, NEW d \in Torn(c) PROVE d.ver \in {0, c.ver}
BY DEF Torn, Dir, Copies

LEMMA MadeVersions ==
    /\ NoCopy.ver = 0 /\ NoCopy.st = "none"
    /\ \A s : Dir(s).ver = 0 /\ Dir(s).st = s
    /\ \A v, t : Complete(v, t).ver = v /\ Complete(v, t).st = "ok"
    /\ \A a : Scratch(a).ver = job[a].tmp /\ Scratch(a).st = "ok"
BY DEF NoCopy, Dir, Complete, Scratch

(* The numbers of a state. *)
LEMMA Numbers == ASSUME TypeOK
    PROVE  /\ head \in Nat /\ clone.ver \in Nat /\ bundle.ver \in Nat
           /\ clone \in Copies /\ bundle \in Copies
           /\ \A a \in AllActors : job[a].tmp \in Nat
BY DEF TypeOK, Copies, Jobs

(* A step that changes no copy and no count, and goes to a label where nothing *)
(* is relied on.                                                               *)
Plain == {"idle", "reconcile", "rec_drop", "rec_stat", "rec_reset", "list",
          "compare", "checked", "ensure", "cloning", "fetch", "clear",
          "refresh", "scratch", "build", "copied", "sb_create", "sc_drop",
          "sc_build", "fallback", "verify", "passed", "purge_files", "purge_row"}

LEMMA PlainReady == ASSUME NEW a, pc'[a] \in Plain PROVE Ready(a)'
BY DEF Plain, Ready

(* Going on with other copies, none of them ahead. *)
LEMMA CopiesVersions ==
    ASSUME TypeOK, Versions, UNCHANGED github, clone'.ver \in {0, clone.ver, head},
           UNCHANGED bundle, UNCHANGED job \/ \E a \in AllActors : Finish(a)
    PROVE  Versions'
<1>1. \A b \in AllActors : job'[b].tmp <= head
  BY Numbers, FinishSteps DEF Versions
<1> QED
  BY <1>1, Numbers DEF Versions, github

(* What a fetch leaves, whichever tags it brings. *)
LEMMA FetchSteps ==
    ASSUME TypeOK, NEW a \in AllActors, GitFetch(a)
    PROVE  /\ pc[a] = "fetch" /\ UNCHANGED <<github, row, bundle>>
           /\ \/ UNCHANGED clone /\ Finish(a)
              \/ /\ onGitHub /\ clone.st \in {"partial", "rotten", "ok"}
                 /\ clone'.ver = head
                 /\ clone'.st = IF clone.st = "rotten" THEN "rotten" ELSE "ok"
                 /\ Goto(a, AfterEnsure(a)) /\ UNCHANGED job
<1>0. pc[a] = "fetch" /\ UNCHANGED <<github, row, bundle>>
  BY DEF GitFetch
<1>1. CASE /\ onGitHub /\ clone.st \in {"partial", "ok"}
           /\ \E t \in Followed(clone) : clone' = Complete(head, t)
           /\ Goto(a, AfterEnsure(a)) /\ UNCHANGED job
  <2>1. clone'.ver = head /\ clone'.st = "ok"
    BY <1>1, MadeVersions
  <2> QED
    BY <1>0, <1>1, <2>1
<1>2. CASE /\ onGitHub /\ clone.st = "rotten"
           /\ \E t \in Followed(clone) : clone' = [clone EXCEPT !.ver = head, !.tag = t]
           /\ Goto(a, AfterEnsure(a)) /\ UNCHANGED job
  <2>1. clone'.ver = head /\ clone'.st = clone.st
    BY <1>2 DEF TypeOK, Copies
  <2> QED
    BY <1>0, <1>2, <2>1
<1>3. CASE Finish(a) /\ UNCHANGED clone
  BY <1>0, <1>3
<1> QED
  BY <1>1, <1>2, <1>3 DEF GitFetch

LEMMA CopyingSteps ==
    ASSUME RInv, NEW a \in AllActors, Copying(a)
    PROVE  Stepping(a) /\ pc[a] # "idle"
<1> USE Numbers DEF RInv, disk
<1>1. CASE Compare(a)
  BY <1>1, GotoSteps, PlainReady, CopiesVersions
  DEF Compare, Stepping, Plain, AfterCompare
<1>2. CASE RecordChecked(a)
  BY <1>2, FinishSteps, CopiesVersions DEF RecordChecked, Stepping
<1>3. CASE EnsureClone(a)
  BY <1>3, GotoSteps, FinishSteps, PlainReady, CopiesVersions, MadeVersions
  DEF EnsureClone, Stepping, Plain
<1>4. CASE GitClone(a)
  BY <1>4, GotoSteps, FinishSteps, PlainReady, CopiesVersions, MadeVersions
  DEF GitClone, Stepping, Plain, AfterEnsure
<1>5. CASE GitFetch(a)
  <2>1. clone'.ver \in {0, clone.ver, head}
    BY <1>5, FetchSteps
  <2> QED
    BY <1>5, <2>1, FetchSteps, GotoSteps, FinishSteps, PlainReady, CopiesVersions
    DEF Stepping, Plain, AfterEnsure
<1>6. CASE ClearVerified(a)
  BY <1>6, GotoSteps, PlainReady, CopiesVersions DEF ClearVerified, Stepping, Plain
<1>7. CASE RecordCopied(a)
  BY <1>7, FinishSteps, CopiesVersions DEF RecordCopied, Stepping
<1>8. CASE StartRefresh(a)
  <2>1. \A b \in AllActors : job'[b].tmp = job[b].tmp
    BY <1>8 DEF StartRefresh, TypeOK, Jobs
  <2>2. Versions'
    BY <1>8, <2>1 DEF StartRefresh, Versions, github
  <2> QED
    BY <1>8, <2>2, GotoSteps, PlainReady DEF StartRefresh, Stepping, Plain
<1>9. CASE ScratchClone(a)
  <2>1. CASE Finish(a)
    BY <1>9, <2>1, FinishSteps, CopiesVersions DEF ScratchClone, Stepping
  <2>2. CASE job' = [job EXCEPT ![a].tmp = head, ![a].tag = tag] /\ Goto(a, "build")
    <3>1. \A b \in AllActors : job'[b].tmp \in {job[b].tmp, head}
      BY <2>2 DEF TypeOK, Jobs
    <3>2. Versions'
      BY <1>9, <3>1 DEF ScratchClone, Versions, github
    <3> QED
      BY <1>9, <2>2, <3>2, GotoSteps, PlainReady DEF ScratchClone, Stepping, Plain
  <2> QED
    BY <1>9, <2>1, <2>2 DEF ScratchClone
<1>10. CASE BuildBundle(a)
  <2>1. CASE Finish(a)
    BY <1>10, <2>1, FinishSteps, CopiesVersions DEF BuildBundle, Stepping
  <2>2. CASE /\ Whole(BundleSource(a)) /\ Goto(a, "promote")
             /\ job' = [job EXCEPT ![a].tmp = BundleSource(a).ver,
                                   ![a].tag = BundleSource(a).tag]
    <3>1. /\ job'[a].tmp = BundleSource(a).ver /\ job'[a].reused = job[a].reused
          /\ \A b \in AllActors \ {a} : job'[b] = job[b]
      BY <2>2 DEF TypeOK, Jobs
    <3>2. BundleSource(a).ver \in {clone.ver, job[a].tmp} /\ BundleSource(a).ver > 0
      BY <2>2, MadeVersions DEF BundleSource, Whole
    <3>3. job[a].reused => Whole(clone) /\ BundleSource(a).ver = clone.ver
      BY <2>2 DEF BundleSource
    <3>4. Versions'
      BY <1>10, <3>1, <3>2 DEF BuildBundle, Versions, github
    <3>5. Ready(a)'
      BY <1>10, <2>2, <3>1, <3>2, <3>3, GotoSteps DEF BuildBundle, Ready, Source, Whole
    <3> QED
      BY <1>10, <2>2, <3>4, <3>5, GotoSteps DEF BuildBundle, Stepping
  <2> QED
    BY <1>10, <2>1, <2>2 DEF BuildBundle
<1>11. CASE PromoteBundle(a)
  <2>1. CASE Finish(a) /\ UNCHANGED bundle
    BY <1>11, <2>1, FinishSteps, CopiesVersions DEF PromoteBundle, Stepping
  <2>2. CASE bundle' = Scratch(a) /\ Goto(a, "mark") /\ UNCHANGED job
    <3>1. job[a].tmp > 0 /\ (job[a].reused => Source(a))
      BY <1>11 DEF PromoteBundle, Ready
    <3>2. Versions'
      BY <1>11, <2>2, <3>1, MadeVersions DEF PromoteBundle, Versions, github
    <3>3. Ready(a)'
      BY <1>11, <2>2, <3>1, GotoSteps, MadeVersions
      DEF PromoteBundle, Ready, Source, Replaced, Whole
    <3> QED
      BY <1>11, <2>2, <3>2, <3>3, GotoSteps DEF PromoteBundle, Stepping
  <2> QED
    BY <1>11, <2>1, <2>2 DEF PromoteBundle
<1>12. CASE MarkVerified(a)
  <2>1. Ready(a)'
    BY <1>12, GotoSteps DEF MarkVerified, Ready, Replaced, Whole
  <2> QED
    BY <1>12, <2>1, GotoSteps, CopiesVersions DEF MarkVerified, Stepping
<1>13. CASE Cleanup(a)
  <2>1. clone'.ver \in {0, clone.ver, head}
    BY <1>13, TornVersions, MadeVersions DEF Cleanup
  <2> QED
    BY <1>13, <2>1, GotoSteps, PlainReady, CopiesVersions DEF Cleanup, Stepping, Plain
<1> QED
  BY <1>1, <1>2, <1>3, <1>4, <1>5, <1>6, <1>7, <1>8, <1>9, <1>10, <1>11, <1>12, <1>13 DEF Copying

LEMMA ReconcilingSteps ==
    ASSUME RInv, NEW a \in AllActors, Reconciling(a)
    PROVE  Stepping(a) /\ pc[a] # "idle"
<1> USE Numbers DEF RInv, disk
<1>1. CASE RemoveRedundant(a)
  BY <1>1, GotoSteps, PlainReady, CopiesVersions DEF RemoveRedundant, Stepping, Plain
<1>2. CASE DropRedundant(a)
  <2>1. clone'.ver \in {0, clone.ver, head}
    BY <1>2, TornVersions, MadeVersions DEF DropRedundant
  <2> QED
    BY <1>2, <2>1, GotoSteps, PlainReady, CopiesVersions
    DEF DropRedundant, Stepping, Plain
<1>3. CASE StatPath(a)
  BY <1>3, GotoSteps, PlainReady, CopiesVersions DEF StatPath, Stepping, Plain
<1>4. CASE ResetRow(a)
  BY <1>4, GotoSteps, PlainReady, CopiesVersions DEF ResetRow, Stepping, Plain
<1> QED
  BY <1>1, <1>2, <1>3, <1>4 DEF Reconciling

LEMMA VerifyingSteps ==
    ASSUME RInv, NEW a \in AllActors, Verifying(a)
    PROVE  Stepping(a) /\ pc[a] # "idle"
<1> USE Numbers DEF RInv, disk
<1>1. CASE VerifyCopy(a)
  BY <1>1, GotoSteps, FinishSteps, PlainReady, CopiesVersions
  DEF VerifyCopy, Stepping, Plain
<1>2. CASE RecordVerified(a)
  BY <1>2, FinishSteps, CopiesVersions DEF RecordVerified, Stepping
<1> QED
  BY <1>1, <1>2 DEF Verifying

LEMMA SwitchingSteps ==
    ASSUME RInv, NEW a \in AllActors, Switching(a)
    PROVE  Stepping(a) /\ pc[a] # "idle"
<1> USE Numbers DEF RInv, disk
<1>1. CASE SwBundleCreate(a)
  <2>1. CASE Goto(a, "fallback") /\ UNCHANGED job
    BY <1>1, <2>1, GotoSteps, PlainReady, CopiesVersions
    DEF SwBundleCreate, Stepping, Plain
  <2>2. CASE /\ Whole(clone) /\ Goto(a, "sb_promote")
             /\ job' = [job EXCEPT ![a].tmp = clone.ver, ![a].tag = clone.tag]
    <3>1. /\ job'[a].tmp = clone.ver
          /\ \A b \in AllActors \ {a} : job'[b] = job[b]
      BY <2>2 DEF TypeOK, Jobs
    <3>2. Versions'
      BY <1>1, <3>1 DEF SwBundleCreate, Versions, github
    <3>3. Ready(a)'
      BY <1>1, <2>2, <3>1, GotoSteps DEF SwBundleCreate, Ready, Source, Whole
    <3> QED
      BY <1>1, <2>2, <3>2, <3>3, GotoSteps DEF SwBundleCreate, Stepping
  <2> QED
    BY <1>1, <2>1, <2>2 DEF SwBundleCreate
<1>2. CASE SwBundlePromote(a)
  <2>1. CASE Goto(a, "fallback") /\ UNCHANGED bundle
    BY <1>2, <2>1, GotoSteps, PlainReady, CopiesVersions
    DEF SwBundlePromote, Stepping, Plain
  <2>2. CASE bundle' = Scratch(a) /\ Goto(a, "sb_row")
    <3>1. Whole(clone) /\ job[a].tmp = clone.ver
      BY <1>2 DEF SwBundlePromote, Ready, Source
    <3>2. Versions'
      BY <1>2, <2>2, <3>1, MadeVersions DEF SwBundlePromote, Versions, github, Whole
    <3>3. Ready(a)'
      BY <1>2, <2>2, <3>1, GotoSteps, MadeVersions
      DEF SwBundlePromote, Ready, Replaced, Whole
    <3> QED
      BY <1>2, <2>2, <3>2, <3>3, GotoSteps DEF SwBundlePromote, Stepping
  <2> QED
    BY <1>2, <2>1, <2>2 DEF SwBundlePromote
<1>3. CASE SwBundleRow(a)
  <2>1. Replaced
    BY <1>3 DEF SwBundleRow, SwRow, Ready
  <2>2. CASE Goto(a, "sb_drop")
    <3>1. Ready(a)'
      BY <1>3, <2>1, <2>2, GotoSteps DEF SwBundleRow, SwRow, Ready, Replaced, Whole
    <3> QED
      BY <1>3, <2>2, <3>1, GotoSteps, CopiesVersions DEF SwBundleRow, SwRow, Stepping
  <2>3. CASE Goto(a, "fallback")
    BY <1>3, <2>3, GotoSteps, PlainReady, CopiesVersions
    DEF SwBundleRow, SwRow, Stepping, Plain
  <2> QED
    BY <1>3, <2>2, <2>3 DEF SwBundleRow, SwRow
<1>4. CASE SwBundleDrop(a)
  <2>1. clone'.ver \in {0, clone.ver, head}
    BY <1>4, TornVersions, MadeVersions DEF SwBundleDrop
  <2>2. CASE Finish(a)
    BY <1>4, <2>1, <2>2, FinishSteps, CopiesVersions DEF SwBundleDrop, Stepping
  <2>3. CASE Goto(a, "fallback") /\ UNCHANGED job
    BY <1>4, <2>1, <2>3, GotoSteps, PlainReady, CopiesVersions
    DEF SwBundleDrop, Stepping, Plain
  <2> QED
    BY <1>4, <2>2, <2>3 DEF SwBundleDrop
<1>5. CASE SwCloneDrop(a)
  <2>1. clone'.ver \in {0, clone.ver, head}
    BY <1>5, TornVersions, MadeVersions DEF SwCloneDrop
  <2> QED
    BY <1>5, <2>1, GotoSteps, PlainReady, CopiesVersions DEF SwCloneDrop, Stepping, Plain
<1>6. CASE SwCloneBuild(a)
  <2>1. CASE Goto(a, "fallback") /\ UNCHANGED job
    BY <1>6, <2>1, GotoSteps, PlainReady, CopiesVersions
    DEF SwCloneBuild, Stepping, Plain
  <2>2. CASE /\ bundle.st = "ok" /\ Goto(a, "sc_promote")
             /\ \E t \in Followed(bundle) : job' = [job EXCEPT ![a].tmp = head, ![a].tag = t]
    <3>1. /\ job'[a].tmp = head
          /\ \A b \in AllActors \ {a} : job'[b] = job[b]
      BY <2>2 DEF TypeOK, Jobs
    <3>2. head > 0 /\ bundle.ver <= head
      BY <2>2 DEF Versions
    <3>3. Versions'
      BY <1>6, <3>1 DEF SwCloneBuild, Versions, github
    <3>4. Ready(a)'
      BY <1>6, <2>2, <3>1, <3>2, GotoSteps DEF SwCloneBuild, Ready
    <3> QED
      BY <1>6, <2>2, <3>3, <3>4, GotoSteps DEF SwCloneBuild, Stepping
  <2> QED
    BY <1>6, <2>1, <2>2 DEF SwCloneBuild
<1>7. CASE SwClonePromote(a)
  <2>1. CASE Goto(a, "fallback") /\ UNCHANGED clone
    BY <1>7, <2>1, GotoSteps, PlainReady, CopiesVersions
    DEF SwClonePromote, Stepping, Plain
  <2>2. CASE clone' = Scratch(a) /\ Goto(a, "sc_row")
    <3>1. job[a].tmp > 0 /\ bundle.ver <= job[a].tmp
      BY <1>7 DEF SwClonePromote, Ready
    <3>2. Versions'
      BY <1>7, <2>2, MadeVersions DEF SwClonePromote, Versions, github
    <3>3. Ready(a)'
      BY <1>7, <2>2, <3>1, GotoSteps, MadeVersions DEF SwClonePromote, Ready, Whole
    <3> QED
      BY <1>7, <2>2, <3>2, <3>3, GotoSteps DEF SwClonePromote, Stepping
  <2> QED
    BY <1>7, <2>1, <2>2 DEF SwClonePromote
<1>8. CASE SwCloneRow(a)
  <2>1. Whole(clone) /\ bundle.ver <= clone.ver
    BY <1>8 DEF SwCloneRow, SwRow, Ready
  <2>2. CASE Goto(a, "sc_bundle") /\ row' = [row EXCEPT !.format = "clone", !.verified = FALSE]
    <3>1. row'.format = "clone"
      BY <2>2 DEF TypeOK, Rows
    <3>2. Ready(a)'
      BY <1>8, <2>1, <2>2, <3>1, GotoSteps DEF SwCloneRow, SwRow, Ready, Whole
    <3> QED
      BY <1>8, <2>2, <3>2, GotoSteps, CopiesVersions DEF SwCloneRow, SwRow, Stepping
  <2>3. CASE Goto(a, "fallback")
    BY <1>8, <2>3, GotoSteps, PlainReady, CopiesVersions
    DEF SwCloneRow, SwRow, Stepping, Plain
  <2> QED
    BY <1>8, <2>2, <2>3 DEF SwCloneRow, SwRow
<1>9. CASE SwCloneDropBundle(a)
  <2>1. CASE Finish(a) /\ bundle' = NoCopy
    <3>1. \A b \in AllActors : job'[b].tmp <= head
      BY <2>1, FinishSteps DEF Versions
    <3>2. Versions'
      BY <1>9, <2>1, <3>1, MadeVersions DEF SwCloneDropBundle, Versions, github
    <3> QED
      BY <1>9, <2>1, <3>2, FinishSteps DEF SwCloneDropBundle, Stepping
  <2>2. CASE Goto(a, "fallback") /\ UNCHANGED <<bundle, row, job>>
    BY <1>9, <2>2, GotoSteps, PlainReady, CopiesVersions
    DEF SwCloneDropBundle, Stepping, Plain
  <2> QED
    BY <1>9, <2>1, <2>2 DEF SwCloneDropBundle
<1> QED
  BY <1>1, <1>2, <1>3, <1>4, <1>5, <1>6, <1>7, <1>8, <1>9 DEF Switching

LEMMA EngineKeeps == ASSUME RInv, NEW a \in AllActors, Engine(a) PROVE RInv'
<1>1. TypeOK'
  BY EngineType DEF RInv
<1>2. Stepping(a) /\ pc[a] # "idle" /\ UNCHANGED booted
  BY CopyingSteps, ReconcilingSteps, VerifyingSteps, SwitchingSteps DEF Engine
<1> QED
  BY <1>1, <1>2, SteppingKeeps

-----------------------------------------------------------------------------
(* The others.                                                                 *)

(* Who may start finds everyone idle, and boot over. *)
LEMMA CanStartQuiet ==
    ASSUME Overlap = {}, NEW a, CanStart(a) PROVE Quiet /\ booted
<1>1. booted /\ \A b \in AllActors : pc[b] = "idle"
  BY Zenon DEF CanStart
<1> QED
  BY <1>1, Zenon DEF Quiet

(* One starts, and nothing else happens. *)
LEMMA StartKeeps ==
    ASSUME RInv, TypeOK', Quiet, NEW a \in AllActors, IF a = "boot" THEN ~booted ELSE booted,
           \A b \in AllActors \ {a} : pc'[b] = pc[b], pc'[a] \in Plain,
           \A b \in AllActors : job'[b].tmp \in {job[b].tmp, 0},
           UNCHANGED <<github, disk, booted>>
    PROVE  RInv'
<1>1. Turns'
  BY DEF Quiet, Turns, AllActors
<1>2. Versions'
  BY Numbers DEF RInv, Versions, github, disk
<1>3. \A b \in AllActors : Ready(b)'
  BY PlainReady, IdleReadyNext DEF Quiet
<1> QED
  BY <1>1, <1>2, <1>3 DEF RInv

LEMMA BeginSteps ==
    ASSUME TypeOK, NEW a \in AllActors, BeginReconcile(a)
    PROVE  /\ \A b \in AllActors \ {a} : pc'[b] = pc[b]
           /\ pc'[a] \in Plain
           /\ \A b \in AllActors : job'[b].tmp = job[b].tmp
           /\ UNCHANGED <<github, disk, booted>>
<1>1. \A b \in AllActors : job'[b].tmp = job[b].tmp
  BY DEF BeginReconcile, TypeOK, Jobs
<1> QED
  BY <1>1, GotoSteps DEF BeginReconcile, Plain

LEMMA TakeRowSteps ==
    ASSUME TypeOK, NEW a \in AllActors, TakeRow(a)
    PROVE  \A b \in AllActors : job'[b].tmp \in {job[b].tmp, 0}
BY DEF TakeRow, NoJob, TypeOK

LEMMA StartingKeeps == ASSUME Overlap = {}, RInv, Starting PROVE RInv'
<1>0. TypeOK' /\ Actors \subseteq AllActors
      /\ \A a \in {"boot", "web", "verify", "purge"} : a \in AllActors
  BY StartingType, ActorsAssumption DEF RInv, AllActors
<1>1. CASE Boot
  <2>1. Quiet /\ ~booted
    BY <1>1 DEF Boot, Quiet, RInv, Turns
  <2> QED
    BY <1>0, <1>1, <2>1, BeginSteps, StartKeeps DEF Boot, RInv
<1>2. CASE Booted
  <2>1. ~booted
    BY <1>0, <1>2 DEF Booted, RInv, Turns
  <2>2. \A b \in AllActors : pc'[b] = "idle"
    BY <1>0, <1>2, <2>1, FinishSteps DEF Booted, RInv, Turns
  <2>3. \A b \in AllActors : Ready(b)'
    BY <2>2, IdleReadyNext
  <2>4. Turns'
    BY <1>0, <2>2 DEF Turns
  <2>5. \A b \in AllActors : job'[b].tmp \in {job[b].tmp, 0}
    BY <1>0, <1>2, FinishSteps DEF Booted, RInv
  <2>6. Versions'
    BY <1>2, <2>5, Numbers DEF Booted, RInv, Versions, github, disk
  <2> QED
    BY <1>0, <2>3, <2>4, <2>6 DEF RInv
<1>3. CASE TriggerBackup
  <2>1. Quiet /\ booted
    BY <1>3, CanStartQuiet DEF TriggerBackup
  <2> QED
    BY <1>0, <1>3, <2>1, BeginSteps, StartKeeps DEF TriggerBackup, RInv
<1>4. CASE StartChecked
  <2>1. Quiet /\ booted
    BY <1>4, CanStartQuiet DEF StartChecked
  <2> QED
    BY <1>0, <1>4, <2>1, GotoSteps, TakeRowSteps, StartKeeps
    DEF StartChecked, RInv, Plain
<1>5. CASE StartSwitch
  <2>1. Quiet /\ booted
    BY <1>5, CanStartQuiet DEF StartSwitch
  <2>2. \A b \in AllActors : job'[b].tmp = job[b].tmp
    BY <1>5 DEF StartSwitch, RInv, TypeOK, Jobs
  <2>3. /\ \A b \in AllActors \ {"web"} : pc'[b] = pc[b]
        /\ pc'["web"] \in Plain
    BY <1>0, <1>5, GotoSteps DEF StartSwitch, RInv, Plain
  <2> QED
    BY <1>0, <1>5, <2>1, <2>2, <2>3, StartKeeps DEF StartSwitch
<1>6. CASE SetFormat
  <2>1. Quiet /\ booted
    BY <1>6, CanStartQuiet DEF SetFormat
  <2> QED
    BY <1>0, <1>6, <2>1, StartKeeps DEF SetFormat, Quiet, Plain
<1>7. CASE StartVerify
  <2>1. Quiet /\ booted
    BY <1>7, CanStartQuiet DEF StartVerify
  <2>2. \A b \in AllActors : job'[b].tmp = job[b].tmp
    BY <1>7 DEF StartVerify, RInv, TypeOK, Jobs
  <2> QED
    BY <1>0, <1>7, <2>1, <2>2, GotoSteps, StartKeeps DEF StartVerify, RInv, Plain
<1>8. CASE StartPurge
  <2>1. Quiet /\ booted
    BY <1>8, CanStartQuiet DEF StartPurge
  <2> QED
    BY <1>0, <1>8, <2>1, GotoSteps, StartKeeps DEF StartPurge, RInv, Plain
<1>9. ASSUME NEW a \in Actors, StartBackup(a) PROVE RInv'
  <2>1. Quiet /\ booted /\ a # "boot"
    BY <1>9, CanStartQuiet DEF StartBackup
  <2> QED
    BY <1>0, <1>9, <2>1, BeginSteps, StartKeeps DEF StartBackup, RInv
<1> QED
  BY <1>1, <1>2, <1>3, <1>4, <1>5, <1>6, <1>7, <1>8, <1>9 DEF Starting

(* A handler goes on, or is done. *)
LEMMA HandlerSteps ==
    ASSUME RInv, NEW a \in AllActors, pc[a] # "idle",
           \A b \in AllActors \ {a} : pc'[b] = pc[b], pc'[a] \in Plain,
           \A b \in AllActors : job'[b].tmp \in {job[b].tmp, 0},
           clone'.ver \in {0, clone.ver}, bundle' \in {NoCopy, bundle},
           UNCHANGED <<github, booted>>, TypeOK'
    PROVE  RInv'
<1>1. Versions'
  BY Numbers, MadeVersions DEF RInv, Versions, github
<1>2. Ready(a)'
  BY PlainReady
<1> QED
  BY <1>1, <1>2, SteppingKeeps DEF Stepping

LEMMA HandlingKeeps == ASSUME RInv, Handling PROVE RInv'
<1>0. TypeOK' /\ Actors \subseteq AllActors /\ "web" \in AllActors /\ "purge" \in AllActors
  BY HandlingType, ActorsAssumption DEF RInv, AllActors
<1>1. ASSUME NEW a \in AllActors, Finish(a)
      PROVE  /\ \A b \in AllActors \ {a} : pc'[b] = pc[b]
             /\ pc'[a] \in Plain
             /\ \A b \in AllActors : job'[b].tmp \in {job[b].tmp, 0}
  BY <1>1, FinishSteps DEF RInv, Plain
<1>2. CASE Fallback
  BY <1>0, <1>1, <1>2, HandlerSteps DEF Fallback, disk
<1>3. CASE PurgeFiles
  <2>1. clone'.ver \in {0, clone.ver} /\ bundle' \in {NoCopy, bundle}
    BY <1>3, TornVersions, MadeVersions, Numbers DEF PurgeFiles, RInv
  <2>2. /\ \A b \in AllActors \ {"purge"} : pc'[b] = pc[b]
        /\ pc'["purge"] \in Plain
        /\ \A b \in AllActors : job'[b].tmp \in {job[b].tmp, 0}
    BY <1>0, <1>1, <1>3, GotoSteps DEF PurgeFiles, RInv, Plain
  <2> QED
    BY <1>0, <1>3, <2>1, <2>2, HandlerSteps DEF PurgeFiles
<1>4. CASE PurgeRow
  BY <1>0, <1>1, <1>4, HandlerSteps DEF PurgeRow, disk
<1>5. ASSUME NEW a \in Actors, ListRow(a) PROVE RInv'
  <2>1. /\ \A b \in AllActors \ {a} : pc'[b] = pc[b]
        /\ pc'[a] \in Plain
        /\ \A b \in AllActors : job'[b].tmp \in {job[b].tmp, 0}
    BY <1>0, <1>1, <1>5, GotoSteps, TakeRowSteps DEF ListRow, RInv, Plain
  <2> QED
    BY <1>0, <1>5, <2>1, HandlerSteps DEF ListRow, disk
<1> QED
  BY <1>2, <1>3, <1>4, <1>5 DEF Handling

(* The world goes on, and touches no file. *)
LEMMA WorldKeeps ==
    ASSUME RInv, TypeOK', UNCHANGED <<disk, pc, job, booted>>, head <= head',
           row'.format = row.format
    PROVE  RInv'
<1>1. Versions'
  <2>1. head \in Nat /\ head' \in Nat /\ clone.ver \in Nat /\ bundle.ver \in Nat
        /\ \A a \in AllActors : job[a].tmp \in Nat
    BY Numbers DEF RInv, TypeOK
  <2> QED
    BY <2>1 DEF RInv, Versions, disk
<1>2. Turns'
  BY DEF RInv, Turns
<1>3. \A a \in AllActors : Ready(a)'
  BY DEF RInv, Ready, Source, Replaced, Whole, disk
<1> QED
  BY <1>1, <1>2, <1>3 DEF RInv

(* Nobody is at work when a file is lost or damaged. *)
LEMMA QuietKeeps ==
    ASSUME RInv, TypeOK', Quiet, UNCHANGED <<github, pc, job, booted>>,
           clone'.ver \in {0, clone.ver}, bundle'.ver \in {0, bundle.ver},
           bundle'.st = "ok" => bundle' = bundle
    PROVE  RInv'
<1>1. Versions'
  BY Numbers DEF RInv, Versions, github
<1>2. Turns'
  BY DEF RInv, Turns
<1>3. \A a \in AllActors : Ready(a)'
  BY IdleReadyNext DEF Quiet
<1> QED
  BY <1>1, <1>2, <1>3 DEF RInv

LEMMA SurroundingsKeep == ASSUME RInv, Surroundings PROVE RInv'
<1>0. TypeOK'
  BY SurroundingsType DEF RInv
<1> USE Numbers DEF RInv
<1>1. CASE SyncRow
  <2>1. row'.format = row.format
    BY <1>1 DEF SyncRow, TypeOK, Rows
  <2> QED
    BY <1>0, <1>1, <2>1, WorldKeeps DEF SyncRow, github
<1>2. CASE ToggleBackup
  <2>1. row'.format = row.format
    BY <1>2 DEF ToggleBackup, TypeOK, Rows
  <2> QED
    BY <1>0, <1>2, <2>1, WorldKeeps DEF ToggleBackup, github
<1>3. CASE Push
  BY <1>0, <1>3, WorldKeeps DEF Push
<1>4. CASE Vanish
  BY <1>0, <1>4, WorldKeeps DEF Vanish
<1>5. CASE LoseFiles
  BY <1>0, <1>5, QuietKeeps, MadeVersions DEF LoseFiles
<1>6. CASE Rot
  <2>1. /\ clone'.ver \in {0, clone.ver} /\ bundle'.ver \in {0, bundle.ver}
        /\ bundle'.st = "ok" => bundle' = bundle
    BY <1>6 DEF Rot, Copies
  <2> QED
    BY <1>0, <1>6, <2>1, QuietKeeps DEF Rot
<1>7. CASE Crash
  <2>1. \A a \in AllActors : pc'[a] = "idle" /\ job'[a].tmp = 0
    BY <1>7 DEF Crash, NoJob
  <2>2. clone'.ver \in {0, clone.ver}
    BY <1>7, TornVersions, MadeVersions DEF Crash
  <2>3. Versions'
    BY <1>7, <2>1, <2>2 DEF Crash, Versions, github
  <2>4. Turns'
    BY <2>1 DEF Turns, AllActors
  <2>5. \A a \in AllActors : Ready(a)'
    BY <2>1, IdleReadyNext
  <2> QED
    BY <1>0, <2>3, <2>4, <2>5
<1>8. CASE PushTag
  BY <1>0, <1>8, WorldKeeps DEF PushTag
<1> QED
  BY <1>1, <1>2, <1>3, <1>4, <1>5, <1>6, <1>7, <1>8 DEF Surroundings

-----------------------------------------------------------------------------
(* The theorem.                                                                *)

LEMMA TurnByTurn == ASSUME Overlap = {} PROVE Spec => []RInv
<1>1. Init /\ TypeOK => RInv
  BY InitRInv
<1>2. RInv /\ [Next]_vars => RInv'
  <2>1. ASSUME RInv, UNCHANGED vars PROVE RInv'
    <3>1. TypeOK'
      BY <2>1, NextType DEF RInv
    <3>2. head \in Nat
      BY <2>1, Numbers DEF RInv
    <3> QED
      BY <2>1, <3>1, <3>2, WorldKeeps DEF vars, disk
  <2>2. ASSUME RInv, NEW a \in Actors, Engine(a) PROVE RInv'
    BY <2>2, EngineKeeps, ActorsAssumption
  <2> QED
    BY <2>1, <2>2, StartingKeeps, HandlingKeeps, SurroundingsKeep DEF Next
<1> QED
  BY <1>1, <1>2, TypeCorrect, PTL DEF Spec

(* When the actors take turns, a refresh or a switch to bundle removes a clone *)
(* only when the bundle that was made of it is in place, whatever fails.       *)
THEOREM CloneAlwaysRetired == ASSUME Overlap = {} PROVE Spec => CloneRetired
<1>1. RInv /\ [Next]_vars =>
        [\A a \in AllActors :
           pc[a] \in {"cleanup", "sb_drop"} /\ clone' # clone
              => Whole(bundle) /\ bundle.ver >= clone.ver]_vars
  BY Numbers DEF RInv, Ready, Replaced
<1> QED
  BY <1>1, TurnByTurn, PTL DEF Spec, CloneRetired

=============================================================================
