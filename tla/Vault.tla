-------------------------------- MODULE Vault --------------------------------
(* Who calls the backup engine for a repository, and what happens around it.   *)
(*                                                                             *)
(*  "boot"          Reconcile, before the scheduler and the server start       *)
(*  "backup"        the nightly cron job, which trusts pushed_at               *)
(*  "backup_sweep"  the weekly cron job, which compares refs                   *)
(*  "verify"        the monthly verification job                               *)
(*  "web"           the handlers that take the server's backupGuard: a backup  *)
(*                  of everything, of chosen repositories, a change of format  *)
(*  "purge"         the handler that removes the copy of a deleted repository  *)
(*                                                                             *)
(* A cron job does not run twice at a time (its entry in the running map) and  *)
(* backupGuard serialises the web handlers, but nothing excludes one actor     *)
(* from another: Overlap says which of them the model lets meet, and the others *)
(* happen to take turns.                                                       *)
(*                                                                             *)
(* A sync touches this repository's row in one step; the loop over all         *)
(* repositories, and renames, are not part of this module.                     *)
EXTENDS BackupEngine

CONSTANT
    Overlap     \* the actors that may be at work at the same time

ASSUME OverlapAssumption == Overlap \subseteq AllActors
ASSUME BootAssumption    == "boot" \in Actors

VARIABLE
    booted      \* the boot sequence has reached the scheduler and the server

vars == <<head, pushedAt, tag, onGitHub, row, clone, bundle, pc, job, booted>>

Quiet == \A b \in AllActors : pc[b] = "idle"

CanStart(a) == /\ a \in Actors /\ pc[a] = "idle" /\ booted
               /\ \A b \in AllActors : pc[b] # "idle" => {a, b} \subseteq Overlap

-----------------------------------------------------------------------------
(* Starting an operation.                                                      *)

(* Mutation: both dates are asked for. *)
Claims_Both == row.last /\ row.verified

(* A row claims a copy by either of its dates. *)
Claims == row.last \/ row.verified

(* Reconcile reads every row first. *)
BeginReconcile(a) ==
    /\ \/ /\ job' = [job EXCEPT ![a].fmt = row.format,
                                ![a].claims = Claims]
          /\ Goto(a, "reconcile")
       \/ Fails /\ Goto(a, "list") /\ UNCHANGED job
    /\ UNCHANGED <<github, row, disk, booted>>

Boot == /\ pc["boot"] = "idle" /\ ~booted
        /\ BeginReconcile("boot")

Booted == /\ pc["boot"] = "list"
          /\ Finish("boot")
          /\ booted' = TRUE
          /\ UNCHANGED <<github, row, disk>>

(* The two backup jobs of cron. *)
StartBackup(a) == /\ a \in {"backup", "backup_sweep"}
                  /\ CanStart(a)
                  /\ BeginReconcile(a)

(* The handler that backs up everything. *)
TriggerBackup == CanStart("web") /\ BeginReconcile("web")

(* What Backup is given of the row. *)
TakeRow(a) == job' = [job EXCEPT ![a] = [NoJob EXCEPT !.fmt  = row.format,
                                                      !.seen = row.lastPush,
                                                      !.src  = row.source]]

ListRow(a) ==
    /\ a # "boot" /\ pc[a] = "list"
    /\ \/ row.enabled /\ ~row.deleted /\ TakeRow(a) /\ Goto(a, "compare")
       \/ (~row.enabled \/ row.deleted \/ Fails) /\ Finish(a)
    /\ UNCHANGED <<github, row, disk, booted>>

(* The handler that backs up the chosen repositories reads the row under the   *)
(* guard, and reconciles nothing.                                              *)
StartChecked ==
    /\ CanStart("web") /\ row.enabled /\ ~row.deleted
    /\ TakeRow("web") /\ Goto("web", "compare")
    /\ UNCHANGED <<github, row, disk, booted>>

(* Mutation: the form's value is written unread. *)
Other_Unread(fmt) == IF fmt = "clone" THEN "bundle" ELSE ""

Other(fmt) == IF fmt = "clone" THEN "bundle" ELSE "clone"

(* handleBulkSetFormat converts the copy the row claims... *)
StartSwitch ==
    /\ CanStart("web") /\ ~row.deleted /\ row.last
    /\ job' = [job EXCEPT !["web"].fmt = Other(row.format)]
    /\ Goto("web", IF row.format = "clone" THEN "sb_create" ELSE "sc_drop")
    /\ UNCHANGED <<github, row, disk, booted>>

(* ... and writes the format alone when it claims none. *)
SetFormat ==
    /\ CanStart("web") /\ ~row.deleted /\ ~row.last
    /\ row' = [row EXCEPT !.format = Other(@)]
    /\ UNCHANGED <<github, disk, pc, job, booted>>

(* After a conversion that failed the format is written all the same. *)
Fallback ==
    /\ pc["web"] = "fallback"
    /\ \/ row' = [row EXCEPT !.format = job["web"].fmt]
       \/ Fails /\ UNCHANGED row
    /\ Finish("web")
    /\ UNCHANGED <<github, disk, booted>>

StartVerify ==
    /\ CanStart("verify") /\ ~row.deleted
    /\ job' = [job EXCEPT !["verify"].fmt = row.format]
    /\ Goto("verify", "verify")
    /\ UNCHANGED <<github, row, disk, booted>>

(* Purging is refused while GitHub still has the repository, as far as the row *)
(* tells.                                                                      *)
StartPurge ==
    /\ CanStart("purge") /\ row.deleted
    /\ Goto("purge", "purge_files")
    /\ UNCHANGED <<github, row, disk, job, booted>>

PurgeFiles ==
    /\ pc["purge"] = "purge_files"
    /\ \/ clone' = NoCopy /\ bundle' = NoCopy /\ Goto("purge", "purge_row") /\ UNCHANGED job
       \/ /\ Fails
          /\ clone' \in {NoCopy} \cup Torn(clone) /\ bundle' \in {NoCopy, bundle}
          /\ Finish("purge")
    /\ UNCHANGED <<github, row, booted>>

PurgeRow ==
    /\ pc["purge"] = "purge_row"
    /\ \/ row' = [row EXCEPT !.enabled = FALSE, !.last = FALSE]
       \/ Fails /\ row' \in HalfDone("purge") \cup {[row EXCEPT !.last = FALSE]}
    /\ Finish("purge")
    /\ UNCHANGED <<github, disk, booted>>

-----------------------------------------------------------------------------
(* The surroundings.                                                           *)

(* A sync reads what GitHub lists and writes it to the row.  A row brought     *)
(* back from the deleted gets nothing else in that sync, unless bringing it    *)
(* back failed.                                                                *)
SyncRow ==
    /\ booted
    /\ \/ onGitHub /\ row.deleted /\ row' = [row EXCEPT !.deleted = FALSE]
       \/ onGitHub /\ (~row.deleted \/ Fails) /\ row' = [row EXCEPT !.lastPush = pushedAt]
       \/ ~onGitHub /\ row' = [row EXCEPT !.deleted = TRUE]
    /\ UNCHANGED <<github, disk, pc, job, booted>>

ToggleBackup ==
    /\ booted
    /\ row' = [row EXCEPT !.enabled = ~@]
    /\ UNCHANGED <<github, disk, pc, job, booted>>

(* A change that a fetch brings: of a branch, or a new tag on one, which       *)
(* pushed_at does not show.                                                    *)
Push ==
    /\ onGitHub /\ head + tag < MaxPush
    /\ head' = head + 1
    /\ pushedAt' \in {pushedAt, head + 1}
    /\ UNCHANGED <<tag, onGitHub, row, disk, pc, job, booted>>

(* A tag moves, or one is made off every branch: pushed_at does not show it. *)
PushTag ==
    /\ onGitHub /\ head > 0 /\ head + tag < MaxPush
    /\ tag' = tag + 1
    /\ UNCHANGED <<head, pushedAt, onGitHub, row, disk, pc, job, booted>>

(* The repository is deleted or hidden from the token, and comes back. *)
Vanish ==
    /\ "vanish" \in Env
    /\ onGitHub' = ~onGitHub
    /\ UNCHANGED <<head, pushedAt, tag, row, disk, pc, job, booted>>

(* The operator, or the disk, takes a path away. *)
LoseFiles ==
    /\ "lose" \in Env /\ Quiet
    /\ \/ clone' = NoCopy /\ UNCHANGED bundle
       \/ bundle' = NoCopy /\ UNCHANGED clone
    /\ UNCHANGED <<github, row, pc, job, booted>>

(* The disk damages a copy. *)
Rot ==
    /\ "rot" \in Env /\ Quiet
    /\ \/ Whole(clone) /\ clone' = [clone EXCEPT !.st = "rotten"] /\ UNCHANGED bundle
       \/ Whole(bundle) /\ bundle' = [bundle EXCEPT !.st = "rotten"] /\ UNCHANGED clone
    /\ UNCHANGED <<github, row, pc, job, booted>>

(* The process dies.  A removal, or a pair of writes, it was busy with stays    *)
(* half done; the rest of the files and of the row is kept, and local variables *)
(* are gone.                                                                    *)
RemovesClone == {"rec_drop", "cleanup", "sb_drop", "sc_drop", "purge_files"}

Crash ==
    /\ pc' = [a \in AllActors |-> "idle"] /\ job' = [a \in AllActors |-> NoJob]
    /\ booted' = FALSE
    /\ clone' \in IF \E a \in AllActors : pc[a] \in RemovesClone
                  THEN {NoCopy} \cup Torn(clone) ELSE {clone}
    /\ row' \in UNION {HalfDone(a) : a \in AllActors}
    /\ UNCHANGED <<github, bundle>>

-----------------------------------------------------------------------------
(* The whole system.                                                           *)

(* A repository that a sync has added and no backup has copied yet; the format *)
(* can be chosen before the first copy is made.                                *)
Init ==
    /\ head = 0 /\ pushedAt = 0 /\ tag = 0 /\ onGitHub = TRUE
    /\ row \in [format : Formats, last : {FALSE}, verified : {FALSE}, source : {0},
                lastPush : {0}, enabled : {TRUE}, deleted : {FALSE}]
    /\ clone = NoCopy /\ bundle = NoCopy
    /\ pc = [a \in AllActors |-> "idle"]
    /\ job = [a \in AllActors |-> NoJob]
    /\ booted = FALSE

Copying(a) ==
    \/ Compare(a) \/ RecordChecked(a) \/ EnsureClone(a) \/ GitClone(a)
    \/ GitFetch(a) \/ ClearVerified(a) \/ RecordCopied(a)
    \/ StartRefresh(a) \/ ScratchClone(a) \/ BuildBundle(a)
    \/ PromoteBundle(a) \/ MarkVerified(a) \/ Cleanup(a)

Reconciling(a) ==
    RemoveRedundant(a) \/ DropRedundant(a) \/ StatPath(a) \/ ResetRow(a)

Switching(a) ==
    \/ SwBundleCreate(a) \/ SwBundlePromote(a) \/ SwBundleRow(a) \/ SwBundleDrop(a)
    \/ SwCloneDrop(a) \/ SwCloneBuild(a) \/ SwClonePromote(a) \/ SwCloneRow(a)
    \/ SwCloneDropBundle(a)

Verifying(a) == VerifyCopy(a) \/ RecordVerified(a)

Engine(a) == /\ Copying(a) \/ Reconciling(a) \/ Switching(a) \/ Verifying(a)
             /\ UNCHANGED booted

Starting ==
    \/ Boot \/ Booted \/ TriggerBackup \/ StartChecked \/ StartSwitch \/ SetFormat \/ StartVerify
    \/ StartPurge
    \/ \E a \in Actors : StartBackup(a)

Handling == \/ Fallback \/ PurgeFiles \/ PurgeRow
            \/ \E a \in Actors : ListRow(a)

Surroundings == \/ SyncRow \/ ToggleBackup \/ Push \/ PushTag \/ Vanish \/ LoseFiles \/ Rot
                \/ Crash

Next == Starting \/ Handling \/ Surroundings \/ \E a \in Actors : Engine(a)

Spec == Init /\ [][Next]_vars

(* An actor that is at work goes on, and cron starts the weekly sweep again    *)
(* and again: strongly fair, because others keep it waiting while they work.   *)
Working(a) == Engine(a) \/ ListRow(a) \/ (a = "boot" /\ Booted)
                        \/ (a = "web" /\ Fallback)

Fairness == /\ WF_vars(Boot)
            /\ \A a \in Actors : WF_vars(Working(a))
            /\ WF_vars(SyncRow)
            /\ SF_vars(StartBackup("backup_sweep"))

FairSpec == Spec /\ Fairness

-----------------------------------------------------------------------------
(* Properties.                                                                 *)

(* The types of the state. *)
TypeOK ==
    /\ head \in Nat /\ pushedAt \in Nat /\ tag \in Nat /\ onGitHub \in BOOLEAN
    /\ row \in Rows /\ clone \in Copies /\ bundle \in Copies
    /\ pc \in [AllActors -> Labels] /\ job \in [AllActors -> Jobs]
    /\ booted \in BOOLEAN

HasCopy == Whole(clone) \/ Whole(bundle)

(* The versions of which there is a complete copy. *)
Held == {c.ver : c \in {c \in {clone, bundle} : Whole(c)}}

Promise == INSTANCE Archive
               WITH told <- row.lastPush, held <- Held, recorded <- row.source

(* source_pushed_at never runs ahead: not of what sync has seen, which is not  *)
(* ahead of GitHub, and no operation under way is about to write more than     *)
(* that.  Were it ahead, the nightly job would skip a repository that changed. *)
WatermarkBehindSync ==
    /\ row.source <= row.lastPush
    /\ row.lastPush <= pushedAt
    /\ pushedAt <= head
    /\ \A a \in AllActors : job[a].seen <= row.lastPush

(* Whatever lies at the path the row names and would be taken for a copy holds *)
(* every push that source_pushed_at says it represents: recordCopied and       *)
(* recordChecked write no more than was there when the remote was read.        *)
WatermarkSound ==
    CopyUsable(PathOf(row.format)) => PathOf(row.format).ver >= row.source

(* A backup that is about to report "already current" has, at the path it      *)
(* looked at, every push sync knew of when it read the row.  copyUsable        *)
(* promises as much of a leftover from a crash.                                *)
SkipSound ==
    \A a \in AllActors :
        pc[a] = "checked" => PathOf(job[a].fmt).ver >= job[a].seen

(* As long as source_pushed_at says that a push was copied, some complete copy *)
(* on disk holds it, through every conversion, refresh and crash.              *)
RecordedHeld ==
    row.source > 0 =>
        \E c \in {clone, bundle} : Whole(c) /\ c.ver >= row.source

(* When Reconcile is over, no row dates a copy at a path where nothing is. *)
ReconcileTruthful ==
    \A a \in AllActors :
        pc[a] = "list" /\ PathOf(row.format).st = "none" => ~row.last /\ ~row.verified

(* No step of the program takes the last complete copy of a repository away,   *)
(* but for the purge of one that is deleted on GitHub.  Files the operator     *)
(* loses or the disk damages are not the program's doing.                      *)
OnlyCopyKept ==
    [][HasCopy => \/ HasCopy'
                  \/ LoseFiles \/ Rot
                  \/ row.deleted /\ pc["purge"] = "purge_files"]_vars

(* A refresh or a switch to bundle removes a clone only when a complete bundle *)
(* that is no older is in place.                                               *)
CloneRetired ==
    [][\A a \in AllActors :
         pc[a] \in {"cleanup", "sb_drop"} /\ clone' # clone
            => Whole(bundle) /\ bundle.ver >= clone.ver]_vars

(* A switch to clone removes the bundle only when a complete clone that is no  *)
(* older is in place and the row names it.                                     *)
BundleRetired ==
    [][\A a \in AllActors :
         pc[a] = "sc_bundle" /\ bundle' # bundle
            => Whole(clone) /\ clone.ver >= bundle.ver /\ row.format = "clone"]_vars

(* The program keeps the promise of Archive. *)
PromiseKept == Promise!Spec

(* An empty repository needs no copy, and git makes no bundle of one.  A       *)
(* bundle has every tag; a clone is fetched, and of its tags only those that a *)
(* fetch follows are meant here.                                               *)
Current ==
    \/ head = 0
    \/ /\ PathOf(row.format).st = "ok" /\ PathOf(row.format).ver = head
       /\ row.format = "bundle" => bundle.tag = tag

(* The program is up, the backup is enabled, and no removal of a clone has     *)
(* stopped at a point where HEAD is left of a directory that git does not      *)
(* know, or knows and finds damaged.                                           *)
Undisturbed == /\ booted /\ row.enabled /\ onGitHub
               /\ clone.st \notin {"torn", "rotten"}

(* Where nothing disturbs it the weekly sweep makes the copy at the path the   *)
(* row names current again and again: it finds the changes that pushed_at does *)
(* not show, and what one job put over the newer copy of another, and it       *)
(* bundles no tag of a leftover clone for good.                                *)
SweepConvergesUntorn == <>[]Undisturbed => []<>Current

(* Under the same conditions the copy comes to have every tag in either        *)
(* format, as README.md:174 says that tag-only pushes are still copied.        *)
TagsCopied ==
    <>[]Undisturbed => []<>(head = 0 \/ PathOf(row.format) = Complete(head, tag))

(* Reconcile removes a clone only while the row names the bundle that makes it *)
(* redundant.                                                                  *)
RedundantOnly ==
    [][\A a \in AllActors :
         pc[a] = "rec_drop" /\ Whole(clone) /\ clone' # clone
            => row.format = "bundle" /\ bundle.st # "none"]_vars

=============================================================================
