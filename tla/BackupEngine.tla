---------------------------- MODULE BackupEngine ----------------------------
(* The backup engine (src/internal/backup/engine.go) at work on ONE            *)
(* repository: the two paths its copy can live at, its row in the database,    *)
(* and every operation of the engine cut at the points where another goroutine *)
(* or a crash can come between two of its effects.  Who starts an operation,   *)
(* and what happens around it, is in module Vault.                             *)
(*                                                                             *)
(* Abstractions                                                                *)
(*  - Contents are versions: 0 is the empty repository, and every change of a  *)
(*    branch on GitHub, or new tag on one, makes the next one.  A time of push *)
(*    is the version that push made, 0 being nil.  last_backup and verified_at *)
(*    are nil or not.                                                          *)
(*  - The tags that a clone brings and a fetch of the branches does not, those *)
(*    that moved and those off every branch, are counted apart, as one: .tag   *)
(*    says as of which change of such a tag a copy is.                         *)
(*  - A damaged copy is known by how git reacts to it, see States.             *)
(*  - What git writes in a clone's config (the origin URL) is left out: no     *)
(*    property is about it.  Scratch paths carry a time stamp in their name,   *)
(*    so nothing but the operation that made one ever reads it.                *)
(*  - A read is one step with the decision taken on it, and two writes to the  *)
(*    row with nothing between them are one step that may do half of itself.   *)
EXTENDS Naturals

CONSTANTS
    Actors,     \* the goroutines that call the engine, at most one of a kind
    Env,        \* the faults of the surroundings that may happen
    MaxPush     \* bound: how many times the repository on GitHub changes

VARIABLES
    head,       \* the version on GitHub
    pushedAt,   \* the version of the last change pushed_at told of
    tag,        \* how often a tag that a fetch does not follow has changed there
    onGitHub,   \* the repository is there and the token may read it
    row,        \* its row in the repos table
    clone,      \* active/<owner>/<name>.git
    bundle,     \* archived/<owner>/<name>.bundle
    pc,         \* where each actor is
    job         \* what each actor holds in its local variables

github == <<head, pushedAt, tag, onGitHub>>
disk   == <<clone, bundle>>

AllActors == {"boot", "web", "backup", "backup_sweep", "verify", "purge"}
AllFaults == {"fail", "lose", "rot", "vanish"}

ASSUME ActorsAssumption == Actors \subseteq AllActors
ASSUME EnvAssumption    == Env \subseteq AllFaults
ASSUME BoundAssumption  == MaxPush \in Nat

Formats == {"clone", "bundle"}

(* "none": nothing there.  "nohead": a directory with no HEAD.  "torn": a      *)
(* directory with a HEAD that git does not take for a repository, its removal  *)
(* having stopped half-way.  "partial": a repository with no refs, its clone   *)
(* having stopped half-way.  "rotten": refs and headers can be read, objects   *)
(* are missing or damaged.  "ok": complete.                                    *)
States == {"none", "nohead", "torn", "partial", "rotten", "ok"}
Copies == [st : States, ver : Nat, tag : Nat]

Rows == [format : Formats, last : BOOLEAN, verified : BOOLEAN,
         source : Nat, lastPush : Nat, enabled : BOOLEAN, deleted : BOOLEAN]

Jobs == [fmt : Formats, seen : Nat, src : Nat,
         claims : BOOLEAN, reused : BOOLEAN, tmp : Nat, tag : Nat]

Labels == {"idle",
           "reconcile", "rec_drop", "rec_stat", "rec_reset", "list",
           "compare", "checked", "ensure", "cloning", "fetch", "clear",
           "refresh", "scratch", "build", "promote", "mark", "cleanup",
           "copied",
           "sb_create", "sb_promote", "sb_row", "sb_drop",
           "sc_drop", "sc_build", "sc_promote", "sc_row", "sc_bundle",
           "fallback",
           "verify", "passed", "purge_files", "purge_row"}

NoCopy == [st |-> "none", ver |-> 0, tag |-> 0]
NoJob  == [fmt |-> "clone", seen |-> 0, src |-> 0,
           claims |-> FALSE, reused |-> FALSE, tmp |-> 0, tag |-> 0]

Complete(v, t) == [st |-> "ok", ver |-> v, tag |-> t]
Dir(s)         == [st |-> s, ver |-> 0, tag |-> 0]
Whole(c)       == c.st = "ok" /\ c.ver > 0

(* os.RemoveAll of a clone that does not run to its end. *)
Torn(c) == IF c.st = "none" THEN {c}
           ELSE {c, Dir("nohead"), Dir("torn"), Dir("partial")}
                \cup (IF c.st = "ok" /\ c.ver > 0
                      THEN {[c EXCEPT !.st = "rotten"]} ELSE {})

PathOf(fmt) == IF fmt = "clone" THEN clone ELSE bundle

Fails == "fail" \in Env

(* The row when the second of two writes fails, or the process dies between    *)
(* them, and when the first one fails.                                         *)
HalfDone(a) == {row} \cup
    CASE pc[a] \in {"checked", "copied"} -> {[row EXCEPT !.last = TRUE]}
      [] pc[a] = "passed"                -> {[row EXCEPT !.verified = TRUE]}
      [] pc[a] = "rec_reset"             -> {[row EXCEPT !.last = FALSE]}
      [] pc[a] = "sb_row"                -> {[row EXCEPT !.format = "bundle"]}
      [] pc[a] = "sc_row"                -> {[row EXCEPT !.format = "clone"]}
      [] pc[a] = "purge_row"             -> {[row EXCEPT !.enabled = FALSE]}
      [] OTHER                           -> {}

Goto(a, l) == pc' = [pc EXCEPT ![a] = l]
Finish(a)  == /\ pc'  = [pc EXCEPT ![a] = "idle"]
              /\ job' = [job EXCEPT ![a] = NoJob]

-----------------------------------------------------------------------------
(* Backup: compare, then copy or record that there was nothing to copy.        *)

(* A file or directory with the shape of a complete copy. *)
CopyUsable(c) == c.st \in {"torn", "partial", "rotten", "ok"}

(* Mutation: the refs the copy has are looked up on GitHub, so that a new one  *)
(* there is not seen.                                                          *)
RefsDiffer_NewUnseen(c) == c.st = "torn" \/ ~onGitHub \/ c.ver > head \/ c.tag > tag

(* Mutation: GitHub is asked for its branches only. *)
RefsDiffer_Heads(c) == c.st = "torn" \/ ~onGitHub \/ c.ver # head

(* Some ref of GitHub is not the copy's.  A comparison that fails, GitHub not  *)
(* answering or the copy not being a repository, counts as a difference.       *)
RefsDiffer(c) == c.st = "torn" \/ ~onGitHub \/ c.ver # head \/ c.tag # tag

(* The nightly job trusts pushed_at, the others ask GitHub for its refs. *)
SourceChanged(a) == IF a = "backup"
                    THEN job[a].src # job[a].seen
                    ELSE RefsDiffer(PathOf(job[a].fmt))

AfterCompare(a) == IF job[a].fmt = "clone" THEN "ensure" ELSE "refresh"

Compare(a) ==
    /\ pc[a] = "compare"
    /\ \/ CopyUsable(PathOf(job[a].fmt)) /\ ~SourceChanged(a) /\ Goto(a, "checked")
       \/ (~CopyUsable(PathOf(job[a].fmt)) \/ SourceChanged(a))
          /\ Goto(a, AfterCompare(a))
       \* The comparison failed, so the repository is taken for changed.
       \/ Fails /\ a # "backup" /\ Goto(a, AfterCompare(a))
    /\ UNCHANGED <<github, row, disk, job>>

(* Mutations: the pushed_at of the row as it is now, and of GitHub itself. *)
Represents_Reread(a) == row.lastPush
Represents_Latest(a) == pushedAt

(* The pushed_at the copy is recorded to represent: what sync had seen when    *)
(* the row was read, before the refs or the objects were asked for.            *)
Represents(a) == job[a].seen

RecordChecked(a) ==
    /\ pc[a] = "checked"
    /\ \/ row' = [row EXCEPT !.last   = TRUE,
                             !.source = IF job[a].src = job[a].seen
                                        THEN @ ELSE Represents(a)]
       \/ Fails /\ row' \in HalfDone(a)
    /\ Finish(a)
    /\ UNCHANGED <<github, disk>>

(* Mutation: HEAD is looked for where it never is. *)
NeedsClone_NoHead(c) == c.st # "torn"

NeedsClone(c) == c.st \in {"none", "nohead"}

(* ensureClone on the clone's own path: from cloneRepo, or from refreshBundle  *)
(* when it reuses a clone.  git clone makes the directory first, so while it   *)
(* runs the path holds a repository with no refs.                              *)
EnsureClone(a) ==
    /\ pc[a] = "ensure"
    /\ \/ NeedsClone(clone)
          /\ clone' = Dir("partial") /\ Goto(a, "cloning") /\ UNCHANGED job
       \/ ~NeedsClone(clone) /\ clone.st # "torn"
          /\ Goto(a, "fetch") /\ UNCHANGED <<clone, job>>
       \/ (clone.st = "torn" \/ Fails) /\ Finish(a) /\ UNCHANGED clone
    /\ UNCHANGED <<github, row, bundle>>

AfterEnsure(a) == IF job[a].fmt = "clone" THEN "clear" ELSE "build"

(* A clone that fails removes what it made; one that is killed does not. *)
GitClone(a) ==
    /\ pc[a] = "cloning"
    /\ \/ /\ onGitHub /\ clone.st \notin {"none", "nohead", "torn"}
          /\ clone' = Complete(head, tag)
          /\ Goto(a, AfterEnsure(a)) /\ UNCHANGED job
       \/ /\ ~onGitHub \/ clone.st \in {"none", "nohead", "torn"} \/ Fails
          /\ clone' = NoCopy
          /\ Finish(a)
       \/ Fails /\ UNCHANGED clone /\ Finish(a)
    /\ UNCHANGED <<github, row, bundle>>

(* fetchOrigin asks for the branches, and git adds the new tags on what it     *)
(* has: it leaves a tag that moved where it was, and brings one that was off   *)
(* every branch only when a branch has come to contain it.                     *)
Followed(c) == IF c.ver = head THEN {c.tag} ELSE {c.tag, tag}

(* A fetch completes a repository with no refs and repairs no object. *)
GitFetch(a) ==
    /\ pc[a] = "fetch"
    /\ \/ /\ onGitHub /\ clone.st \in {"partial", "ok"}
          /\ \E t \in Followed(clone) : clone' = Complete(head, t)
          /\ Goto(a, AfterEnsure(a)) /\ UNCHANGED job
       \/ /\ onGitHub /\ clone.st = "rotten"
          /\ \E t \in Followed(clone) : clone' = [clone EXCEPT !.ver = head, !.tag = t]
          /\ Goto(a, AfterEnsure(a)) /\ UNCHANGED job
       \/ /\ ~onGitHub \/ clone.st \in {"none", "nohead", "torn"} \/ Fails
          /\ Finish(a) /\ UNCHANGED clone
    /\ UNCHANGED <<github, row, bundle>>

ClearVerified(a) ==
    /\ pc[a] = "clear"
    /\ \/ row' = [row EXCEPT !.verified = FALSE]
       \/ Fails /\ UNCHANGED row
    /\ Goto(a, "copied")
    /\ UNCHANGED <<github, disk, job>>

RecordCopied(a) ==
    /\ pc[a] = "copied"
    /\ \/ row' = [row EXCEPT !.last = TRUE, !.source = Represents(a)]
       \/ Fails /\ row' \in HalfDone(a)
    /\ Finish(a)
    /\ UNCHANGED <<github, disk>>

-----------------------------------------------------------------------------
(* refreshBundle: fetch a clone, its own or a leftover one, and bundle it.     *)

StartRefresh(a) ==
    /\ pc[a] = "refresh"
    /\ job' = [job EXCEPT ![a].reused = clone.st # "none"]
    /\ Goto(a, IF clone.st = "none" THEN "scratch" ELSE "ensure")
    /\ UNCHANGED <<github, row, disk>>

ScratchClone(a) ==
    /\ pc[a] = "scratch"
    /\ \/ /\ onGitHub
          /\ job' = [job EXCEPT ![a].tmp = head, ![a].tag = tag]
          /\ Goto(a, "build")
       \/ (~onGitHub \/ Fails) /\ Finish(a)
    /\ UNCHANGED <<github, row, disk>>

(* What an actor has made beside the two paths. *)
Scratch(a) == Complete(job[a].tmp, job[a].tag)

(* The clone the bundle is made from.  git makes no bundle of a repository     *)
(* without refs, and fsck stops at a damaged object.                           *)
BundleSource(a) == IF job[a].reused THEN clone ELSE Scratch(a)

BuildBundle(a) ==
    /\ pc[a] = "build"
    /\ \/ /\ Whole(BundleSource(a))
          /\ job' = [job EXCEPT ![a].tmp = BundleSource(a).ver,
                                ![a].tag = BundleSource(a).tag]
          /\ Goto(a, "promote")
       \/ (~Whole(BundleSource(a)) \/ Fails) /\ Finish(a)
    /\ UNCHANGED <<github, row, disk>>

(* Mutation: the rename fails and nobody notices. *)
PromoteBundle_Unchecked(a) ==
    /\ pc[a] = "promote"
    /\ bundle' = Scratch(a) \/ (Fails /\ UNCHANGED bundle)
    /\ Goto(a, "mark")
    /\ UNCHANGED <<github, row, clone, job>>

PromoteBundle(a) ==
    /\ pc[a] = "promote"
    /\ \/ bundle' = Scratch(a) /\ Goto(a, "mark") /\ UNCHANGED job
       \/ Fails /\ Finish(a) /\ UNCHANGED bundle
    /\ UNCHANGED <<github, row, clone>>

MarkVerified(a) ==
    /\ pc[a] = "mark"
    /\ \/ row' = [row EXCEPT !.verified = TRUE]
       \/ Fails /\ UNCHANGED row
    /\ Goto(a, IF job[a].reused THEN "cleanup" ELSE "copied")
    /\ UNCHANGED <<github, disk, job>>

(* The deferred cleanup: the reused clone goes once the bundle is in place. *)
Cleanup(a) ==
    /\ pc[a] = "cleanup"
    /\ \/ clone' = NoCopy
       \/ Fails /\ clone' \in Torn(clone)
    /\ Goto(a, "copied")
    /\ UNCHANGED <<github, row, bundle, job>>

-----------------------------------------------------------------------------
(* Reconcile, for this repository.                                             *)

(* Mutation: the bundle is not looked at. *)
Redundant_Bundle(fmt) == fmt = "bundle" /\ clone.st # "none"

(* Mutation: any bundle will do, whatever the row's format. *)
Redundant_Format(fmt) == clone.st # "none" /\ bundle.st # "none"

(* The header check that guards the removal sees no damage in the pack. *)
Redundant(fmt) == fmt = "bundle" /\ clone.st # "none" /\ bundle.st # "none"

RemoveRedundant(a) ==
    /\ pc[a] = "reconcile"
    /\ \/ Redundant(job[a].fmt) /\ Goto(a, "rec_drop")
       \/ (~Redundant(job[a].fmt) \/ Fails) /\ Goto(a, "rec_stat")
    /\ UNCHANGED <<github, row, disk, job>>

DropRedundant(a) ==
    /\ pc[a] = "rec_drop"
    /\ \/ clone' = NoCopy
       \/ Fails /\ clone' \in Torn(clone)
    /\ Goto(a, "rec_stat")
    /\ UNCHANGED <<github, row, bundle, job>>

(* A row that claims a copy whose path is gone is reset. *)
StatPath(a) ==
    /\ pc[a] = "rec_stat"
    /\ \/ job[a].claims /\ PathOf(job[a].fmt).st = "none" /\ Goto(a, "rec_reset")
       \/ (~job[a].claims \/ PathOf(job[a].fmt).st # "none" \/ Fails) /\ Goto(a, "list")
    /\ UNCHANGED <<github, row, disk, job>>

ResetRow(a) ==
    /\ pc[a] = "rec_reset"
    /\ \/ row' = [row EXCEPT !.last = FALSE, !.verified = FALSE]
       \/ Fails /\ row' \in HalfDone(a)
    /\ Goto(a, "list")
    /\ UNCHANGED <<github, disk, job>>

-----------------------------------------------------------------------------
(* SwitchToBundle.  The caller falls back to writing the format alone.         *)

SwBundleCreate(a) ==
    /\ pc[a] = "sb_create"
    /\ \/ /\ Whole(clone)
          /\ job' = [job EXCEPT ![a].tmp = clone.ver, ![a].tag = clone.tag]
          /\ Goto(a, "sb_promote")
       \/ (~Whole(clone) \/ Fails) /\ Goto(a, "fallback") /\ UNCHANGED job
    /\ UNCHANGED <<github, row, disk>>

SwBundlePromote(a) ==
    /\ pc[a] = "sb_promote"
    /\ \/ bundle' = Scratch(a) /\ Goto(a, "sb_row")
       \/ Fails /\ Goto(a, "fallback") /\ UNCHANGED bundle
    /\ UNCHANGED <<github, row, clone, job>>

(* The new format is written, then the verified mark is cleared. *)
SwRow(a, at, fmt, next) ==
    /\ pc[a] = at
    /\ \/ row' = [row EXCEPT !.format = fmt, !.verified = FALSE] /\ Goto(a, next)
       \/ Fails /\ row' \in HalfDone(a) /\ Goto(a, "fallback")
    /\ UNCHANGED <<github, disk, job>>

SwBundleRow(a) == SwRow(a, "sb_row", "bundle", "sb_drop")

SwBundleDrop(a) ==
    /\ pc[a] = "sb_drop"
    /\ \/ /\ clone' = NoCopy
          /\ \/ row' = [row EXCEPT !.last = TRUE]
             \/ Fails /\ UNCHANGED row
          /\ Finish(a)
       \/ /\ Fails /\ clone' \in Torn(clone)
          /\ Goto(a, "fallback") /\ UNCHANGED <<row, job>>
    /\ UNCHANGED <<github, bundle>>

-----------------------------------------------------------------------------
(* SwitchToClone.                                                              *)

(* Step 1: a clone already at the path is removed if git takes it for one. *)
SwCloneDrop(a) ==
    /\ pc[a] = "sc_drop"
    /\ \/ /\ clone.st \notin {"nohead", "torn"}
          /\ clone' = NoCopy /\ Goto(a, "sc_build")
       \/ clone.st \in {"nohead", "torn"} /\ Goto(a, "fallback") /\ UNCHANGED clone
       \/ Fails /\ clone' \in Torn(clone) /\ Goto(a, "fallback")
    /\ UNCHANGED <<github, row, bundle, job>>

(* Steps 2 to 5: unpack the bundle beside the path, fetch, fsck. *)
SwCloneBuild(a) ==
    /\ pc[a] = "sc_build"
    /\ \/ /\ bundle.st = "ok" /\ onGitHub
          /\ \E t \in Followed(bundle) :
                job' = [job EXCEPT ![a].tmp = head, ![a].tag = t]
          /\ Goto(a, "sc_promote")
       \/ /\ bundle.st # "ok" \/ ~onGitHub \/ Fails
          /\ Goto(a, "fallback") /\ UNCHANGED job
    /\ UNCHANGED <<github, row, disk>>

(* Mutation: the rename fails and nobody notices. *)
SwClonePromote_Unchecked(a) ==
    /\ pc[a] = "sc_promote"
    /\ clone' = Scratch(a) \/ (Fails /\ UNCHANGED clone)
    /\ Goto(a, "sc_row")
    /\ UNCHANGED <<github, row, bundle, job>>

(* Step 6: a rename onto a directory that is not empty fails. *)
SwClonePromote(a) ==
    /\ pc[a] = "sc_promote"
    /\ \/ clone.st = "none" /\ clone' = Scratch(a) /\ Goto(a, "sc_row")
       \/ (clone.st # "none" \/ Fails) /\ Goto(a, "fallback") /\ UNCHANGED clone
    /\ UNCHANGED <<github, row, bundle, job>>

SwCloneRow(a) == SwRow(a, "sc_row", "clone", "sc_bundle")

SwCloneDropBundle(a) ==
    /\ pc[a] = "sc_bundle"
    /\ \/ /\ bundle' = NoCopy
          /\ \/ row' = [row EXCEPT !.last = TRUE]
             \/ Fails /\ UNCHANGED row
          /\ Finish(a)
       \/ Fails /\ Goto(a, "fallback") /\ UNCHANGED <<bundle, row, job>>
    /\ UNCHANGED <<github, clone>>

-----------------------------------------------------------------------------
(* Verify.                                                                     *)

(* fsck finds nothing wrong with a repository that has no refs; the deep check *)
(* of a bundle is skipped, without a failure, when the volume has no room.     *)
PassesVerify(fmt) == PathOf(fmt).st \in (IF fmt = "clone" THEN {"ok", "partial"}
                                                          ELSE {"ok"})

VerifyCopy(a) ==
    /\ pc[a] = "verify"
    /\ \/ PassesVerify(job[a].fmt) /\ Goto(a, "passed") /\ UNCHANGED job
       \/ (~PassesVerify(job[a].fmt) \/ Fails) /\ Finish(a)
    /\ UNCHANGED <<github, row, disk>>

RecordVerified(a) ==
    /\ pc[a] = "passed"
    /\ \/ row' = [row EXCEPT !.verified = TRUE, !.last = TRUE]
       \/ Fails /\ row' \in HalfDone(a)
    /\ Finish(a)
    /\ UNCHANGED <<github, disk>>

=============================================================================
