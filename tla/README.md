# gh-vault in TLA+

gh-vault keeps local copies of the GitHub repositories a token can read. This
directory holds TLA+ models of the parts in which that can go wrong: the backup
engine and everybody who calls it, the sync of the repository table with
GitHub, the scheduler, and the process itself from its start to the token it
keeps. TLC checks them on small instances, and TLAPS proves
some of their invariants for every value of the constants.

File and line references are to the repository (`src/...`).

## 1. Inventory

| Component | State it keeps | Operations | What makes it correct |
|---|---|---|---|
| Backup engine, `internal/backup/engine.go` | for each repository a path `active/<owner>/<name>.git` and a path `archived/<owner>/<name>.bundle`; columns of its row | `Backup` (compare, clone or fetch, refresh the bundle, record), `Reconcile`, `SwitchToBundle`, `SwitchToClone`, `Verify`, `MoveBackup`, `RemoveLocal` | no copy is lost; what the row says a copy represents is on disk; a skip is justified; the copy catches up |
| Web handlers, `internal/web/handlers.go` | `backupGuard` | trigger a backup, back up the chosen, change formats (with a fallback when a conversion fails), purge, toggles, settings | they keep the engine's preconditions; the only copy survives; the saved schedule is the one that runs |
| Scheduler, `internal/scheduler/scheduler.go` | the cron entries, the `jobs`, `running` and `results` maps, the error group of a run | `Start`, `Stop`, `ReloadCron`, the jobs `sync`, `backup`, `backup_sweep`, `verify`, two clean-ups | a job runs once at a time; success means complete; a failure is made good; the schedule in force is the saved one |
| Syncer, `internal/sync/syncer.go` | a lock | `SyncRepos`: add, restore, rename and move, refresh metadata, mark as deleted | rows converge to what GitHub says; no copy is lost or orphaned |
| Repository store, `internal/store/repos.go` | the `repos` table, with UNIQUE on the GitHub id and on owner and name | setters, each an UPDATE of its own columns | a handler and a job do not undo each other's columns |
| Settings, `internal/store/settings.go` | `cron_schedule`, `log_retention_days` | `Set` with validation | see the scheduler |
| Startup, `main.go` | none | key, TLS files, database, `Reconcile`, scheduler, server, in this order | stored state matches the disk before anyone reads it; the process comes up whatever interrupted the last start |
| Configuration, `internal/config` | the file `encryption_key` | take the key from the environment or the file, make one, or refuse | no new key beside an old database |
| TLS files, `internal/tlsutil` | certificate, key and fingerprint files | generate and check at start | the three files agree with each other and with the hostname; they change only for a reason |
| Database, `internal/store/db.go`, `migrations.go` | the schema version | open, migrate | an interrupted migration can be repeated |
| Token provider and secrets, `internal/github/dbtokenprovider.go`, `internal/store/secrets.go` | the encrypted token, a decrypted one in memory | `GetToken`, `SetToken` | memory and database agree |
| GitHub client, `internal/github/client.go` | none | the list of repositories by pages, the rate limit | an incomplete list does no lasting harm; the rate limit shown is that of the token in use |
| Sessions, users, CSRF, rate limit | tables, maps in memory | log in, log out, limit | independent of the backups |
| Logs, templates | single statements, or rendering | | |

How they meet. A sync writes the rows, the backup jobs list the rows and hand
each to the engine, the engine writes files and its own columns of the row.
There are no transactions over two setters, and no lock that all of them take:
`TryLock` of the syncer keeps syncs apart, the `running` map keeps a cron job
from running twice, `backupGuard` serialises three web handlers, and nothing
keeps a cron job from a web handler, or the nightly job from the weekly sweep.
A job works from the row it listed, which may be old by the time it is used.

What is hard about it: the process can die between any two effects, in the
middle of a recursive removal or of `git clone`; the database and the disk are
written one after the other; rows are known by id but copies are made by name;
GitHub changes while all this goes on; one failure in an error group cancels
the rest. The list of hazards, each at its line and with the properties that
cover it, is in `PROJECT.json`.

## 2. Modules

| Module | Models | Extends |
|---|---|---|
| `BackupEngine` | every operation of the engine on one repository, step by step | |
| `Vault` | who calls the engine and when, the surroundings, the properties | `BackupEngine` |
| `Archive` | what the engine promises of one repository: an abstract specification that `Vault` implements | |
| `VaultProofs` | types and push times of `Vault`, and what the engine removes when the actors take turns | `Vault`, `TLAPS` |
| `NightProofs` | what is left on disk when the cron jobs meet | `VaultProofs` |
| `KeepingProofs` | `Vault` implements `Archive`, with the handlers while nothing fails, without them whatever fails | `VaultProofs` |
| `SoundProofs` | what is recorded is there, and a skip is justified | `KeepingProofs` |
| `ArchiveProofs` | what the promise amounts to | `Archive`, `TLAPS` |
| `Syncer` | `SyncRepos` over the whole table, the files by name | |
| `Scheduler` | cron, a backup run in its error group, the settings form | |
| `Startup` | from the start of the container to the listening server, and what interrupts it | |
| `Process` | the token, the forms that replace it, the cached rate limit | `Startup` |
| `ProcessProofs` | the theorems about `Process` | `Process`, `TLAPS` |
| `SyncerProofs` | the theorems about `Syncer` | `Syncer`, `TLAPS` |
| `SchedulerProofs` | the theorems about `Scheduler` | `Scheduler`, `TLAPS` |
| `MCVault`, `MCSyncer`, `MCScheduler`, `MCProcess` | instances for TLC | their module |

### BackupEngine and Vault: one repository

*Contents are versions.* `head` is the number of changes on GitHub that a fetch
brings: those of a branch, and new tags on one. `pushedAt` is the last one
`pushed_at` told of, because some changes do not move
it. 0 is the empty repository. A fetch does not bring every tag: `fetchOrigin` asks
for `+refs/heads/*:refs/heads/*` and leaves tags to git's auto-follow
(`engine.go:149-153`), so a tag that has moved stays where it was, and one off every branch
is not brought until a branch contains it. Such tags are counted apart, all as one: `tag` is the number of their
changes on GitHub, and each copy says as of which of them it is. `git clone --bare`
brings them all (`Complete(head, tag)`), a fetch the ones in `Followed`, a
bundle has those of the clone it was made of (`Scratch`). `RefsDiffer` compares both
numbers, as `refsDiffer` compares branches and tags. A tag that is deleted on GitHub is a local-only ref
of the copy, which the comparison ignores, and is not in the model. `row` has the columns the engine and its callers
decide on: `format`, `last` and `verified` (whether the dates are set),
`source` (`source_pushed_at`), `lastPush` (`last_push`), `enabled`, `deleted`.

*Copies.* `clone` and `bundle` are what lies at the two paths: a version, the
count of `tag`, and one of six states, which are told apart by what git and the engine's checks make
of them. "nohead" is a directory without HEAD, the one shape `ensureClone`
clones anew. "torn" has a HEAD but no `objects/` or `refs/`: git says it is not
a repository. "partial" is what a killed `git clone --bare` leaves, a
repository with HEAD and config and no refs; git takes it for an empty
one, `fsck` finds nothing wrong with it, and a fetch completes it. "rotten" has
refs and headers but lacks objects: a fetch succeeds and does not repair it,
`fsck` and `bundle create` fail, and a bundle in that state passes
`git bundle verify`. These reactions are git's, and the model takes them from
how git 2.39 behaves.

*Actors.* `pc[a]` says where a goroutine is between two effects, `job[a]` what
it holds in local variables. "boot" is the start of the process, "backup" and
"backup_sweep" the cron jobs, "verify" the monthly one, "web" the handlers under
`backupGuard`, "purge" the one that does not take it. Each step of an operation
is an action, named for the function or the part of it, with the fault that the
code handles there as another disjunct: an error of git or of the database
(`Fails`), a second write that fails after the first (`HalfDone`), a removal
that stops half-way (`Torn`). A read and the decision taken on it are one step. So are
`Stat` of the new path and the `Rename` of `MoveBackup` (`engine.go:855-864`) in `Syncer`: that
something is made there between the two is not in the model.
`Crash` can come at any point; it loses the local variables and leaves removals
and pairs of writes half done. The start then runs `Reconcile` first.

*Surroundings.* `Push` (with or without moving `pushed_at`), `PushTag` (which
never moves it; `MaxPush` bounds the changes of both kinds together), `Vanish` (the
repository is deleted or hidden, and comes back), `SyncRow` (a sync, one
step for this row), `LoseFiles` and `Rot` (the operator, the disk), the toggle.

*Overlap.* Cron jobs and handlers may meet in the code. `Overlap` is the set of
the actors that do: one starts beside another only when both are in it, and else
waits until the others are idle. Syncs, pushes, toggles and crashes come at any
point. With `Overlap = {}` the actors take turns; in `nights` the two jobs that
copy meet, in `reconcile_race` a handler and a job.

Not in the model: the origin URL in a clone's config, the scratch directories
(their names are unique, so nothing else reads them), log entries.

### Archive: the promise

`Archive` has four variables: `head` on GitHub, what sync has been `told`, the
set of versions `held` in a complete copy, and the version `recorded` as copied.
A copy may replace older ones (`Copy`); anything else that goes (`Discard`)
leaves something, and something as new as what is recorded; what is
recorded grows to no more than what was told and what is held. `Vault`
implements it with `told <- row.lastPush`, `recorded <- row.source` and `held`
the versions of the complete ones of clone and bundle. So clones that are
half done, scratch bundles, promotions, crashes and Reconcile are all either one
of these five steps or none. This is `PromiseKept`, checked in `gone`; it does
not hold where conversions fail or files are lost, nor with overlapping
jobs (see the violations).

### Syncer: the whole table

`table` and `files` are indexed by GitHub id and by format and name. What lies at
a path is told by whose repository it is. A sync takes the two lists it works
from (`listed`, `stored`), then visits the repositories in any order (the
code's order is that of GitHub's answer): `Add`, `Restore`, `SetOwnerName` then
`SetBackupPath` then `MoveBackup`, `SetGitHubMetadata`, `Unchanged`; then
`MarkDeleted`. Every write may fail, as the code logs the error and goes on, and
the process may die between any two. `UNIQUE(owner, name)` is `Free`.
`answers` says whose repository GitHub serves under a name: an old name
redirects until somebody takes it. GitHub's list is read page by page
(`client.go:84-109`): `Answer` leaves out any set of repositories, at the cost of
an event, as happens when one leaves the list between two pages.
Backups (listing and copying as two steps), conversions and purges come between
any two steps of a sync. What a sync owes to its caller is `SyncComplete`: when its
loop is over and nothing failed or was converted meanwhile (`steady`), every repository
GitHub listed has a row that tells what GitHub said (`Told`), but for one whose
name was another row's. `MaxEvents` bounds what GitHub, the users, faults and
crashes do; syncs, backups and purges are not bounded.

### Scheduler: many repositories

`Fire` is `wrapJob` with its `running` map. A backup run starts the
repositories of the list in order, `Limit` at a time (`Spawn`), each of which is copied
or found current (`Copy`) or fails (`Fail`); the first failure and the time limit
cancel the context of all (`cancelled`). The nightly job leaves a
current copy alone without asking anybody, so it succeeds even when cancelled.
`Finish` stores the result and removes the entry of the map. The settings form
is cut where two requests can meet: the schedule is read, saved, then cron is
stopped, waited for (for 30 seconds), emptied, filled and started.
`SaveScheduleOnly` is the form whose retention is refused after the schedule has
been stored. A form whose schedule is invalid changes nothing and has no action.
`Restart` is a process that dies, or that is told to end (`Stop` waits for the
jobs, and gives up after 30 seconds), and starts again with the saved schedule.
A batch of cron entries is known by the sync schedule it was added with, as the
other jobs' schedules are fixed.

### Startup and Process: one container

Where the process is in `main` is `at`: it loads the key (`LoadKey`,
`GenerateKey`, `RefuseKey`), keeps the TLS pair or writes a new one in three
steps (`KeepPair`, or `NewPair`, `WriteCert`, `WriteKey`, `WriteFingerprint`),
opens the database, migrates it, listens. Any of them may be the last:
`WriteFails`, `Crash`, `PowerLoss`. A power loss takes what was not synced: the
key file, which is renamed into place without a sync (`config.go:131-147`), and the
fingerprint, which is written in place (`tlsutil.go:160`), may be empty, and the
database falls back to its last checkpoint (`kept`). The certificate and the
private key are synced before they are renamed (`tlsutil.go:131`), and the model assumes that
the renaming is kept. `Flush` is the system's write-back.
The operator gives the container another hostname, key or mode
(`Reconfigure`), somebody replaces the private key (`ReplaceKey`), a year passes
(`Age`). A release of an older version, with or without an expired
certificate, can have been in use before (`Older`).

Hostnames come in three kinds, because `isValidDNSName` takes an IPv4 address
for a DNS name and `hostnameCovered` does not: DNS names, addresses, and
those that no certificate names (localhost, names with underscores).
Keys are identities; a new one is any that is not in use (`Unused`). What
is encrypted is the pair of token and key.

In memory are the provider's `cache` and the cached rate limit. A form checks
its token (`PostToken`), stores it (`SetToken`), and clears the rate limit
(`ClearRateLimitCache`); `getRateLimit` holds its mutex from the look at the
cache to GitHub's answer, which are `AskRateLimit` and `RateLimitAnswered`. All
other readers of the token are `GetToken`. `MaxEvents` bounds what goes wrong
and what the operator does; each form may be sent once or so (`posts`).

## 3. Runs

Every run but the violations finds no error over the whole bounded state space.

| Run | Module | Instance | Shows |
|---|---|---|---|
| `calm` | `MCVault` | all but the purge, no faults, crashes; 3 changes on GitHub | `WatermarkSound`, `SkipSound`, `TypeOK` |
| `gone` | `MCVault` | all but the purge, crashes, the repository vanishes and returns; 2 changes on GitHub; fair | `RecordedHeld`, `ReconcileTruthful`, `OnlyCopyKept`, `PromiseKept`, `SweepConvergesUntorn` |
| `nights` | `MCVault` | the nightly job and the sweep, which overlap, the handlers between them, the start; 2 changes on GitHub, crashes; fair | `SweepConvergesUntorn`, `OnlyCopyKept`, `RedundantOnly`, `ReconcileTruthful` |
| `rough` | `MCVault` | everyone and every fault | `WatermarkBehindSync`, `CloneRetired`, `BundleRetired` |
| `names` | `MCSyncer` | 2 repositories, 3 names, 3 events; fair | `NoOrphan`, `SyncKeepsFiles`, `SyncComplete`, `SyncSettles`, `TypeOK` |
| `cron` | `MCScheduler` | 3 repositories, 2 at a time, 2 schedules, a form, 2 events; fair | `ScheduleSaved`, `SuccessIsComplete`, `Served`, `TypeOK` |
| `process` | `MCProcess` | 3 encryption keys, 4 private keys, 2 tokens, 2 forms, 4 ways to run the container, 3 migrations, 2 events; fair | `PairInOrder`, `TokenReadable`, `CacheAgrees`, `RateCurrent`, `CertStable`, `StartGoesThrough`, `UpAgain`, `TypeOK` |

*Which property in which run.* A property is in the roughest run in which it
holds. `OnlyCopyKept` fails as soon as a conversion can fail (see
`switch_fallback`), `SkipSound` as soon as files are lost (see below);
what survives everything is `WatermarkBehindSync`, `CloneRetired` and
`BundleRetired`.

*Bounds.* Two changes on GitHub give three versions, or two and a tag that moved, so what was recorded, what a job read
and what GitHub has now can all differ; `calm` has one more. `nights` has the
two jobs whose overlap it is about, and the handlers, because it is their conversions and
fallbacks that leave a clone beside a bundle, or a row with the other format, for the jobs to
find; a repository that also comes and goes makes it five times as large, and is
left to `gone` and to the theorem `OnlyCloneLosesAtNight`. In `names`, three events are enough for
two repositories to swap names through a third one, for a name to be given up
and taken with a crash in between, and for a conversion or a fault during a
rename. In `cron` three repositories with two places mean that one waits while
another fails; two events are a failure and a time limit, or two forms, each of which may be
saved by half or time out in its reload at no further cost, in any order with the jobs. In `process`, two events are two
crashes, or a change and a crash while the start reacts to it; the
instance has also been checked with three. Of its three migrations two add a
column, which is what makes repeating them a fault; four private keys are one
more than the files can name. Each "about" in `PROJECT.json` says the
same in a sentence.

*Deadlock* is looked for in all runs but `cron` and `process`, where the system
really can stop. A server that listens waits when no more forms come and the
bound is used up; that it gets there is `UpAgain`. In `cron` a reload that timed out leaves cron stopped, and when the bound is used up
nobody sends another form or restarts the process.

*Fairness.* `Vault`: the start goes on, each actor at work goes on (git
commands run under a time limit, so each ends), syncs come again and again
(cron starts them), and the weekly sweep is started
again and again. The latter is strong fairness because with `Overlap = {}`
others keep it waiting, and in `nights` the handlers do; cron itself waits for nobody. `Syncer`: weak fairness
of the sync, which cron starts every day. `Scheduler`: weak
fairness of cron's start of each job, of a run, and of a settings request; none
for pushes, faults, restarts and the users. `Served` and `OthersServed` are
conditional on cron staying on, as after a timed-out reload it may not.
`Process`: weak fairness of a start, which Docker begins again whenever the
process ends (`restart: unless-stopped` in `docker-compose.yml`) and which
waits for nobody; none for what happens to it. Docker's growing delays between
attempts are not modelled.

*Conditions inside properties.* `clean` is a history variable. In `Syncer` it
says that nothing has failed and a sync met nobody; `NoOrphan` holds only under
it. In `Scheduler` it says that no request has failed half-way since the last
reload or start: a timed-out reload and a refused form take it away, and a
later reload that runs to its end gives it back, so `ScheduleSaved` is about what such
a reload makes of all that came before it. It must find cron's batch even when the setting has another
schedule by now, which the mutant `RemoveJobs_Read` does not. Requests that meet (`met`) are left
out: between them `RemoveJobs` forgets a batch for good. The hazards say what happens otherwise.
`steady`, also in `Syncer`, is about the sync under way only: whatever earlier
ones left in the table, `SyncComplete` asks nothing of one in which a write failed or a
format was changed.
`SweepConvergesUntorn` asks for `Current`: at the path of the row's format, every branch, and in
a bundle every tag too, which is as much as the code does. In bundle format a
bundle without a tag is replaced by one that is made of a new clone, also when it was made of a leftover clone that lacked the tag, since the
leftover goes with it. In clone format a tag that a fetch does not follow is never made good, and the
document's claim that it is has a run of its own, `tag_moved`.
`SweepConvergesUntorn` excuses a clone that is "torn" or "rotten": `ensureClone` re-clones
only when HEAD is missing (`engine.go:171`), so `ensureOrigin` fails on the one in
every later backup, the fetch succeeds on the other without repairing it, and
nothing in the program does. `touched` and `rekeyed` in `Startup` are history
variables too: whether anything has changed what the start looks at, and
whether the operator has given another key. `PairInOrder` and `CertStable` leave
hostnames that are addresses aside: the certificate has the address as
a DNS name, `hostnameCovered` looks for it among the addresses
(`tlsutil.go:236-243`), and every start makes a new certificate. `UpAgain`
excuses the encryption key that is lost, where the program refuses to start. `SyncSettles`
excuses a repository whose name another row holds (`Stuck`) and an empty list,
which `SyncRepos` refuses.

### Violations

Each of these runs looks at one property that a document or a comment of the
repository states, and TLC finds a behaviour of the code without it.

| Run | Property | What happens |
|---|---|---|
| `switch_fallback` | `OnlyCopyKept` | A conversion to bundle fails, the handler writes the format all the same; converting back removes the clone, which is the only copy, before it finds that there is no bundle (`handlers.go:548`, `engine.go:628`). |
| `tag_moved` | `TagsCopied` | A tag moves; every sweep finds the refs of the clone to differ and fetches, but the fetch asks for branches, the tag stays where it was, and the clone is recorded as current (`engine.go:150`). `README.md:174` says that tag-only pushes are still copied. |
| `reconcile_race` | `RedundantOnly` | Reconcile of a cron job acts on a row it listed before a handler switched the repository to clone, and removes the new clone (`engine.go:948`). |
| `name_reused` | `GoneKept` | A repository is deleted, another takes its name, and a backup by name replaces the copy (`engine.go:159`). |
| `starved` | `OthersServed` | A repository that always fails comes first in the list and cancels the same others every night (`scheduler.go:333`). |

Six things the models show have no run of their own. A clone that is killed leaves a HEAD and no
refs, which `copyUsable` takes for a complete copy (`engine.go:294`; the comment at 284 says that
a leftover from a crash must not be trusted). If it was to replace a copy
that had been lost, `source_pushed_at` is still that of the lost one, because Reconcile
clears the dates only, and the nightly job calls it current: with `Env = {"lose"}` TLC finds
`SkipSound` violated in the instance of `calm`. When two jobs meet on a
repository without a copy, both work in one directory: the `git clone` of one can end in
an error after the fetch of the other has completed what it had begun, and git
then removes the directory (`engine.go:199`). The only copy is gone until the next backup;
`OnlyCloneLosesAtNight` says that it goes in no other way at night while nothing
fails but GitHub. Reconcile removes
a good clone beside a bundle whose pack is damaged, which `verifyBundle` cannot
see (`engine.go:943`; the comment at 922 says that a bad bundle never becomes the
sole copy). The row of a repository that is gone holds its name, so the one
that has it now is never added (`syncer.go:155`); `Stuck` is that excuse in
`SyncSettles`. A purge that overlaps a sync and a backup removes the copy of a
repository that is back (`handlers.go:453`). A hostname that is an
IPv4 address gets a new certificate at every start.

Two faults of the settings form have no run either, because no document speaks of
them. After a reload that timed out, or a form whose retention is refused after
the schedule was stored (`handlers.go:927-936`), the schedule in force is not
the saved one; sending the same schedule again does not help, because it is
compared with the saved one (`handlers.go:938`). Both are actions of `Scheduler`
and clear `clean`; that another schedule, once its reload runs to the end, puts both right is `ScheduleSaved`.

### Mutants

For every property of a passing run there is a mutated form of a definition,
next to the original and named after it (`Represents_Latest`, `Moved_Over`,
`Counted_First`...), that a plausible bug would give. TLC finds the property
violated when the mutated form takes the original's place.

## 4. Proofs

`VaultProofs` proves, for any set of actors and faults, any number of pushes,
with and without overlap:

- `TypeCorrect`: `Spec => []TypeOK`.
- `WatermarkCorrect`: `Spec => []WatermarkBehindSync`. `source_pushed_at` never
  runs ahead of what sync saw, and that never ahead of GitHub. If it did, the
  nightly job would skip a repository that had changed.

The other properties of `Vault` hold only under conditions, at least those of
the runs that check them. In the first part of the table the actors take turns
(`Overlap = {}`), in the second they do so and no handler is at work, which is a night
on which the jobs do not meet; in the third the cron jobs meet each other in any way, while
handlers and the start take turns with them (`Overlap \subseteq CronJobs`): when a
handler meets a job, `reconcile_race` is a way to lose a copy. Crashes come at any
point, in all of them.

| Theorem | Property | Module | Also assumed |
|---|---|---|---|
| `CloneAlwaysRetired` | `CloneRetired` | `VaultProofs` | nothing: any actors, any faults |
| `PromiseAlwaysKept` | `PromiseKept` | `KeepingProofs` | no purge, and of the faults only that the repository vanishes and returns |
| `RecordAlwaysHeld` | `RecordedHeld` | `KeepingProofs` | the same |
| `CopyAlwaysKept` | `OnlyCopyKept` | `KeepingProofs` | the same |
| `ReconcileAlwaysTruthful` | `ReconcileTruthful` | `KeepingProofs` | the same |
| `WatermarkAlwaysSound` | `WatermarkSound` | `SoundProofs` | no purge, no faults |
| `SkipAlwaysSound` | `SkipSound` | `SoundProofs` | no purge, no faults |
| *the jobs alone:* | | | |
| `PromiseKeptByJobs` | `PromiseKept` | `KeepingProofs` | no files lost or rotten; the repository may vanish, and any command, write or removal fail |
| `RecordHeldByJobs` | `RecordedHeld` and `WatermarkSound` | `KeepingProofs` | the same |
| `CopyKeptByJobs` | `OnlyCopyKept` | `KeepingProofs` | the same |
| `SkipSoundByJobs` | `SkipSound` | `KeepingProofs` | the same |
| *the cron jobs meet:* | | | |
| `BundleAlwaysRetired` | `BundleRetired` | `NightProofs` | nothing: any actors, any faults |
| `RedundantOnlyAtNight` | `RedundantOnly` | `NightProofs` | nothing |
| `ReconcileTruthfulAtNight` | `ReconcileTruthful` | `NightProofs` | of the faults only that files are lost or rot |
| `CopyKeptAtNight` | `OnlyCopyKept` | `NightProofs` | no purge, no faults |
| `OnlyCloneLosesAtNight` | `OnlyCloneLoses` | `NightProofs` | no purge, and of the faults only that the repository vanishes and returns |

The second part says where the danger is: while no two meet and no files are lost, a failed
command or write can cost a copy, or have a push recorded that is not held, only if a handler is at work too. The
conversion that fails and whose format is written all the same is how (`switch_fallback`).

`OnlyCloneLoses` is stated beside its proof: a step that leaves no complete copy
where there was one is a `git clone` that fails because the repository is gone.

Most of the first part is false when jobs meet:
the job that promotes its bundle last may have built it first, so an older
bundle replaces a newer one and the clone beside it is retired
(`CloneRetired`), and the row then claims more than is held (`RecordedHeld`, `PromiseKept`,
`WatermarkSound`, `SkipSound`). The next sweep makes it good, which is `SweepConvergesUntorn` in
`nights`. `rough`, where everybody takes turns, checks
`CloneRetired` and `BundleRetired` with every fault.

`ArchiveProofs` proves that the promise is worth having: `PromiseHolds`,
`Spec => []Kept`. In every state of `Archive` what is recorded was told and is
on GitHub, and a copy as new as it is held. With `PromiseAlwaysKept` this is what
`RecordedHeld` and `WatermarkBehindSync` say of `Vault`.

`ProcessProofs` proves every safety property of `Process`, for any sets of keys,
hostnames, configurations, tokens and forms, any migrations, and any number of
crashes and changes: `TypeCorrect`, `PairAlwaysInOrder`,
`TokenAlwaysReadable`, `CacheAlwaysAgrees`, `RateAlwaysCurrent`,
`CertAlwaysStable` and `StartAlwaysGoesThrough`. The last is the part of `UpAgain`
that is not about fairness: a start gives up by itself only when the key is lost.

`SyncerProofs` proves, for any repositories, any finite set of names and any
names at first:

- `TypeCorrect`: `Spec => []TypeOK`.
- `SyncAlwaysKeepsFiles`: `Spec => SyncKeepsFiles`. No step of a sync removes or
  replaces a copy, whatever failed before and whoever came between.
- `SyncAlwaysComplete`: `Spec => SyncComplete`. A sync that nothing fails or disturbs ends
  with every row as GitHub's list tells it, in whatever order it goes and whatever
  was in the table; with the start of syncs, which is fairness, this is
  what `SyncSettles` rests on.
- `NeverOrphaned`: `Spec => []NoOrphan`. While nothing fails and the jobs do not
  meet, every path that holds something after a sync has the name of a row.

`SchedulerProofs` proves every safety property of `Scheduler`, for any list of
repositories, any limit, any schedules and any number of requests:

- `TypeCorrect`: `Spec => []TypeOK`, which says also that no run has more
  copies under way than its limit.
- `ScheduleAlwaysSaved`: `Spec => []ScheduleSaved`. While no two requests have met, a
  reload that runs to its end leaves cron running with the saved schedule alone,
  whatever timed-out reloads and refused forms came before it.
- `SuccessAlwaysComplete`: `Spec => SuccessIsComplete`.

The theorems of `VaultProofs` rest on the assumptions on the constants alone (`ActorsAssumption`,
`EnvAssumption`, `BoundAssumption`, `OverlapAssumption`, `BootAssumption`).

The argument. `source <= lastPush` is not inductive: `RecordCopied` writes
`job[a].seen`, which the actor read long ago. The strengthening, which is a conjunct of
`WatermarkBehindSync` itself, is that every actor's `seen` is at most
`lastPush`; it is kept because sync only ever raises `lastPush`, up to
`pushedAt`, which only `Push` raises. Most steps touch none of this. The
predicate `Recording(a)` says what such a step of actor `a` may do at most: keep
the push times, and set `source` to nothing but what `a` has seen; one lemma
(`RecordingBehind`) shows that this keeps the invariant, and the steps of the engine are
shown to be of this kind, one after the other. `TypeCorrect` goes by the groups of `Next`
(`StartingType`, `HandlingType`, `SurroundingsType`, `EngineType`).

When the actors take turns there are three invariants, each on top of the one before:
`RInv` in `VaultProofs`, `KInv` in `KeepingProofs`, `SInv` in `SoundProofs`.
`RInv`: no copy is ahead of GitHub and a whole bundle is not empty (`Versions`); one actor
works at a time and Reconcile of the start comes first (`Turns`); and an actor has what
its next steps rely on (`Ready`), the version of a bundle under way being that of
the clone it was made of, until the clone is gone. The removal of a clone is then one
of something the bundle has too.

`KInv` says who keeps what is recorded. It is the bundle or else the clone, and the clone
only as long as the row names and dates it (`Keeping`): a row that does not may get another
format without a conversion. Three states need an excuse. A row can date a bundle that is not
there while a clone holds everything, namely when a crash stopped a refresh; then either that
refresh or Reconcile is about to put it right (`Misdated`, `Dated`). This is why
the switch to clone, which begins with removing the clone, is safe: Reconcile
has reset such a row, and the handler converts no copy that the row does not date. A
removal that was interrupted leaves a damaged clone, but only beside a whole bundle,
and the boot removes it before anyone takes it for a copy (`Damaged`). And a
conversion that has failed, whose format is written all the same, has failed with the recorded
version in the bundle (`Formatted`, at "fallback"). Beside these, each actor holds the row's
format and, of a copy it is about to record, no more than what is in it (`Work`). With
`KInv` every step of `Vault` is a step of `Archive` or none (`Simulated`): one that
records is `Record` (`RecordSimulates`), one that puts a copy in place is `Copy`
(`CopySimulates`), one that takes one away is `Discard` (`DropSimulates`). There is one lemma per action
(`CompareOnward`, `CrashOnward`, and so on), and `OnwardKeeps` joins them.

`SInv` adds that what is recorded is at the path of the row's format and dated (`Placed`),
and that what an interrupted removal leaves beside a bundle is gone when the program is up
(`Leftover`). It needs that conversions do not fail, since a failed one moves the format and
leaves the copy (`switch_fallback`), and that no file is lost, since a killed clone in its place would be called current.

The jobs alone need neither `KInv` nor `SInv`, because the format stays. `JInv` says what is left:
the recorded version is in a complete copy at the path of the row's format, a bundle there is
complete, and beside a row in clone format there is none (`Stored`). A step that fails leaves any of
a clone's remains, but only beside a bundle, or where nothing was recorded; what an actor
relies on afterwards is `Serving`, each part of which is what the last step that did not fail has
shown. Which write of a pair is the one that failed makes no difference, as the second is the
one that moves `source_pushed_at`.

When the cron jobs meet, `NightProofs` starts again from `VaultProofs`, with what survives the
steps of another job. `MInv`, whatever fails: whoever is at work beside another is a cron job
(`Meets`), and an actor has what no other job takes from it (`Prepared`). The format it read is
still that of the row, since only handlers change it, and they are alone; and a bundle at its
path stays, though its version may change. So a job that removes a clone as redundant acts
on a row that still says so. An actor's step is `Polite` when it keeps this for itself and, if
it is a job, leaves format and bundle; `PoliteKeeps` shows that the others stay `Prepared`, and
`EnginePolite` goes through the engine. `NInv`, when nothing fails but GitHub and the process:
a bundle is complete or not there; a row that dates a bundle which is not there, while there is
a complete clone, is about to get it (`Claimed`, where `Making` is the job that makes it) or Reconcile
of the start comes first (`BootSure`), so no conversion takes the clone for something to be removed;
and an actor that is to remove the one copy knows that the other is complete (`Sure`). A step is `Careful` when it
keeps this, and takes the last copy in no way but `Lost`, which needs GitHub to fail.
`TInv`, when commands succeed, is about dates: once a job has found the row dated and something at the path, or no date, or
has cleared the dates, no other job changes that (`Truthful`), because every step of a job is
`Lasting`: it empties no path of the row's format and dates nothing that is not there. A
`git clone` whose directory another actor takes away fails and removes the rest; but a job
takes a clone away only beside a row in bundle format (`Fetchable`).

For `Process` the invariant `IInv` has four parts beside the types, which
touch different variables and are kept by different steps. `KeysKept`: what is stored, in the database or at its last
checkpoint, is under the key a start would find, if it finds any. It is true of a generated
key because there is then no database, nor a checkpoint of one
(`kept.exists => db.exists`); a power loss leaves an empty file, never another
key. `PairsKept` says for each point of the writing what is in which file,
and that files nobody touched are in order whatever `at` is; `CertAlwaysStable`
is the case of the last. `MigrationsKept`: no migration is in the database, or at its checkpoint, that
the version there does not count, because both are one transaction; so the next one
finds nothing of its own and can be applied, which is what `StartAlwaysGoesThrough` needs. `RequestsKept`: nothing is cached while the server is down; and while
no form is between storing and clearing, not only the cached rate limit but also
the one that is being asked for is that of the token in use. This is what the
mutex is for: a form leaves that point only when nobody is asking. One step per action shows for
each part that it is kept (`BootKeys`, `HappenKeys`, `ServeKeys`, and so on). The
assumptions on the constants say that the values are distinct and that there is
always another key to generate (`NewKeysAssumption`).

For `Syncer` the invariant `IInv` adds to the types what the sync has in hand
(`InHand`): the repositories it visits were listed with a name, the one being
renamed has an old and a new name, and a row that was read, or is about to be
marked, is still there. With it `SyncAlwaysKeepsFiles` is a statement on `Moved` alone
(`MovedKeeps`): one path is given up and a free one taken, so the number of copies stays,
for which the names must be finite (`NamesAssumption`). `NoOrphan` is not
inductive: in the middle of a rename the row has its new name and the files still have the
old one. `Orderly` says what holds there. Names are unique; and while nothing
has failed and nobody met, every path that holds something is that of a row, or
the one about to be moved (`Homes`), the place it goes to is free (`Going`), the rows still to
visit are as they were listed (`Current`), and no backup is under way beside the
sync (`Alone`). That the place is free follows from the rest: `UNIQUE(owner, name)`
let the row take the name, so no row had it, so nothing was kept under it
(`FreeIsEmpty`). A conversion keeps this because it leaves nothing in the old
format. For `SyncComplete` there is another, `Complete`: GitHub gives a name to one
repository, and so does its list (`Distinct`); and in the loop of a steady sync (`Telling`) the
rows still to visit are as they were listed, those visited tell what GitHub said or wait
for a name, the one in hand has its new name and not yet its path, or both, and every name in the table is
one that was there or one that was listed (`Origin`). The last is why a row that finds its name
taken can say by which row it was taken when the sync began.

For `Scheduler` the invariant has four parts: the types (`Shapes`); at most
`Limit` copies under way in a run, and they are finitely many (`Limited`);
while no two requests have met, at most one is past its start, cron's entries
are the batch the jobs map knows, or none, also after a request that failed half-way, and the label of
the request under way determines the rest (`Orderly`); and as long as a run
has not failed, what it has started is done or under way (`Progress`). The theorems rest on
`ListingAssumption`, `DefaultAssumption`, `LimitAssumption` and
`EventsAssumption`.

Model-checked only: the liveness
properties (`SweepConvergesUntorn`, `SyncSettles`, `Served`, `UpAgain`), as the prover has no rules for
fairness and `ENABLED` here. Of `UpAgain` and `SyncSettles` the safety part is
proved, as said above.

## 5. Not modelled

- Sessions, users, CSRF and the two rate limiters: tables and maps of their own,
  one short critical section each, and no effect on backups.
- Pages, templates, static files, log entries and their clean-up: nothing is
  decided on them.
- Manual runs as the banner shows them (`RecordRun`): a manual sync is recorded
  as successful although rows failed to be written (`handlers.go:708`), which is a matter of what is shown.
- The settings other than the encryption key, which are read once, and what a
  migration does to the rows.
- The orderly shutdown, which is a crash that comes later: the same states are
  left behind.
- The origin URL in a clone's config and the scratch directories of `Verify`.

## 6. Plan

Done: the engine with its callers, its promise and the overlap of the
cron jobs on one clone and one bundle; the sync; the scheduler; the start and the
token; the theorems of section 4. Next, in this order:

1. The table as a map from ids to names, as an abstract specification of `Syncer`; the same
   for the schedule in force and the pair of TLS files.
2. Sessions and the rate limiters.
