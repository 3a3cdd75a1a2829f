----------------------------- MODULE Scheduler ------------------------------
(* The cron scheduler (src/internal/scheduler/scheduler.go): the jobs cron     *)
(* starts, the running map that keeps a job from running twice, a backup run   *)
(* over all repositories in an error group, and the settings handlers that     *)
(* replace the sync schedule while jobs run.                                   *)
(*                                                                             *)
(* Cron keeps one batch of entries for every addJobs; all that matters of a    *)
(* batch is the sync schedule it was added with.  A copy is fresh or not, as   *)
(* far as sync has seen; how it is made is the subject of BackupEngine.        *)
EXTENDS Naturals, Sequences, FiniteSets

CONSTANTS
    Listing,    \* the repositories with backup enabled, as List orders them
    Broken,     \* those whose copy fails every time
    Limit,      \* how many copies a run makes at a time
    Schedules,  \* valid sync schedules
    Default,    \* the one a new database has
    Handlers,   \* requests to save the settings
    MaxEvents   \* bound: pushes, failures, time limits, settings forms, restarts

Repos == {Listing[i] : i \in DOMAIN Listing}

ASSUME ListingAssumption == Listing \in Seq(Repos) /\ Broken \subseteq Repos
ASSUME DefaultAssumption == Default \in Schedules
ASSUME LimitAssumption   == Limit \in Nat \ {0}
ASSUME EventsAssumption  == MaxEvents \in Nat

VARIABLES
    fresh,      \* the repositories whose copy is current
    on,         \* cron is running
    entries,    \* how many batches of entries cron has, by schedule
    mapped,     \* the schedules of the batch the jobs map knows, at most one
    running,    \* the jobs that run
    run,        \* what a backup job is doing, and how far it is
    results,    \* the outcome of a backup job's last run
    saved,      \* the cron_schedule setting
    pc,         \* where each handler is
    form,       \* the schedule it was given
    current,    \* the schedule it read before saving
    events,     \* bound: how many events have happened
    clean,      \* history: no request failed half-way since the last reload or start
    met         \* history: two requests have met since the start

cron  == <<on, entries, mapped>>
page  == <<saved, pc, form, current>>
vars  == <<fresh, cron, running, run, results, page, events, clean, met>>

Backups == {"backup", "backup_sweep"}
Jobs    == Backups \cup {"sync"}

Runs == [next : 1..(Len(Listing) + 1), busy : SUBSET Repos, done : SUBSET Repos,
         cancelled : BOOLEAN, failed : BOOLEAN]

NoRun == [next |-> 1, busy |-> {}, done |-> {}, cancelled |-> FALSE, failed |-> FALSE]

Event == events < MaxEvents /\ events' = events + 1
Calm  == UNCHANGED events

Batch(e) == [s \in Schedules |-> IF s = e THEN 1 ELSE 0]

-----------------------------------------------------------------------------
(* Jobs.                                                                       *)

(* wrapJob: a job that is still running is not started again. *)
Fire(j) ==
    /\ on /\ \E e \in Schedules : entries[e] > 0
    /\ j \notin running
    /\ running' = running \cup {j}
    /\ Calm /\ UNCHANGED <<fresh, cron, run, results, page, clean, met>>

AtWork(j) == j \in running \cap Backups

(* Mutation: one more than the limit. *)
Slot_Over(j) == Cardinality(run[j].busy) <= Limit

Slot(j) == Cardinality(run[j].busy) < Limit

(* The error group starts the copies in the order of the list, so many at a    *)
(* time, whether it has been cancelled or not.                                 *)
Spawn(j) ==
    /\ AtWork(j)
    /\ run[j].next <= Len(Listing) /\ Slot(j)
    /\ run' = [run EXCEPT ![j].busy = @ \cup {Listing[run[j].next]},
                          ![j].next = @ + 1]
    /\ Calm /\ UNCHANGED <<fresh, cron, running, results, page, clean, met>>

(* The nightly job leaves a current copy alone; it asks nobody, so it does not *)
(* notice that it has been cancelled.                                          *)
LeftAlone(j, r) == j = "backup" /\ r \in fresh

Copy(j, r) ==
    /\ AtWork(j) /\ r \in run[j].busy
    /\ LeftAlone(j, r) \/ (~run[j].cancelled /\ r \notin Broken)
    /\ fresh' = fresh \cup {r}
    /\ run' = [run EXCEPT ![j].busy = @ \ {r}, ![j].done = @ \cup {r}]
    /\ Calm /\ UNCHANGED <<cron, running, results, page, clean, met>>

(* Mutation: an error that comes of the cancellation is not counted. *)
Counted_First(j) == ~run[j].cancelled

Counted(j) == TRUE

(* The first error cancels the context of all. *)
Fail(j, r) ==
    /\ AtWork(j) /\ r \in run[j].busy /\ ~LeftAlone(j, r)
    /\ run' = [run EXCEPT ![j].busy = @ \ {r}, ![j].cancelled = TRUE,
                          ![j].failed = @ \/ Counted(j)]
    /\ IF run[j].cancelled \/ r \in Broken THEN Calm ELSE Event
    /\ UNCHANGED <<fresh, cron, running, results, page, clean, met>>

(* The time limit of the job. *)
Expire(j) ==
    /\ AtWork(j) /\ ~run[j].cancelled
    /\ run' = [run EXCEPT ![j].cancelled = TRUE]
    /\ Event /\ UNCHANGED <<fresh, cron, running, results, page, clean, met>>

(* Mutation: the next run gets the context of this one. *)
EndRun_Kept(j) == [NoRun EXCEPT !.cancelled = run[j].cancelled]

EndRun(j) == NoRun

(* What the job returns is stored, then it counts as not running. *)
Finish(j) ==
    /\ j \in running
    /\ j \in Backups => run[j].next > Len(Listing) /\ run[j].busy = {}
    /\ IF j \in Backups
       THEN /\ results' = [results EXCEPT ![j] = IF run[j].failed THEN "error" ELSE "ok"]
            /\ run' = [run EXCEPT ![j] = EndRun(j)]
       ELSE UNCHANGED <<results, run>>
    /\ running' = running \ {j}
    /\ Calm /\ UNCHANGED <<fresh, cron, page, clean, met>>

-----------------------------------------------------------------------------
(* handleSettingsPost and ReloadCron.  No lock keeps two requests apart.       *)

At(h, from, to) == pc[h] = from /\ pc' = [pc EXCEPT ![h] = to]

ReadSettings(h) ==
    /\ At(h, "idle", "save")
    /\ \E e \in Schedules : form' = [form EXCEPT ![h] = e]
    /\ current' = [current EXCEPT ![h] = saved]
    /\ met' = (met \/ \E g \in Handlers : pc[g] # "idle")
    /\ Event /\ UNCHANGED <<fresh, cron, running, run, results, saved, clean>>

Changed(h) == form[h] # current[h]

SaveSettings(h) ==
    /\ At(h, "save", IF Changed(h) THEN "stop" ELSE "idle")
    /\ saved' = form[h]
    /\ Calm /\ UNCHANGED <<fresh, cron, running, run, results, form, current, clean, met>>

(* The schedule is stored, but log_retention_days is refused: no reload.       *)
SaveScheduleOnly(h) ==
    /\ At(h, "save", "idle")
    /\ saved' = form[h]
    /\ clean' = (clean /\ ~Changed(h))
    /\ Calm /\ UNCHANGED <<fresh, cron, running, run, results, form, current, met>>

(* Cron starts no more jobs; those that run go on. *)
StopCron(h) ==
    /\ At(h, "stop", "wait")
    /\ on' = FALSE
    /\ Calm
    /\ UNCHANGED <<fresh, entries, mapped, running, run, results, saved, form, current, clean, met>>

(* ReloadCron waits for the running jobs, and gives up after 30 seconds. *)
Waited(h) ==
    /\ \/ running = {} /\ At(h, "wait", "remove") /\ UNCHANGED clean
       \/ running # {} /\ At(h, "wait", "idle") /\ clean' = FALSE
    /\ Calm /\ UNCHANGED <<fresh, cron, running, run, results, saved, form, current, met>>

(* Mutation: the batch of the schedule that the request read is removed. *)
RemoveJobs_Read(h) ==
    /\ At(h, "remove", "add")
    /\ entries' = [e \in Schedules |-> IF e = current[h] /\ entries[e] > 0
                                       THEN entries[e] - 1 ELSE entries[e]]
    /\ mapped' = {}
    /\ Calm /\ UNCHANGED <<fresh, on, running, run, results, saved, form, current, clean, met>>

RemoveJobs(h) ==
    /\ At(h, "remove", "add")
    /\ entries' = [e \in Schedules |-> IF e \in mapped /\ entries[e] > 0
                                       THEN entries[e] - 1 ELSE entries[e]]
    /\ mapped' = {}
    /\ Calm /\ UNCHANGED <<fresh, on, running, run, results, saved, form, current, clean, met>>

AddJobs(h) ==
    /\ At(h, "add", "start")
    /\ entries' = [entries EXCEPT ![form[h]] = @ + 1]
    /\ mapped' = {form[h]}
    /\ Calm /\ UNCHANGED <<fresh, on, running, run, results, saved, form, current, clean, met>>

StartCron(h) ==
    /\ At(h, "start", "idle")
    /\ on' = TRUE /\ clean' = TRUE
    /\ Calm
    /\ UNCHANGED <<fresh, entries, mapped, running, run, results, saved, form, current, met>>

-----------------------------------------------------------------------------
(* The world, and the start of the process.                                    *)

Push(r) ==
    /\ r \in fresh
    /\ fresh' = fresh \ {r}
    /\ Event /\ UNCHANGED <<cron, running, run, results, page, clean, met>>

(* Start registers the jobs with the saved schedule. *)
Started(e) ==
    /\ on = TRUE /\ entries = Batch(e) /\ mapped = {e}
    /\ running = {} /\ run = [j \in Backups |-> NoRun]
    /\ results = [j \in Backups |-> "none"]
    /\ pc = [h \in Handlers |-> "idle"] /\ clean = TRUE /\ met = FALSE

(* The process ends: told to, it stops cron and gives the jobs 30 seconds, at  *)
(* whatever point they are then; or it dies.  Then it starts again.            *)
Restart ==
    /\ on' = TRUE /\ entries' = Batch(saved) /\ mapped' = {saved}
    /\ running' = {} /\ run' = [j \in Backups |-> NoRun]
    /\ results' = [j \in Backups |-> "none"]
    /\ pc' = [h \in Handlers |-> "idle"] /\ clean' = TRUE /\ met' = FALSE
    /\ Event /\ UNCHANGED <<fresh, saved, form, current>>

Init ==
    /\ saved = Default /\ Started(Default)
    /\ form = [h \in Handlers |-> Default] /\ current = form
    /\ fresh = {} /\ events = 0

Running(j) == \/ Spawn(j) \/ Finish(j)
              \/ \E r \in Repos : Copy(j, r) \/ Fail(j, r)

Reloading(h) == \/ SaveSettings(h) \/ SaveScheduleOnly(h) \/ StopCron(h) \/ Waited(h) \/ RemoveJobs(h)
                \/ AddJobs(h) \/ StartCron(h)

Next == \/ \E j \in Jobs : Fire(j) \/ Running(j) \/ Expire(j)
        \/ \E h \in Handlers : ReadSettings(h) \/ Reloading(h)
        \/ \E r \in Repos : Push(r)
        \/ Restart

Spec == Init /\ [][Next]_vars

(* Cron starts every job again and again; what runs goes on. *)
FairSpec == /\ Spec
            /\ \A j \in Jobs : WF_vars(Fire(j)) /\ WF_vars(Running(j))
            /\ \A h \in Handlers : WF_vars(Reloading(h))

-----------------------------------------------------------------------------
(* Properties.                                                                 *)

(* The types of the state, and the limit on the copies made at a time. *)
TypeOK ==
    /\ \A j \in Backups : Cardinality(run[j].busy) <= Limit
    /\ fresh \subseteq Repos /\ on \in BOOLEAN
    /\ entries \in [Schedules -> Nat] /\ mapped \in SUBSET Schedules
    /\ running \subseteq Jobs /\ run \in [Backups -> Runs]
    /\ results \in [Backups -> {"none", "ok", "error"}]
    /\ saved \in Schedules /\ form \in [Handlers -> Schedules]
    /\ current \in [Handlers -> Schedules]
    /\ pc \in [Handlers -> {"idle", "save", "stop", "wait", "remove", "add", "start"}]
    /\ events \in 0..MaxEvents /\ clean \in BOOLEAN /\ met \in BOOLEAN

(* When no request is under way, cron runs with the schedule that is saved and *)
(* with no other, whatever earlier requests left half-way, once a reload has   *)
(* run to its end since.  Two requests that meet are left out.                 *)
ScheduleSaved ==
    clean /\ ~met /\ (\A h \in Handlers : pc[h] = "idle")
       => on /\ entries = Batch(saved)

(* A backup job that reports success has copied, or found current, every       *)
(* repository of its list.                                                     *)
SuccessIsComplete ==
    [][\A j \in Backups : j \in running \ running' /\ results'[j] = "ok"
          => run[j].done = Repos]_vars

(* While cron stays on, every repository whose copy is behind is copied: what  *)
(* failed, was cancelled or ran out of time is made good by a later run.       *)
Served == <>[]on => \A r \in Repos : []<>(r \in fresh)

(* Backup runs on all repositories with backup enabled: one that fails every   *)
(* time does not keep the others from being copied.                            *)
OthersServed == <>[]on => \A r \in Repos \ Broken : []<>(r \in fresh)

=============================================================================
