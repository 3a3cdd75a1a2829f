--------------------------- MODULE SchedulerProofs ---------------------------
(* Theorems about Scheduler, for every list of repositories, limit, set of     *)
(* schedules and number of requests, failures and restarts.                    *)
EXTENDS Scheduler, FiniteSetTheorems, TLAPS

-----------------------------------------------------------------------------
(* Types.                                                                      *)

(* TypeOK but for the limit, which needs the copies under way to be finite. *)
Shapes ==
    /\ fresh \subseteq Repos /\ on \in BOOLEAN
    /\ entries \in [Schedules -> Nat] /\ mapped \in SUBSET Schedules
    /\ running \subseteq Jobs /\ run \in [Backups -> Runs]
    /\ results \in [Backups -> {"none", "ok", "error"}]
    /\ saved \in Schedules /\ form \in [Handlers -> Schedules]
    /\ current \in [Handlers -> Schedules]
    /\ pc \in [Handlers -> {"idle", "save", "stop", "wait", "remove", "add", "start"}]
    /\ events \in 0..MaxEvents /\ clean \in BOOLEAN /\ met \in BOOLEAN

Within(s) == IsFiniteSet(s) /\ Cardinality(s) <= Limit

Limited == \A j \in Backups : Within(run[j].busy)

LEMMA Lengths == Len(Listing) \in Nat /\ DOMAIN Listing = 1..Len(Listing)
BY ListingAssumption

LEMMA NoRunType == NoRun \in Runs /\ Within(NoRun.busy)
<1>1. NoRun \in Runs
  BY Lengths DEF NoRun, Runs
<1>2. IsFiniteSet({}) /\ Cardinality({}) = 0
  BY FS_EmptySet
<1> QED
  BY <1>1, <1>2, LimitAssumption DEF NoRun, Within

LEMMA BatchType == \A e : Batch(e) \in [Schedules -> Nat]
BY DEF Batch

LEMMA NextEvent == Shapes /\ Event => events' \in 0..MaxEvents
BY EventsAssumption DEF Shapes, Event

LEMMA InitShapes == Init => Shapes /\ Limited
<1> SUFFICES ASSUME Init PROVE Shapes /\ Limited
  OBVIOUS
<1>1. /\ fresh \subseteq Repos /\ on \in BOOLEAN /\ entries \in [Schedules -> Nat]
      /\ mapped \in SUBSET Schedules /\ running \subseteq Jobs /\ saved \in Schedules
  BY BatchType, DefaultAssumption DEF Init, Started
<1>2. /\ results \in [Backups -> {"none", "ok", "error"}]
      /\ pc \in [Handlers -> {"idle", "save", "stop", "wait", "remove", "add", "start"}]
      /\ form \in [Handlers -> Schedules] /\ current \in [Handlers -> Schedules]
  BY DefaultAssumption DEF Init, Started
<1>3. run \in [Backups -> Runs] /\ \A j \in Backups : run[j] = NoRun
  BY NoRunType DEF Init, Started
<1>4. events \in 0..MaxEvents /\ clean \in BOOLEAN /\ met \in BOOLEAN
  <2>1. events \in 0..MaxEvents
    BY EventsAssumption DEF Init
  <2>2. clean \in BOOLEAN /\ met \in BOOLEAN
    BY Zenon DEF Init, Started
  <2> QED
    BY <2>1, <2>2
<1> QED
  BY <1>1, <1>2, <1>3, <1>4, NoRunType DEF Shapes, Limited

(* What a step of a run may do to it. *)
LEMMA RunShapes ==
    ASSUME Shapes, Limited, NEW j \in Backups, NEW r \in Runs,
           Within(r.busy), run' = [run EXCEPT ![j] = r]
    PROVE  run' \in [Backups -> Runs] /\ Limited'
BY DEF Shapes, Limited

LEMMA SmallerBusy ==
    ASSUME NEW s, Within(s), NEW r PROVE Within(s \ {r})
<1>1. IsFiniteSet(s \ {r}) /\ Cardinality(s \ {r}) <= Cardinality(s)
  BY FS_Subset, s \ {r} \subseteq s DEF Within
<1>2. Cardinality(s) \in Nat /\ Cardinality(s \ {r}) \in Nat
  BY <1>1, FS_CardinalityType DEF Within
<1> QED
  BY <1>1, <1>2, LimitAssumption DEF Within

LEMMA LargerBusy ==
    ASSUME NEW s, Within(s), Cardinality(s) < Limit, NEW r PROVE Within(s \cup {r})
<1>1. IsFiniteSet(s \cup {r})
        /\ (Cardinality(s \cup {r}) = Cardinality(s) \/ Cardinality(s \cup {r}) = Cardinality(s) + 1)
  BY FS_AddElement DEF Within
<1>2. Cardinality(s) \in Nat
  BY FS_CardinalityType DEF Within
<1> QED
  BY <1>1, <1>2, LimitAssumption DEF Within

(* Running(j), one way of moving on after the other. *)
LEMMA SpawnShapes == \A j \in Jobs : Shapes /\ Limited /\ Spawn(j) => Shapes' /\ Limited'
<1> SUFFICES ASSUME NEW j \in Jobs, Shapes, Limited, Spawn(j) PROVE Shapes' /\ Limited'
  OBVIOUS
<1>1. j \in Backups /\ run[j] \in Runs
  BY DEF Spawn, AtWork, Shapes
<1>2. run[j].next \in 1..Len(Listing) /\ run[j].busy \subseteq Repos
  <2>1. run[j].next \in 1..(Len(Listing) + 1) /\ run[j].busy \subseteq Repos
    BY <1>1 DEF Runs
  <2>2. run[j].next <= Len(Listing)
    BY DEF Spawn
  <2> QED
    BY <2>1, <2>2, Lengths
<1> DEFINE r == [run[j] EXCEPT !.busy = @ \cup {Listing[run[j].next]}, !.next = @ + 1]
<1>3. Listing[run[j].next] \in Repos
  BY <1>2, Lengths DEF Repos
<1>4. r \in Runs
  <2>1. run[j].next + 1 \in 1..(Len(Listing) + 1)
    BY <1>2, Lengths
  <2>2. run[j].busy \cup {Listing[run[j].next]} \subseteq Repos
    BY <1>2, <1>3
  <2> QED
    BY <1>1, <2>1, <2>2 DEF Runs
<1>5. Within(r.busy)
  <2>1. r.busy = run[j].busy \cup {Listing[run[j].next]}
    BY <1>1 DEF Runs
  <2>2. Within(run[j].busy) /\ Cardinality(run[j].busy) < Limit
    BY <1>1 DEF Limited, Spawn, Slot
  <2>3. Within(run[j].busy \cup {Listing[run[j].next]})
    BY <2>2, LargerBusy
  <2> QED
    BY <2>1, <2>3
<1>6. run' = [run EXCEPT ![j] = r]
  BY <1>1 DEF Spawn, Shapes
<1>7. run' \in [Backups -> Runs] /\ Limited'
  BY <1>1, <1>4, <1>5, <1>6, RunShapes
<1> QED
  BY <1>7 DEF Spawn, Shapes, Calm, cron, page

LEMMA CopyShapes ==
    \A j \in Jobs, c \in Repos : Shapes /\ Limited /\ Copy(j, c) => Shapes' /\ Limited'
<1> SUFFICES ASSUME NEW j \in Jobs, NEW c \in Repos, Shapes, Limited, Copy(j, c)
             PROVE  Shapes' /\ Limited'
  OBVIOUS
<1>1. j \in Backups /\ run[j] \in Runs
  BY DEF Copy, AtWork, Shapes
<1> DEFINE r == [run[j] EXCEPT !.busy = @ \ {c}, !.done = @ \cup {c}]
<1>2. r \in Runs /\ r.busy = run[j].busy \ {c}
  BY <1>1 DEF Runs
<1>3. run' = [run EXCEPT ![j] = r]
  BY <1>1 DEF Copy, Shapes
<1> HIDE DEF r
<1>4. Within(r.busy)
  BY <1>1, <1>2, SmallerBusy DEF Limited
<1>5. run' \in [Backups -> Runs] /\ Limited'
  BY <1>1, <1>2, <1>3, <1>4, RunShapes
<1> QED
  BY <1>5 DEF Copy, Shapes, Calm, cron, page

LEMMA FailShapes ==
    \A j \in Jobs, c \in Repos : Shapes /\ Limited /\ Fail(j, c) => Shapes' /\ Limited'
<1> SUFFICES ASSUME NEW j \in Jobs, NEW c \in Repos, Shapes, Limited, Fail(j, c)
             PROVE  Shapes' /\ Limited'
  OBVIOUS
<1>1. j \in Backups /\ run[j] \in Runs
  BY DEF Fail, AtWork, Shapes
<1> DEFINE r == [run[j] EXCEPT !.busy = @ \ {c}, !.cancelled = TRUE, !.failed = @ \/ Counted(j)]
<1>2. r \in Runs /\ r.busy = run[j].busy \ {c}
  BY <1>1 DEF Runs, Counted
<1>3. run' = [run EXCEPT ![j] = r]
  BY <1>1 DEF Fail, Shapes
<1> HIDE DEF r
<1>4. Within(r.busy)
  BY <1>1, <1>2, SmallerBusy DEF Limited
<1>5. run' \in [Backups -> Runs] /\ Limited'
  BY <1>1, <1>2, <1>3, <1>4, RunShapes
<1>6. events' \in 0..MaxEvents
  BY NextEvent DEF Fail, Calm, Shapes
<1> QED
  BY <1>5, <1>6 DEF Fail, Shapes, cron, page

LEMMA ExpireShapes == \A j \in Jobs : Shapes /\ Limited /\ Expire(j) => Shapes' /\ Limited'
<1> SUFFICES ASSUME NEW j \in Jobs, Shapes, Limited, Expire(j) PROVE Shapes' /\ Limited'
  OBVIOUS
<1>1. j \in Backups /\ run[j] \in Runs
  BY DEF Expire, AtWork, Shapes
<1> DEFINE r == [run[j] EXCEPT !.cancelled = TRUE]
<1>2. r \in Runs /\ r.busy = run[j].busy
  BY <1>1 DEF Runs
<1>3. run' = [run EXCEPT ![j] = r]
  BY <1>1 DEF Expire, Shapes
<1> HIDE DEF r
<1>4. run' \in [Backups -> Runs] /\ Limited'
  BY <1>1, <1>2, <1>3, RunShapes DEF Limited
<1> QED
  BY <1>4, NextEvent DEF Expire, Shapes, cron, page

LEMMA FinishShapes == \A j \in Jobs : Shapes /\ Limited /\ Finish(j) => Shapes' /\ Limited'
<1> SUFFICES ASSUME NEW j \in Jobs, Shapes, Limited, Finish(j) PROVE Shapes' /\ Limited'
  OBVIOUS
<1>1. CASE j \in Backups
  <2>1. run' = [run EXCEPT ![j] = NoRun]
    BY <1>1 DEF Finish, EndRun
  <2>2. run' \in [Backups -> Runs] /\ Limited'
    BY <1>1, <2>1, NoRunType, RunShapes
  <2>3. results' \in [Backups -> {"none", "ok", "error"}]
    BY <1>1 DEF Finish, Shapes
  <2> QED
    BY <2>2, <2>3 DEF Finish, Shapes, Calm, cron, page
<1>2. CASE j \notin Backups
  BY <1>2 DEF Finish, Shapes, Limited, Calm, cron, page
<1> QED
  BY <1>1, <1>2

LEMMA FireShapes == \A j \in Jobs : Shapes /\ Limited /\ Fire(j) => Shapes' /\ Limited'
BY DEF Fire, Shapes, Limited, Calm, cron, page

(* The settings form: none of its steps touches a run. *)
LEMMA FormShapes ==
    \A h \in Handlers : Shapes /\ Limited /\ (ReadSettings(h) \/ Reloading(h))
                            => Shapes' /\ Limited'
<1> SUFFICES ASSUME NEW h \in Handlers, Shapes, Limited, ReadSettings(h) \/ Reloading(h)
             PROVE  Shapes' /\ Limited'
  OBVIOUS
<1> USE DEF Shapes, Limited, Calm, cron, page, At
<1>1. CASE ReadSettings(h)
  BY <1>1, NextEvent DEF ReadSettings
<1>2. CASE SaveSettings(h)
  BY <1>2 DEF SaveSettings
<1>3. CASE SaveScheduleOnly(h)
  BY <1>3, NextEvent DEF SaveScheduleOnly
<1>4. CASE StopCron(h)
  BY <1>4 DEF StopCron
<1>5. CASE Waited(h)
  BY <1>5, NextEvent DEF Waited
<1>6. CASE RemoveJobs(h)
  <2>1. entries' \in [Schedules -> Nat]
    BY <1>6 DEF RemoveJobs
  <2> QED
    BY <1>6, <2>1 DEF RemoveJobs
<1>7. CASE AddJobs(h)
  <2>1. entries' \in [Schedules -> Nat] /\ mapped' \in SUBSET Schedules
    BY <1>7 DEF AddJobs
  <2> QED
    BY <1>7, <2>1 DEF AddJobs
<1>8. CASE StartCron(h)
  BY <1>8 DEF StartCron
<1> QED
  BY <1>1, <1>2, <1>3, <1>4, <1>5, <1>6, <1>7, <1>8 DEF Reloading

LEMMA WorldShapes ==
    Shapes /\ Limited /\ (Restart \/ \E r \in Repos : Push(r)) => Shapes' /\ Limited'
<1> SUFFICES ASSUME Shapes, Limited, Restart \/ \E r \in Repos : Push(r)
             PROVE  Shapes' /\ Limited'
  OBVIOUS
<1>1. CASE Restart
  <2>1. saved \in Schedules /\ events' \in 0..MaxEvents
    BY <1>1, NextEvent DEF Restart, Shapes
  <2> QED
    BY <1>1, <2>1, NoRunType, BatchType DEF Restart, Shapes, Limited
<1>2. CASE \E r \in Repos : Push(r)
  BY <1>2, NextEvent DEF Push, Shapes, Limited, cron, page
<1> QED
  BY <1>1, <1>2

-----------------------------------------------------------------------------
(* The schedule in force.                                                      *)

(* The jobs map knows the one batch that cron has. *)
Loaded == \E e \in Schedules : entries = Batch(e) /\ mapped = {e}

Settled == Loaded /\ (clean => on /\ entries = Batch(saved))

(* What cron has while a request is at each point of ReloadCron. *)
Stage(h) ==
    /\ pc[h] = "save" => Settled /\ current[h] = saved
    /\ pc[h] \in {"stop", "wait", "remove"} => Loaded /\ saved = form[h]
    /\ pc[h] = "add" => /\ entries = [e \in Schedules |-> 0] /\ mapped = {}
                        /\ saved = form[h]
    /\ pc[h] = "start" => entries = Batch(saved) /\ mapped = {saved}

Alone == \A g, h \in Handlers : pc[g] # "idle" /\ pc[h] # "idle" => g = h

(* Unless two requests met, there is one at most, and it is known what it has  *)
(* done so far.                                                                *)
Orderly ==
    ~met => /\ Alone
            /\ \A h \in Handlers : Stage(h)
            /\ (\A h \in Handlers : pc[h] = "idle") => Settled

LEMMA InitOrderly == Init => Orderly
BY DefaultAssumption DEF Init, Started, Orderly, Alone, Stage, Settled, Loaded

LEMMA SameOrderly == Orderly /\ UNCHANGED <<cron, page, clean, met>> => Orderly'
BY DEF Orderly, Alone, Stage, Settled, Loaded, cron, page

(* A step of the one request h leaves the others idle. *)
LEMMA OneOrderly ==
    ASSUME Shapes, Orderly, NEW h \in Handlers, pc[h] # "idle", ~met,
           NEW to, pc' = [pc EXCEPT ![h] = to],
           Stage(h)', to # "idle" \/ Settled'
    PROVE  Orderly'
<1>1. \A g \in Handlers \ {h} : pc[g] = "idle" /\ pc'[g] = "idle"
  BY DEF Orderly, Alone, Shapes
<1>2. pc'[h] = to
  BY DEF Shapes
<1>3. Alone'
  BY <1>1 DEF Alone
<1>4. ASSUME NEW g \in Handlers PROVE Stage(g)'
  <2>1. CASE g = h
    BY <2>1
  <2>2. CASE g # h
    BY <1>1, <2>2 DEF Stage
  <2> QED
    BY <2>1, <2>2
<1>5. (\A g \in Handlers : pc'[g] = "idle") => Settled'
  BY <1>2
<1> QED
  BY <1>3, <1>4, <1>5 DEF Orderly

LEMMA FormOrderly ==
    \A h \in Handlers : Shapes /\ Orderly /\ (ReadSettings(h) \/ Reloading(h)) => Orderly'
<1> SUFFICES ASSUME NEW h \in Handlers, Shapes, Orderly, ReadSettings(h) \/ Reloading(h), ~met'
             PROVE  Orderly'
  BY DEF Orderly
<1>0. pc \in [Handlers -> {"idle", "save", "stop", "wait", "remove", "add", "start"}]
  BY DEF Shapes
<1>1. CASE ReadSettings(h)
  <2>1. ~met /\ Settled /\ \A g \in Handlers : pc[g] = "idle"
    BY <1>1 DEF ReadSettings, Orderly
  <2>2. /\ pc' = [pc EXCEPT ![h] = "save"] /\ current'[h] = saved
        /\ UNCHANGED <<on, entries, mapped, saved, clean>>
    BY <1>1 DEF ReadSettings, At, cron, Shapes
  <2>3. Alone'
    BY <1>0, <2>1, <2>2 DEF Alone
  <2>4. \A g \in Handlers : Stage(g)'
    BY <1>0, <2>1, <2>2 DEF Stage, Settled, Loaded
  <2>5. pc'[h] # "idle"
    BY <1>0, <2>2
  <2> QED
    BY <2>3, <2>4, <2>5 DEF Orderly
<1>2. CASE Reloading(h)
  <2>0. ~met /\ pc[h] # "idle"
    BY <1>2 DEF Reloading, SaveSettings, SaveScheduleOnly, StopCron, Waited, RemoveJobs,
       AddJobs, StartCron, At
  <2>s. Stage(h)
    BY <2>0 DEF Orderly
  <2>f. form[h] \in Schedules
    BY DEF Shapes
  <2>1. CASE SaveSettings(h)
    <3>0. Settled /\ current[h] = saved
      BY <2>1, <2>s DEF SaveSettings, At, Stage
    <3>1. saved' = form[h] /\ UNCHANGED <<on, entries, mapped, form, clean>>
      BY <2>1 DEF SaveSettings, cron
    <3>2. CASE Changed(h)
      <4>1. pc' = [pc EXCEPT ![h] = "stop"] /\ Stage(h)'
        BY <1>0, <2>1, <3>0, <3>1, <3>2 DEF SaveSettings, At, Stage, Settled, Loaded
      <4> QED
        BY <2>0, <4>1, OneOrderly
    <3>3. CASE ~Changed(h)
      <4>1. pc' = [pc EXCEPT ![h] = "idle"] /\ Stage(h)'
        BY <1>0, <2>1, <3>3 DEF SaveSettings, At, Stage
      <4>2. Settled'
        BY <3>0, <3>1, <3>3 DEF Settled, Loaded, Changed
      <4> QED
        BY <2>0, <4>1, <4>2, OneOrderly
    <3> QED
      BY <3>2, <3>3
  <2>2. CASE SaveScheduleOnly(h)
    <3>1. Settled /\ current[h] = saved
      BY <2>2, <2>s DEF SaveScheduleOnly, At, Stage
    <3>2. /\ saved' = form[h] /\ clean' = (clean /\ ~Changed(h))
          /\ UNCHANGED <<on, entries, mapped>>
      BY <2>2 DEF SaveScheduleOnly, cron
    <3>3. Settled'
      BY <3>1, <3>2 DEF Settled, Loaded, Changed
    <3>4. pc' = [pc EXCEPT ![h] = "idle"] /\ Stage(h)'
      BY <1>0, <2>2 DEF SaveScheduleOnly, At, Stage
    <3> QED
      BY <2>0, <3>3, <3>4, OneOrderly
  <2>3. CASE StopCron(h)
    <3>1. pc' = [pc EXCEPT ![h] = "wait"] /\ Stage(h)'
      BY <1>0, <2>3, <2>s DEF StopCron, At, Stage, Loaded
    <3> QED
      BY <2>0, <3>1, OneOrderly
  <2>4. CASE Waited(h)
    <3>0. Loaded /\ saved = form[h]
      BY <2>4, <2>s DEF Waited, At, Stage
    <3>1. UNCHANGED <<entries, mapped, saved, form>>
      BY <2>4 DEF Waited, cron
    <3>2. CASE running = {}
      <4>1. pc' = [pc EXCEPT ![h] = "remove"] /\ Stage(h)'
        BY <1>0, <2>4, <3>0, <3>1, <3>2 DEF Waited, At, Stage, Loaded
      <4> QED
        BY <2>0, <4>1, OneOrderly
    <3>3. CASE running # {}
      <4>1. pc' = [pc EXCEPT ![h] = "idle"] /\ Stage(h)' /\ ~clean'
        BY <1>0, <2>4, <3>3 DEF Waited, At, Stage
      <4>2. Settled'
        BY <3>0, <3>1, <4>1 DEF Settled, Loaded
      <4> QED
        BY <2>0, <4>1, <4>2, OneOrderly
    <3> QED
      BY <3>2, <3>3
  <2>5. CASE RemoveJobs(h)
    <3>0. Loaded /\ saved = form[h]
      BY <2>5, <2>s DEF RemoveJobs, At, Stage
    <3>1. PICK e0 \in Schedules : entries = Batch(e0) /\ mapped = {e0}
      BY <3>0 DEF Loaded
    <3>2. entries' = [e \in Schedules |-> 0]
      <4>1. \A e \in Schedules : entries[e] = IF e = e0 THEN 1 ELSE 0
        BY <3>1 DEF Batch
      <4>2. entries' = [e \in Schedules |-> IF e \in mapped /\ entries[e] > 0
                                             THEN entries[e] - 1 ELSE entries[e]]
        BY <2>5 DEF RemoveJobs
      <4>3. \A e \in Schedules :
               (IF e \in mapped /\ entries[e] > 0 THEN entries[e] - 1 ELSE entries[e]) = 0
        BY <3>1, <4>1
      <4> QED
        BY <4>2, <4>3
    <3>3. pc' = [pc EXCEPT ![h] = "add"] /\ mapped' = {} /\ saved' = saved /\ form' = form
      BY <2>5 DEF RemoveJobs, At
    <3>4. Stage(h)'
      BY <1>0, <3>0, <3>2, <3>3 DEF Stage
    <3> QED
      BY <2>0, <3>3, <3>4, OneOrderly
  <2>6. CASE AddJobs(h)
    <3>0. entries = [e \in Schedules |-> 0] /\ saved = form[h]
      BY <2>6, <2>s DEF AddJobs, At, Stage
    <3>1. entries' = Batch(form[h])
      <4>1. entries' = [entries EXCEPT ![form[h]] = @ + 1]
        BY <2>6 DEF AddJobs
      <4> QED
        BY <2>f, <3>0, <4>1 DEF Batch
    <3>2. pc' = [pc EXCEPT ![h] = "start"] /\ mapped' = {form[h]} /\ saved' = saved
      BY <2>6 DEF AddJobs, At
    <3>3. Stage(h)'
      BY <1>0, <3>0, <3>1, <3>2 DEF Stage
    <3> QED
      BY <2>0, <3>2, <3>3, OneOrderly
  <2>7. CASE StartCron(h)
    <3>0. entries = Batch(saved) /\ mapped = {saved} /\ saved \in Schedules
      BY <2>7, <2>s DEF StartCron, At, Stage, Shapes
    <3>1. on' /\ UNCHANGED <<entries, mapped, saved>>
      BY <2>7 DEF StartCron
    <3>2. Settled'
      BY <3>0, <3>1 DEF Settled, Loaded
    <3>3. pc' = [pc EXCEPT ![h] = "idle"] /\ Stage(h)'
      BY <1>0, <2>7 DEF StartCron, At, Stage
    <3> QED
      BY <2>0, <3>2, <3>3, OneOrderly
  <2> QED
    BY <1>2, <2>1, <2>2, <2>3, <2>4, <2>5, <2>6, <2>7 DEF Reloading
<1> QED
  BY <1>1, <1>2

LEMMA RestartOrderly == Shapes /\ Restart => Orderly'
BY DEF Shapes, Restart, Orderly, Alone, Stage, Settled, Loaded

LEMMA RunOrderly ==
    Orderly /\ ((\E j \in Jobs : Fire(j) \/ Running(j) \/ Expire(j)) \/ \E r \in Repos : Push(r))
        => Orderly'
<1> SUFFICES ASSUME Orderly,
                    (\E j \in Jobs : Fire(j) \/ Running(j) \/ Expire(j)) \/ \E r \in Repos : Push(r)
             PROVE  Orderly'
  OBVIOUS
<1>1. UNCHANGED <<cron, page, clean, met>>
  BY DEF Fire, Running, Spawn, Copy, Fail, Finish, Expire, Push
<1> QED
  BY <1>1, SameOrderly

-----------------------------------------------------------------------------
(* What a successful run has done.                                             *)

(* As long as nothing has failed, what was started is under way or copied. *)
Tracked(r) == ~r.failed => \A i \in 1..(r.next - 1) : Listing[i] \in r.busy \cup r.done

Progress == \A j \in Backups : Tracked(run[j])

LEMMA NoRunTracked == Tracked(NoRun)
BY DEF NoRun, Tracked

LEMMA OneTracked ==
    ASSUME Shapes, Progress, NEW j \in Backups, NEW r, Tracked(r),
           run' = [run EXCEPT ![j] = r]
    PROVE  Progress'
BY DEF Shapes, Progress

LEMMA JobProgress ==
    \A j \in Jobs : Shapes /\ Progress /\ (Fire(j) \/ Running(j) \/ Expire(j)) => Progress'
<1> SUFFICES ASSUME NEW j \in Jobs, Shapes, Progress, Fire(j) \/ Running(j) \/ Expire(j)
             PROVE  Progress'
  OBVIOUS
<1>0. j \in Backups => run[j] \in Runs /\ Tracked(run[j])
  BY DEF Shapes, Progress
<1>1. CASE Fire(j)
  BY <1>1 DEF Fire, Progress
<1>2. CASE Spawn(j)
  <2>1. j \in Backups
    BY <1>2 DEF Spawn, AtWork
  <2> DEFINE r == [run[j] EXCEPT !.busy = @ \cup {Listing[run[j].next]}, !.next = @ + 1]
  <2>2. /\ r.failed = run[j].failed /\ r.done = run[j].done
        /\ r.busy = run[j].busy \cup {Listing[run[j].next]}
        /\ r.next = run[j].next + 1 /\ run[j].next \in Nat
    BY <1>0, <2>1, Lengths DEF Runs
  <2>3. run' = [run EXCEPT ![j] = r]
    BY <1>2, <2>1 DEF Spawn, Shapes
  <2> HIDE DEF r
  <2>4. Tracked(r)
    <3>1. ASSUME ~r.failed, NEW i \in 1..(r.next - 1) PROVE Listing[i] \in r.busy \cup r.done
      <4>1. CASE i = run[j].next
        BY <2>2, <4>1
      <4>2. CASE i # run[j].next
        <5>1. i \in 1..(run[j].next - 1)
          BY <2>2, <4>2
        <5> QED
          BY <1>0, <2>1, <2>2, <3>1, <5>1 DEF Tracked
      <4> QED
        BY <4>1, <4>2
    <3> QED
      BY <3>1 DEF Tracked
  <2> QED
    BY <2>1, <2>3, <2>4, OneTracked
<1>3. ASSUME NEW c \in Repos, Copy(j, c) PROVE Progress'
  <2>1. j \in Backups
    BY <1>3 DEF Copy, AtWork
  <2> DEFINE r == [run[j] EXCEPT !.busy = @ \ {c}, !.done = @ \cup {c}]
  <2>2. run' = [run EXCEPT ![j] = r]
    BY <1>3, <2>1 DEF Copy, Shapes
  <2>3. Tracked(r)
    BY <1>0, <2>1 DEF Runs, Tracked
  <2> HIDE DEF r
  <2> QED
    BY <2>1, <2>2, <2>3, OneTracked
<1>4. ASSUME NEW c \in Repos, Fail(j, c) PROVE Progress'
  <2>1. j \in Backups
    BY <1>4 DEF Fail, AtWork
  <2> DEFINE r == [run[j] EXCEPT !.busy = @ \ {c}, !.cancelled = TRUE, !.failed = @ \/ Counted(j)]
  <2>2. run' = [run EXCEPT ![j] = r]
    BY <1>4, <2>1 DEF Fail, Shapes
  <2>3. Tracked(r)
    BY <1>0, <2>1 DEF Runs, Tracked, Counted
  <2> HIDE DEF r
  <2> QED
    BY <2>1, <2>2, <2>3, OneTracked
<1>5. CASE Finish(j)
  <2>1. CASE j \in Backups
    BY <1>5, <2>1, NoRunTracked, OneTracked DEF Finish, EndRun
  <2>2. CASE j \notin Backups
    BY <1>5, <2>2 DEF Finish, Progress
  <2> QED
    BY <2>1, <2>2
<1>6. CASE Expire(j)
  <2>1. j \in Backups
    BY <1>6 DEF Expire, AtWork
  <2> DEFINE r == [run[j] EXCEPT !.cancelled = TRUE]
  <2>2. run' = [run EXCEPT ![j] = r]
    BY <1>6, <2>1 DEF Expire, Shapes
  <2>3. Tracked(r)
    BY <1>0, <2>1 DEF Runs, Tracked
  <2> HIDE DEF r
  <2> QED
    BY <2>1, <2>2, <2>3, OneTracked
<1> QED
  BY <1>1, <1>2, <1>3, <1>4, <1>5, <1>6 DEF Running

LEMMA OtherProgress ==
    Progress /\ ((\E h \in Handlers : ReadSettings(h) \/ Reloading(h)) \/ Restart
                    \/ \E r \in Repos : Push(r)) => Progress'
<1> SUFFICES ASSUME Progress, (\E h \in Handlers : ReadSettings(h) \/ Reloading(h)) \/ Restart
                                 \/ \E r \in Repos : Push(r)
             PROVE  Progress'
  OBVIOUS
<1>1. CASE Restart
  BY <1>1, NoRunTracked DEF Restart, Progress
<1>2. CASE ~Restart
  BY <1>2 DEF Progress, ReadSettings, Reloading, SaveSettings, SaveScheduleOnly, StopCron,
     Waited, RemoveJobs, AddJobs, StartCron, Push
<1> QED
  BY <1>1, <1>2

-----------------------------------------------------------------------------
(* The invariant, and what it implies.                                         *)

IInv == Shapes /\ Limited /\ Orderly /\ Progress

LEMMA Inductive == Spec => []IInv
<1>1. Init => IInv
  <2>1. Init => Progress
    BY NoRunTracked DEF Init, Started, Progress
  <2> QED
    BY <2>1, InitShapes, InitOrderly DEF IInv
<1>2. IInv /\ [Next]_vars => IInv'
  <2> SUFFICES ASSUME IInv, [Next]_vars PROVE IInv'
    OBVIOUS
  <2> USE DEF IInv
  <2>1. ASSUME NEW j \in Jobs, Fire(j) \/ Running(j) \/ Expire(j) PROVE IInv'
    <3>1. Shapes' /\ Limited'
      BY <2>1, FireShapes, SpawnShapes, CopyShapes, FailShapes, FinishShapes, ExpireShapes
      DEF Running
    <3> QED
      BY <2>1, <3>1, RunOrderly, JobProgress
  <2>2. ASSUME NEW h \in Handlers, ReadSettings(h) \/ Reloading(h) PROVE IInv'
    BY <2>2, FormShapes, FormOrderly, OtherProgress
  <2>3. CASE \E r \in Repos : Push(r)
    BY <2>3, WorldShapes, RunOrderly, OtherProgress
  <2>4. CASE Restart
    BY <2>4, WorldShapes, RestartOrderly, OtherProgress
  <2>5. CASE UNCHANGED vars
    BY <2>5, SameOrderly DEF vars, cron, page, Shapes, Limited, Progress
  <2> QED
    BY <2>1, <2>2, <2>3, <2>4, <2>5 DEF Next
<1> QED
  BY <1>1, <1>2, PTL DEF Spec

(* The state has its types, and no run makes more copies at a time than the    *)
(* error group's limit, whatever fails or is cancelled.                        *)
THEOREM TypeCorrect == Spec => []TypeOK
<1>1. IInv => TypeOK
  BY DEF IInv, Shapes, Limited, Within, TypeOK
<1> QED
  BY <1>1, Inductive, PTL

(* Cron runs with the saved schedule and no other when no request is under     *)
(* way: a reload that runs to its end makes good what timed-out reloads and    *)
(* refused forms left before it, unless two requests have met.                 *)
THEOREM ScheduleAlwaysSaved == Spec => []ScheduleSaved
<1>1. IInv => ScheduleSaved
  BY DEF IInv, Orderly, Settled, ScheduleSaved
<1> QED
  BY <1>1, Inductive, PTL

(* A backup job that reports success has copied, or found current, every       *)
(* repository of its list, however it was cancelled.                           *)
THEOREM SuccessAlwaysComplete == Spec => SuccessIsComplete
<1>1. IInv /\ [Next]_vars =>
         [\A j \in Backups : j \in running \ running' /\ results'[j] = "ok"
             => run[j].done = Repos]_vars
  <2> SUFFICES ASSUME IInv, Next, NEW j \in Backups, j \in running, j \notin running',
                      results'[j] = "ok"
               PROVE  run[j].done = Repos
    BY DEF IInv
  <2>1. ~Restart
    BY DEF Restart
  <2>2. Finish(j)
    BY <2>1 DEF Next, Fire, Running, Spawn, Copy, Fail, Finish, Expire, ReadSettings, Reloading,
       SaveSettings, SaveScheduleOnly, StopCron, Waited, RemoveJobs, AddJobs, StartCron, Push
  <2>3. ~run[j].failed /\ run[j].next > Len(Listing) /\ run[j].busy = {}
    BY <2>2 DEF Finish, IInv, Shapes
  <2>4. run[j].next \in 1..(Len(Listing) + 1) /\ run[j].done \subseteq Repos
    BY DEF IInv, Shapes, Runs
  <2>5. run[j].next - 1 = Len(Listing)
    BY <2>3, <2>4, Lengths
  <2>6. \A i \in 1..Len(Listing) : Listing[i] \in run[j].done
    BY <2>3, <2>5 DEF IInv, Progress, Tracked
  <2>7. Repos \subseteq run[j].done
    BY <2>6, Lengths DEF Repos
  <2> QED
    BY <2>4, <2>7
<1> QED
  BY <1>1, Inductive, PTL DEF Spec, SuccessIsComplete

=============================================================================
