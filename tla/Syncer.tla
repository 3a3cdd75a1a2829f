------------------------------- MODULE Syncer --------------------------------
(* SyncRepos (src/internal/sync/syncer.go) over the whole table: GitHub's list *)
(* of repositories is compared with the rows, which are added, renamed,        *)
(* refreshed, marked as removed or restored, and the files of a renamed one    *)
(* are moved.  The repositories are known by GitHub's ids; names are used      *)
(* again, and GitHub redirects an old name until somebody takes it.            *)
(*                                                                             *)
(* A sync works from two lists it took at its start.  Only one runs at a time  *)
(* (TryLock), but backups and conversions of other goroutines come between any *)
(* two of its steps; each of them is one step here, or two for a backup, which *)
(* works from a row it read before.  What is at a path is told by whose        *)
(* repository it is; how good a copy it is, and when it was made, is the       *)
(* subject of BackupEngine.                                                    *)
EXTENDS Naturals, FiniteSets

CONSTANTS
    Ids,        \* GitHub's ids of repositories
    Names,      \* full names, owner/name
    Nothing,    \* no name, no repository
    Starts,     \* the names the repositories may have at first
    MaxEvents   \* bound: how many times GitHub, a user, a fault or a crash acts

ASSUME NamesAssumption   == IsFiniteSet(Names)
ASSUME NothingAssumption == Nothing \notin Ids \cup Names
ASSUME StartsAssumption  ==
    \A s \in Starts : /\ s \in [Ids -> Names \cup {Nothing}]
                      /\ \A i, j \in Ids : i # j /\ s[i] = s[j] => s[i] = Nothing
ASSUME EventsAssumption  == MaxEvents \in Nat

VARIABLES
    github,     \* what GitHub lists: name and metadata by id
    answers,    \* whose repository GitHub serves under a name
    table,      \* the repos table, by GitHub id
    files,      \* whose copy is at the path of a format and a name
    at,         \* where the sync is
    todo,       \* the ids its loop has still to visit
    cur,        \* the one it is busy with
    listed,     \* what ListAccessibleRepos returned
    stored,     \* the rows it listed
    job,        \* the row a backup is working from
    events,     \* bound: how many events have happened
    clean,      \* history: nothing has failed, and a sync met nobody
    steady      \* history: nothing failed or was converted during the sync

sync == <<at, todo, cur, listed, stored>>
vars == <<github, answers, table, files, sync, job, events, clean, steady>>

Formats == {"clone", "bundle"}
Paths   == [format : Formats, name : Names \cup {Nothing}]
Labels  == {"idle", "update", "path", "move", "remove"}

Listings == [name : Names \cup {Nothing}, meta : Nat]
Rows     == [name : Names \cup {Nothing}, deleted : BOOLEAN, format : Formats,
             path : Paths, meta : Nat]

PathForFormat(f, n) == [format |-> f, name |-> n]

Unlisted == [name |-> Nothing, meta |-> 0]
NoJob    == [name |-> Nothing, format |-> "clone"]
NoRow    == [name |-> Nothing, deleted |-> FALSE, format |-> "clone",
             path |-> PathForFormat("clone", Nothing), meta |-> 0]

Listed(i) == listed[i].name # Nothing
NewRow(l) == [name |-> l.name, deleted |-> FALSE, format |-> "clone",
              path |-> PathForFormat("clone", l.name), meta |-> l.meta]

(* UNIQUE(owner, name): no other row has the name, removed or not. *)
Free(i, n) == \A j \in Ids \ {i} : table[j].name # n

(* An event spends the bound. *)
Event == events < MaxEvents /\ events' = events + 1
Fault == Event /\ clean' = FALSE /\ steady' = FALSE
Calm  == UNCHANGED <<events, clean, steady>>

Outside == <<github, answers, job>>

-----------------------------------------------------------------------------
(* SyncRepos.                                                                  *)

(* ListAccessibleRepos asks for one page after the other: when a repository    *)
(* leaves the list meanwhile, the others move up, and one at the edge of a     *)
(* page is on neither.                                                         *)
Answer(missed) == [i \in Ids |-> IF i \in missed THEN Unlisted ELSE github[i]]

(* No repository where there were some: the token may be invalid. *)
Refused(answer) == /\ \A i \in Ids : answer[i].name = Nothing
                   /\ \E i \in Ids : table[i] # NoRow

OnGitHub(i) == github[i].name # Nothing

StartSync ==
    /\ at = "idle"
    /\ \E missed \in SUBSET {i \in Ids : OnGitHub(i)} :
          /\ missed = {} \/ events < MaxEvents
          /\ events' = IF missed = {} THEN events ELSE events + 1
          /\ listed' = Answer(missed)
    /\ ~Refused(listed')
    /\ stored' = table
    /\ todo' = {i \in Ids : listed'[i].name # Nothing}
    /\ at' = "update"
    /\ clean' = (clean /\ job = NoJob) /\ steady' = TRUE
    /\ UNCHANGED <<Outside, table, files, cur>>

(* The loop is done with i. *)
Visited(i) == /\ at' = "update" /\ todo' = todo \ {i} /\ cur' = Nothing
              /\ UNCHANGED <<listed, stored>>

Visiting(i) == at = "update" /\ i \in todo

Add(i) ==
    /\ Visiting(i) /\ stored[i] = NoRow
    /\ \/ /\ Free(i, listed[i].name)
          /\ table' = [table EXCEPT ![i] = NewRow(listed[i])]
          /\ Calm
       \/ ~Free(i, listed[i].name) /\ Calm /\ UNCHANGED table
       \/ Fault /\ UNCHANGED table
    /\ Visited(i)
    /\ UNCHANGED <<Outside, files>>

(* A restored row gets nothing else in this sync; one that could not be        *)
(* restored goes on like the others.                                           *)
Restore(i) ==
    /\ Visiting(i) /\ stored[i] # NoRow /\ stored[i].deleted
    /\ \/ /\ table' = [table EXCEPT ![i].deleted = FALSE]
          /\ Visited(i) /\ Calm
       \/ /\ stored' = [stored EXCEPT ![i].deleted = FALSE]
          /\ Fault /\ UNCHANGED <<table, at, todo, cur, listed>>
    /\ UNCHANGED <<Outside, files>>

Known(i) == Visiting(i) /\ stored[i] # NoRow /\ ~stored[i].deleted

Renamed(i) == stored[i].name # listed[i].name

(* Mutation: the path is not compared. *)
MetadataChanged_NoPath(i) == stored[i].meta # listed[i].meta

MetadataChanged(i) ==
    \/ stored[i].meta # listed[i].meta
    \/ stored[i].path # PathForFormat(stored[i].format, stored[i].name)

SetOwnerName(i) ==
    /\ Known(i) /\ Renamed(i)
    /\ \/ /\ Free(i, listed[i].name)
          /\ table' = [table EXCEPT ![i].name = listed[i].name]
          /\ cur' = i /\ at' = "path"
          /\ Calm /\ UNCHANGED <<todo, listed, stored>>
       \/ ~Free(i, listed[i].name) /\ Visited(i) /\ Calm /\ UNCHANGED table
       \/ Fault /\ Visited(i) /\ UNCHANGED table
    /\ UNCHANGED <<Outside, files>>

NewPath(i) == PathForFormat(stored[i].format, listed[i].name)

SetBackupPath ==
    /\ at = "path"
    /\ \/ /\ table' = [table EXCEPT ![cur].path = NewPath(cur)]
          /\ at' = "move"
          /\ Calm /\ UNCHANGED <<todo, cur, listed, stored>>
       \/ Fault /\ Visited(cur) /\ UNCHANGED table
    /\ UNCHANGED <<Outside, files>>

(* Mutation: it is the new path that is looked at. *)
Moved_Looked(f, old, new) ==
    IF files[f][new] = Nothing THEN files
    ELSE [files EXCEPT ![f] = [@ EXCEPT ![new] = files[f][old], ![old] = Nothing]]

(* Mutation: the rename replaces what is at the new path. *)
Moved_Over(f, old, new) ==
    IF files[f][old] = Nothing THEN files
    ELSE [files EXCEPT ![f] = [@ EXCEPT ![new] = files[f][old], ![old] = Nothing]]

(* MoveBackup, of the one path of the format: nothing to move, or the new path *)
(* occupied, leaves the files alone.                                           *)
Moved(f, old, new) ==
    IF files[f][old] = Nothing \/ files[f][new] # Nothing THEN files
    ELSE [files EXCEPT ![f] = [@ EXCEPT ![new] = files[f][old], ![old] = Nothing]]

MoveBackup ==
    /\ at = "move"
    /\ \/ /\ files' = Moved(stored[cur].format, stored[cur].name, listed[cur].name)
          /\ Calm
       \/ Fault /\ UNCHANGED files
    /\ Visited(cur)
    /\ UNCHANGED <<Outside, table>>

(* The path is written first, if it is not the expected one. *)
SetGitHubMetadata(i) ==
    /\ Known(i) /\ ~Renamed(i) /\ MetadataChanged(i)
    /\ LET moved == IF stored[i].path = NewPath(i) THEN table
                    ELSE [table EXCEPT ![i].path = NewPath(i)]
       IN  \/ table' = [moved EXCEPT ![i].meta = listed[i].meta] /\ Calm
           \/ table' \in {table, moved} /\ Fault
    /\ Visited(i)
    /\ UNCHANGED <<Outside, files>>

Unchanged(i) ==
    /\ Known(i) /\ ~Renamed(i) /\ ~MetadataChanged(i)
    /\ Visited(i) /\ Calm
    /\ UNCHANGED <<Outside, table, files>>

(* The two lists have been read for the last time. *)
Dropped == /\ cur' = Nothing
           /\ listed' = [i \in Ids |-> Unlisted] /\ stored' = [i \in Ids |-> NoRow]

StartRemoving ==
    /\ at = "update" /\ todo = {}
    /\ todo' = {i \in Ids : stored[i] # NoRow /\ ~Listed(i)}
    /\ at' = "remove" /\ Dropped
    /\ Calm /\ UNCHANGED <<Outside, table, files>>

MarkDeleted(i) ==
    /\ at = "remove" /\ i \in todo
    /\ \/ table' = [table EXCEPT ![i].deleted = TRUE] /\ Calm
       \/ Fault /\ UNCHANGED table
    /\ todo' = todo \ {i}
    /\ UNCHANGED <<Outside, files, at, cur, listed, stored>>

(* Local variables are gone when the sync is over. *)
Forget == at' = "idle" /\ todo' = {} /\ Dropped

FinishSync ==
    /\ at = "remove" /\ todo = {}
    /\ Forget /\ steady' = TRUE
    /\ UNCHANGED <<Outside, table, files, events, clean>>

-----------------------------------------------------------------------------
(* The backups, the conversions and the purge, as they look from here.         *)

(* A backup job lists the rows and copies one after the other, by name. *)
TakeRow(i) ==
    /\ job = NoJob /\ table[i] # NoRow /\ ~table[i].deleted
    /\ job' = [name |-> table[i].name, format |-> table[i].format]
    /\ clean' = (clean /\ at = "idle")
    /\ UNCHANGED <<github, answers, table, files, sync, events, steady>>

(* A clone is fetched into, a bundle is replaced and a clone beside it goes.   *)
Copied(r) ==
    LET whose == answers[r.name]
    IN  IF whose = Nothing THEN files
        ELSE IF r.format = "clone"
             THEN [files EXCEPT !["clone"][r.name] = whose]
             ELSE [files EXCEPT !["bundle"][r.name] = whose,
                                !["clone"][r.name] = Nothing]

Backup ==
    /\ job # NoJob
    /\ files' = Copied(job)
    /\ job' = NoJob
    /\ Calm /\ UNCHANGED <<github, answers, table, sync>>

(* A conversion makes a bundle of the clone, or a clone of the bundle and of   *)
(* what GitHub has.                                                            *)
Convertible(r) == /\ files[r.format][r.name] # Nothing
                  /\ r.format = "bundle" => answers[r.name] # Nothing

Converted(r) ==
    IF r.format = "clone"
    THEN [files EXCEPT !["bundle"][r.name] = files["clone"][r.name],
                       !["clone"][r.name] = Nothing]
    ELSE [files EXCEPT !["clone"][r.name] = answers[r.name],
                       !["bundle"][r.name] = Nothing]

(* One that fails may have removed a clone that was in the way of a new one. *)
Unconverted(r) ==
    {files} \cup (IF r.format = "bundle"
                  THEN {[files EXCEPT !["clone"][r.name] = Nothing]} ELSE {})

(* Mutation: the form's value is written unread. *)
Other_Unread(f) == IF f = "clone" THEN "bundle" ELSE ""

Other(f) == IF f = "clone" THEN "bundle" ELSE "clone"

(* The format is written whether the conversion succeeded or not, and when     *)
(* there is nothing to convert.                                                *)
Convert(i) ==
    /\ table[i] # NoRow /\ ~table[i].deleted
    /\ table' = [table EXCEPT
                   ![i].format = Other(@),
                   ![i].path = PathForFormat(Other(table[i].format), table[i].name)]
    /\ Event /\ steady' = (at = "idle")
    /\ \/ /\ \/ Convertible(table[i]) /\ files' = Converted(table[i])
             \/ files[table[i].format][table[i].name] = Nothing /\ UNCHANGED files
          /\ clean' = (clean /\ at = "idle" /\ job = NoJob)
       \/ files' \in Unconverted(table[i]) /\ clean' = FALSE
    /\ UNCHANGED <<github, answers, sync, job>>

Purge(i) ==
    /\ table[i] # NoRow /\ table[i].deleted
    /\ files' = [f \in Formats |-> [files[f] EXCEPT ![table[i].name] = Nothing]]
    /\ Calm /\ UNCHANGED <<Outside, table, sync>>

-----------------------------------------------------------------------------
(* GitHub, and crashes.                                                        *)

Untaken(n) == \A j \in Ids : github[j].name # n

Quietly == Event /\ UNCHANGED <<table, files, sync, job, clean, steady>>

(* A repository appears, or changes its name; the old name redirects to it. *)
Name(i, n) ==
    /\ Untaken(n)
    /\ github' = [github EXCEPT ![i].name = n]
    /\ answers' = [answers EXCEPT ![n] = i]
    /\ Quietly

Vanish(i) ==
    /\ OnGitHub(i)
    /\ github' = [github EXCEPT ![i].name = Nothing]
    /\ answers' = [n \in Names |-> IF answers[n] = i THEN Nothing ELSE answers[n]]
    /\ Quietly

Edit(i) ==
    /\ OnGitHub(i)
    /\ github' = [github EXCEPT ![i].meta = @ + 1]
    /\ Quietly /\ UNCHANGED answers

Crash ==
    /\ at # "idle" \/ job # NoJob
    /\ Forget /\ job' = NoJob
    /\ Event /\ clean' = FALSE /\ steady' = TRUE
    /\ UNCHANGED <<github, answers, table, files>>

-----------------------------------------------------------------------------

(* The table is empty: no sync has run yet. *)
Init ==
    /\ \E s \in Starts : github = [i \in Ids |-> [name |-> s[i], meta |-> 0]]
    /\ answers = [n \in Names |->
                    IF \E i \in Ids : github[i].name = n
                    THEN CHOOSE i \in Ids : github[i].name = n ELSE Nothing]
    /\ table = [i \in Ids |-> NoRow]
    /\ files = [f \in Formats |-> [n \in Names |-> Nothing]]
    /\ at = "idle" /\ todo = {} /\ cur = Nothing
    /\ listed = [i \in Ids |-> Unlisted] /\ stored = [i \in Ids |-> NoRow]
    /\ job = NoJob /\ events = 0 /\ clean = TRUE /\ steady = TRUE

Visit(i) == \/ Add(i) \/ Restore(i) \/ SetOwnerName(i) \/ SetGitHubMetadata(i)
            \/ Unchanged(i) \/ MarkDeleted(i)

Syncing == \/ StartSync \/ SetBackupPath \/ MoveBackup \/ StartRemoving
           \/ FinishSync \/ \E i \in Ids : Visit(i)

Others == Backup \/ \E i \in Ids : TakeRow(i) \/ Convert(i) \/ Purge(i)

World == \/ Crash
         \/ \E i \in Ids : Vanish(i) \/ Edit(i) \/ \E n \in Names : Name(i, n)

Next == Syncing \/ Others \/ World

Spec == Init /\ [][Next]_vars

(* Cron starts a sync again and again, and a sync that runs goes on. *)
FairSpec == Spec /\ WF_vars(Syncing)

-----------------------------------------------------------------------------
(* Properties.                                                                 *)

(* The types of the state. *)
TypeOK ==
    /\ github \in [Ids -> Listings] /\ listed \in [Ids -> Listings]
    /\ answers \in [Names -> Ids \cup {Nothing}]
    /\ table \in [Ids -> Rows] /\ stored \in [Ids -> Rows]
    /\ files \in [Formats -> [Names -> Ids \cup {Nothing}]]
    /\ at \in Labels /\ todo \subseteq Ids /\ cur \in Ids \cup {Nothing}
    /\ job \in [name : Names \cup {Nothing}, format : Formats]
    /\ events \in 0..MaxEvents /\ clean \in BOOLEAN /\ steady \in BOOLEAN

(* As long as nothing fails and the jobs do not meet, a copy is never orphaned *)
(* by a rename: every path that holds something has the name of a row.         *)
NoOrphan ==
    clean /\ at = "idle" =>
        \A f \in Formats, n \in Names :
            files[f][n] # Nothing => \E i \in Ids : table[i].name = n

(* No step of a sync takes a copy away, whatever it finds at the new path. *)
SyncKeepsFiles ==
    [][Syncing => \A f \in Formats, i \in Ids :
          Cardinality({n \in Names : files'[f][n] = i})
             = Cardinality({n \in Names : files[f][n] = i})]_vars

(* The repositories whose name is kept from them: each waits for the name of a *)
(* row of another one, which itself waits or is no longer on GitHub.           *)
Stuck(i) ==
    \E s \in SUBSET Ids :
        /\ i \in s
        /\ \A k \in s : OnGitHub(k) =>
              \E j \in s \ {k} : table[j].name = github[k].name

(* The row tells what GitHub does. *)
Settled(i) ==
    IF OnGitHub(i)
    THEN /\ table[i].name = github[i].name /\ ~table[i].deleted
         /\ table[i].meta = github[i].meta
         /\ table[i].path = PathForFormat(table[i].format, table[i].name)
    ELSE table[i] = NoRow \/ table[i].deleted

(* When GitHub and the users have come to rest, the syncs bring every row to   *)
(* what GitHub says, whatever was renamed, removed, restored or interrupted    *)
(* before; but for a name that is still another's, and an empty list.          *)
SyncSettles == \A i \in Ids : <>[](Settled(i) \/ Stuck(i) \/ Refused(github))

(* The row tells what this sync was told: a new or a renamed one is in its     *)
(* place, and one that was neither restored nor renamed has its metadata.      *)
Told(i) ==
    /\ ~table[i].deleted
    /\ ~stored[i].deleted =>
          /\ table[i].name = listed[i].name
          /\ table[i].path = PathForFormat(table[i].format, table[i].name)
          /\ stored[i].name \in {Nothing, listed[i].name} =>
                table[i].meta = listed[i].meta

(* When the loop of a sync comes to its end and nothing failed in it, there is *)
(* a row for all that GitHub listed, and it tells what GitHub said, in one     *)
(* pass and in whatever order the repositories were visited; but for one whose *)
(* name was another row's when the sync began.                                 *)
SyncComplete ==
    [][StartRemoving /\ steady => \A i \in Ids : Listed(i) =>
          Told(i) \/ \E j \in Ids \ {i} : stored[j].name = listed[i].name]_vars

(* Repos deleted from GitHub keep their local copy: no backup puts another     *)
(* repository's in its place.                                                  *)
GoneKept ==
    [][Backup => \A i \in Ids :
          ~OnGitHub(i) /\ (\E f \in Formats, n \in Names : files[f][n] = i)
             => \E f \in Formats, n \in Names : files'[f][n] = i]_vars

=============================================================================
