---------------------------- MODULE SyncerProofs -----------------------------
(* Theorems about Syncer, for any repositories, any finite set of names, any   *)
(* names at first, and any number of renames, removals, failures and crashes.  *)
EXTENDS Syncer, FiniteSetTheorems, TLAPS

-----------------------------------------------------------------------------
(* Types, group by group.                                                      *)

GitHubType ==
    /\ github \in [Ids -> Listings]
    /\ answers \in [Names -> Ids \cup {Nothing}]

StoredType ==
    /\ table \in [Ids -> Rows]
    /\ files \in [Formats -> [Names -> Ids \cup {Nothing}]]

SyncType ==
    /\ at \in Labels /\ todo \subseteq Ids /\ cur \in Ids \cup {Nothing}
    /\ listed \in [Ids -> Listings] /\ stored \in [Ids -> Rows]

JobType    == job \in [name : Names \cup {Nothing}, format : Formats]
EventsType == events \in 0..MaxEvents /\ clean \in BOOLEAN /\ steady \in BOOLEAN

LEMMA TypeParts == TypeOK <=>
    GitHubType /\ StoredType /\ SyncType /\ JobType /\ EventsType
BY DEF TypeOK, GitHubType, StoredType, SyncType, JobType, EventsType

LEMMA TypePartsNext ==
    ASSUME GitHubType', StoredType', SyncType', JobType', EventsType'
    PROVE  TypeOK'
BY DEF TypeOK, GitHubType, StoredType, SyncType, JobType, EventsType

LEMMA PathType ==
    ASSUME NEW f \in Formats, NEW n \in Names \cup {Nothing}
    PROVE  PathForFormat(f, n) \in Paths
BY DEF PathForFormat, Paths

LEMMA NothingTypes == Unlisted \in Listings /\ NoRow \in Rows
                      /\ NoJob \in [name : Names \cup {Nothing}, format : Formats]
<1>1. PathForFormat("clone", Nothing) \in Paths
  BY PathType DEF Formats
<1> QED
  BY <1>1 DEF Unlisted, Listings, NoRow, Rows, NoJob, Formats

LEMMA NewRowType ==
    ASSUME NEW l \in Listings PROVE NewRow(l) \in Rows
<1>1. PathForFormat("clone", l.name) \in Paths
  BY PathType DEF Formats, Listings
<1> QED
  BY <1>1 DEF NewRow, Rows, Listings, Formats

(* What may be done to a row, or to a listing. *)
LEMMA RowFields ==
    ASSUME NEW r \in Rows, NEW n \in Names \cup {Nothing}, NEW d \in BOOLEAN,
           NEW f \in Formats, NEW p \in Paths, NEW m \in Nat
    PROVE  /\ [r EXCEPT !.name = n] \in Rows
           /\ [r EXCEPT !.deleted = d] \in Rows
           /\ [r EXCEPT !.format = f] \in Rows
           /\ [r EXCEPT !.path = p] \in Rows
           /\ [r EXCEPT !.meta = m] \in Rows
           /\ [r EXCEPT !.format = f, !.path = p] \in Rows
BY DEF Rows

LEMMA ListingFields ==
    ASSUME NEW l \in Listings, NEW n \in Names \cup {Nothing}
    PROVE  /\ [l EXCEPT !.name = n] \in Listings
           /\ [l EXCEPT !.meta = @ + 1] \in Listings
BY DEF Listings

(* Events happen within the bound. *)
LEMMA EventsTypes ==
    ASSUME EventsType,
           \/ Calm \/ Fault
           \/ /\ Event \/ UNCHANGED events
              /\ clean' \in BOOLEAN /\ steady' \in BOOLEAN
    PROVE  EventsType'
<1>1. events' \in 0..MaxEvents
  <2>1. events \in 0..MaxEvents
    BY DEF EventsType
  <2>2. events' = events \/ (events < MaxEvents /\ events' = events + 1)
    BY DEF Calm, Fault, Event
  <2> QED
    BY <2>1, <2>2, EventsAssumption
<1>2. clean' \in BOOLEAN /\ steady' \in BOOLEAN
  BY Zenon DEF EventsType, Calm, Fault
<1> QED
  BY <1>1, <1>2 DEF EventsType

LEMMA InitType == Init => TypeOK
<1> SUFFICES ASSUME Init PROVE TypeOK
  OBVIOUS
<1>1. GitHubType
  <2>1. PICK s \in Starts : github = [i \in Ids |-> [name |-> s[i], meta |-> 0]]
    BY DEF Init
  <2>2. s \in [Ids -> Names \cup {Nothing}]
    BY StartsAssumption
  <2>3. github \in [Ids -> Listings]
    BY <2>1, <2>2 DEF Listings
  <2>4. answers \in [Names -> Ids \cup {Nothing}]
    BY DEF Init
  <2> QED
    BY <2>3, <2>4 DEF GitHubType
<1>2. StoredType
  BY NothingTypes DEF Init, StoredType
<1>3. SyncType
  BY NothingTypes DEF Init, SyncType, Labels
<1>4. JobType /\ EventsType
  BY NothingTypes, EventsAssumption DEF Init, JobType, EventsType
<1> QED
  BY <1>1, <1>2, <1>3, <1>4, TypeParts

-----------------------------------------------------------------------------
(* The steps of the sync.                                                      *)

LEMMA VisitedType ==
    ASSUME SyncType, NEW i, Visited(i) PROVE SyncType'
BY DEF SyncType, Visited, Labels

(* A step of the sync leaves GitHub, the answers and the backup alone. *)
LEMMA OutsideType ==
    ASSUME GitHubType, JobType, UNCHANGED Outside PROVE GitHubType' /\ JobType'
BY DEF GitHubType, JobType, Outside

(* One field of one row is written. *)
LEMMA WrittenType ==
    ASSUME StoredType, NEW i \in Ids, NEW r \in Rows,
           table' = [table EXCEPT ![i] = r], UNCHANGED files
    PROVE  StoredType'
BY DEF StoredType

LEMMA DroppedType ==
    ASSUME Dropped
    PROVE  /\ cur' \in Ids \cup {Nothing}
           /\ listed' \in [Ids -> Listings] /\ stored' \in [Ids -> Rows]
BY NothingTypes DEF Dropped

-----------------------------------------------------------------------------
(* What the sync has in hand: it visits what GitHub listed, and moves the files *)
(* of a repository whose old and new name it knows; a row has a name, and is    *)
(* never lost again.                                                            *)
Named(rows) == \A i \in Ids : rows[i] = NoRow \/ rows[i].name \in Names

Visits == at \in {"update", "path", "move"} =>
              \A i \in todo : listed[i].name \in Names

Moves == at \in {"path", "move"} =>
             cur \in Ids /\ listed[cur].name \in Names /\ stored[cur].name \in Names

Lasts == /\ \A i \in Ids : stored[i].name \in Names => table[i].name \in Names
         /\ at = "remove" => \A i \in todo : table[i].name \in Names

InHand == Named(table) /\ Named(stored) /\ Visits /\ Moves /\ Lasts

IInv == TypeOK /\ InHand

(* All that any step does to the table: it writes rows that have a name. *)
TableGrows == \A i \in Ids : table'[i] = table[i] \/ table'[i].name \in Names

LEMMA NoRowNameless == NoRow.name \notin Names /\ Unlisted.name \notin Names
BY NothingAssumption DEF NoRow, Unlisted

LEMMA GrowsWrite ==
    ASSUME StoredType, NEW i \in Ids, NEW r \in Rows, r.name \in Names,
           table' = [table EXCEPT ![i] = r]
    PROVE  TableGrows
BY DEF StoredType, TableGrows

LEMMA GrowsSame == ASSUME UNCHANGED table PROVE TableGrows
BY DEF TableGrows

LEMMA VisitedHand ==
    ASSUME InHand, at \in {"update", "path", "move"}, TableGrows,
           NEW i, Visited(i)
    PROVE  InHand'
<1>1. Named(table)'
  BY DEF Named, InHand, TableGrows
<1>2. Named(stored)'
  BY DEF Named, InHand, Visited
<1>3. Visits' /\ Moves'
  BY DEF InHand, Visits, Moves, Visited
<1>4. Lasts'
  BY DEF InHand, Lasts, Visited, TableGrows
<1> QED
  BY <1>1, <1>2, <1>3, <1>4 DEF InHand

LEMMA AloneHand ==
    ASSUME SyncType, InHand, TableGrows, UNCHANGED sync PROVE InHand'
<1>1. Named(table)'
  BY DEF Named, InHand, TableGrows
<1>2. Named(stored)'
  BY DEF Named, InHand, sync
<1>3. Visits' /\ Moves'
  BY DEF InHand, Visits, Moves, sync
<1>4. Lasts'
  BY DEF InHand, Lasts, sync, TableGrows, SyncType
<1> QED
  BY <1>1, <1>2, <1>3, <1>4 DEF InHand

LEMMA ForgetHand == ASSUME InHand, TableGrows, Forget PROVE InHand'
<1>1. Named(table)'
  BY DEF Named, InHand, TableGrows
<1>2. Named(stored)'
  BY DEF Named, Forget, Dropped
<1>3. Visits' /\ Moves' /\ Lasts'
  BY NoRowNameless DEF Visits, Moves, Lasts, Forget, Dropped
<1> QED
  BY <1>1, <1>2, <1>3 DEF InHand

LEMMA InitHand == Init => InHand
BY NoRowNameless DEF Init, InHand, Named, Visits, Moves, Lasts

-----------------------------------------------------------------------------
(* The steps of the sync keep all this.                                        *)

LEMMA StartSyncKeeps == ASSUME IInv, StartSync PROVE IInv'
<1>1. GitHubType /\ StoredType /\ SyncType /\ JobType /\ EventsType
  BY TypeParts DEF IInv
<1>2. PICK missed \in SUBSET {i \in Ids : OnGitHub(i)} :
          /\ missed = {} \/ events < MaxEvents
          /\ events' = IF missed = {} THEN events ELSE events + 1
          /\ listed' = Answer(missed)
  BY DEF StartSync
<1>3. listed' \in [Ids -> Listings]
  BY <1>1, <1>2, NothingTypes DEF Answer, GitHubType
<1>4. SyncType'
  BY <1>1, <1>3 DEF StartSync, SyncType, StoredType, Labels
<1>5. events' \in 0..MaxEvents
  BY <1>1, <1>2, EventsAssumption DEF EventsType
<1>6. EventsType'
  <2>1. clean' = (clean /\ job = NoJob) /\ steady' = TRUE
    BY DEF StartSync
  <2>2. clean' \in BOOLEAN /\ steady' \in BOOLEAN
    BY <1>1, <2>1, Zenon DEF EventsType
  <2> QED
    BY <1>5, <2>2 DEF EventsType
<1>7. GitHubType' /\ JobType'
  BY <1>1, OutsideType DEF StartSync
<1>8. StoredType'
  BY <1>1 DEF StartSync, StoredType
<1>9. InHand'
  <2>1. Named(table)' /\ Named(stored)' /\ Moves' /\ Lasts'
    BY DEF IInv, InHand, Named, Moves, Lasts, StartSync
  <2>2. \A i \in Ids : listed'[i].name # Nothing => listed'[i].name \in Names
    BY <1>3 DEF Listings
  <2>3. Visits'
    BY <2>2 DEF Visits, StartSync
  <2> QED
    BY <2>1, <2>3 DEF InHand
<1> QED
  BY <1>4, <1>6, <1>7, <1>8, <1>9, TypePartsNext DEF IInv

(* A step that is done with a repository, and leaves the files alone. *)
LEMMA VisitKeeps ==
    ASSUME IInv, NEW i, Visited(i), at \in {"update", "path", "move"},
           UNCHANGED <<Outside, files>>, table' \in [Ids -> Rows], TableGrows,
           Calm \/ Fault
    PROVE  IInv'
<1>1. GitHubType /\ StoredType /\ SyncType /\ JobType /\ EventsType
  BY TypeParts DEF IInv
<1>2. SyncType'
  BY <1>1, VisitedType
<1>3. GitHubType' /\ JobType'
  BY <1>1, OutsideType
<1>4. StoredType'
  BY <1>1 DEF StoredType
<1>5. EventsType'
  BY <1>1, EventsTypes
<1>6. InHand'
  BY VisitedHand DEF IInv
<1> QED
  BY <1>2, <1>3, <1>4, <1>5, <1>6, TypePartsNext DEF IInv

(* One row is written, or none. *)
LEMMA WriteFits ==
    ASSUME IInv, NEW i \in Ids, NEW r \in Rows, r.name \in Names,
           table' = [table EXCEPT ![i] = r] \/ UNCHANGED table
    PROVE  table' \in [Ids -> Rows] /\ TableGrows
<1>1. StoredType
  BY TypeParts DEF IInv
<1>2. table' \in [Ids -> Rows]
  BY <1>1 DEF StoredType
<1>3. TableGrows
  BY <1>1, GrowsWrite, GrowsSame
<1> QED
  BY <1>2, <1>3

LEMMA AddKeeps == ASSUME IInv, NEW i \in Ids, Add(i) PROVE IInv'
<1>1. SyncType
  BY TypeParts DEF IInv
<1>2. listed[i] \in Listings /\ listed[i].name \in Names /\ at = "update"
  BY <1>1 DEF SyncType, Add, Visiting, IInv, InHand, Visits
<1>3. NewRow(listed[i]) \in Rows /\ NewRow(listed[i]).name \in Names
  BY <1>2, NewRowType DEF NewRow
<1>4. table' \in [Ids -> Rows] /\ TableGrows
  BY <1>3, WriteFits DEF Add
<1> QED
  BY <1>2, <1>4, VisitKeeps DEF Add

(* A known row, and what GitHub says of it. *)
LEMMA Knowing ==
    ASSUME IInv, NEW i \in Ids, Visiting(i), stored[i] # NoRow
    PROVE  /\ at = "update" /\ listed[i] \in Listings /\ listed[i].name \in Names
           /\ stored[i] \in Rows /\ stored[i].name \in Names
           /\ table[i] \in Rows /\ table[i].name \in Names
           /\ NewPath(i) \in Paths
<1>1. SyncType /\ StoredType
  BY TypeParts DEF IInv
<1>2. at = "update" /\ listed[i] \in Listings /\ listed[i].name \in Names
  BY <1>1 DEF SyncType, Visiting, IInv, InHand, Visits
<1>3. /\ stored[i] \in Rows /\ stored[i].name \in Names
      /\ table[i] \in Rows /\ table[i].name \in Names
  BY <1>1 DEF SyncType, StoredType, IInv, InHand, Named, Lasts
<1>4. stored[i].format \in Formats
  BY <1>3 DEF Rows
<1> QED
  BY <1>2, <1>3, <1>4, PathType DEF NewPath

LEMMA RestoreKeeps == ASSUME IInv, NEW i \in Ids, Restore(i) PROVE IInv'
<1>1. GitHubType /\ StoredType /\ SyncType /\ JobType /\ EventsType
  BY TypeParts DEF IInv
<1>2. /\ at = "update" /\ stored[i] \in Rows /\ table[i] \in Rows
      /\ stored[i].name \in Names /\ table[i].name \in Names
  BY Knowing DEF Restore
<1>3. CASE table' = [table EXCEPT ![i].deleted = FALSE] /\ Visited(i) /\ Calm
  <2>1. [table[i] EXCEPT !.deleted = FALSE] \in Rows
        /\ [table[i] EXCEPT !.deleted = FALSE].name = table[i].name
    BY <1>2 DEF Rows
  <2>2. table' = [table EXCEPT ![i] = [table[i] EXCEPT !.deleted = FALSE]]
    BY <1>3
  <2>3. table' \in [Ids -> Rows] /\ TableGrows
    BY <1>2, <2>1, <2>2, WriteFits
  <2> QED
    BY <1>2, <1>3, <2>3, VisitKeeps DEF Restore
<1>4. CASE /\ stored' = [stored EXCEPT ![i].deleted = FALSE]
           /\ Fault /\ UNCHANGED <<table, at, todo, cur, listed>>
  <2>1. [stored[i] EXCEPT !.deleted = FALSE] \in Rows
        /\ [stored[i] EXCEPT !.deleted = FALSE].name = stored[i].name
    BY <1>2 DEF Rows
  <2>2. stored' = [stored EXCEPT ![i] = [stored[i] EXCEPT !.deleted = FALSE]]
    BY <1>4
  <2>3. SyncType'
    BY <1>1, <1>4, <2>1, <2>2 DEF SyncType
  <2>4. GitHubType' /\ JobType' /\ StoredType' /\ EventsType'
    BY <1>1, <1>4, OutsideType, EventsTypes DEF Restore, StoredType
  <2>5. \A k \in Ids : stored'[k].name = stored[k].name
                       /\ (stored'[k] = stored[k] \/ stored'[k].name \in Names)
    BY <1>1, <1>2, <2>1, <2>2 DEF SyncType
  <2>6. InHand'
    BY <1>4, <1>2, <2>5 DEF IInv, InHand, Named, Visits, Moves, Lasts
  <2> QED
    BY <2>3, <2>4, <2>6, TypePartsNext DEF IInv
<1> QED
  BY <1>3, <1>4 DEF Restore

(* One goes on to write the path, and then to move the files. *)
LEMMA GoesOn ==
    ASSUME IInv, at \in {"update", "path"}, at' \in {"path", "move"},
           cur' \in Ids, listed[cur'].name \in Names, stored[cur'].name \in Names,
           UNCHANGED <<Outside, files, todo, listed, stored>>,
           table' \in [Ids -> Rows], TableGrows, Calm
    PROVE  IInv'
<1>1. GitHubType /\ StoredType /\ SyncType /\ JobType /\ EventsType
  BY TypeParts DEF IInv
<1>2. SyncType'
  BY <1>1 DEF SyncType, Labels
<1>3. GitHubType' /\ JobType' /\ EventsType' /\ StoredType'
  BY <1>1, OutsideType, EventsTypes DEF StoredType
<1>4. Named(table)' /\ Named(stored)'
  BY DEF IInv, InHand, Named, TableGrows
<1>5. Visits' /\ Moves' /\ Lasts'
  BY DEF IInv, InHand, Visits, Moves, Lasts, TableGrows
<1> QED
  BY <1>2, <1>3, <1>4, <1>5, TypePartsNext DEF IInv, InHand

LEMMA SetOwnerNameKeeps == ASSUME IInv, NEW i \in Ids, SetOwnerName(i) PROVE IInv'
<1>1. /\ at = "update" /\ listed[i].name \in Names /\ stored[i].name \in Names
      /\ table[i] \in Rows
  BY Knowing DEF SetOwnerName, Known
<1> DEFINE r == [table[i] EXCEPT !.name = listed[i].name]
<1>2. r \in Rows /\ r.name \in Names
  BY <1>1 DEF Rows
<1>3. CASE table' = [table EXCEPT ![i].name = listed[i].name]
  <2>1. table' = [table EXCEPT ![i] = r]
    BY <1>3
  <2>2. table' \in [Ids -> Rows] /\ TableGrows
    BY <1>2, <2>1, WriteFits
  <2>3. CASE /\ cur' = i /\ at' = "path"
             /\ Calm /\ UNCHANGED <<todo, listed, stored>>
    BY <1>1, <2>2, <2>3, GoesOn DEF SetOwnerName
  <2>4. CASE Visited(i) /\ (Calm \/ Fault)
    BY <1>1, <2>2, <2>4, VisitKeeps DEF SetOwnerName
  <2> QED
    BY <2>3, <2>4 DEF SetOwnerName
<1>4. CASE UNCHANGED table /\ Visited(i) /\ (Calm \/ Fault)
  BY <1>1, <1>2, <1>4, WriteFits, VisitKeeps DEF SetOwnerName
<1> QED
  BY <1>3, <1>4 DEF SetOwnerName

(* The row whose files are to be moved. *)
LEMMA Moving ==
    ASSUME IInv, at \in {"path", "move"}
    PROVE  /\ cur \in Ids /\ listed[cur].name \in Names
           /\ stored[cur] \in Rows /\ stored[cur].name \in Names
           /\ table[cur] \in Rows /\ table[cur].name \in Names
           /\ NewPath(cur) \in Paths
<1>1. SyncType /\ StoredType
  BY TypeParts DEF IInv
<1>2. /\ cur \in Ids /\ listed[cur].name \in Names
      /\ stored[cur].name \in Names /\ table[cur].name \in Names
  BY DEF IInv, InHand, Moves, Lasts
<1>3. stored[cur] \in Rows /\ table[cur] \in Rows /\ stored[cur].format \in Formats
  BY <1>1, <1>2 DEF SyncType, StoredType, Rows
<1> QED
  BY <1>2, <1>3, PathType DEF NewPath

LEMMA SetBackupPathKeeps == ASSUME IInv, SetBackupPath PROVE IInv'
<1> DEFINE r == [table[cur] EXCEPT !.path = NewPath(cur)]
<1>1. /\ cur \in Ids /\ listed[cur].name \in Names /\ stored[cur].name \in Names
      /\ at = "path"
  BY Moving DEF SetBackupPath
<1>2. r \in Rows /\ r.name \in Names
  BY Moving DEF SetBackupPath, Rows
<1>3. table' = [table EXCEPT ![cur] = r] \/ UNCHANGED table
  BY DEF SetBackupPath
<1>4. table' \in [Ids -> Rows] /\ TableGrows
  BY <1>1, <1>2, <1>3, WriteFits
<1>5. CASE at' = "move" /\ Calm /\ UNCHANGED <<todo, cur, listed, stored>>
  BY <1>1, <1>4, <1>5, GoesOn DEF SetBackupPath
<1>6. CASE Fault /\ Visited(cur)
  BY <1>1, <1>4, <1>6, VisitKeeps DEF SetBackupPath
<1> QED
  BY <1>5, <1>6 DEF SetBackupPath

(* A move leaves each copy at a path of its own. *)
LEMMA MovedType ==
    ASSUME StoredType, NEW f \in Formats, NEW old \in Names, NEW new \in Names
    PROVE  Moved(f, old, new) \in [Formats -> [Names -> Ids \cup {Nothing}]]
BY DEF Moved, StoredType

LEMMA MoveBackupKeeps == ASSUME IInv, MoveBackup PROVE IInv'
<1>1. GitHubType /\ StoredType /\ SyncType /\ JobType /\ EventsType
  BY TypeParts DEF IInv
<1>2. /\ stored[cur].format \in Formats
      /\ stored[cur].name \in Names /\ listed[cur].name \in Names
  BY Moving DEF MoveBackup, Rows
<1>3. StoredType'
  BY <1>1, <1>2, MovedType DEF MoveBackup, StoredType
<1>4. SyncType' /\ GitHubType' /\ JobType' /\ EventsType'
  BY <1>1, VisitedType, OutsideType, EventsTypes DEF MoveBackup
<1>5. InHand'
  BY GrowsSame, VisitedHand DEF MoveBackup, IInv
<1> QED
  BY <1>3, <1>4, <1>5, TypePartsNext DEF IInv

LEMMA SetGitHubMetadataKeeps ==
    ASSUME IInv, NEW i \in Ids, SetGitHubMetadata(i) PROVE IInv'
<1>1. /\ at = "update" /\ listed[i] \in Listings
      /\ table[i] \in Rows /\ table[i].name \in Names /\ NewPath(i) \in Paths
  BY Knowing DEF SetGitHubMetadata, Known
<1> DEFINE moved == IF stored[i].path = NewPath(i) THEN table
                    ELSE [table EXCEPT ![i].path = NewPath(i)]
           r == [moved[i] EXCEPT !.meta = listed[i].meta]
<1>2. \/ table' = [moved EXCEPT ![i].meta = listed[i].meta] /\ Calm
      \/ table' \in {table, moved} /\ Fault
  BY DEF SetGitHubMetadata
<1>3. table \in [Ids -> Rows]
  BY TypeParts DEF IInv, StoredType
<1>4. moved[i] \in Rows /\ moved[i].name \in Names
  BY <1>1, <1>3 DEF Rows
<1>5. r \in Rows /\ r.name \in Names
  BY <1>1, <1>4 DEF Rows, Listings
<1>6. \/ table' = [table EXCEPT ![i] = r] \/ table' = [table EXCEPT ![i] = moved[i]]
      \/ UNCHANGED table
  BY <1>2, <1>3
<1>7. table' \in [Ids -> Rows] /\ TableGrows
  BY <1>4, <1>5, <1>6, WriteFits
<1> QED
  BY <1>1, <1>2, <1>7, VisitKeeps DEF SetGitHubMetadata

LEMMA UnchangedKeeps == ASSUME IInv, NEW i \in Ids, Unchanged(i) PROVE IInv'
<1>1. table' \in [Ids -> Rows] /\ TableGrows
  BY TypeParts, GrowsSame DEF IInv, StoredType, Unchanged
<1>2. at = "update"
  BY DEF Unchanged, Known, Visiting
<1> QED
  BY <1>1, <1>2, VisitKeeps DEF Unchanged

LEMMA StartRemovingKeeps == ASSUME IInv, StartRemoving PROVE IInv'
<1>1. GitHubType /\ StoredType /\ SyncType /\ JobType /\ EventsType
  BY TypeParts DEF IInv
<1>2. SyncType'
  BY <1>1, DroppedType DEF StartRemoving, SyncType, Labels
<1>3. GitHubType' /\ JobType' /\ EventsType' /\ StoredType'
  BY <1>1, OutsideType, EventsTypes DEF StartRemoving, StoredType
<1>4. Named(table)' /\ Named(stored)' /\ Visits' /\ Moves'
  BY DEF StartRemoving, Dropped, IInv, InHand, Named, Visits, Moves
<1>5. Lasts'
  BY NoRowNameless
  DEF StartRemoving, Dropped, IInv, InHand, Named, Lasts
<1> QED
  BY <1>2, <1>3, <1>4, <1>5, TypePartsNext DEF IInv, InHand

LEMMA MarkDeletedKeeps == ASSUME IInv, NEW i \in Ids, MarkDeleted(i) PROVE IInv'
<1>1. GitHubType /\ StoredType /\ SyncType /\ JobType /\ EventsType
  BY TypeParts DEF IInv
<1>2. table[i] \in Rows /\ table[i].name \in Names
  BY <1>1 DEF StoredType, MarkDeleted, IInv, InHand, Lasts
<1> DEFINE r == [table[i] EXCEPT !.deleted = TRUE]
<1>3. r \in Rows /\ r.name \in Names
  BY <1>2 DEF Rows
<1>4. table' = [table EXCEPT ![i] = r] \/ UNCHANGED table
  BY DEF MarkDeleted
<1>5. table' \in [Ids -> Rows] /\ TableGrows
  BY <1>3, <1>4, WriteFits
<1>6. SyncType' /\ StoredType'
  BY <1>1, <1>5 DEF MarkDeleted, SyncType, StoredType
<1>7. GitHubType' /\ JobType' /\ EventsType'
  BY <1>1, OutsideType, EventsTypes DEF MarkDeleted
<1>8. Named(table)' /\ Named(stored)' /\ Visits' /\ Moves'
  BY <1>5 DEF MarkDeleted, IInv, InHand, Named, Visits, Moves, TableGrows
<1>9. Lasts'
  BY <1>1, <1>5 DEF MarkDeleted, IInv, InHand, Lasts, TableGrows, SyncType
<1> QED
  BY <1>6, <1>7, <1>8, <1>9, TypePartsNext DEF IInv, InHand

(* The end of a sync, or of the process. *)
LEMMA ForgetKeeps ==
    ASSUME IInv, Forget, UNCHANGED <<github, answers, table, files>>,
           job' \in {job, NoJob}, Event \/ UNCHANGED events,
           clean' \in BOOLEAN, steady' \in BOOLEAN
    PROVE  IInv'
<1>1. GitHubType /\ StoredType /\ SyncType /\ JobType /\ EventsType
  BY TypeParts DEF IInv
<1>2. SyncType'
  BY DroppedType DEF Forget, SyncType, Labels
<1>3. GitHubType' /\ JobType' /\ EventsType' /\ StoredType'
  BY <1>1, NothingTypes, EventsTypes DEF GitHubType, JobType, StoredType
<1>4. InHand'
  BY GrowsSame, ForgetHand DEF IInv
<1> QED
  BY <1>2, <1>3, <1>4, TypePartsNext DEF IInv

-----------------------------------------------------------------------------
(* The steps of the others.                                                    *)

(* A step that leaves the sync where it is. *)
LEMMA AloneKeeps ==
    ASSUME IInv, UNCHANGED sync, TableGrows, GitHubType', StoredType', JobType',
           EventsType'
    PROVE  IInv'
<1>1. SyncType
  BY TypeParts DEF IInv
<1>2. SyncType'
  BY <1>1 DEF SyncType, sync
<1>3. InHand'
  BY <1>1, AloneHand DEF IInv
<1> QED
  BY <1>2, <1>3, TypePartsNext DEF IInv

LEMMA TakeRowKeeps == ASSUME IInv, NEW i \in Ids, TakeRow(i) PROVE IInv'
<1>1. GitHubType /\ StoredType /\ SyncType /\ JobType /\ EventsType
  BY TypeParts DEF IInv
<1>2. JobType'
  BY <1>1 DEF TakeRow, JobType, StoredType, Rows
<1>3. events' \in 0..MaxEvents
  BY <1>1 DEF TakeRow, EventsType
<1>4. clean' = (clean /\ at = "idle") /\ UNCHANGED steady
  BY DEF TakeRow
<1>5. clean' \in BOOLEAN /\ steady' \in BOOLEAN
  BY <1>1, <1>4, Zenon DEF EventsType
<1>6. EventsType'
  BY <1>3, <1>5 DEF EventsType
<1>7. GitHubType' /\ StoredType'
  BY <1>1 DEF TakeRow, GitHubType, StoredType
<1> QED
  BY <1>2, <1>6, <1>7, GrowsSame, AloneKeeps DEF TakeRow

LEMMA BackupKeeps == ASSUME IInv, Backup PROVE IInv'
<1>1. GitHubType /\ StoredType /\ SyncType /\ JobType /\ EventsType
  BY TypeParts DEF IInv
<1>2. Copied(job) \in [Formats -> [Names -> Ids \cup {Nothing}]]
  <2>1. job.name \in Names \cup {Nothing}
    BY <1>1 DEF JobType
  <2>2. CASE answers[job.name] = Nothing
    BY <1>1, <2>2 DEF Copied, StoredType
  <2>3. CASE answers[job.name] # Nothing /\ job.name \in Names
    BY <1>1, <2>3 DEF Copied, StoredType, GitHubType
  <2>4. CASE answers[job.name] # Nothing /\ job.name \notin Names
    BY <1>1, <2>4 DEF Copied, StoredType
  <2> QED
    BY <2>1, <2>2, <2>3, <2>4
<1>3. StoredType' /\ JobType' /\ EventsType' /\ GitHubType'
  BY <1>1, <1>2, NothingTypes, EventsTypes
  DEF Backup, StoredType, JobType, GitHubType
<1> QED
  BY <1>3, GrowsSame, AloneKeeps DEF Backup

LEMMA PurgeKeeps == ASSUME IInv, NEW i \in Ids, Purge(i) PROVE IInv'
<1>1. GitHubType /\ StoredType /\ SyncType /\ JobType /\ EventsType
  BY TypeParts DEF IInv
<1>2. StoredType'
  BY <1>1 DEF Purge, StoredType
<1>3. GitHubType' /\ JobType' /\ EventsType'
  BY <1>1, OutsideType, EventsTypes DEF Purge
<1> QED
  BY <1>2, <1>3, GrowsSame, AloneKeeps DEF Purge

LEMMA ConvertKeeps == ASSUME IInv, NEW i \in Ids, Convert(i) PROVE IInv'
<1>1. GitHubType /\ StoredType /\ SyncType /\ JobType /\ EventsType
  BY TypeParts DEF IInv
<1>2. table[i] \in Rows /\ table[i].name \in Names
  BY <1>1 DEF Convert, StoredType, IInv, InHand, Named
<1>3. table[i].format \in Formats /\ Other(table[i].format) \in Formats
  BY <1>2 DEF Rows, Formats, Other
<1> DEFINE path == PathForFormat(Other(table[i].format), table[i].name)
           r == [table[i] EXCEPT !.format = Other(@), !.path = path]
<1>4. path \in Paths
  BY <1>2, <1>3, PathType
<1>5. r \in Rows /\ r.name \in Names
  BY <1>2, <1>3, <1>4 DEF Rows
<1>6. table' = [table EXCEPT ![i] = r]
  BY DEF Convert
<1>7. table' \in [Ids -> Rows] /\ TableGrows
  BY <1>5, <1>6, WriteFits
<1>8. files' \in [Formats -> [Names -> Ids \cup {Nothing}]]
  <2>1. CASE Convertible(table[i]) /\ files' = Converted(table[i])
    <3>1. CASE table[i].format = "clone"
      BY <1>1, <1>2, <2>1, <3>1 DEF Converted, StoredType, Formats
    <3>2. CASE table[i].format # "clone"
      BY <1>1, <1>2, <2>1, <3>2 DEF Converted, StoredType, GitHubType, Formats
    <3> QED
      BY <3>1, <3>2
  <2>2. CASE UNCHANGED files
    BY <1>1, <2>2 DEF StoredType
  <2>3. CASE files' \in Unconverted(table[i])
    BY <1>1, <1>2, <2>3 DEF Unconverted, StoredType, Formats
  <2> QED
    BY <2>1, <2>2, <2>3 DEF Convert
<1>9. EventsType'
  <2>1. Event
    BY DEF Convert
  <2>2. /\ clean' = (clean /\ at = "idle" /\ job = NoJob) \/ clean' = FALSE
        /\ steady' = (at = "idle")
    BY Zenon DEF Convert
  <2>3. clean' \in BOOLEAN /\ steady' \in BOOLEAN
    BY <1>1, <2>2, Zenon DEF EventsType
  <2> QED
    BY <1>1, <2>1, <2>3, EventsTypes
<1>10. GitHubType' /\ JobType' /\ StoredType'
  BY <1>1, <1>7, <1>8 DEF Convert, GitHubType, JobType, StoredType
<1> QED
  BY <1>7, <1>9, <1>10, AloneKeeps DEF Convert

-----------------------------------------------------------------------------
(* GitHub.                                                                     *)

LEMMA QuietKeeps == ASSUME IInv, Quietly, GitHubType' PROVE IInv'
<1>1. StoredType /\ JobType /\ EventsType
  BY TypeParts DEF IInv
<1>2. clean' \in BOOLEAN /\ steady' \in BOOLEAN
  <2>1. clean' = clean /\ steady' = steady
    BY DEF Quietly
  <2> QED
    BY <1>1, <2>1, Zenon DEF EventsType
<1>3. StoredType' /\ JobType' /\ EventsType'
  BY <1>1, <1>2, EventsTypes DEF Quietly, StoredType, JobType
<1> QED
  BY <1>3, GrowsSame, AloneKeeps DEF Quietly

LEMMA NameKeeps ==
    ASSUME IInv, NEW i \in Ids, NEW n \in Names, Name(i, n) PROVE IInv'
<1>1. GitHubType
  BY TypeParts DEF IInv
<1>2. github[i] \in Listings
  BY <1>1 DEF GitHubType
<1> DEFINE l == [github[i] EXCEPT !.name = n]
<1>3. l \in Listings
  BY <1>2, ListingFields
<1>4. github' = [github EXCEPT ![i] = l]
  BY DEF Name
<1>5. GitHubType'
  BY <1>1, <1>3, <1>4 DEF GitHubType, Name
<1> QED
  BY <1>5, QuietKeeps DEF Name

LEMMA VanishKeeps == ASSUME IInv, NEW i \in Ids, Vanish(i) PROVE IInv'
<1>1. GitHubType
  BY TypeParts DEF IInv
<1>2. github[i] \in Listings
  BY <1>1 DEF GitHubType
<1> DEFINE l == [github[i] EXCEPT !.name = Nothing]
<1>3. l \in Listings
  BY <1>2, ListingFields
<1>4. github' = [github EXCEPT ![i] = l]
  BY DEF Vanish
<1>5. GitHubType'
  BY <1>1, <1>3, <1>4 DEF GitHubType, Vanish
<1> QED
  BY <1>5, QuietKeeps DEF Vanish

LEMMA EditKeeps == ASSUME IInv, NEW i \in Ids, Edit(i) PROVE IInv'
<1>1. GitHubType
  BY TypeParts DEF IInv
<1>2. github[i] \in Listings
  BY <1>1 DEF GitHubType
<1> DEFINE l == [github[i] EXCEPT !.meta = @ + 1]
<1>3. l \in Listings
  BY <1>2 DEF Listings
<1>4. github' = [github EXCEPT ![i] = l]
  BY DEF Edit
<1>5. GitHubType'
  BY <1>1, <1>3, <1>4 DEF GitHubType, Edit
<1> QED
  BY <1>5, QuietKeeps DEF Edit

-----------------------------------------------------------------------------
(* The theorems.                                                               *)

LEMMA StutterKeeps == ASSUME IInv, UNCHANGED vars PROVE IInv'
<1>1. GitHubType /\ StoredType /\ SyncType /\ JobType /\ EventsType
  BY TypeParts DEF IInv
<1>2. GitHubType' /\ StoredType' /\ JobType' /\ EventsType'
  <2>1. events' \in 0..MaxEvents
    BY <1>1 DEF vars, EventsType
  <2>2. clean' \in BOOLEAN /\ steady' \in BOOLEAN
    BY <1>1, Zenon DEF vars, EventsType
  <2> QED
    BY <1>1, <2>1, <2>2
    DEF vars, GitHubType, StoredType, JobType, EventsType
<1> QED
  BY <1>2, GrowsSame, AloneKeeps DEF vars

LEMMA SyncingKeeps == ASSUME IInv, Syncing PROVE IInv'
<1>1. CASE StartSync
  BY <1>1, StartSyncKeeps
<1>2. CASE SetBackupPath
  BY <1>2, SetBackupPathKeeps
<1>3. CASE MoveBackup
  BY <1>3, MoveBackupKeeps
<1>4. CASE StartRemoving
  BY <1>4, StartRemovingKeeps
<1>5. CASE FinishSync
  <2>1. EventsType
    BY TypeParts DEF IInv
  <2>2. clean' \in BOOLEAN /\ steady' \in BOOLEAN
    BY <1>5, <2>1, Zenon DEF FinishSync, EventsType
  <2> QED
    BY <1>5, <2>2, ForgetKeeps DEF FinishSync, Outside
<1>6. ASSUME NEW i \in Ids, Visit(i) PROVE IInv'
  <2>1. CASE Add(i)
    BY <2>1, AddKeeps
  <2>2. CASE Restore(i)
    BY <2>2, RestoreKeeps
  <2>3. CASE SetOwnerName(i)
    BY <2>3, SetOwnerNameKeeps
  <2>4. CASE SetGitHubMetadata(i)
    BY <2>4, SetGitHubMetadataKeeps
  <2>5. CASE Unchanged(i)
    BY <2>5, UnchangedKeeps
  <2>6. CASE MarkDeleted(i)
    BY <2>6, MarkDeletedKeeps
  <2> QED
    BY <1>6, <2>1, <2>2, <2>3, <2>4, <2>5, <2>6 DEF Visit
<1> QED
  BY <1>1, <1>2, <1>3, <1>4, <1>5, <1>6 DEF Syncing

LEMMA OthersKeep == ASSUME IInv, Others PROVE IInv'
<1>1. CASE Backup
  BY <1>1, BackupKeeps
<1>2. ASSUME NEW i \in Ids, TakeRow(i) PROVE IInv'
  BY <1>2, TakeRowKeeps
<1>3. ASSUME NEW i \in Ids, Convert(i) PROVE IInv'
  BY <1>3, ConvertKeeps
<1>4. ASSUME NEW i \in Ids, Purge(i) PROVE IInv'
  BY <1>4, PurgeKeeps
<1> QED
  BY <1>1, <1>2, <1>3, <1>4 DEF Others

LEMMA WorldKeeps == ASSUME IInv, World PROVE IInv'
<1>1. CASE Crash
  <2>1. clean' \in BOOLEAN /\ steady' \in BOOLEAN
    BY <1>1, Zenon DEF Crash
  <2> QED
    BY <1>1, <2>1, ForgetKeeps DEF Crash
<1>2. ASSUME NEW i \in Ids, Vanish(i) PROVE IInv'
  BY <1>2, VanishKeeps
<1>3. ASSUME NEW i \in Ids, Edit(i) PROVE IInv'
  BY <1>3, EditKeeps
<1>4. ASSUME NEW i \in Ids, NEW n \in Names, Name(i, n) PROVE IInv'
  BY <1>4, NameKeeps
<1> QED
  BY <1>1, <1>2, <1>3, <1>4 DEF World

LEMMA Invariance == Spec => []IInv
<1>1. Init => IInv
  BY InitType, InitHand DEF IInv
<1>2. IInv /\ [Next]_vars => IInv'
  BY SyncingKeeps, OthersKeep, WorldKeeps, StutterKeeps DEF Next
<1> QED
  BY <1>1, <1>2, PTL DEF Spec

(* Every reachable state of GitHub, the table, the files, the sync and the     *)
(* backup is well typed.                                                       *)
THEOREM TypeCorrect == Spec => []TypeOK
<1>1. IInv => TypeOK
  BY DEF IInv
<1> QED
  BY <1>1, Invariance, PTL

(* The names under which a copy of i is kept in a format. *)
Kept(fs, f, i) == {n \in Names : fs[f][n] = i}

(* MoveBackup never takes a copy away: a repository has as many after a move   *)
(* as before, wherever it goes and whoever is there.                           *)
LEMMA MovedKeeps ==
    ASSUME StoredType, NEW m \in Formats, NEW old \in Names, NEW new \in Names,
           NEW f \in Formats, NEW i \in Ids
    PROVE  Cardinality(Kept(Moved(m, old, new), f, i))
              = Cardinality(Kept(files, f, i))
<1> DEFINE K == Kept(files, f, i)
           L == Kept(Moved(m, old, new), f, i)
<1>1. CASE \/ files[m][old] = Nothing \/ files[m][new] # Nothing
           \/ f # m \/ files[m][old] # i
  <2>1. \A n \in Names : Moved(m, old, new)[f][n] = i <=> files[f][n] = i
    BY <1>1, NothingAssumption DEF Moved, StoredType
  <2>2. L = K
    BY <2>1 DEF Kept
  <2> QED
    BY <2>2
<1>2. CASE /\ files[m][old] # Nothing /\ files[m][new] = Nothing
           /\ f = m /\ files[m][old] = i
  <2>1. old # new /\ old \in K /\ new \notin K
    BY <1>2, NothingAssumption DEF Kept
  <2>2. L = (K \ {old}) \cup {new}
    BY <1>2, <2>1, NothingAssumption DEF Kept, Moved, StoredType
  <2>3. IsFiniteSet(K)
    BY NamesAssumption, FS_Subset DEF Kept
  <2>4. Cardinality(K) \in Nat
    BY <2>3, FS_CardinalityType
  <2>5. /\ IsFiniteSet(K \ {old})
        /\ Cardinality(K \ {old}) = Cardinality(K) - 1
    BY <2>1, <2>3, FS_RemoveElement
  <2>6. Cardinality(L) = Cardinality(K \ {old}) + 1
    BY <2>1, <2>2, <2>5, FS_AddElement
  <2> QED
    BY <2>4, <2>5, <2>6
<1> QED
  BY <1>1, <1>2

(* A sync touches the files in one step only. *)
LEMMA SyncingFiles ==
    ASSUME Syncing PROVE MoveBackup \/ UNCHANGED files
BY DEF Syncing, StartSync, SetBackupPath, StartRemoving, FinishSync, Visit,
       Add, Restore, SetOwnerName, SetGitHubMetadata, Unchanged, MarkDeleted

(* However the names change, no step of a sync removes or replaces a copy: the *)
(* files of a renamed repository only go to a free place.                      *)
THEOREM SyncAlwaysKeepsFiles == Spec => SyncKeepsFiles
<1>1. ASSUME IInv, Syncing, NEW f \in Formats, NEW i \in Ids
      PROVE  Cardinality({n \in Names : files'[f][n] = i})
                = Cardinality({n \in Names : files[f][n] = i})
  <2>1. CASE UNCHANGED files
    BY <2>1
  <2>2. CASE MoveBackup /\ files' # files
    <3>1. StoredType
      BY <1>1, TypeParts DEF IInv
    <3>2. /\ stored[cur].format \in Formats
          /\ stored[cur].name \in Names /\ listed[cur].name \in Names
      BY <1>1, <2>2, Moving DEF MoveBackup, Rows
    <3>3. files' = Moved(stored[cur].format, stored[cur].name, listed[cur].name)
      BY <2>2 DEF MoveBackup
    <3> QED
      BY <3>1, <3>2, <3>3, MovedKeeps DEF Kept
  <2> QED
    BY <1>1, <2>1, <2>2, SyncingFiles
<1>2. IInv /\ [Next]_vars =>
        [Syncing => \A f \in Formats, i \in Ids :
           Cardinality({n \in Names : files'[f][n] = i})
              = Cardinality({n \in Names : files[f][n] = i})]_vars
  BY <1>1
<1> QED
  BY <1>2, Invariance, PTL DEF Spec, SyncKeepsFiles

-----------------------------------------------------------------------------
(* Every path that holds something is that of a row.  While nothing failed and *)
(* nobody met, this is so at any point of a sync but for the files that are    *)
(* about to be moved, and the place they go to is free.                        *)

Owned(f, n) == \E k \in Ids : table[k].name = n /\ table[k].format = f

Busy == at \in {"path", "move"}

(* UNIQUE(owner, name) *)
Unique == \A i, j \in Ids :
    table[i].name \in Names /\ table[i].name = table[j].name => i = j

Homes == \A f \in Formats, n \in Names :
    files[f][n] # Nothing =>
        \/ Owned(f, n)
        \/ Busy /\ n = stored[cur].name /\ f = stored[cur].format

Going == Busy =>
    /\ table[cur].name = listed[cur].name
    /\ table[cur].format = stored[cur].format
    /\ stored[cur].name # listed[cur].name
    /\ \A f \in Formats : files[f][listed[cur].name] = Nothing

(* The rows it has still to visit are as it listed them. *)
Current == at \in {"update", "path", "move"} =>
    \A i \in todo : \/ Busy /\ i = cur
                    \/ /\ stored[i].name = table[i].name
                       /\ stored[i].format = table[i].format

Alone == /\ at = "idle" \/ job = NoJob
         /\ job # NoJob => Owned(job.format, job.name)

Housed == Homes /\ Going /\ Current /\ Alone

Orderly == Unique /\ (clean => Housed)

(* Most steps change neither the name nor the format of a row. *)
SameHomes == \A k \in Ids : /\ table'[k].name = table[k].name
                            /\ table'[k].format = table[k].format

LEMMA SameUnique == ASSUME Unique, SameHomes PROVE Unique'
BY DEF Unique, SameHomes

LEMMA SameOwned ==
    ASSUME SameHomes, NEW f, NEW n, Owned(f, n) PROVE Owned(f, n)'
BY DEF Owned, SameHomes

(* One field of one row is written, which is neither of the two. *)
LEMMA SameWrite ==
    ASSUME IInv, NEW i \in Ids, NEW r,
           r.name = table[i].name, r.format = table[i].format,
           table' = [table EXCEPT ![i] = r] \/ UNCHANGED table
    PROVE  SameHomes
BY TypeParts DEF IInv, StoredType, SameHomes

LEMMA InitOrderly == Init => Orderly
<1> SUFFICES ASSUME Init PROVE Orderly
  OBVIOUS
<1>1. Unique
  BY NoRowNameless DEF Init, Unique
<1>2. Homes /\ Going /\ Current /\ Alone
  BY DEF Init, Homes, Going, Current, Alone, Busy
<1> QED
  BY <1>1, <1>2 DEF Orderly, Housed

(* The sync is done with a repository: the other rows keep their names, and so  *)
(* does its own, if it had one.                                                 *)
LEMMA VisitedHoused ==
    ASSUME IInv, Housed, at = "update", NEW i, Visited(i),
           UNCHANGED <<Outside, files>>,
           \A k \in Ids : k # i \/ table[k].name \in Names =>
               /\ table'[k].name = table[k].name
               /\ table'[k].format = table[k].format
    PROVE  Housed'
<1>1. ~Busy /\ ~Busy' /\ todo \subseteq Ids
  BY TypeParts DEF Busy, Visited, IInv, SyncType
<1>2. \A f \in Formats, n \in Names : Owned(f, n) => Owned(f, n)'
  BY DEF Owned
<1>3. Homes'
  BY <1>1, <1>2 DEF Housed, Homes
<1>4. Going'
  BY <1>1 DEF Going
<1>5. Current'
  BY <1>1 DEF Housed, Current, Visited
<1>6. Alone'
  BY DEF Housed, Alone, Outside, Visited
<1> QED
  BY <1>3, <1>4, <1>5, <1>6 DEF Housed

(* The sync is past its loop, or over. *)
LEMMA PastHoused ==
    ASSUME Housed, at \in {"update", "remove"}, at' \in {"remove", "idle"},
           SameHomes, UNCHANGED <<Outside, files>>
    PROVE  Housed'
<1>1. ~Busy /\ ~Busy'
  BY DEF Busy
<1>2. Homes'
  BY <1>1, SameOwned DEF Housed, Homes
<1>3. Going' /\ Current'
  BY <1>1 DEF Going, Current
<1>4. Alone'
  BY SameOwned DEF Housed, Alone, Outside
<1> QED
  BY <1>2, <1>3, <1>4 DEF Housed

(* Another name is free: nothing is kept under it. *)
LEMMA FreeIsEmpty ==
    ASSUME IInv, Housed, ~Busy, NEW i \in Ids, NEW n \in Names, Free(i, n),
           table[i].name # n
    PROVE  \A f \in Formats : files[f][n] = Nothing
BY DEF Housed, Homes, Owned, Free

LEMMA AddUnique ==
    ASSUME IInv, Unique, NEW i \in Ids, NEW r,
           table' = [table EXCEPT ![i] = r], Free(i, r.name)
    PROVE  Unique'
BY TypeParts DEF IInv, StoredType, Unique, Free

(* A visit that leaves the names as they are. *)
LEMMA SameVisit ==
    ASSUME IInv, Orderly, at = "update", NEW i, Visited(i), SameHomes,
           UNCHANGED <<Outside, files>>, clean' => clean
    PROVE  Orderly'
<1>1. Unique'
  BY SameUnique DEF Orderly
<1>2. ASSUME Housed PROVE Housed'
  BY <1>2, VisitedHoused DEF SameHomes
<1> QED
  BY <1>1, <1>2 DEF Orderly

LEMMA CleanStays == ASSUME Calm \/ Fault PROVE clean' => clean
BY Zenon DEF Calm, Fault

LEMMA Faulty == ASSUME Fault, Unique' PROVE Orderly'
<1>1. ~clean'
  BY Zenon DEF Fault
<1> QED
  BY <1>1 DEF Orderly

-----------------------------------------------------------------------------
(* The steps of the sync keep this order.                                      *)

LEMMA StartSyncOrderly == ASSUME IInv, Orderly, StartSync PROVE Orderly'
<1>1. SameHomes
  BY DEF StartSync, SameHomes
<1>2. clean' => clean /\ job = NoJob
  BY Zenon DEF StartSync
<1>3. ASSUME Housed, job = NoJob PROVE Housed'
  <2>1. Homes'
    BY <1>1, <1>3, SameOwned DEF StartSync, Housed, Homes, Busy
  <2>2. Going' /\ Current' /\ Alone'
    BY <1>3 DEF StartSync, Outside, Going, Current, Alone, Busy
  <2> QED
    BY <2>1, <2>2 DEF Housed
<1> QED
  BY <1>1, <1>2, <1>3, SameUnique DEF Orderly

LEMMA AddOrderly == ASSUME IInv, Orderly, NEW i \in Ids, Add(i) PROVE Orderly'
<1>1. at = "update" /\ UNCHANGED <<Outside, files>> /\ Visited(i)
      /\ i \in todo /\ stored[i] = NoRow
  BY DEF Add, Visiting
<1>2. CASE UNCHANGED table /\ (Calm \/ Fault)
  <2>1. SameHomes
    BY <1>2 DEF SameHomes
  <2> QED
    BY <1>1, <1>2, <2>1, CleanStays, SameVisit
<1>3. CASE /\ Free(i, listed[i].name) /\ Calm
           /\ table' = [table EXCEPT ![i] = NewRow(listed[i])]
  <2>1. Unique'
    <3>1. NewRow(listed[i]).name = listed[i].name
      BY DEF NewRow
    <3> QED
      BY <1>3, <3>1, AddUnique DEF Orderly
  <2>2. ASSUME Housed PROVE Housed'
    <3>1. table[i].name \notin Names
      BY <1>1, <2>2, NoRowNameless DEF Housed, Current, Busy
    <3>2. \A k \in Ids : k # i \/ table[k].name \in Names =>
               /\ table'[k].name = table[k].name
               /\ table'[k].format = table[k].format
      BY <1>3, <3>1, TypeParts DEF IInv, StoredType
    <3> QED
      BY <1>1, <2>2, <3>2, VisitedHoused
  <2> QED
    BY <1>3, <2>1, <2>2, CleanStays DEF Orderly
<1> QED
  BY <1>2, <1>3 DEF Add

LEMMA RestoreOrderly ==
    ASSUME IInv, Orderly, NEW i \in Ids, Restore(i) PROVE Orderly'
<1>1. at = "update" /\ UNCHANGED <<Outside, files>> /\ table[i] \in Rows
  BY Knowing DEF Restore
<1>2. CASE table' = [table EXCEPT ![i].deleted = FALSE] /\ Visited(i) /\ Calm
  <2> DEFINE r == [table[i] EXCEPT !.deleted = FALSE]
  <2>1. r.name = table[i].name /\ r.format = table[i].format
    BY <1>1 DEF Rows
  <2>2. table' = [table EXCEPT ![i] = r]
    BY <1>2
  <2>3. SameHomes
    BY <2>1, <2>2, SameWrite
  <2> QED
    BY <1>1, <1>2, <2>3, CleanStays, SameVisit
<1>3. CASE Fault /\ UNCHANGED table
  <2>1. SameHomes
    BY <1>3 DEF SameHomes
  <2> QED
    BY <1>3, <2>1, SameUnique, Faulty DEF Orderly
<1> QED
  BY <1>2, <1>3 DEF Restore

LEMMA SetOwnerNameOrderly ==
    ASSUME IInv, Orderly, NEW i \in Ids, SetOwnerName(i) PROVE Orderly'
<1>1. /\ at = "update" /\ i \in todo /\ UNCHANGED <<Outside, files>>
      /\ stored[i].name # listed[i].name
  BY DEF SetOwnerName, Known, Visiting, Renamed
<1>2. table[i] \in Rows /\ listed[i].name \in Names
  BY Knowing DEF SetOwnerName, Known
<1>3. CASE UNCHANGED table /\ Visited(i) /\ (Calm \/ Fault)
  <2>1. SameHomes
    BY <1>3 DEF SameHomes
  <2> QED
    BY <1>1, <1>3, <2>1, CleanStays, SameVisit
<1>4. CASE /\ Free(i, listed[i].name) /\ Calm
           /\ table' = [table EXCEPT ![i].name = listed[i].name]
           /\ cur' = i /\ at' = "path" /\ UNCHANGED <<todo, listed, stored>>
  <2> DEFINE r == [table[i] EXCEPT !.name = listed[i].name]
  <2>1. r.name = listed[i].name /\ r.format = table[i].format
    BY <1>2 DEF Rows
  <2>2. table' = [table EXCEPT ![i] = r]
    BY <1>4
  <2>3. Unique'
    BY <1>4, <2>1, <2>2, AddUnique DEF Orderly
  <2>4. /\ table'[i].name = listed[i].name /\ table'[i].format = table[i].format
        /\ \A k \in Ids \ {i} : table'[k] = table[k]
    BY <2>1, <2>2, TypeParts DEF IInv, StoredType
  <2>5. ASSUME Housed PROVE Housed'
    <3>1. ~Busy /\ Busy' /\ todo \subseteq Ids
      BY <1>1, <1>4, TypeParts DEF Busy, IInv, SyncType
    <3>2. table[i].name = stored[i].name /\ table[i].format = stored[i].format
      BY <1>1, <2>5, <3>1 DEF Housed, Current
    <3>3. \A f \in Formats : files[f][listed[i].name] = Nothing
      BY <1>1, <1>2, <1>4, <2>5, <3>1, <3>2, FreeIsEmpty
    <3>4. Homes'
      <4> SUFFICES ASSUME NEW f \in Formats, NEW n \in Names,
                          files'[f][n] # Nothing, ~Owned(f, n)'
                   PROVE  n = stored[i].name /\ f = stored[i].format
        BY <1>4, <3>1 DEF Homes
      <4>1. Owned(f, n)
        BY <1>1, <2>5, <3>1 DEF Housed, Homes
      <4>2. PICK k \in Ids : table[k].name = n /\ table[k].format = f
        BY <4>1 DEF Owned
      <4>3. k = i
        BY <2>4, <4>2 DEF Owned
      <4> QED
        BY <3>2, <4>2, <4>3
    <3>5. Going'
      BY <1>1, <1>4, <2>4, <3>2, <3>3 DEF Going
    <3>6. Current'
      BY <1>1, <1>4, <2>4, <2>5, <3>1 DEF Housed, Current
    <3>7. Alone'
      BY <1>1, <2>5 DEF Housed, Alone, Outside
    <3> QED
      BY <3>4, <3>5, <3>6, <3>7 DEF Housed
  <2> QED
    BY <1>4, <2>3, <2>5, CleanStays DEF Orderly
<1> QED
  BY <1>3, <1>4 DEF SetOwnerName

LEMMA SetBackupPathOrderly == ASSUME IInv, Orderly, SetBackupPath PROVE Orderly'
<1> DEFINE r == [table[cur] EXCEPT !.path = NewPath(cur)]
<1>1. at = "path" /\ UNCHANGED <<Outside, files>> /\ cur \in Ids
      /\ table[cur] \in Rows
  BY Moving DEF SetBackupPath
<1>2. r.name = table[cur].name /\ r.format = table[cur].format
  BY <1>1 DEF Rows
<1>3. table' = [table EXCEPT ![cur] = r] \/ UNCHANGED table
  BY DEF SetBackupPath
<1>4. SameHomes
  BY <1>1, <1>2, <1>3, SameWrite
<1>5. Unique'
  BY <1>4, SameUnique DEF Orderly
<1>6. CASE Fault
  BY <1>5, <1>6, Faulty
<1>7. CASE at' = "move" /\ Calm /\ UNCHANGED <<todo, cur, listed, stored>>
  <2>1. ASSUME Housed PROVE Housed'
    <3>1. Busy /\ Busy' /\ todo \subseteq Ids
      BY <1>1, <1>7, TypeParts DEF Busy, IInv, SyncType
    <3>2. Homes'
      BY <1>1, <1>4, <1>7, <2>1, <3>1, SameOwned DEF Housed, Homes
    <3>3. Going'
      BY <1>1, <1>4, <1>7, <2>1, <3>1 DEF Housed, Going, SameHomes
    <3>4. Current'
      BY <1>1, <1>4, <1>7, <2>1, <3>1 DEF Housed, Current, SameHomes
    <3>5. Alone'
      BY <1>1, <2>1 DEF Housed, Alone, Outside
    <3> QED
      BY <3>2, <3>3, <3>4, <3>5 DEF Housed
  <2> QED
    BY <1>5, <1>7, <2>1, CleanStays DEF Orderly
<1> QED
  BY <1>6, <1>7 DEF SetBackupPath

(* What was kept under the old name is kept under the new one. *)
LEMMA MoveBackupOrderly == ASSUME IInv, Orderly, MoveBackup PROVE Orderly'
<1> DEFINE m == stored[cur].format  old == stored[cur].name  new == listed[cur].name
<1>1. /\ at = "move" /\ UNCHANGED <<Outside, table>> /\ Visited(cur)
      /\ cur \in Ids /\ m \in Formats /\ old \in Names /\ new \in Names
  BY Moving DEF MoveBackup, Rows
<1>2. SameHomes
  BY <1>1 DEF SameHomes
<1>3. Unique'
  BY <1>2, SameUnique DEF Orderly
<1>4. CASE Fault
  BY <1>3, <1>4, Faulty
<1>5. CASE files' = Moved(m, old, new) /\ Calm
  <2>1. ASSUME Housed PROVE Housed'
    <3>1. Busy /\ ~Busy' /\ todo \subseteq Ids
      BY <1>1, TypeParts DEF Busy, Visited, IInv, SyncType
    <3>2. /\ table[cur].name = new /\ table[cur].format = m /\ old # new
          /\ \A f \in Formats : files[f][new] = Nothing
      BY <2>1, <3>1 DEF Housed, Going
    <3>3. Owned(m, new)
      BY <1>1, <3>2 DEF Owned
    <3>4. Homes'
      <4> SUFFICES ASSUME NEW f \in Formats, NEW n \in Names,
                          files'[f][n] # Nothing
                   PROVE  Owned(f, n)
        BY <1>2, SameOwned DEF Homes
      <4>1. CASE f = m /\ n = new
        BY <3>3, <4>1
      <4>2. CASE ~(f = m /\ n = new) /\ ~(f = m /\ n = old)
        <5>1. files'[f][n] = files[f][n]
          BY <1>5, <4>2, <1>1, TypeParts DEF Moved, IInv, StoredType
        <5> QED
          BY <5>1, <4>2, <2>1 DEF Housed, Homes
      <4>3. CASE f = m /\ n = old
        <5>1. files'[m][old] = Nothing
          BY <1>5, <1>1, <3>2, TypeParts DEF Moved, IInv, StoredType
        <5> QED
          BY <5>1, <4>3
      <4> QED
        BY <4>1, <4>2, <4>3
    <3>5. Going' /\ Current'
      BY <1>1, <2>1, <3>1 DEF Housed, Going, Current, Visited
    <3>6. Alone'
      BY <1>1, <2>1 DEF Housed, Alone, Outside
    <3> QED
      BY <3>4, <3>5, <3>6 DEF Housed
  <2> QED
    BY <1>3, <1>5, <2>1, CleanStays DEF Orderly
<1> QED
  BY <1>4, <1>5 DEF MoveBackup

LEMMA SetGitHubMetadataOrderly ==
    ASSUME IInv, Orderly, NEW i \in Ids, SetGitHubMetadata(i) PROVE Orderly'
<1> DEFINE moved == IF stored[i].path = NewPath(i) THEN table
                    ELSE [table EXCEPT ![i].path = NewPath(i)]
           r == [moved[i] EXCEPT !.meta = listed[i].meta]
<1>1. at = "update" /\ table[i] \in Rows /\ NewPath(i) \in Paths
  BY Knowing DEF SetGitHubMetadata, Known
<1>2. \/ table' = [moved EXCEPT ![i].meta = listed[i].meta] /\ Calm
      \/ table' \in {table, moved} /\ Fault
  BY DEF SetGitHubMetadata
<1>3. table \in [Ids -> Rows]
  BY TypeParts DEF IInv, StoredType
<1>4. /\ moved[i] \in Rows
      /\ moved[i].name = table[i].name /\ moved[i].format = table[i].format
  BY <1>1, <1>3 DEF Rows
<1>5. r.name = table[i].name /\ r.format = table[i].format
  BY <1>4 DEF Rows
<1>6. \/ table' = [table EXCEPT ![i] = r] \/ table' = [table EXCEPT ![i] = moved[i]]
      \/ UNCHANGED table
  BY <1>2, <1>3
<1>7. SameHomes
  BY <1>4, <1>5, <1>6, SameWrite
<1> QED
  BY <1>1, <1>2, <1>7, CleanStays, SameVisit DEF SetGitHubMetadata

LEMMA UnchangedOrderly ==
    ASSUME IInv, Orderly, NEW i \in Ids, Unchanged(i) PROVE Orderly'
<1>1. SameHomes /\ at = "update"
  BY DEF Unchanged, Known, Visiting, SameHomes
<1> QED
  BY <1>1, CleanStays, SameVisit DEF Unchanged

(* The rest of the sync. *)
LEMMA PastOrderly ==
    ASSUME Orderly, at \in {"update", "remove"}, at' \in {"remove", "idle"},
           SameHomes, UNCHANGED <<Outside, files>>, clean' => clean
    PROVE  Orderly'
BY SameUnique, PastHoused DEF Orderly

LEMMA StartRemovingOrderly == ASSUME IInv, Orderly, StartRemoving PROVE Orderly'
BY PastOrderly, CleanStays DEF StartRemoving, SameHomes

LEMMA FinishSyncOrderly == ASSUME IInv, Orderly, FinishSync PROVE Orderly'
<1>1. clean' => clean
  BY Zenon DEF FinishSync
<1> QED
  BY <1>1, PastOrderly DEF FinishSync, Forget, SameHomes

LEMMA MarkDeletedOrderly ==
    ASSUME IInv, Orderly, NEW i \in Ids, MarkDeleted(i) PROVE Orderly'
<1> DEFINE r == [table[i] EXCEPT !.deleted = TRUE]
<1>1. table[i] \in Rows
  BY TypeParts DEF IInv, StoredType
<1>2. r.name = table[i].name /\ r.format = table[i].format
  BY <1>1 DEF Rows
<1>3. table' = [table EXCEPT ![i] = r] \/ UNCHANGED table
  BY DEF MarkDeleted
<1>4. SameHomes
  BY <1>2, <1>3, SameWrite
<1> QED
  BY <1>4, PastOrderly, CleanStays DEF MarkDeleted

-----------------------------------------------------------------------------
(* The steps of the others keep it too.                                        *)

LEMMA TakeRowOrderly == ASSUME IInv, Orderly, NEW i \in Ids, TakeRow(i) PROVE Orderly'
<1>1. SameHomes
  BY DEF TakeRow, SameHomes
<1>2. clean' => clean /\ at = "idle"
  BY Zenon DEF TakeRow
<1>3. ASSUME Housed, at = "idle" PROVE Housed'
  <2>1. Homes'
    BY <1>1, <1>3, SameOwned DEF TakeRow, sync, Housed, Homes, Busy
  <2>2. Going' /\ Current'
    BY <1>3 DEF TakeRow, sync, Going, Current, Busy
  <2>3. Owned(job'.format, job'.name)
    BY DEF TakeRow, Owned
  <2>4. Alone'
    BY <1>1, <1>3, <2>3, SameOwned DEF TakeRow, sync, Alone
  <2> QED
    BY <2>1, <2>2, <2>4 DEF Housed
<1> QED
  BY <1>1, <1>2, <1>3, SameUnique DEF Orderly

(* A step of another goroutine, when there is nobody else: what it leaves at    *)
(* each path has a row.                                                         *)
LEMMA OtherHoused ==
    ASSUME at = "idle", UNCHANGED sync, job' = NoJob,
           \A f \in Formats, n \in Names : files'[f][n] # Nothing => Owned(f, n)'
    PROVE  Housed'
BY DEF Housed, Homes, Going, Current, Alone, Busy, sync

LEMMA BackupOrderly == ASSUME IInv, Orderly, Backup PROVE Orderly'
<1>1. SameHomes /\ UNCHANGED sync /\ job' = NoJob
  BY DEF Backup, SameHomes
<1>2. ASSUME Housed PROVE Housed'
  <2>1. at = "idle" /\ Owned(job.format, job.name)
    BY <1>2 DEF Backup, Housed, Alone
  <2>2. job.format \in Formats
    BY TypeParts DEF IInv, JobType
  <2>3. ASSUME NEW f \in Formats, NEW n \in Names, files'[f][n] # Nothing
        PROVE  Owned(f, n)
    <3>1. CASE f = job.format /\ n = job.name
      BY <2>1, <3>1
    <3>2. CASE ~(f = job.format /\ n = job.name)
      <4>1. files'[f][n] = files[f][n]
        BY <2>2, <2>3, <3>2, TypeParts
        DEF Backup, Copied, IInv, StoredType, Formats
      <4> QED
        BY <1>2, <2>1, <2>3, <4>1 DEF Housed, Homes, Busy
    <3> QED
      BY <3>1, <3>2
  <2> QED
    BY <1>1, <2>1, <2>3, SameOwned, OtherHoused
<1> QED
  BY <1>1, <1>2, SameUnique, CleanStays DEF Orderly, Backup

LEMMA PurgeOrderly == ASSUME IInv, Orderly, NEW i \in Ids, Purge(i) PROVE Orderly'
<1>1. SameHomes /\ UNCHANGED sync /\ job' = job
  BY DEF Purge, SameHomes, Outside
<1>2. ASSUME NEW f \in Formats, NEW n \in Names
      PROVE  files'[f][n] \in {files[f][n], Nothing}
  BY TypeParts DEF Purge, IInv, StoredType
<1>3. ASSUME Housed PROVE Housed'
  <2>1. Homes'
    BY <1>1, <1>2, <1>3, SameOwned DEF Housed, Homes, Busy, sync
  <2>2. Current' /\ Alone'
    BY <1>1, <1>3, SameOwned
    DEF Housed, Current, Alone, Busy, sync, Purge
  <2>3. Going'
    BY <1>1, <1>2, <1>3 DEF Housed, Going, Busy, sync, Purge, IInv, InHand, Moves
  <2> QED
    BY <2>1, <2>2, <2>3 DEF Housed
<1> QED
  BY <1>1, <1>3, SameUnique, CleanStays DEF Orderly, Purge

LEMMA ConvertOrderly == ASSUME IInv, Orderly, NEW i \in Ids, Convert(i) PROVE Orderly'
<1> DEFINE path == PathForFormat(Other(table[i].format), table[i].name)
           r == [table[i] EXCEPT !.format = Other(@), !.path = path]
           home == table[i].name
<1>1. table[i] \in Rows /\ home \in Names
  BY TypeParts DEF Convert, IInv, InHand, Named, StoredType
<1>2. table[i].format \in Formats
  BY <1>1 DEF Rows
<1>3. r.name = home /\ r.format = Other(table[i].format)
  BY <1>1 DEF Rows
<1>4. table' = [table EXCEPT ![i] = r]
  BY DEF Convert
<1>5. /\ table'[i].name = home /\ table'[i].format = Other(table[i].format)
      /\ \A k \in Ids : table'[k].name = table[k].name
      /\ \A k \in Ids \ {i} : table'[k] = table[k]
  BY <1>3, <1>4, TypeParts DEF IInv, StoredType
<1>6. Unique'
  BY <1>5 DEF Orderly, Unique
<1>7. CASE files' \in Unconverted(table[i]) /\ clean' = FALSE
  <2>1. ~clean'
    BY <1>7, Zenon
  <2> QED
    BY <1>6, <2>1 DEF Orderly
<1>8. CASE /\ \/ Convertible(table[i]) /\ files' = Converted(table[i])
              \/ files[table[i].format][home] = Nothing /\ UNCHANGED files
           /\ clean' = (clean /\ at = "idle" /\ job = NoJob)
  <2>1. clean' => clean /\ at = "idle" /\ job = NoJob
    BY <1>8, Zenon
  <2>2. /\ files'[table[i].format][home] = Nothing
        /\ \A f \in Formats, n \in Names \ {home} : files'[f][n] = files[f][n]
    <3>1. CASE UNCHANGED files /\ files[table[i].format][home] = Nothing
      BY <3>1
    <3>2. CASE files' = Converted(table[i]) /\ table[i].format = "clone"
      BY <1>1, <3>2, TypeParts DEF Converted, IInv, StoredType, Formats
    <3>3. CASE files' = Converted(table[i]) /\ table[i].format = "bundle"
      BY <1>1, <3>3, TypeParts DEF Converted, IInv, StoredType, Formats
    <3> QED
      BY <1>2, <1>8, <3>1, <3>2, <3>3 DEF Formats
  <2>3. ASSUME Housed, at = "idle", job = NoJob PROVE Housed'
    <3>1. UNCHANGED sync /\ job' = NoJob
      BY <2>3 DEF Convert
    <3>2. ASSUME NEW f \in Formats, NEW n \in Names, files'[f][n] # Nothing
          PROVE  Owned(f, n)'
      <4>1. CASE n = home
        <5>1. f = Other(table[i].format)
          BY <1>2, <2>2, <3>2, <4>1 DEF Formats, Other
        <5> QED
          BY <1>5, <4>1, <5>1 DEF Owned
      <4>2. CASE n # home
        <5>1. Owned(f, n)
          BY <2>2, <2>3, <3>2, <4>2 DEF Housed, Homes, Busy
        <5>2. PICK k \in Ids : table[k].name = n /\ table[k].format = f
          BY <5>1 DEF Owned
        <5>3. table'[k] = table[k]
          BY <1>5, <4>2, <5>2
        <5> QED
          BY <5>2, <5>3 DEF Owned
      <4> QED
        BY <4>1, <4>2
    <3> QED
      BY <2>3, <3>1, <3>2, OtherHoused
  <2> QED
    BY <1>6, <2>1, <2>3 DEF Orderly
<1> QED
  BY <1>7, <1>8 DEF Convert

(* A step that leaves everything but GitHub alone. *)
LEMMA AwayOrderly ==
    ASSUME Orderly, UNCHANGED <<table, files, sync, job, clean>> PROVE Orderly'
<1>1. SameHomes /\ (clean' => clean)
  BY Zenon DEF SameHomes
<1>2. ASSUME Housed PROVE Housed'
  <2>1. Homes' /\ Alone'
    BY <1>1, <1>2, SameOwned DEF Housed, Homes, Alone, Busy, sync
  <2>2. Going' /\ Current'
    BY <1>2 DEF Housed, Going, Current, Busy, sync
  <2> QED
    BY <2>1, <2>2 DEF Housed
<1> QED
  BY <1>1, <1>2, SameUnique DEF Orderly

LEMMA CrashOrderly == ASSUME Orderly, Crash PROVE Orderly'
<1>1. SameHomes
  BY DEF Crash, SameHomes
<1>2. ~clean'
  BY Zenon DEF Crash
<1> QED
  BY <1>1, <1>2, SameUnique DEF Orderly

-----------------------------------------------------------------------------

LEMMA SyncingOrderly == ASSUME IInv, Orderly, Syncing PROVE Orderly'
<1>1. CASE StartSync
  BY <1>1, StartSyncOrderly
<1>2. CASE SetBackupPath
  BY <1>2, SetBackupPathOrderly
<1>3. CASE MoveBackup
  BY <1>3, MoveBackupOrderly
<1>4. CASE StartRemoving
  BY <1>4, StartRemovingOrderly
<1>5. CASE FinishSync
  BY <1>5, FinishSyncOrderly
<1>6. ASSUME NEW i \in Ids, Visit(i) PROVE Orderly'
  <2>1. CASE Add(i)
    BY <2>1, AddOrderly
  <2>2. CASE Restore(i)
    BY <2>2, RestoreOrderly
  <2>3. CASE SetOwnerName(i)
    BY <2>3, SetOwnerNameOrderly
  <2>4. CASE SetGitHubMetadata(i)
    BY <2>4, SetGitHubMetadataOrderly
  <2>5. CASE Unchanged(i)
    BY <2>5, UnchangedOrderly
  <2>6. CASE MarkDeleted(i)
    BY <2>6, MarkDeletedOrderly
  <2> QED
    BY <1>6, <2>1, <2>2, <2>3, <2>4, <2>5, <2>6 DEF Visit
<1> QED
  BY <1>1, <1>2, <1>3, <1>4, <1>5, <1>6 DEF Syncing

LEMMA StepOrderly == ASSUME IInv, Orderly, [Next]_vars PROVE Orderly'
<1>1. CASE Syncing
  BY <1>1, SyncingOrderly
<1>2. CASE Others
  BY <1>2, BackupOrderly, TakeRowOrderly, ConvertOrderly, PurgeOrderly DEF Others
<1>3. CASE Crash
  BY <1>3, CrashOrderly
<1>4. CASE Quietly
  BY <1>4, AwayOrderly DEF Quietly
<1>5. CASE UNCHANGED vars
  BY <1>5, AwayOrderly DEF vars
<1>6. World => Crash \/ Quietly
  BY DEF World, Vanish, Edit, Name
<1> QED
  BY <1>1, <1>2, <1>3, <1>4, <1>5, <1>6 DEF Next

(* As long as nothing fails and the jobs do not meet, renames orphan no copy:  *)
(* between two syncs every path that holds something has the name of a row.    *)
THEOREM NeverOrphaned == Spec => []NoOrphan
<1>1. Init => Orderly
  BY InitOrderly
<1>2. IInv /\ IInv' /\ Orderly /\ [Next]_vars => Orderly'
  BY StepOrderly
<1>3. Orderly => NoOrphan
  BY DEF Orderly, Housed, Homes, Owned, Busy, NoOrphan
<1> QED
  BY <1>1, <1>2, <1>3, Invariance, PTL DEF Spec

-----------------------------------------------------------------------------
(* What a sync brings to an end when nothing fails in it: each repository it   *)
(* was told of and has visited is told in its row, or waits for a name; the    *)
(* rows it has still to visit are as it listed them, and the one it is busy    *)
(* with is half written.                                                       *)

Apart(list) == \A i, j \in Ids :
    list[i].name \in Names /\ list[i].name = list[j].name => i = j

(* GitHub gives a name to one repository, and so does its list. *)
Distinct == Apart(github) /\ Apart(listed)

Waits(i) == \E j \in Ids \ {i} : stored[j].name = listed[i].name

Answered(i) == Listed(i) => Told(i) \/ Waits(i)

Looping == at \in {"update", "path", "move"}

(* A name comes from the rows or from the list. *)
Origin(i) == table[i].name \in {stored[i].name, listed[i].name}

(* The row has its new name and not yet its path. *)
Renaming(i) ==
    /\ ~table[i].deleted /\ ~stored[i].deleted
    /\ table[i].name = listed[i].name /\ table[i].format = stored[i].format
    /\ stored[i].name \notin {Nothing, listed[i].name}

Telling ==
    /\ \A i \in Ids : Origin(i) /\ (i \notin todo => Answered(i))
    /\ \A i \in todo : (Busy /\ i = cur) \/ table[i] = stored[i]
    /\ at = "path" => Renaming(cur)
    /\ at = "move" => Told(cur)

Complete == Distinct /\ (steady /\ Looping => Telling)

LEMMA InitComplete == Init => Complete
<1> SUFFICES ASSUME Init PROVE Complete
  OBVIOUS
<1>1. PICK s \in Starts : github = [i \in Ids |-> [name |-> s[i], meta |-> 0]]
  BY DEF Init
<1>2. \A i, j \in Ids : i # j /\ s[i] = s[j] => s[i] = Nothing
  BY StartsAssumption
<1>3. Apart(github)
  BY <1>1, <1>2, NothingAssumption DEF Apart
<1>4. Apart(listed)
  BY NoRowNameless DEF Init, Apart
<1> QED
  BY <1>3, <1>4 DEF Init, Complete, Distinct, Looping

LEMMA SameDistinct ==
    ASSUME Distinct, UNCHANGED <<github, listed>> PROVE Distinct'
BY DEF Distinct, Apart

LEMMA SteadyStays == ASSUME Calm \/ Fault PROVE steady' => steady
BY Zenon DEF Calm, Fault

(* The sync is past its loop, or over. *)
LEMMA PastComplete ==
    ASSUME Complete, UNCHANGED github, listed' = listed \/ Dropped,
           at' \in {"idle", "remove"}
    PROVE  Complete'
<1>1. Apart(listed)'
  BY NoRowNameless DEF Complete, Distinct, Apart, Dropped
<1>2. Apart(github)'
  BY DEF Complete, Distinct, Apart
<1> QED
  BY <1>1, <1>2 DEF Complete, Distinct, Looping

(* A step that leaves the sync and the table alone. *)
LEMMA AsideComplete ==
    ASSUME Complete, Apart(github)', UNCHANGED <<table, sync>>, steady' => steady
    PROVE  Complete'
<1>1. Distinct'
  BY DEF Complete, Distinct, Apart, sync
<1>2. ASSUME Telling PROVE Telling'
  BY <1>2 DEF Telling, Origin, Answered, Listed, Told, Waits, Busy, Renaming, sync
<1> QED
  BY <1>1, <1>2 DEF Complete, Looping, sync

(* The loop is done with i, and has answered it. *)
LEMMA VisitedComplete ==
    ASSUME IInv, Complete, NEW i \in Ids, Visited(i), Looping, UNCHANGED Outside,
           Busy => i = cur,
           \A k \in Ids \ {i} : table'[k] = table[k],
           steady' => steady,
           steady' /\ Telling =>
               /\ Told(i)' \/ Waits(i)
               /\ table'[i].name \in {stored[i].name, listed[i].name}
    PROVE  Complete'
<1>1. Distinct'
  BY SameDistinct DEF Complete, Visited, Outside
<1>2. ASSUME steady', Looping' PROVE Telling'
  <2>1. Telling
    BY <1>2 DEF Complete
  <2>2. ~Busy' /\ at' = "update" /\ UNCHANGED <<listed, stored>>
    BY DEF Visited, Busy
  <2>3. todo' = todo \ {i} /\ todo \subseteq Ids
    BY TypeParts DEF Visited, IInv, SyncType
  <2>4. \A k \in Ids : Origin(k)'
    <3>1. Origin(i)'
      BY <1>2, <2>1, <2>2 DEF Origin
    <3>2. ASSUME NEW k \in Ids \ {i} PROVE Origin(k)'
      BY <2>1, <2>2 DEF Telling, Origin
    <3> QED
      BY <3>1, <3>2
  <2>5. Answered(i)'
    BY <1>2, <2>1, <2>2 DEF Answered, Waits
  <2>6. ASSUME NEW k \in Ids \ {i}, k \notin todo PROVE Answered(k)'
    <3>1. Answered(k)
      BY <2>1, <2>6 DEF Telling
    <3>2. table'[k] = table[k]
      OBVIOUS
    <3> QED
      BY <2>2, <3>1, <3>2 DEF Answered, Listed, Told, Waits
  <2>7. ASSUME NEW k \in todo' PROVE table'[k] = stored'[k]
    <3>1. k \in Ids \ {i} /\ k \in todo /\ ~(Busy /\ k = cur)
      BY <2>3, <2>7
    <3>2. table[k] = stored[k]
      BY <2>1, <3>1 DEF Telling
    <3> QED
      BY <2>2, <3>1, <3>2
  <2>8. \A k \in Ids : k \notin todo' => Answered(k)'
    BY <2>3, <2>5, <2>6
  <2> QED
    BY <2>2, <2>4, <2>7, <2>8 DEF Telling
<1> QED
  BY <1>1, <1>2 DEF Complete

(* A name that is not free is that of a row from before the sync: no other      *)
(* repository in the list has it.                                               *)
LEMMA TakenWaits ==
    ASSUME IInv, Complete, Telling, NEW i \in Ids, listed[i].name \in Names,
           ~Free(i, listed[i].name)
    PROVE  Waits(i)
<1>1. PICK j \in Ids \ {i} : table[j].name = listed[i].name
  BY DEF Free
<1>2. listed[j].name # listed[i].name
  BY <1>1 DEF Complete, Distinct, Apart
<1>3. Origin(j)
  BY DEF Telling
<1> QED
  BY <1>1, <1>2, <1>3 DEF Origin, Waits

-----------------------------------------------------------------------------
(* The steps of the sync bring it nearer to the end.                           *)

LEMMA StartSyncComplete == ASSUME IInv, Complete, StartSync PROVE Complete'
<1>1. PICK missed \in SUBSET {i \in Ids : OnGitHub(i)} : listed' = Answer(missed)
  BY DEF StartSync
<1>2. Apart(github)' /\ Apart(listed)'
  BY <1>1, NoRowNameless
  DEF Complete, Distinct, Apart, Answer, StartSync, Outside
<1>3. Telling'
  BY DEF StartSync, Telling, Origin, Answered, Listed, Busy
<1> QED
  BY <1>2, <1>3 DEF Complete, Distinct

(* What visiting i is about, when nothing has failed yet. *)
LEMMA Facing ==
    ASSUME IInv, NEW i \in Ids, Visiting(i)
    PROVE  /\ at = "update" /\ Looping /\ ~Busy /\ i \in todo
           /\ listed[i] \in Listings /\ listed[i].name \in Names
           /\ table \in [Ids -> Rows] /\ stored[i] \in Rows
           /\ Telling => table[i] = stored[i]
<1>1. /\ table \in [Ids -> Rows] /\ stored[i] \in Rows /\ listed[i] \in Listings
  BY TypeParts DEF IInv, SyncType, StoredType
<1>2. at = "update" /\ Looping /\ ~Busy /\ i \in todo
  BY DEF Visiting, Looping, Busy
<1>3. listed[i].name \in Names
  BY <1>2 DEF IInv, InHand, Visits
<1> QED
  BY <1>1, <1>2, <1>3 DEF Telling

(* A visit that fails says nothing. *)
LEMMA FaultComplete ==
    ASSUME IInv, Complete, NEW i \in Ids, Visited(i), Looping, UNCHANGED Outside,
           Fault
    PROVE  Complete'
<1>1. ~steady'
  BY Zenon DEF Fault
<1>2. Distinct'
  BY SameDistinct DEF Complete, Visited, Outside
<1> QED
  BY <1>1, <1>2 DEF Complete

LEMMA AddComplete == ASSUME IInv, Complete, NEW i \in Ids, Add(i) PROVE Complete'
<1>1. /\ Visiting(i) /\ stored[i] = NoRow /\ Visited(i) /\ UNCHANGED Outside
  BY DEF Add
<1>2. /\ Looping /\ ~Busy /\ i \in todo /\ listed[i].name \in Names
      /\ listed[i] \in Listings /\ table \in [Ids -> Rows]
      /\ Telling => table[i] = stored[i]
  BY <1>1, Facing
<1>3. CASE /\ table' = [table EXCEPT ![i] = NewRow(listed[i])] /\ Calm
  <2>1. table'[i] = NewRow(listed[i]) /\ \A k \in Ids \ {i} : table'[k] = table[k]
    BY <1>2, <1>3
  <2>2. UNCHANGED <<listed, stored>>
    BY <1>1 DEF Visited
  <2>3. Told(i)' /\ table'[i].name = listed[i].name
    BY <1>1, <2>1, <2>2 DEF Told, NewRow, NoRow
  <2> QED
    BY <1>1, <1>2, <1>3, <2>1, <2>3, SteadyStays, VisitedComplete
<1>4. CASE ~Free(i, listed[i].name) /\ Calm /\ UNCHANGED table
  BY <1>1, <1>2, <1>4, TakenWaits, SteadyStays, VisitedComplete
<1>5. CASE Fault
  BY <1>1, <1>2, <1>5, FaultComplete
<1> QED
  BY <1>3, <1>4, <1>5 DEF Add

LEMMA RestoreComplete ==
    ASSUME IInv, Complete, NEW i \in Ids, Restore(i) PROVE Complete'
<1>1. Visiting(i) /\ stored[i].deleted /\ UNCHANGED Outside
  BY DEF Restore
<1>2. /\ Looping /\ ~Busy /\ i \in todo /\ table \in [Ids -> Rows]
      /\ Telling => table[i] = stored[i]
  BY <1>1, Facing
<1>3. CASE /\ table' = [table EXCEPT ![i].deleted = FALSE] /\ Visited(i) /\ Calm
  <2>1. /\ table'[i].deleted = FALSE /\ table'[i].name = table[i].name
        /\ \A k \in Ids \ {i} : table'[k] = table[k]
    BY <1>2, <1>3 DEF Rows
  <2>2. Told(i)'
    BY <1>1, <1>3, <2>1 DEF Told, Visited
  <2> QED
    BY <1>1, <1>2, <1>3, <2>1, <2>2, SteadyStays, VisitedComplete
<1>4. CASE Fault /\ UNCHANGED listed
  <2>1. ~steady'
    BY <1>4, Zenon DEF Fault
  <2> QED
    BY <1>1, <1>4, <2>1, SameDistinct DEF Complete, Outside
<1> QED
  BY <1>3, <1>4 DEF Restore

LEMMA SetOwnerNameComplete ==
    ASSUME IInv, Complete, NEW i \in Ids, SetOwnerName(i) PROVE Complete'
<1>1. /\ Visiting(i) /\ stored[i] # NoRow /\ ~stored[i].deleted
      /\ stored[i].name # listed[i].name /\ UNCHANGED Outside
  BY DEF SetOwnerName, Known, Renamed
<1>2. /\ Looping /\ ~Busy /\ i \in todo /\ listed[i].name \in Names
      /\ table \in [Ids -> Rows] /\ stored[i] \in Rows
      /\ Telling => table[i] = stored[i]
  BY <1>1, Facing
<1>3. stored[i].name \in Names
  BY <1>1, Knowing
<1>4. CASE /\ table' = [table EXCEPT ![i].name = listed[i].name]
           /\ cur' = i /\ at' = "path"
           /\ Calm /\ UNCHANGED <<todo, listed, stored>>
  <2>1. Distinct'
    BY <1>1, <1>4, SameDistinct DEF Complete, Outside
  <2>2. ASSUME steady' PROVE Telling'
    <3>1. Telling
      BY <1>2, <2>2, <1>4, SteadyStays DEF Complete
    <3>2. /\ table'[i] = [stored[i] EXCEPT !.name = listed[i].name]
          /\ \A k \in Ids \ {i} : table'[k] = table[k]
      BY <1>2, <1>4, <3>1
    <3>3. Renaming(i)'
      BY <1>1, <1>2, <1>3, <1>4, <3>2, NothingAssumption DEF Renaming, Rows
    <3>4. Origin(i)'
      BY <1>4, <3>3 DEF Origin, Renaming
    <3>5. ASSUME NEW k \in Ids \ {i}
          PROVE  Origin(k)' /\ (k \notin todo => Answered(k)')
                 /\ (k \in todo => table'[k] = stored'[k])
      BY <1>2, <1>4, <3>1, <3>2
      DEF Telling, Origin, Answered, Listed, Told, Waits
    <3>6. todo' \subseteq Ids /\ Busy'
      BY <1>4, TypeParts DEF IInv, SyncType, Busy
    <3> QED
      BY <1>2, <1>4, <3>3, <3>4, <3>5, <3>6 DEF Telling
  <2> QED
    BY <2>1, <2>2 DEF Complete
<1>5. CASE ~Free(i, listed[i].name) /\ Visited(i) /\ Calm /\ UNCHANGED table
  BY <1>1, <1>2, <1>5, TakenWaits, SteadyStays, VisitedComplete
<1>6. CASE Fault /\ Visited(i)
  BY <1>1, <1>2, <1>6, FaultComplete
<1> QED
  BY <1>4, <1>5, <1>6 DEF SetOwnerName

LEMMA SetBackupPathComplete == ASSUME IInv, Complete, SetBackupPath PROVE Complete'
<1>1. at = "path" /\ Looping /\ Busy /\ UNCHANGED Outside /\ cur \in Ids
  BY Moving DEF SetBackupPath, Looping, Busy
<1>2. table \in [Ids -> Rows]
  BY TypeParts DEF IInv, StoredType
<1>3. CASE /\ table' = [table EXCEPT ![cur].path = NewPath(cur)]
           /\ at' = "move" /\ Calm /\ UNCHANGED <<todo, cur, listed, stored>>
  <2>1. Distinct'
    BY <1>1, <1>3, SameDistinct DEF Complete, Outside
  <2>2. ASSUME steady' PROVE Telling'
    <3>1. Telling /\ Renaming(cur)
      BY <1>1, <1>3, <2>2, SteadyStays DEF Complete, Telling
    <3>2. /\ table'[cur] = [table[cur] EXCEPT !.path = NewPath(cur)]
          /\ \A k \in Ids \ {cur} : table'[k] = table[k]
      BY <1>1, <1>2, <1>3
    <3>3. /\ table'[cur].name = table[cur].name
          /\ table'[cur].format = table[cur].format
          /\ table'[cur].deleted = table[cur].deleted
          /\ table'[cur].path = NewPath(cur)
      BY <1>1, <1>2, <3>2 DEF Rows
    <3>4. Told(cur)'
      BY <1>3, <3>1, <3>3 DEF Told, Renaming, NewPath
    <3>5. Origin(cur)'
      BY <1>3, <3>1, <3>3 DEF Origin, Renaming
    <3>6. ASSUME NEW k \in Ids \ {cur}
          PROVE  Origin(k)' /\ (k \notin todo => Answered(k)')
                 /\ (k \in todo => table'[k] = stored'[k])
      BY <1>1, <1>3, <3>1, <3>2
      DEF Telling, Origin, Answered, Listed, Told, Waits
    <3>7. todo' \subseteq Ids /\ Busy'
      BY <1>3, TypeParts DEF IInv, SyncType, Busy
    <3>8. Answered(cur)'
      BY <1>3, <3>4 DEF Answered
    <3> QED
      BY <1>1, <1>3, <3>4, <3>5, <3>6, <3>7, <3>8 DEF Telling
  <2> QED
    BY <2>1, <2>2 DEF Complete
<1>4. CASE Fault /\ Visited(cur)
  BY <1>1, <1>4, FaultComplete
<1> QED
  BY <1>3, <1>4 DEF SetBackupPath

LEMMA MoveBackupComplete == ASSUME IInv, Complete, MoveBackup PROVE Complete'
<1>1. PICK i \in Ids : i = cur
  BY Moving DEF MoveBackup
<1>2. /\ at = "move" /\ Looping /\ UNCHANGED <<Outside, table>> /\ Visited(i)
  BY <1>1 DEF MoveBackup, Looping
<1>3. CASE Calm
  <2>1. ASSUME Telling
        PROVE  Told(i)' /\ table'[i].name \in {stored[i].name, listed[i].name}
    <3>1. Told(i) /\ Origin(i)
      BY <1>1, <1>2, <2>1 DEF Telling
    <3> QED
      BY <1>2, <3>1 DEF Told, Origin, Visited
  <2> QED
    BY <1>1, <1>2, <1>3, <2>1, SteadyStays, VisitedComplete
<1>4. CASE Fault
  BY <1>2, <1>4, FaultComplete
<1> QED
  BY <1>3, <1>4 DEF MoveBackup

LEMMA SetGitHubMetadataComplete ==
    ASSUME IInv, Complete, NEW i \in Ids, SetGitHubMetadata(i) PROVE Complete'
<1> DEFINE moved == IF stored[i].path = NewPath(i) THEN table
                    ELSE [table EXCEPT ![i].path = NewPath(i)]
<1>1. /\ Visiting(i) /\ ~stored[i].deleted /\ stored[i].name = listed[i].name
      /\ Visited(i) /\ UNCHANGED Outside
  BY DEF SetGitHubMetadata, Known, Renamed
<1>2. /\ Looping /\ ~Busy /\ listed[i] \in Listings
      /\ table \in [Ids -> Rows]
      /\ Telling => table[i] = stored[i]
  BY <1>1, Facing
<1>3. NewPath(i) \in Paths
  BY Knowing DEF SetGitHubMetadata, Known
<1>4. CASE table' = [moved EXCEPT ![i].meta = listed[i].meta] /\ Calm
  <2>1. /\ moved \in [Ids -> Rows]
        /\ \A k \in Ids \ {i} : moved[k] = table[k]
    BY <1>2, <1>3 DEF Rows
  <2>2. ASSUME Telling
        PROVE  /\ moved[i].name = stored[i].name
               /\ moved[i].deleted = stored[i].deleted
               /\ moved[i].format = stored[i].format
               /\ moved[i].path = NewPath(i)
    BY <1>2, <1>3, <2>2 DEF Rows
  <2> HIDE DEF moved
  <2>3. /\ table'[i] = [moved[i] EXCEPT !.meta = listed[i].meta]
        /\ \A k \in Ids \ {i} : table'[k] = table[k]
    BY <1>4, <2>1
  <2>4. ASSUME Telling PROVE Told(i)' /\ table'[i].name = listed[i].name
    <3>1. /\ table'[i].name = listed[i].name /\ ~table'[i].deleted
          /\ table'[i].format = stored[i].format
          /\ table'[i].path = NewPath(i) /\ table'[i].meta = listed[i].meta
      BY <1>1, <1>2, <2>1, <2>2, <2>3, <2>4 DEF Rows
    <3> QED
      BY <1>1, <3>1 DEF Told, NewPath, Visited
  <2> QED
    BY <1>1, <1>2, <1>4, <2>3, <2>4, SteadyStays, VisitedComplete
<1>5. CASE Fault
  BY <1>1, <1>2, <1>5, FaultComplete
<1> QED
  BY <1>4, <1>5 DEF SetGitHubMetadata

LEMMA UnchangedComplete ==
    ASSUME IInv, Complete, NEW i \in Ids, Unchanged(i) PROVE Complete'
<1>1. /\ Visiting(i) /\ ~stored[i].deleted /\ stored[i].name = listed[i].name
      /\ stored[i].meta = listed[i].meta
      /\ stored[i].path = PathForFormat(stored[i].format, stored[i].name)
      /\ Visited(i) /\ Calm /\ UNCHANGED <<Outside, table>>
  BY DEF Unchanged, Known, Renamed, MetadataChanged
<1>2. Looping /\ ~Busy /\ (Telling => table[i] = stored[i])
  BY <1>1, Facing
<1>3. ASSUME Telling PROVE Told(i)' /\ table'[i].name = listed[i].name
  BY <1>1, <1>2, <1>3 DEF Told, Visited
<1> QED
  BY <1>1, <1>2, <1>3, SteadyStays, VisitedComplete

-----------------------------------------------------------------------------
(* The others, GitHub and crashes leave what the sync did.                     *)

LEMMA ConvertComplete ==
    ASSUME IInv, Complete, NEW i \in Ids, Convert(i) PROVE Complete'
<1>1. UNCHANGED <<github, listed, at>>
  BY DEF Convert, sync
<1>2. steady' => at = "idle"
  BY Zenon DEF Convert
<1> QED
  BY <1>1, <1>2, SameDistinct DEF Complete, Looping

LEMMA OthersComplete == ASSUME IInv, Complete, Others PROVE Complete'
<1>1. CASE Backup
  <2>1. UNCHANGED <<github, table, sync>>
    BY <1>1 DEF Backup
  <2>2. Apart(github)'
    BY <2>1 DEF Complete, Distinct, Apart
  <2>3. steady' => steady
    BY <1>1, SteadyStays DEF Backup
  <2> QED
    BY <2>1, <2>2, <2>3, AsideComplete
<1>2. ASSUME NEW i \in Ids, TakeRow(i) \/ Purge(i) PROVE Complete'
  <2>1. UNCHANGED <<github, table, sync>>
    BY <1>2 DEF TakeRow, Purge, Outside
  <2>2. Apart(github)'
    BY <2>1 DEF Complete, Distinct, Apart
  <2>3. steady' => steady
    BY <1>2, Zenon DEF TakeRow, Purge, Calm
  <2> QED
    BY <2>1, <2>2, <2>3, AsideComplete
<1> QED
  BY <1>1, <1>2, ConvertComplete DEF Others

LEMMA WorldComplete == ASSUME IInv, Complete, World PROVE Complete'
<1>1. CASE Crash
  BY <1>1, PastComplete DEF Crash, Forget
<1>2. CASE Quietly /\ Apart(github)'
  <2>1. steady' => steady
    BY <1>2, Zenon DEF Quietly
  <2> QED
    BY <1>2, <2>1, AsideComplete DEF Quietly
<1>3. github \in [Ids -> Listings] /\ Apart(github)
  BY TypeParts DEF IInv, GitHubType, Complete, Distinct
<1>4. ASSUME NEW i \in Ids, Vanish(i) PROVE Quietly /\ Apart(github)'
  <2>1. /\ github'[i].name = Nothing
        /\ \A k \in Ids \ {i} : github'[k] = github[k]
    BY <1>3, <1>4 DEF Vanish, Listings
  <2> QED
    BY <1>3, <1>4, <2>1, NothingAssumption DEF Vanish, Apart
<1>5. ASSUME NEW i \in Ids, Edit(i) PROVE Quietly /\ Apart(github)'
  <2>1. \A k \in Ids : github'[k].name = github[k].name
    BY <1>3, <1>5 DEF Edit, Listings
  <2> QED
    BY <1>3, <1>5, <2>1 DEF Edit, Apart
<1>6. ASSUME NEW i \in Ids, NEW n \in Names, Name(i, n)
      PROVE  Quietly /\ Apart(github)'
  <2>1. /\ github'[i].name = n /\ \A k \in Ids : github[k].name # n
        /\ \A k \in Ids \ {i} : github'[k] = github[k]
    BY <1>3, <1>6 DEF Name, Untaken, Listings
  <2> QED
    BY <1>3, <1>6, <2>1 DEF Name, Apart
<1> QED
  BY <1>1, <1>2, <1>4, <1>5, <1>6 DEF World

LEMMA SyncingComplete == ASSUME IInv, Complete, Syncing PROVE Complete'
<1>1. CASE StartSync
  BY <1>1, StartSyncComplete
<1>2. CASE SetBackupPath
  BY <1>2, SetBackupPathComplete
<1>3. CASE MoveBackup
  BY <1>3, MoveBackupComplete
<1>4. CASE StartRemoving
  BY <1>4, PastComplete DEF StartRemoving, Outside
<1>5. CASE FinishSync
  BY <1>5, PastComplete DEF FinishSync, Forget, Outside
<1>6. ASSUME NEW i \in Ids, Visit(i) PROVE Complete'
  <2>1. CASE MarkDeleted(i)
    BY <2>1, PastComplete DEF MarkDeleted, Outside
  <2> QED
    BY <1>6, <2>1, AddComplete, RestoreComplete, SetOwnerNameComplete,
       SetGitHubMetadataComplete, UnchangedComplete DEF Visit
<1> QED
  BY <1>1, <1>2, <1>3, <1>4, <1>5, <1>6 DEF Syncing

LEMMA StepComplete == ASSUME IInv, Complete, [Next]_vars PROVE Complete'
<1>1. CASE UNCHANGED vars
  <2>1. Apart(github)' /\ (steady' => steady)
    BY <1>1, Zenon DEF vars, Complete, Distinct, Apart
  <2> QED
    BY <1>1, <2>1, AsideComplete DEF vars
<1> QED
  BY <1>1, SyncingComplete, OthersComplete, WorldComplete DEF Next

(* When the loop of a sync ends and nothing failed in it, every repository of  *)
(* GitHub's list is told in its row, but for one whose name was another row's  *)
(* when the sync began: one pass is enough, in any order of visits, whatever   *)
(* GitHub does meanwhile and whatever earlier syncs left half done.            *)
THEOREM SyncAlwaysComplete == Spec => SyncComplete
<1>1. IInv /\ Complete /\ [Next]_vars => Complete'
  BY StepComplete
<1>2. ASSUME IInv, Complete, StartRemoving, steady, NEW i \in Ids, Listed(i)
      PROVE  Told(i) \/ \E j \in Ids \ {i} : stored[j].name = listed[i].name
  <2>1. at = "update" /\ todo = {} /\ Looping
    BY <1>2 DEF StartRemoving, Looping
  <2>2. Answered(i)
    BY <1>2, <2>1 DEF Complete, Telling
  <2> QED
    BY <1>2, <2>2 DEF Answered, Waits
<1>3. IInv /\ Complete /\ [Next]_vars =>
        [StartRemoving /\ steady => \A i \in Ids : Listed(i) =>
           Told(i) \/ \E j \in Ids \ {i} : stored[j].name = listed[i].name]_vars
  BY <1>2
<1> QED
  BY <1>1, <1>3, InitComplete, Invariance, PTL DEF Spec, SyncComplete

==============================================================================
