# A formal model of libdjinterop

libdjinterop reads and writes the databases in which Engine DJ software keeps a
DJ's record library. The databases are SQLite files, so the code is a thin layer
of C++ over SQL: most of what can go wrong lies between a sequence of SQL
statements, the triggers and constraints that fire under them, and what the
public classes promise of the whole. Several
programs may have the files open at once, and any of them may stop on the way.
This directory models that in TLA+, checks it with TLC and proves the central
invariants with TLAPS.

Paths below are relative to the root of the repository; `E/` stands for
`src/djinterop/engine/`.

## Inventory

| Component | State | Operations | Interacts with |
|---|---|---|---|
| Playlist table 2.x/3.x: `E/v2/playlist_table.cpp`, schema `E/schema/schema_2_18_0.cpp` and later | rows (id, title, parentListId, nextListId, isPersisted), the AUTOINCREMENT sequence | `add`, `remove`, `update`; queries `child_ids`, `root_ids`, `descendant_ids`, `find_id`, `get` | six triggers, two UNIQUE constraints, two recursive views |
| PlaylistEntity table 2.x/3.x: `E/v2/playlist_entity_table.cpp` | rows (id, listId, trackId, databaseUuid, nextEntityId), its sequence | `add`, `remove`, `clear`; queries `get`, `get_for_list`, `track_ids` | a DELETE trigger, one UNIQUE constraint |
| Playlists and crates 2.x/3.x: `E/v2/{playlist,crate,database}_impl.cpp`, `E/v3/` the same | none of its own: ids in handles | create (root or sub, last or after another), set_name, set_parent, remove, add/remove/clear tracks | calls the two tables, several statements per call |
| Track table 2.x/3.x: `E/v2/track_table.cpp`, `E/v3/track_table.cpp`, `track_impl.cpp`, `convert_track.hpp` | rows, origin ids, ChangeLog | add, update, remove, getters and setters per column | triggers that check ids, fill in origins, and log changes |
| Performance data 3.x: `E/v3/performance_data_table.cpp` | one row of blobs per track | get, update per column | rows follow the Track table by trigger |
| Blobs: `E/v2/*_blob.cpp`, `E/encode_decode_utils.*`, `E/v1/performance_data_format.cpp` | none | encode, decode | zlib |
| Crates 1.x: `E/v1/engine_crate_impl.cpp`, `engine_database_impl.cpp` | Crate (with a path), CrateParentList, CrateHierarchy, CrateTrackList: the tree three times over | create, set_name, set_parent, remove, tracks | from schema 1.9.1 on views over List tables with INSTEAD OF triggers |
| Playlists 1.x: `E/v1/engine_playlist_impl.cpp` | Playlist, PlaylistTrackList with track numbers | create, add back, add after, remove, clear | |
| Tracks and storage 1.x: `E/v1/engine_track_impl.cpp`, `engine_storage.cpp` | Track, MetaData, MetaDataInteger, PerformanceData in a second, attached database | create, update, getters and setters | transactions over both files |
| Creation and loading: `E/engine.cpp`, `E/engine_library_dir_utils.cpp`, `E/schema/schema.cpp` | files in a directory | create, load, create_or_load, exists, detect_schema | file system, schema creators |
| Schema creators and validators: `E/schema/*` | none | create, verify | literal SQL |
| Beatgrid normalisation, waveform extents: `E/engine.cpp`, `E/track_utils.hpp` | none | pure functions | |
| Public wrappers, snapshots, utilities | none | forwarding | |

What is hard here:

- **Order as links.** Tables Playlist and PlaylistEntity record an order only as
  the id of the next row. A wrong link is a playlist or a track that no query
  finds any more, without an error. The links are kept partly by triggers and
  partly by hand, in several statements, under a UNIQUE constraint that must
  hold after each statement.
- **Triggers that trigger.** Whether a deletion goes one or all levels down, and
  whether a recursive view ends, depends on settings (`recursive_triggers`,
  `foreign_keys`) and on data that the C++ code does not look at.
- **Read, then write.** Nearly every public call is a query followed by a write
  in another transaction; a setter of a value in a blob reads the blob and writes
  all of it back.
- **Redundancy.** A 1.x database says who is whose parent three times. The size
  of a track is in up to four places, its key in two.
- **Partial failure.** The last of four statements of a move may fail. A
  transaction over m.db and p.db is committed file by file. A database is created
  statement by statement, and its files can be seen all along.
- **Boundaries.** Blobs have slots, one-byte lengths and buffers of a fixed size;
  normalising a beatgrid divides by what its markers leave between them.

For each component, correctness means:

- the two tables: every sibling group and every playlist is one chain, all of
  it is listed, legal calls do not meet constraints, a call moves what it is
  about and nothing else;
- the public calls: each does exactly what the header promises, or throws and
  changes nothing;
- 1.x crates: the three records of the tree agree;
- tracks and performance data: a track has performance data and its own, what is
  held in several places agrees, and no session takes back what another wrote;
- blobs: what is stored can be read, and reads as what was put there, in every
  generation of engine alike; a grid that is normalised keeps its beats;
- creation: what was created can be loaded, nothing that was there is lost, and
  of several creators one succeeds.

`PROJECT.json` lists the hazards line by line.

## Modules

| Module | Models | State |
|---|---|---|
| `ChainedRows` | rows linked by the id of the next one, `sort_ids`, what a chain is | none |
| `PlaylistTable` | table Playlist, its triggers and constraints, class `playlist_table` | `lists`, `seq`, `outcome` |
| `PlaylistEntity` | table PlaylistEntity, its trigger and constraint, class `playlist_entity_table` | `entities`, `seq`, `outcome` |
| `OrderedLists` | abstract: every owner has a sequence, an operation puts one item somewhere or takes some away | `order` |
| `Library` | the public calls on playlists, crates and their tracks, over both tables | both tables, `tracks`, `outcome`, `call` |
| `DjLibrary` | abstract: what the headers promise of each call, in terms of trees and sequences | `tree`, `name`, `content`, `tracks` |
| `LibraryContract` | Library read as a DjLibrary | |
| `Sessions` | the same public calls made by several connections, query by query | both tables, `call` of each session, history `astray` |
| `TrackCalls` | the calls on tracks by several connections, statement by statement, in the three generations | `db` (m and p), `lastId`, `call` of each session with its locks and drafts, history `torn` |
| `Lifecycle` | creating, finding and loading the database of a directory by several processes | `file` (parts of each file), `dir`, `older`, `proc`, history `ended`, `stopped` |
| `Beatgrids` | `normalize_beatgrid`, and how each generation stores and reads a grid | `grid`, `count`, `readable`, `result` |
| `Cues` | hot cues and loops, slot by slot, in a 1.x and a 2.x/3.x library side by side | `blob`, `answer`, history `put`, `fit` |
| `Waveforms` | extents and overview of a waveform, in two libraries side by side | `samples`, `rate`, `high`, `over`, history `late` |
| `Analyses` | the three above: a behaviour is about one of them | `of` |
| `RowTables` | tables numbered by rowid | none |
| `Crates1` | crates of 1.x databases and the names of its playlists | `lists`, `parents`, `hierarchy`, `held`, `outcome`, `call`, history `moved` |
| `Playlists1` | tracks of playlists in 1.x databases | `playlists`, `tracks`, `rows`, `outcome`, `call` |
| `MC...` | instances for TLC | |
| `...Proofs` | theorems; `LibraryProofs` is about `Library` and `Sessions`, `TrackProofs` about `TrackCalls` and `Analyses`, `RowProofs` about what several of them share | |

**Tables.** A table is a function from the ids that exist to records with the
columns that matter. `owner` is parentListId or listId, `next` is nextListId or
nextEntityId. Times, `isExplicitlyExported` and `membershipReference` are left
out, as nothing reads them. `seq` is the table's entry in `sqlite_sequence`: ids
are never given out twice.

**Statements and triggers.** In `PlaylistTable` an SQL statement is an operator
from the table before to the table after, triggers included: `BeforeInsert`,
`AfterInsert`, `AfterInsertPersist`, `AfterUpdatePersist` are the triggers under
their role; `AddTables`, `RemoveTables` and `MoveTables` give the sequence of
tables that the statements and row changes of one call pass through. `Run` takes
such a sequence, and rolls back if any table of it breaks a constraint. Where an
INSERT or DELETE is a single statement SQLite undoes it as a whole; `update`
runs in a `sqlite_transaction`. The negative values parked in nextListId are
part of the model.

**Recursive views.** PlaylistAllParent and PlaylistAllChildren are transitive
closures, written as least fixed points. Over a circle of parents the SQL
(`UNION ALL`) has no end; `Library!SetParent` says so with the outcome
`never_returns`, after which no call is made.

**Calls.** An action of `Library` is one public call, from its lookup to its last
statement, made by the only connection. `Create(None, ..)` is
`create_root_playlist` and `create_root_crate`; with another parent it is
`create_sub_playlist` and `create_sub_crate`. Playlists and crates share a table,
so there is one action for both except where they differ (`add_track_back`
throws upon a duplicate, `add_track` does not).

**Preconditions.** The class comments of `playlist` and `crate` forbid calls on
handles to what has been removed, so `Library` calls on rows that exist.
`PlaylistTable` and `PlaylistEntity` are used the way the public classes use
them: a row is placed under a parent that exists and that is not below it, before
a sibling or at the end. Calls with bad ids and bad names are made.

**Sessions.** A call of `Sessions` is one or two queries (`LookUp`, `Get`,
`LookFor`) and a `Write`, each atomic, with those of others between them. What the
queries returned is in `call[s].row`; the write uses that, as the code does. The
writes themselves are those of `Library`, which `Sessions` extends: both modules speak
of the same tables and triggers, and `AsIfAtOnce` compares a write with the action of
`Library`. The bounds `MaxInserts` and `Traps` of that module play no part here. `Stop` ends a call before its write: a lock
that another connection holds (no busy timeout is set), or the end of the process.
Where `create_sub_playlist_after` reads an optional without a check
(`GetUndefined`), any value may come out.

**Tracks.** In `TrackCalls` a call is a sequence of statements (`Program1`,
`Program2`, `Program3`). A row of Track and its blobs are records of the few
fields that are held twice or written one by one. SQLite's locks are part of the
state: `shared` and `reserved` are the files that a transaction has read and
written, `draft` what it sees of them, `alone` whether it has begun to commit. A lock
that is held fails the call, so `Proceed` takes `Stop` where `Free` does not hold.
`commit m` and `commit p` are two steps: the main database of the connection is
`:memory:`, for which SQLite writes no super-journal. `build` tells the
generation, whether ids are given again and whether a cascade removes performance
data; it differs from schema to schema.

**Creation and loading.** `Lifecycle` keeps of a file which parts it has: that it
is there, the table Information, the other tables, the version, the other rows.
`MusicParts`, `PerformanceParts` and `Database2Parts` give the order in which a
schema makes them, which is not the same in all schemas. `Clashes` is the one thing
that keeps two creators apart: CREATE TABLE fails where the table is there.
`ended` records how each call ended and what the files held at that moment.

**Blobs.** `Cues` and `Waveforms` give every public call to a 1.x and to a
2.x/3.x library at once, so that they can be compared. Undefined behaviour of the
code (an index past the end, a buffer overrun, an empty optional) is an outcome,
after which no call is made. A 1.x setter reads back what it is about to write,
and refuses what it cannot read.

**1.x databases.** `Crates1` and `Playlists1` are separate modules because their
calls meet in nothing but the names of playlists, which are in `Crates1`. Two
variables never change: `views`, whether the schema is 1.9.1 or later, where
Crate, Playlist and their track lists are views whose INSTEAD OF triggers find
rows by their values; and `fkeys`, whether SQLite enforces foreign keys, which
its build decides, as the library sets no pragma. Rows that the code reads in
the order of insertion are a function from rowids; others are a set.

The path of a crate is a sequence of titles. Ids are MAX + 1, so that of a
removed crate comes back. `Crates1!Visits` is `update_path`: it goes down through
`children()`, as the code does, and so visits grandchildren more than once.
`moved` is a history variable: the crates that got another parent since their
path was written.

**Traps.** Situations, met while modelling, in which a call does not do what
its documentation says. The constant `Traps` says which of them the caller walks
into. The passing runs set none (but for `stale_path`, without which no crate
would ever move), and so show that these are the only ones:

| Trap | Call | What happens |
|---|---|---|
| *`Library`* | | |
| `stale_next` | `set_parent` on a playlist that is not last | it keeps its old next playlist under the new parent |
| `cycle` | `set_parent` to a playlist below | the trigger's view recurses without an end |
| `deep_remove` | `remove_playlist`, `remove_crate` with grandchildren | the grandchildren stay, without a parent |
| `entity_id` | `remove_track` where the track's id is not its entity's | another entity goes, or none |
| `listed_track` | `remove_track` of the database, track in a playlist | the playlists keep the removed track |
| *`Crates1`* | | |
| `stale_path` | `set_parent` to another parent | the path stays as it was |
| `deep_rename` | `set_name` of a crate with grandchildren | they get a path as if they were children |
| `deep_move` | `set_parent` of a crate with children | the hierarchy rows of those stay as they were |
| `cycle` | `set_parent` to a crate below (a `deep_move`, too) | a later `set_name` has no end |
| `remove` | `remove_crate` with children, or without enforced keys | rows refer to a crate that is gone |
| `twin` | renaming a crate and a playlist of one id and name, with views | both are renamed |
| *`Playlists1`* | | |
| `tied` | `add_track_after` a track two places of which share a number | the new track comes after both |
| `repeated` | `remove_track` of a track with two places | both go |
| `dangling` | removing a playlist or track that rows refer to, without enforced keys | the rows stay, and pass on to the next with that id |

With any one of them but `stale_path` and the two `cycle`s, the passing run of the
module fails in a property (for `remove`, also with `ForeignKeys = {FALSE}`);
`cycle` of `Library` ends in a state without a next one.

## Runs

| Run | Question | Expected |
|---|---|---|
| `playlist_table` | Do siblings stay one chain, all listed? Does a legal call meet a constraint on the way? Do persisted playlists stay under persisted ones? Does the table implement ordered lists? | pass |
| `entity_order` | Do entities stay one chain, are duplicates foreseen, are other playlists left alone, does the table implement ordered lists? | pass |
| `library_calls` | Does every call on playlists, crates and their tracks do what is promised, and a failing one nothing? | pass |
| `library_set_parent` | Does the assertion of `sort_ids` hold? | violated: trap `stale_next` |
| `library_remove_track` | Is a removed track gone from the playlist? | violated: trap `entity_id` |
| `crates1_tree` | Do the three records of the 1.x tree agree, and does every call do what is promised? | pass |
| `playlists1_numbers` | Do track numbers give a definite order, and does every call do what is promised with it? | pass |
| `playlist_sessions` | What may two connections do to playlists, and to each other's calls? | pass |
| `track_calls` | What of a track agrees, and when, if two connections change it and may stop at any statement? | pass |
| `lifecycle` | What is created, found, loaded and lost when two processes create and load in one directory, and may stop at any step? | pass |
| `lifecycle_second` | Does `create_database` throw where there is a database? | violated: a 1.x one is made beside one of 2.x or 3.x |
| `analyses` | What of beatgrids, cues, loops and waveforms survives normalising, setting and storing? | pass |

What the properties say:

*Playlists of 2.x and 3.x*

- `Chains`: within every sibling group (or playlist) each link leads to a
  sibling or is the end mark, no two links meet, no set of rows links only among
  itself.
- `OnlyNamesClash`: for every place a row may go to, and every row that may be
  removed, no table on the way breaks either constraint, unless a sibling has the
  name. It is a statement about calls that could be made next, in every state.
- `PersistedUpwards`: a persisted playlist lies under persisted ones.
- `DuplicateIsForeseen`: the SELECT before the INSERT is as strict as the UNIQUE
  constraint. `OnePlaylistAtATime`: no call changes two playlists.
- `ImplementsOrder`: refinement. The order as the query reads it is a behaviour of
  `OrderedLists`: a call puts one row in some place or takes rows away, no row is in
  two places, and the relative order of all others stays.
- `KeepsPromises`: every step of `Library` that ends "ok" is the step that
  `DjLibrary` promises for that call with those arguments, under the refinement
  mapping of `LibraryContract`; every other step changes nothing visible.
- `Library!ListsAreSound`: types, `ListsCanBeSorted` and `ParentExists`, which the
  traps `stale_next` and `deep_remove` break. `RemovedTrackIsGone` is what
  `entity_id` breaks.

*Several connections*

- `Sessions!TablesAreSound`: the chains stay chains until a call links a row to one
  that has gone since the call began. No other change in between does any harm.
- `AsIfAtOnce`: a call that changes a table does what it would have done as a single
  step at the moment of its write, lookups included, unless the one row that it had
  read was changed in between: to compare that row would make the calls atomic.
- `TroubleMeansCompany`: an error that a lookup should have foreseen, a playlist
  that has gone, or a call that never returns, only where another session has
  written during the call, or an earlier call has led a chain astray: what it left may
  stand in the way of any later one.
- `CallsEnd`: every call ends, but for one that has put a playlist below itself
  (two moves that are harmless each alone may do so together).

*Tracks*

- `SizesAgree`: sample count and rate are the same in all blobs: in 1.x at every
  moment, in 2.x and 3.x unless a call was stopped on the way or met another.
- `TrackCalls!ColumnsAreSound`: what Track and the blobs both hold (key, length)
  agrees, and so do the two columns of the bpm, unless a call was stopped in between.
- `OwnPerformanceData`: a track has performance data, and not that of a track that
  had its id before.
- `NoLostUpdate`: a setter never takes back what another session wrote to other
  fields of the blob, in 1.x; in 2.x and 3.x only if the calls do not meet.
- `TrackCalls!CallsEnd`: no call waits for ever, whatever locks are held.

*Creation and loading*

- `NothingLost`: a library that was there, and the performance data beside it, stay.
- `LoadedHasTables`: what `load_database` returns has its tables, even if it looked
  at a database that is being created, or whose creation was stopped.
- `CreatedIsWhole`: when `create_database` returns, all is there, and no performance
  data from before.
- `OneCreates`: of the creators of one kind at most one succeeds, none where there
  was one. `SomeoneCreates`: they do not all fail, if none is stopped.
- `ExistingRefuses`: the sentence of `engine.hpp` that `lifecycle_second` refutes.

*1.x databases*

- `Crates1!TreeIsSound`: CrateParentList gives each crate one parent, CrateHierarchy
  is its closure and has no row twice. `ColumnsAreSound`: columns hold legal
  values, and the path of a crate is right unless it was moved. These are the comment at the top of
  `engine_crate_impl.cpp`.
- `Playlists1!RowsAreSound`: two places of a 1.x playlist share a number only if they
  hold the same track, and only with views, so that `tracks()` has one result.
- `Crates1!KeepsPromises`, `Playlists1!KeepsPromises`: a call that succeeds does what
  the header promises to names, tree and content (or to every sequence of tracks),
  and nothing else; a new crate or playlist is empty, though ids come back.

*Blobs*

- `EnginesAlike`: a program that stays within what both engines take (eight slots,
  labels that are not empty and shorter than 256) gets the same answers from both,
  and reads in each slot what it last put there.
- `BlobsAreSound`: the setters of 1.x store nothing that does not read as it was put.
- `ExtentsFollow`: 1.x keeps waveform and overview scaled to the size of the track, in
  whatever order its parts are set, with one exception that the property names.
  `OverviewSettles`: what `waveform()` gives can be set again on a track that has a
  size. 2.x and 3.x keep the overview that they have, which is all they give, and 1.x
  makes the same one of the waveform that it kept. If 2.x and 3.x have none there is
  nothing to compare: a waveform set for a track without a size leaves none, while 1.x,
  which has the waveform, makes an overview when it is set again.
- `StaysProper`, `BeatsStay`, `EndsInPlace`: normalising a proper grid gives a proper
  grid but in three cases that the property names; no beat inside the track moves; the
  grid starts at beat -4 and ends with the first beat not before the end.
- `ReadsBack`: 2.x and 3.x read back any proper grid as it was written, and 1.x one of
  at most `MaxMarkers` markers, 32768 in `decode_beatgrid`; only a snapshot with a grid
  that does not increase, or with a longer one, makes the beat data of a 1.x track
  unreadable.

Not a run, but met while modelling: `children()` of a 1.x crate lists all the
crates below it, as it queries CrateHierarchy, and `descendants()` only those
directly below, as it queries CrateParentList; `Crates1` models both as they are.

### Bounds

`MaxId`, `MaxEntity` and `MaxTrack` bound the INSERTs of a behaviour; ids are not
reused, so removing does not give an insert back. Four playlists are enough for
two sibling groups of two (a move between groups of more than one), one group of
four (a move over a distance, with rows before, between and after), a chain of
ancestors three deep, and a grandchild with a sibling. Three titles give a
sibling group of three, and names that clash or do not. `PlainIds` names the
one row that is given isPersisted = FALSE, from which the triggers hand it on; that is
enough for a trigger to meet one above, below and beside persisted ones, and the public
calls always give TRUE. Four or five
entities in two playlists give chains of four and one insert after a removal. In
`library_calls` `MaxInserts` bounds all INSERTs of a behaviour together, a playlist
counting twice: four playlists and a track, or one playlist with three tracks and
four entities, and all between.

In `crates1_tree` three crates give a chain of three and a crate that moves from
one to another; `MaxOthers` bounds playlists and tracks in crates together. A stale
path can be handed down to new crates and grow without an end: `MaxMoved` bounds
the crates with a stale path at a time. In `playlists1_numbers` two tracks on five
rows give a track two and three places, gaps, and ties.

`playlist_sessions` starts from three playlists (two siblings and one below) and two
entities, so that every kind of call has something to meet. `Menus` says which calls
are made: any two calls, or three of those that move, rename and remove playlists, or
three that put tracks in and take them out. Two calls are the shortest race; three let
what the first left behind meet the next two. `track_calls` makes any two calls by two
sessions, in every generation and build, on a track that is there or was removed;
`Values` 0 and 1 tell an old value from a new one, 0 being that of an empty blob.
`lifecycle` makes any two calls by two processes from every combination of a
directory's contents; the theorems below drop these bounds.

In `analyses` grids have up to four markers, so that trimming may cut at either end
and leave a segment between; offsets are integers, and segments are a whole number of
samples per beat, so that division is exact. Grids of one segment of three beats are
long enough to reach over the start and the end of a track at once. `MaxMarkers` is 3
instead of 32768, so that there are grids below, at and above what 1.x takes. `MaxSlots` is 2 instead of 8 and
`OverviewSize` 4 instead of 1024: nothing depends on the number but being below, at
and above it, and sequences of all three lengths are given. Waveforms of up to nine
points are shorter than the overview, as long, a multiple, and none of these.

Titles, playlists and uuids are only compared for equality, and `CHOOSE` is only
applied to rows, so the symmetry sets of the four runs that have them are sound;
none of these checks liveness. The `VIEW` of the Playlist table, the Library and
the 1.x runs leaves out how the last call ended, except that it never returned, and
which call it was. No guard reads these; the properties that do are properties of
steps, which TLC evaluates at every step it generates, also when the step leads to a
state it has seen.

### Fairness

The library does nothing on its own: that a call is made is never assumed. In
`Sessions`, `TrackCalls` and `Lifecycle` `WF_vars(Proceed(s))` says that a thread which
is inside a call runs on; there are no loops, no waits and no retries in the code
that could keep it there. That is all that `CallsEnd` and `SomeoneCreates` need. As
no busy timeout is set, a lock held by another connection fails the call at once, so
no fairness between sessions is needed. The other specifications state safety only.

## Proofs

For every set of titles, playlists, tracks, uuids, processes and calls, and every
bound:

| Theorem | Says |
|---|---|
| `PlaylistTableProofs!TypeCorrect` | columns hold legal values; no inverted nextListId outlives a call |
| `PlaylistTableProofs!ChainsHold` | sibling groups are chains |
| `PlaylistTableProofs!NoRowIsLost` | `root_ids` and `child_ids` return every playlist of a parent, once |
| `PlaylistTableProofs!ImplementsOrderedLists` | refinement: the table implements `OrderedLists` |
| `PlaylistTableProofs!OnlyNamesEverClash` | no statement of a legal call meets a constraint but that of the names |
| `PlaylistTableProofs!PersistedStaysUpwards` | everything above a persisted playlist is persisted |
| `PlaylistEntityProofs!TypeCorrect` | columns hold legal values |
| `PlaylistEntityProofs!ChainsHold` | playlists are chains |
| `PlaylistEntityProofs!NoRowIsLost` | `get_for_list` returns every entity of a playlist, once |
| `PlaylistEntityProofs!ImplementsOrderedLists` | refinement: the table implements `OrderedLists` |
| `PlaylistEntityProofs!DuplicatesAreForeseen` | the check of `add` is as strict as the constraint |
| `PlaylistEntityProofs!OthersStayAsTheyAre` | no call changes two playlists |
| `LibraryProofs!CarefulCallersKeepListsSound` | public calls that avoid the traps `stale_next` and `deep_remove` leave every list with a parent, and listed |
| `LibraryProofs!PromisesAreKept` | every public call does what `DjLibrary` promises, to the place, and one that fails nothing, for a caller who avoids four traps |
| `LibraryProofs!SessionsKeepTablesSound` | however many connections write with what they read before, chains stay chains until a call links a row to one that has gone |
| `LibraryProofs!UnchangedRowsMakeCallsAtomic` | a write by a row that is as it was read does what the whole call would do at that moment |
| `LibraryProofs!NoTroubleWithoutCompany` | a call that no other has met gets no unforeseen error, and returns |
| `LibraryProofs!SessionsInvariant` | the inductive invariant that these three come from |
| `LifecycleProofs!TypeCorrect` | a process is at a step of the call it is in |
| `LifecycleProofs!NothingIsLost` | no creation, wherever it stops, harms a library that was there |
| `LifecycleProofs!LoadedLibrariesHaveTables` | what is loaded has its tables, whatever others create meanwhile |
| `LifecycleProofs!CreatedLibrariesAreWhole` | a creation that returns has made all of the database |
| `LifecycleProofs!OnlyOneCreates` | of any number of creators of one kind at most one succeeds |
| `Crates1Proofs!TreeStaysSound` | calls that avoid the traps `deep_move` and `remove` leave every 1.x crate one parent, and CrateHierarchy the closure |
| `Crates1Proofs!ColumnsStaySound` | calls that avoid these, `twin` and `deep_rename` leave the paths of 1.x crates right, but for those that were moved |
| `Crates1Proofs!PromisesAreKept` | calls that avoid `deep_move`, `remove` and `twin` do to names, tree and tracks of 1.x crates what the header promises, and ones that fail nothing |
| `Playlists1Proofs!RowsAreAlwaysSound` | whatever calls are made, track numbers are legal and tell the places of different tracks apart |
| `Playlists1Proofs!PromisesAreKept` | calls that avoid the traps `tied`, `repeated` and `dangling` do with every 1.x sequence of tracks what the header promises |
| `TrackProofs!SizesAlwaysAgree` | the blobs of a track hold one size: always in 1.x, in 2.x and 3.x where no call was stopped and none met |
| `TrackProofs!ColumnsStaySound` | columns of Track and blobs agree, and both columns of the bpm, unless a call was stopped between the two |
| `TrackProofs!DataIsTheTracksOwn` | a created track has performance data, and not that of a removed one |
| `TrackProofs!NoUpdateIsLost` | no call changes a field of a blob that it does not set |
| `TrackProofs!CommonGround` | a program within what both engines take gets the same answers, and reads what it put |
| `TrackProofs!StoredIsReadable` | the setters of 1.x store no slot that is not read as it was put |
| `TrackProofs!ExtentsAreRight` | extents are those of the size of the track, in whatever order its parts are set |
| `TrackProofs!OverviewsSettle` | set again, an overview is kept by 2.x and 3.x, and made alike by 1.x |
| `TrackProofs!GridsReadBack` | a proper grid is read back as written, in 1.x up to its limit of markers, whatever that is; what makes a 1.x track unreadable |
| `TrackProofs!GridsStayProper` | normalising a proper grid gives one, but in three cases |
| `TrackProofs!BeatsAreKept` | normalising moves no beat inside the track |
| `TrackProofs!GridsEndInPlace` | a normalised grid goes from beat -4 to the first beat not before the end |
| `TrackProofs!AnalysesInvariant` | the inductive invariant that these eight come from |

The argument about the chains has three layers. `RowProofs` shows, of any
function from ids to rows, that putting a row before a sibling (`PutBefore`) and taking rows out
(`TakenOut`) keep a chain a chain; the hard part is that no circle appears. The
`...Shape` lemmas show that the statements and triggers of a call amount to that:
`add` is a PutBefore, `remove` a TakenOut, a move a TakenOut followed by a
PutBefore. The invariant of the specification follows call by call.

`RowProofs` then shows what the library reads of a chain, and
from that the two refinements. `Sorted` is recursive, so there is an induction in it, along the links
of a finite chain: every set of rows has one that no row of the set is linked to
(`FirstOf`; or else the way back would be an injection of a finite set into itself,
so it would cover the set, and the links would lead round in it). A statement that
is false of some row is false of a first one, and the row before that one makes it
true. In this way there is exactly one walk back from every row (`OneWalk`), `Sorted`
is the walk from the end (`SortedIsWalk`), and it meets every row once. Putting a row
in makes the new walk the old one with the row in its place (`InsertedWalk`), so all
other rows keep their order; taking a row out is the same, read the other way round.
`OrderedLists` is stated with the pairs of items that are in order (`Ranks`), which
is what these lemmas speak of; a move is a TakenOut and a PutBefore, and the order
between them is that of a table which never exists (`Unlinked`).

The inductive invariant is `TypeOK /\ Chains` for the Playlist table. Neither half
is inductive alone: the triggers find the row to relink by its link, so they only
do the right thing to a chain; and that an inverted value is no row's link, so
that parking is safe, needs the types. That the constraints hold after each call
needs no more than `Run`, and with the invariant it gives `OnlyNamesEverClash`. For
PlaylistEntity the invariant adds `Unique`, which no constraint on nextEntityId
stands in for, and `DuplicateIsForeseen`.

That persisted playlists stay under persisted ones needs a second invariant, as no
part of the first says anything about `isPersisted`: `PersistedUpwards` itself, and that
owners are rows that were given out once, so that a new row is nobody's parent.
After an INSERT or UPDATE of a persisted row the triggers persist everything above it;
after an UPDATE of one that is not, they unpersist everything below. What is shown of
PlaylistAllParent and PlaylistAllChildren is only that they are closed and hold the
first step (`Ancestors`, `Descendants`), which does without induction over paths.

`LibraryProofs` takes the lemmas about the two tables over by `INSTANCE` and shows that
the public calls use the tables as those lemmas ask: the next list that
`create_sub_playlist_after` computes is a sibling's or the end, `set_parent` is only
called where the next list it carries along is the end (or nothing moves), and a
removed list leaves no grandchildren. `Careful` excludes the traps `stale_next` and
`deep_remove`; the theorem holds whatever other traps the caller walks into.

`PromisesAreKept` is the step-by-step half of a refinement: `DjLibrary` speaks of
sequences, the tables of links. `PutOrder` and `TakenOrder` of `RowProofs` say what
becomes of the sequence that is read from a chain: a row that goes in comes before the
one it was put before, and all others keep their order; `InsertAtIsAt` and
`DropFromAt` say the same with the operators of `DjLibrary`. A move is both, one after the other. That
a playlist goes with all below it (`Branch`) is the closure of the parents
(`BranchIsBelow`), and what `remove` deletes is all of that where there are no
grandchildren. The invariant `KInv` adds to that of the first theorem that entities
belong to ids given out once (`EntitiesGiven`): without it a new playlist might not be
empty. The theorem assumes `Traps \subseteq {"cycle"}`: in each of the situations
`stale_next`, `deep_remove`, `entity_id` and `listed_track` a call does break its promise, the code
being as it is. Moving a playlist below itself is allowed: such a call fails or
never returns, and changes nothing.

For `Sessions` the invariant `SInv` has two parts. The tables: a call may have led a
chain astray, and what remains true then is needed by all who write after it. The
constraints still hold, the rows are still of their types, and no list is below itself
(`Acyclic`: out of every set of lists one leads up). That the last stays needs the
descendants of the moved list (`MovedStaysAcyclic`), which is where `Circle` comes from:
a move below itself never commits. A table that is not in `astray` is `Sound` as before, and the lemmas
about one caller apply to it; the only question is then whether the row that the call
goes before is still among the siblings, which is `InPlace`, or follows from the row it
had read being unchanged (`LinksOfKids`).

The other part is what a call knows on its way. Ids in its arguments have been given out (`Arguments`), and
what it has read is a row of that table (`HasRead`). As long as no other has written
(`Undisturbed`), that row is still there as it was, its name is still free, its entity still
not there, and its new parent not below it. Any write of another sets `met`, and nothing is claimed
any more; a stop or a query leaves it (`OneGoesOn`, `OneHasWritten`). `Room` counts ids
for the calls that are on their way. `UnchangedRowsMakeCallsAtomic` claims more than
this of calls that *have* been met: there the lookups are void, and it is the constraints
that have to repeat them. A row that passes `C_NAME_UNIQUE_FOR_PARENT` has a free name (`AcceptedNameIsFree`),
an entity that passes `C_NAME_UNIQUE_FOR_LIST` would not have been found (`NotFoundOrUnique`).

The proof of `NoTroubleWithoutCompany` found the property too strong as it stood: once a chain
has been led astray, a call that meets no one may get an error of SQLite's as well,
from the links that an earlier one left (an INSERT parks and relinks rows that are no chain). No run had
come across this within three calls. The property now says so.

For `Lifecycle` the invariant names the owner of a file: the process that has made its
first part. As that part is a table, whose creation fails if it is there, a file has
one owner at most (`OneOwner`) and is made in order (`InOrder`): what a loader finds
of it is a beginning of the order of parts, and in every schema the version comes after
the tables. A file that was found or created is whole, has its first part and so can
have no owner later. p.db has no owner of its own, as some schemas drop its tables
first: that m.db is complete while p.db is made, and that only the owner of m.db gets
that far, takes its place (`Stage`, `Followed`). None of the four properties is
inductive without these. Every step then has one of four shapes - it makes no part, it
leaves a file as it is, it makes a part of m.db or Database2/m.db, or of p.db - and
one lemma for each shows that the invariant stays.

For `Crates1`, what a careful caller does only ever changes the tree at its leaves:
a crate comes (`LeafPut`), goes (`LeafTaken`), or goes and comes back elsewhere; a
crate with others below it may only be put where it is. TreeIsSound is not enough to
go on from. It says nothing of hierarchy rows about crates that are gone, which the
next crate of that id would inherit; and not that a crate above others has a child,
without which the removal of a childless crate might leave such rows. The invariant
`IInv` has both, the latter as: whatever is above i is the parent of i or of
something above i. This holds without induction over depth, and survives the move of
a leaf. What the `UPDATE`s of `set_name` write does not matter to the tree, as they
neither make nor delete rows (`Updated`).

For paths and promises it does matter. Before `set_name` may succeed at all,
`update_path` must come to an end, and visit only crates that are there. Less is below
a crate than below its parent, as the closure goes on (`BelowGoesOn`, by induction over
how much is above a crate; `FewerBelow`), so the recursion over the depth is never used
up (`VisitsAreCrates`; that it is defined there at all is shown step by step, as for
any recursive function, in `VisitsByStep`). Each visit is an `UPDATE` of the view, which
writes the path into every row of List with the id, the title and the path it looks for,
playlists included: they may get a path, which nobody reads, but keep their titles
(`UpdatedShape`, `RepathedShape`). That the new title goes to one row only needs that
there is no playlist with the id and the title of the crate, which `twin` excludes. If
nothing is two levels below the crate, whatever is below it is a child of it and is
visited with the path that is right and no other (`LeafIsVisited`,
`FlattenOnes`, `SetNameDoes`). The invariant `DInv` adds to `IInv` that columns hold
legal values, that rows of CrateTrackList speak of crates that are there (a crate with a
reused id would be born with tracks), and, for a caller who avoids `deep_rename`
(`Shallow`), that the path of a crate is right unless it was moved. It is enough for
ColumnsAreSound (`DInvIsEnough`) and for one step of each call to keep its promise
(`StepKept`). The assumption of both theorems, `Diligent`, leaves the caller the traps
`stale_path`, `cycle` and `deep_rename`, that of paths adds `Shallow`. No less will do:
with `remove` or `twin` TLC finds both properties violated, with `deep_rename`
ColumnsAreSound, and with `deep_move` next to the three, a `set_name` that never returns.

For `Playlists1` the hard step is the `UPDATE` of the view, a recursive function over
the rows it read: `ViewShape` shows by induction over rowids (`UpTo`) that each row
is, in the middle of it, as it was or has the number after that of a row of the same
track that was not before it, and in the end is as the latter. Two rows can only meet
if the rows they have their numbers from met before, or are one row, and so hold one
track (`ShiftedKeeps`); and the place after the given one is free. A table shifts
every row by itself, so there no two rows meet at all. The invariant tells the rows
apart of playlists that are gone, too, as their ids come back with the trap `dangling`.

For the promises of `Playlists1` the model reads a playlist by rank: the row at place k
has k - 1 rows before it, and every row has such a place (`RanksAreOrder`). So what is
read depends on nothing but the order of rows of different tracks (`SameContent`): if
two readings differed at a place, the row that one has there would have fewer rows
before it than the row that the other has. That is what the view needs, where the
`UPDATE` may give two places of one track a number in common, or let them pass
each other, but never has them pass another track: all the numbers in between are
of the same track (`Filled` in `ViewShape`, `ShiftedKeepsOrder`). What is left is what a
row more does (`InsertedContent`), what a row less does (`DroppedContent`), and what is
left when the rows of a track go (`WithoutContent`). The theorem is for a caller who
avoids all three traps, as each of them alone breaks a promise.

`RowProofs` has what both need of tables numbered by rowid: that MAX is the highest (`HighestIsHighest`),
which is a fact about every set of bounded naturals and so needs `LeastOf`; that an
INSERT leaves all other rows alone; and that a `UNION` lists every id once
(`AscendingIsComplete`), by the rank of each, an injection of a finite set. What a
sequence is with an item more or one less (`BetweenIsAt`, `AppendIsAt`, `OutOfAt`) is
there as well, for `LibraryProofs` and `Playlists1Proofs`.

For `TrackCalls` none of the properties is inductive, as a track that is half written
breaks them all and the next statement mends it. The invariant `IInv` of
`TrackProofs` says instead what a session in the middle of a call finds in what it
sees of its track (`Staged`): it has read what is still there, where it has written is
its value, and what it has yet to write is as it was when the rows last agreed. This
is stated with the set of statements done (`Past`), so that one lemma serves for all
generations: what it needs of the 26 programs is the order of their statements (`InOrder`), which
is read off each. When all statements are done the rows agree again (`Complete`,
`StagedAtLast`); after a stop they do unless something was committed, and then the
track is in `torn`.

That no other session disturbs this has two reasons. In generation 1 a transaction has
locked the files that it has read or written (`LocksAsDone`), no two have written to
one file, and who is between its two commits is alone (`Apart`); what waits to be committed
differs from the files in the fields of its call only (`DraftsFollow`), which is what
`NoLostUpdate` comes down to. In generations 2 and 3 nothing is locked between two statements; there
calls on one track that met are known to have met (`OneAtATime`), and nothing is
claimed of them. `set_bpm` has no transaction in any generation, so its two columns
have an invariant of their own (`OneBpmAtATime`, `BpmStaged`). `Room` counts the ids
that are still to be given. Every step has one of seven shapes (`Moves`), and a lemma
for each (`ReadStep` to `BeginStep`) shows that the invariant stays.

The proof brought up one thing about the model: two guards of the CASE in `Free` held
together for a COMMIT. TLC takes the first, TLA+ promises neither; they now exclude
each other.

For `Analyses` the three components have an invariant each, and a step of one leaves the
others alone (`Parts`). That of the grids (`GridInv`) says little more than that every
segment has a whole number of samples for each of its beats, but all hangs on it: an
end that `normalize_beatgrid` moves goes along the line of its segment (`EndsMoved`),
so the segment keeps its tempo (`LinesStay`), and the next normalisation
divides by it without remainder. This is shown for all grids, not only proper ones, as
the application may go on with what it has got. What is left when a proper grid is
trimmed goes from the last marker not after the start to the first one after the end
(`TrimmedIs`, `Kept`); a beat inside the track is in a segment that is kept, or on the
line of one whose end is moved (`BeatKept`). That `ceil` ends on the first beat not
before the end is `EndsAre` and `LastInPlace`. The cues are alike because on the common
ground the two blobs are the same and have all their slots (`Same`); `EnginesAlike`
alone would not do, as the next call looks at the stored slots, and not at what is read
of them. An overview of an overview has its i-th point as its i-th, as that is the
middle one of the i-th of n parts of n points (`OverviewOf`). That 1.x makes that same
overview needs in the invariant (`WaveInv`) that 2.x and 3.x have the overview of the
waveform that 1.x has, or none.

The proof found the exceptions in `StaysProper` to be too few: besides the two that runs
had found, a proper grid also loses its order if the track has ended at beat -4
already, as the last marker is then drawn back to that beat or past it (`EndsEarly`).
With a sample count of 4 the grid (-6, 0), (-3, 6) becomes (-4, 4), (-4, 4), and the
next call divides by zero. No grid of the run had segments long enough; it now has such
grids as well.

Assumptions: those named in the modules (`BadTitle` is no title, flags are
Booleans, bounds are naturals, track ids start at 1, there are more ids than calls;
for `Sessions`, two titles and two tracks for the rows it starts from; for `Analyses`,
at least one slot, sizes and a limit of markers that are naturals, and grids with a whole number of samples per
beat). The last is what floating point does not give: there beats are spread evenly up
to a rounding error, of which nothing is shown.

Only model-checked: liveness (`CallsEnd`, `SomeoneCreates`), which is out of the
prover's reach. Every other property of a passing run is the statement of a theorem.

## Not modelled

- SQLite itself, beyond statements, triggers, constraints, rollback and the locks of
  a rollback journal. Of the file system, that a file is there.
- The layouts of the blobs byte by byte, endianness and zlib: fixed sequences of reads
  and writes of fixed widths, for which the tests have example blobs. What lengths and
  buffers do at their limits is in `Cues`.
- The setters of a single column of Track: one UPDATE each, without a second place to
  agree with. The triggers that fill in origin columns and ChangeLog, which no code of
  the library reads.
- Floating-point rounding in beatgrids and sample rates. A grid whose first segment has
  no beats gets infinite offsets from `normalize_beatgrid`; `Normalise` ends there.
- The literal SQL of the schema creators and the column-by-column comparison of the
  validators, beyond the triggers and constraints of the tables above and the order in
  which a schema is created.
- 1.x crates and playlists with two connections: most of their calls are one
  transaction each.
- Temporary databases, which no other process sees, and databases made from scripts,
  which are a tool for tests.
- Public wrappers, snapshots, and the vendored SQLite, date and zlib code.

## Plan

Done: `ChainedRows`, `PlaylistTable`, `PlaylistEntity`, `Library` with their abstract
specifications; `Crates1`, `Playlists1`; `Sessions`; `TrackCalls`; `Lifecycle`;
`Analyses`; and the proofs above. What is left, in this order:

1. 1.x crates with two connections.
2. ChangeLog and the origin columns, should the library come to read them.
