---------------------------- MODULE DatabaseFile ----------------------------
(***************************************************************************)
(* Opening a multilite database file (multilite/src/database.rs open_on):  *)
(* a plain SQLite file is given multilite's tables, a device and a space;  *)
(* a file that has them all is checked and taken as it is; anything else   *)
(* is refused.  All of it happens inside one savepoint, and the process    *)
(* may stop, or a statement fail, at any step.                             *)
(***************************************************************************)
EXTENDS Naturals, FiniteSets

CONSTANTS
  FileDevices,    \* devices Client::open may mint
  DatabaseIds,    \* databases: minted, or named by an invitation
  NoId,           \* no device, no invitation
  InitialFiles    \* the SQLite files open is called on

VARIABLES
  given,     \* the file as it was before the first open
  disk,      \* the file on disk
  working,   \* the file as the open transaction sees it
  stage,     \* Shut, Live, or the number of initialize steps done
  asked      \* the invitation open was called with, or NoId

Steps == 8
Live == Steps + 1
Shut == Steps + 2

fileVars == <<given, disk, working, stage, asked>>

\* A user table: what validate_user_table_shapes reads of it.
UserTable(kind, without_rowid, key, key_index) ==
  [kind |-> kind, without_rowid |-> without_rowid, key |-> key, key_index |-> key_index]

Plain(user) ==
  [tables |-> {}, malformed |-> {}, user |-> user,
   device |-> NoId, allocator |-> NoId, spaces |-> {}]

-----------------------------------------------------------------------------
(* The six namespaces of reserved tables.                                  *)

\* is_initialized: none of a namespace's tables, all of them, or an error.
Namespace(f, names, stray) ==
  CASE f.tables \cap (names \cup stray) = {} -> "absent"
    [] f.tables \cap (names \cup stray) = names -> "present"
    [] OTHER -> "error"

metadata_is_initialized(f) == Namespace(f, {"meta"}, {"meta_stray"})
pending_is_initialized(f) == Namespace(f, {"pending"}, {})
repair_is_initialized(f) == Namespace(f, {"repair", "repair_rows"}, {})
catalog_is_initialized(f) == Namespace(f, {"catalog", "catalog_columns"}, {})
history_is_initialized(f) == Namespace(f, {"commit_log", "commit_state"}, {})
rowid_is_initialized(f) == Namespace(f, {"rowid_slots", "rowid_state"}, {})

\* CREATE TABLE.
Create(f, names) == [f EXCEPT !.tables = @ \cup names]

metadata_initialize(f) == Create(f, {"meta"})
pending_initialize(f) == Create(f, {"pending"})
repair_initialize(f) == Create(f, {"repair", "repair_rows"})
catalog_initialize(f) == Create(f, {"catalog", "catalog_columns"})
history_initialize(f) == Create(f, {"commit_log", "commit_state"})
rowid_initialize(f, device) == [Create(f, {"rowid_slots", "rowid_state"}) EXCEPT !.allocator = device]

\* validate: the columns, the WITHOUT ROWID layout and the rows of each table.
metadata_validate(f) == metadata_is_initialized(f) = "present" /\ "meta" \notin f.malformed
pending_validate(f) == pending_is_initialized(f) = "present" /\ "pending" \notin f.malformed
repair_validate(f) ==
  repair_is_initialized(f) = "present" /\ {"repair", "repair_rows"} \cap f.malformed = {}
catalog_validate(f) ==
  catalog_is_initialized(f) = "present" /\ {"catalog", "catalog_columns"} \cap f.malformed = {}
history_validate(f) ==
  history_is_initialized(f) = "present" /\ {"commit_log", "commit_state"} \cap f.malformed = {}
rowid_validate(f) ==
  rowid_is_initialized(f) = "present" /\ {"rowid_slots", "rowid_state"} \cap f.malformed = {}
validate_device(f, device) == f.allocator = device

-----------------------------------------------------------------------------
(* What open makes of a file.                                              *)

validate_user_table_shapes(f) ==
  \A t \in f.user :
    /\ t.kind = "table" /\ t.key # <<>>
    /\ t.without_rowid \/ (t.key = <<"INTEGER">> /\ ~t.key_index)

classify(f) ==
  LET all == {metadata_is_initialized(f), pending_is_initialized(f), repair_is_initialized(f),
              catalog_is_initialized(f), history_is_initialized(f), rowid_is_initialized(f)}
  IN CASE all = {"absent"} -> "fresh"
       [] all = {"present"} /\ metadata_validate(f) /\ pending_validate(f) /\ repair_validate(f)
            /\ catalog_validate(f) /\ rowid_validate(f) -> "initialized"
       [] OTHER -> "error"

\* Client::open: the stored device, or the fresh one, recorded.
client_open(f, fresh) == IF f.device = NoId THEN [f EXCEPT !.device = fresh] ELSE f

\* Client::attach: the envelope is stored, or must be the stored one.
attach(f, id) == [f EXCEPT !.spaces = @ \cup {[id |-> id, envelope |-> id]}]

\* reopen, up to the first check that fails.
reopen(f, invitation) ==
  /\ f.device # NoId /\ Cardinality(f.spaces) = 1
  /\ \A s \in f.spaces : s.envelope = s.id /\ (invitation # NoId => invitation = s.id)
  /\ catalog_validate(f) /\ history_validate(f) /\ rowid_validate(f) /\ repair_validate(f)
  /\ validate_device(client_open(f, NoId), f.device)

\* initialize, step by step; the last two need the device and the database id.
initialize(step, f, device, id) ==
  CASE step = 0 -> metadata_initialize(f)
    [] step = 1 -> pending_initialize(f)
    [] step = 2 -> repair_initialize(f)
    [] step = 3 -> catalog_initialize(f)
    [] step = 4 -> history_initialize(f)
    [] step = 5 -> client_open(f, device)
    [] step = 6 -> rowid_initialize(f, f.device)
    [] step = 7 -> attach(f, id)

OnDisk_autocommit(before, now) == now
\* The savepoint __multilite__database_open: nothing is on disk before its release.
OnDisk(before, now) == before

-----------------------------------------------------------------------------
FileInit ==
  /\ given \in InitialFiles /\ disk = given /\ working = given /\ stage = Shut /\ asked = NoId

\* open_on: the checks, and the choice of path.
Open ==
  /\ stage = Shut /\ validate_user_table_shapes(disk)
  /\ asked' \in DatabaseIds \cup {NoId}
  /\ working' = disk
  /\ CASE classify(disk) = "fresh" -> stage' = 0
       [] classify(disk) = "initialized" -> reopen(disk, asked') /\ stage' = Steps
       [] OTHER -> FALSE
  /\ UNCHANGED <<given, disk>>

InitializeStep ==
  /\ stage \in 0..Steps - 1
  /\ \E device \in FileDevices, id \in DatabaseIds :
       /\ asked # NoId => id = asked
       /\ working' = initialize(stage, working, device, id)
  /\ disk' = OnDisk(disk, working')
  /\ stage' = stage + 1
  /\ UNCHANGED <<given, asked>>

\* The savepoint is released and the database is open.
Opened ==
  /\ stage = Steps
  /\ disk' = working /\ stage' = Live
  /\ UNCHANGED <<given, working, asked>>

\* The application drops the database, a step of open fails and its savepoint is
\* rolled back, or the process stops.
StopOpen ==
  /\ stage # Shut
  /\ stage' = Shut /\ working' = disk /\ asked' = NoId
  /\ UNCHANGED <<given, disk>>

FileNext == Open \/ InitializeStep \/ Opened \/ StopOpen

FileSpec == FileInit /\ [][FileNext]_fileVars

-----------------------------------------------------------------------------
Whole(f) ==
  /\ classify(f) = "initialized" /\ reopen(f, NoId)
  /\ f.allocator = f.device /\ f.user = given.user

\* Wherever open is interrupted, the file on disk is the file that was given or a
\* complete database that opens again and keeps the user's tables; a file that is
\* not a plain one or a whole one stays as it is (database.rs open_on, classify).
WholeOrUntouched == disk = given \/ Whole(disk)

\* An open database has one device and one space, its row identifiers belong to
\* that device, and it is the database the invitation names (database.rs reopen,
\* initialize).
OpenIsTheInvited ==
  stage = Live =>
    /\ Whole(disk)
    /\ asked # NoId => \A s \in disk.spaces : s.id = asked

\* However an open ends, it leaves a file that was not touched or is whole, and
\* what it returns is the database it was asked for.
OpensWholeOrNot == WholeOrUntouched /\ OpenIsTheInvited
=============================================================================
