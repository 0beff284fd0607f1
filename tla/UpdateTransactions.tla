------------------------- MODULE UpdateTransactions -------------------------
(***************************************************************************)
(* Managed updates of one Multilite database                               *)
(* (multilite/src/database/update.rs).  An update runs its closure's       *)
(* statements on a private branch of the snapshot it began with.  Hooks on *)
(* the branch's connection capture the rows each statement changes and the *)
(* tables it reads; the operations and the footprint they leave become one *)
(* commit proposal, which the committer checks against everything          *)
(* committed since the snapshot and replays on the canonical database      *)
(* (multilite/src/commit/proposal.rs).  The closure sees the error of a    *)
(* failed statement and may go on.                                         *)
(*                                                                         *)
(* An update is                                                            *)
(*   [phase, isolation, at, base, branch, catalog, read_tables,            *)
(*    unresolved, operations, footprint, script]                           *)
(* where at is the commit sequence of the snapshot and script the ghost    *)
(* record of the statements that ran, each with what it answered and       *)
(* whether it left anything in the footprint.                              *)
(***************************************************************************)
EXTENDS Operations

CONSTANTS
  Writers,             \* the updates
  Base,                \* the database at the start
  Menus,               \* <<statements, number>>: a behaviour runs so many of one menu's
  Levels,              \* isolation levels in use
  MaxStatements,       \* bound on the statements of an update
  MaxCapturedChanges   \* MAX_CAPTURED_CHANGES

VARIABLES
  menu,        \* the menu of this behaviour
  canonical,   \* the canonical database
  history,     \* the write regions of each commit
  tx,          \* the updates
  minted,      \* identities handed out
  last         \* ghost: the last commit, {} before the first

vars == <<menu, canonical, history, tx, minted, last>>

-----------------------------------------------------------------------------
(* Footprints.                                                             *)

Empty == [writes |-> {}, constraints |-> {}, reads |-> {}]

\* ConflictFootprint::extend.
extend(footprint, other) == [f \in DOMAIN footprint |-> footprint[f] \cup other[f]]

\* GuardPlan::serializable_read, for the keys an explicit read depends on.
serializable_read(t, keys) ==
  [t EXCEPT !.footprint = extend(@, [Empty EXCEPT !.reads = keys])]

-----------------------------------------------------------------------------
(* What SQLite reports to the authorizer and answers (external).           *)

FkReads(d, t, columns) ==
  {d.tables[f.parent].name : f \in {g \in Elements(Active(d.tables[t].def.fks)) : g.col \in columns}}
    \cup {d.tables[i[1]].name : i \in {j \in incoming_foreign_keys(d, t) : j[2].pcol \in columns}}

\* The tables a row statement reads: its own in a WHERE clause, in a SET
\* expression and in a check of incoming foreign keys, and the other side of
\* every foreign key it touches.
RowReads(d, t, stmt) ==
  LET all == ColumnIds(d.tables[t].def)
      column == column_id_by_name(d, t, stmt.column)
      own(condition) == IF condition THEN {d.tables[t].name} ELSE {}
      parent == incoming_foreign_keys(d, t) # {}
      returning == "fails" \in DOMAIN stmt
  IN own(returning) \cup
     CASE stmt.kind = "Insert" ->
            FkReads(d, t, {f.col : f \in Elements(d.tables[t].def.fks)})
       [] stmt.kind = "Delete" -> own(TRUE) \cup FkReads(d, t, all)
       [] stmt.kind \in {"Replace", "Clear"} -> own(parent) \cup FkReads(d, t, all)
       [] stmt.kind \in {"Update", "Shift"} -> own(TRUE) \cup FkReads(d, t, column)
       [] stmt.kind = "Fill" -> FkReads(d, t, column)

\* A SELECT on a table, or on a view: SQLite also reports the view's own name.
SelectReads(d, name) ==
  IF name \in DOMAIN d.views
    THEN {name} \cup {d.tables[t].name : t \in d.views[name]} ELSE {name}

Sources(d, name) ==
  IF name \in DOMAIN d.views THEN d.views[name] ELSE by_name(d, name)

Contents(d, t) ==
  {[n \in Bound(d.tables[t]) |-> r[CHOOSE c \in DOMAIN r : d.tables[t].names[c] = n]] :
     r \in d.tables[t].rows}

\* What a query returns.
Answer(d, stmt) ==
  CASE stmt.do = "Select" -> {Contents(d, t) : t \in Sources(d, stmt.name)}
    [] stmt.do = "UserVersion" -> {d.version}
    [] stmt.do = "TablePragma" -> {Schema(d.tables[t].def) : t \in by_name(d, stmt.name)}
    [] stmt.do = "IndexPragma" -> {{d.tables[i[1]].names[c] : c \in i[2].cols} : i \in index_by_name(d, stmt.name)}

Queries == {"Select", "UserVersion", "TablePragma", "IndexPragma"}

-----------------------------------------------------------------------------
(* BranchHooks.                                                            *)

\* CatalogSnapshot::load.
load(d) == [d EXCEPT !.tables = [t \in DOMAIN @ |-> [@[t] EXCEPT !.rows = {}]]]

\* The authorizer: a table read by public SQL, by the identity its name has in
\* the hooks' catalog.
trace(t, names) ==
  IF t.isolation # "Serializable" THEN t
    ELSE [t EXCEPT !.read_tables = @ \cup UNION {by_name(t.catalog, n) : n \in names},
                   !.unresolved = @ \cup {n \in names : by_name(t.catalog, n) = {}}]

\* The preupdate hook: CaptureBudget::record takes every change of the statement.
within_budget(events) == Len(events) <= MaxCapturedChanges

run_inner_without_refresh(t, results, refresh) == {[t EXCEPT !.branch = d] : d \in results}

\* run_inner: the statement under a savepoint.  An error, of SQLite, of a hook
\* or of finalize, leaves the branch and the catalog as they were.
run_inner(t, results, refresh) ==
  {[t EXCEPT !.branch = d, !.catalog = IF refresh THEN load(d) ELSE @] : d \in results}

\* run_schema: no reads are traced, and the catalog follows.
run_schema(t, results) == run_inner(t, results, TRUE)

record_operation(t, op) ==
  [t EXCEPT !.operations = Append(@, op),
            !.footprint = extend(@, GuardFootprint(to_homebase(op).guards))]

-----------------------------------------------------------------------------
(* Statements.  The result is the set of updates after it, {} on an error. *)

\* The operation a statement made, if it made one, is recorded.
Recorded(after, op) == IF op = {} THEN after ELSE {record_operation(u, o) : u \in after, o \in op}

\* run_captured: finalize compiles the captured changes against the hooks'
\* catalog; a RETURNING row the application cannot map fails the statement.
CapturedRun(t, id, stmt, events) ==
  LET runs == within_budget(events) /\ Captured(t.catalog, events)
                /\ ("fails" \in DOMAIN stmt => ~ stmt.fails)
  IN Recorded(run_inner(t, IF runs THEN Run(t.branch, events) ELSE {}, FALSE),
              from_catalog(t.catalog, id, events))
run_captured(t, id, stmt) ==
  UNION {CapturedRun(t, id, stmt, EventsOf(t.branch, table, stmt)) : table \in by_name(t.branch, stmt.table)}

\* A prepared schema operation, run and recorded.
Materialize(t, ops) ==
  UNION {{record_operation(u, op) : u \in run_schema(t, apply(t.branch, op))} : op \in ops}

\* execute_create_table, execute_drop_table, execute_create_index and
\* execute_drop_index; execute_alter; execute_create_view and execute_drop_view.
execute_schema(t, id, stmt) ==
  Materialize(t, CASE stmt.do = "CreateTable" -> prepare_create_table(t.branch, id, stmt)
                   [] stmt.do = "DropTable" -> prepare_drop_table(t.branch, id, stmt)
                   [] stmt.do = "CreateIndex" -> prepare_create_index(t.branch, id, stmt)
                   [] stmt.do = "DropIndex" -> prepare_drop_index(t.branch, id, stmt))
execute_alter(t, id, stmt) ==
  Materialize(t, CASE stmt.do = "RenameTable" -> prepare_rename_table(t.branch, id, stmt)
                   [] stmt.do = "RenameColumn" -> prepare_rename_column(t.branch, id, stmt)
                   [] stmt.do = "AddColumn" -> prepare_add_column(t.branch, id, stmt)
                   [] stmt.do = "DropColumn" -> prepare_drop_column(t.branch, id, stmt)
                   [] stmt.do = "DropConstraint" -> prepare_drop_constraint(t.branch, id, stmt))
execute_view(t, id, stmt) ==
  Materialize(t, IF stmt.do = "CreateView" THEN prepare_create_view(t.branch, id, stmt)
                                           ELSE prepare_drop_view(t.branch, id, stmt))

\* execute_set_user_version: setting the version it has records nothing.
execute_set_user_version(t, id, stmt) ==
  Recorded(run_schema(t, {[t.branch EXCEPT !.version = stmt.value]}),
           prepare_user_version(t.branch, id, stmt))

\* schema_object_kind: what main.sqlite_schema has under a name.
schema_object_kind(d, name) ==
  CASE by_name(d, name) # {} -> "table"
    [] by_name(d, name) = {} /\ index_by_name(d, name) # {} -> "index"
    [] name \in DOMAIN d.views -> "view"
    [] OTHER -> "none"

Conditional == {"CreateTableIfNotExists", "DropTableIfExists", "CreateIndexIfNotExists",
                "DropIndexIfExists"}

\* create_table_is_noop, drop_table_is_noop, create_index_is_noop and
\* drop_index_is_noop.
is_noop(d, stmt) ==
  LET kind == schema_object_kind(d, stmt.name)
  IN CASE stmt.do = "CreateTableIfNotExists" -> kind = "table"
       [] stmt.do = "CreateIndexIfNotExists" -> kind = "index"
       [] stmt.do = "DropTableIfExists" -> kind # "table"
       [] stmt.do = "DropIndexIfExists" -> kind # "index"

\* SQLite refuses one no-op: DROP TABLE IF EXISTS of a view.
NoopRuns(d, stmt) ==
  stmt.do = "DropTableIfExists" => schema_object_kind(d, stmt.name) # "view"

execute_conditional_schema_noop_unread(t, stmt) ==
  run_schema(t, IF NoopRuns(t.branch, stmt) THEN {t.branch} ELSE {})

\* execute_conditional_schema_noop: that there was nothing to do is a read of
\* the name.
execute_conditional_schema_noop(t, stmt) ==
  {serializable_read(u, {schema_object_name_scope_key(stmt.name)}) :
     u \in run_schema(t, IF NoopRuns(t.branch, stmt) THEN {t.branch} ELSE {})}

\* The conditional forms carry what they do otherwise.
Unconditional(stmt) == IF stmt.do \in Conditional THEN stmt.then ELSE stmt

\* execute_validated.
execute_validated(t, id, stmt) ==
  CASE stmt.do = "Rows" -> run_captured(t, id, stmt)
    [] stmt.do = "SetUserVersion" -> execute_set_user_version(t, id, stmt)
    [] stmt.do \in {"CreateView", "DropView"} -> execute_view(t, id, stmt)
    [] stmt.do \in {"RenameTable", "RenameColumn", "AddColumn", "DropColumn", "DropConstraint"} ->
         execute_alter(t, id, stmt)
    [] stmt.do \in Conditional /\ is_noop(t.branch, stmt) -> execute_conditional_schema_noop(t, stmt)
    [] OTHER -> execute_schema(t, id, Unconditional(stmt))

\* record_explicit_read: a PRAGMA depends on the name and on the table it has.
record_explicit_read(t, stmt) ==
  CASE stmt.do = "Select" -> t
    [] stmt.do = "UserVersion" -> serializable_read(t, {user_version_key})
    [] stmt.do = "TablePragma" ->
         serializable_read(t, {schema_object_name_scope_key(stmt.name)}
                                \cup {table_prefix(x) : x \in by_name(t.branch, stmt.name)})
    [] stmt.do = "IndexPragma" ->
         serializable_read(t, {schema_object_name_scope_key(stmt.name)}
                                \cup {table_prefix(i[1]) : i \in index_by_name(t.branch, stmt.name)})

\* query of a reading statement.
query(t, stmt) ==
  IF stmt.do = "Select" /\ Sources(t.branch, stmt.name) = {} THEN {}
    ELSE {record_explicit_read(t, stmt)}

\* What SQLite reads while it prepares the statement; of an unknown table nothing.
Prepared(t, stmt) ==
  CASE stmt.do = "Select" ->
         IF Sources(t.branch, stmt.name) = {} THEN t ELSE trace(t, SelectReads(t.branch, stmt.name))
    [] stmt.do = "Rows" ->
         trace(t, UNION {RowReads(t.branch, x, stmt) : x \in by_name(t.branch, stmt.table)})
    [] OTHER -> t

-----------------------------------------------------------------------------
(* What the statements would do on another database, without the hooks:    *)
(* the reference the serial order is checked against.                      *)

\* <<database, answer>>, {} on an error.
ReferenceRows(d, stmt, table, events) ==
  IF within_budget(events) /\ ("fails" \in DOMAIN stmt => ~ stmt.fails)
    THEN {<<e, Len(SelectSeq(events, LAMBDA x : x.table = table))>> : e \in Run(d, events)}
    ELSE {}
Reference(d, id, stmt) ==
  CASE stmt.do \in Queries ->
         IF stmt.do = "Select" /\ Sources(d, stmt.name) = {} THEN {} ELSE {<<d, Answer(d, stmt)>>}
    [] stmt.do = "Rows" ->
         UNION {ReferenceRows(d, stmt, table, EventsOf(d, table, stmt)) : table \in by_name(d, stmt.table)}
    [] stmt.do = "SetUserVersion" -> {<<[d EXCEPT !.version = stmt.value], 0>>}
    [] stmt.do \in Conditional /\ is_noop(d, stmt) -> IF NoopRuns(d, stmt) THEN {<<d, 0>>} ELSE {}
    [] OTHER -> {<<e, 0>> : e \in UNION {apply(d, op) : op \in Prepare(d, id, Unconditional(stmt))}}

\* The tables a SELECT or a row statement is about.
Target(d, stmt) ==
  CASE stmt.do = "Select" -> Sources(d, stmt.name)
    [] stmt.do = "Rows" -> by_name(d, stmt.table)
    [] OTHER -> {}

\* The statement's target is in the footprint, whatever became of it.
Covered(before, after, stmt) ==
  LET read(tables) == tables # {} /\ tables \subseteq after.read_tables
  IN \/ Len(after.operations) > Len(before.operations)
     \/ stmt.do \in (Queries \ {"Select"}) \cup Conditional
     \/ stmt.do \in {"Select", "Rows"} /\ read(Target(before.branch, stmt))

-----------------------------------------------------------------------------
(* The updates and the committer.                                          *)

Idle == [phase |-> "idle"]
Done == [phase |-> "done"]
Open(w) == tx[w].phase = "open"

Init ==
  /\ menu \in Menus
  /\ canonical = Base
  /\ history = <<>>
  /\ tx = [w \in Writers |-> Idle]
  /\ minted = 0
  /\ last = {}

\* UpdateTransaction::branch: an update of the database d, with its hooks.
UpdateTransaction(d, isolation, at) ==
  [phase |-> "open", isolation |-> isolation, at |-> at, base |-> d, branch |-> d,
   catalog |-> load(d), read_tables |-> {}, unresolved |-> {}, operations |-> <<>>,
   footprint |-> Empty, script |-> <<>>]

\* run_branch_update, up to the closure: a branch of the current snapshot.
Begin(w, isolation) ==
  /\ tx[w] = Idle
  /\ tx' = [tx EXCEPT ![w] = UpdateTransaction(canonical, isolation, Len(history))]
  /\ UNCHANGED <<menu, canonical, history, minted, last>>

\* What a statement leaves, and whether it failed.
Outcomes(prepared, results) == IF results = {} THEN {<<prepared, TRUE>>} ELSE results \X {FALSE}
Attempt(prepared, id, stmt) ==
  Outcomes(prepared, IF stmt.do \in Queries THEN query(prepared, stmt)
                                            ELSE execute_validated(prepared, id, stmt))

\* The statement in the update's script, with what it answered.
Noted(t, after, id, stmt, failed) ==
  [after EXCEPT !.script = Append(@,
     [stmt |-> stmt, id |-> id, covered |-> Covered(t, after, stmt),
      on |-> Target(t.branch, stmt),
      view |-> stmt.do = "Select" /\ stmt.name \in DOMAIN t.branch.views,
      answer |-> IF failed THEN {} ELSE {x[2] : x \in Reference(t.branch, id, stmt)}])]

\* UpdateTransaction::execute and query.
Execute(w, stmt) ==
  LET t == tx[w]
      id == 100 * (minted + 1)
  IN /\ Open(w) /\ Len(t.script) < MaxStatements /\ minted < menu[2]
     /\ \E o \in Attempt(Prepared(t, stmt), id, stmt) :
          tx' = [tx EXCEPT ![w] = Noted(t, o[1], id, stmt, o[2])]
     /\ minted' = minted + 1
     /\ UNCHANGED <<menu, canonical, history, last>>

\* The closure returns an error: the branch goes.
Abandon(w) ==
  /\ Open(w)
  /\ tx' = [tx EXCEPT ![w] = Done]
  /\ UNCHANGED <<menu, canonical, history, minted, last>>

\* read_prefixes: a name that had no identity refuses the update.
read_prefixes(t) ==
  IF t.unresolved # {} THEN {} ELSE {{table_prefix(x) : x \in t.read_tables}}

\* into_branch_parts: the traced tables join the footprint.
into_branch_parts(t) == {serializable_read(t, keys).footprint : keys \in read_prefixes(t)}

\* history_after, and the check against it.
conflicts(t, footprint) ==
  \E i \in (t.at + 1)..Len(history) : conflicts_with_writes(footprint, t.isolation, history[i])

\* prepare: check, then replay on the canonical database.
prepare(t, footprint) ==
  IF conflicts(t, footprint) THEN {}
    ELSE FoldLeft(LAMBDA dbs, op : UNION {apply_speculative(d, op) : d \in dbs},
                  {canonical}, t.operations)

TransactionWrites(t) ==
  WriteRegions(UNION {to_homebase(op).mutations : op \in Elements(t.operations)})

\* The closure returns: commit, if there is anything to commit.
CommitResults(t) == IF t.operations = <<>> THEN {} ELSE UNION {prepare(t, f) : f \in into_branch_parts(t)}
Publish(t, results) ==
  IF results = {} THEN UNCHANGED <<canonical, history, last>>
    ELSE \E d \in results :
           /\ canonical' = d
           /\ history' = Append(history, TransactionWrites(t))
           /\ last' = {[before |-> canonical, update |-> t]}
Commit(w) ==
  /\ Open(w)
  /\ tx' = [tx EXCEPT ![w] = Done]
  /\ Publish(tx[w], CommitResults(tx[w]))
  /\ UNCHANGED <<menu, minted>>

Next ==
  \E w \in Writers :
    \/ \E isolation \in Levels : Begin(w, isolation)
    \/ \E stmt \in menu[1] : Execute(w, stmt)
    \/ Abandon(w)
    \/ Commit(w)

Spec == Init /\ [][Next]_vars

-----------------------------------------------------------------------------
(* Properties.                                                             *)

\* The statements that left something in the footprint, one after the other on
\* the database d, with the answers they gave: {} if one of them goes another way.
Goes(e, entry, again) ==
  IF entry.answer = {} THEN (IF again = {} THEN {e} ELSE {})
    ELSE {r[1] : r \in {x \in again : x[2] \in entry.answer}}
Serially(d, script) ==
  FoldLeft(LAMBDA ds, entry : UNION {Goes(e, entry, Reference(e, entry.id, entry.stmt)) : e \in ds}, {d},
           SelectSeq(script, LAMBDA entry : entry.covered))

Agree(r, s) == \A c \in DOMAIN r \cap DOMAIN s : r[c] = s[c]

CommitsSerially(commit) ==
  commit.update.isolation = "Serializable" =>
    {Observed(d) : d \in Serially(commit.before, commit.update.script)} = {Observed(canonical)}

\* A DELETE or UPDATE without a WHERE clause whose table is not read otherwise:
\* SQLite's authorizer reports no read of it, though "a statement may
\* conservatively assert a stable table root, but it may never omit a logical
\* dependency" (SQL_GRAMMAR.md).
Unread(t) ==
  \E e \in Elements(t.script) :
    /\ e.stmt.do = "Rows" /\ e.stmt.kind \in {"Clear", "Fill"}
    /\ ~ (e.on \subseteq t.read_tables)

\* "Identifier lookup is not an application-data read" (SCHEMA_EVOLUTION.md): what
\* was renamed meanwhile the update knows by identity.
Renamed(commit) ==
  LET old == commit.update.base.tables
      new == commit.before.tables
  IN \E t \in DOMAIN old \cap DOMAIN new :
       old[t].name # new[t].name \/ ~ Agree(old[t].names, new[t].names)

\* Serializable updates are serialized by their commits: run on the database it
\* committed to, with everything that was committed while it ran, each of an
\* update's statements would have answered the same and left the same database.
\* Except for rows no statement reports to have read (Unread), and statements
\* that left nothing in the footprint: an error, a write of what was there
\* already; and names (BranchHooks' authorizer, record_explicit_read,
\* execute_conditional_schema_noop, prepare).
CommitOrderIsSerial ==
  \A commit \in last : ~ Unread(commit.update) /\ ~ Renamed(commit) => CommitsSerially(commit)

\* Row changes that pass the check replay: an update of rows only, that conflicts
\* with nothing committed since its snapshot, is applied to the canonical database
\* without an error, at either isolation level and under whatever schema changes
\* it missed, tables created or dropped excepted (prepare: of the errors of a
\* replay only a constraint violation is reported as a conflict).
CheckedReplays ==
  \A w \in {v \in Writers : Open(v)} :
    LET t == tx[w]
    IN (/\ \A op \in Elements(t.operations) : op.op = "RowChanges"
        /\ DOMAIN t.base.tables = DOMAIN canonical.tables) =>
         \A footprint \in into_branch_parts(t) :
           conflicts(t, footprint) \/ prepare(t, footprint) # {}

\* The operations an update has recorded are what its statements did: replayed on
\* its snapshot they give its branch, whichever of its statements failed, at
\* whichever point, on the way (SQL_GRAMMAR.md: branch execution and canonical
\* application produce the same touched rows and catalog state).
BranchIsReplay ==
  \A w \in {v \in Writers : Open(v)} :
    {Observed(d) : d \in FoldLeft(LAMBDA dbs, op : UNION {apply(d, op) : d \in dbs},
                                  {tx[w].base}, tx[w].operations)}
      = {Observed(tx[w].branch)}

\* The hooks' catalog keeps up with the branch: every table a statement reads has
\* its identity there, one the update itself created or renamed included.  Only
\* a view has none, and reading one refuses a serializable update.
OnlyViewsUnresolved ==
  \A w \in {v \in Writers : Open(v)} :
    \A name \in tx[w].unresolved :
      \E e \in Elements(tx[w].script) :
        e.view /\ e.stmt.name = name

\* The check against what was committed since the snapshot is enough, for the order
\* of serializable updates and for the replay of row changes.
CheckSuffices == CommitOrderIsSerial /\ CheckedReplays

\* What the hooks recorded is what the statements did, under the names they had.
RecordingIsExact == BranchIsReplay /\ OnlyViewsUnresolved
=============================================================================
