-------------------------- MODULE LogicalReplicas ---------------------------
(***************************************************************************)
(* Replicas of one Multilite database exchanging logical transactions      *)
(* (multilite/src/logical/operation.rs and transaction.rs,                 *)
(* multilite/src/database/pending.rs and rebase.rs).                       *)
(*                                                                         *)
(* A replica runs a statement speculatively and keeps the transaction      *)
(* pending.  Pushing the oldest one either has it admitted or unwinds the  *)
(* whole pending window.  A replica with nothing pending applies what the  *)
(* others had admitted, its own transactions being applied already.  What  *)
(* the commit and sync layers do around this is the subject of Replica and *)
(* Coordinator; here a transaction is one operation and a push is atomic.  *)
(***************************************************************************)
EXTENDS Operations

CONSTANTS
  Devices,
  Base,        \* the database every replica starts from
  Menus,       \* <<statements, number>>: a behaviour runs so many of one menu's
  MaxPending   \* bound on a replica's pending window

VARIABLES
  menu,        \* the menu of this behaviour
  db,          \* the canonical database of each replica
  pending,     \* its pending transactions, oldest first
  log,         \* the admitted transactions
  applied,     \* how much of the log a replica has applied
  stuck,       \* "no", or what failed: "apply" or "repair"
  confirmed,   \* ghost: the replica's database without its pending window
  minted       \* identities handed out

vars == <<menu, db, pending, log, applied, stuck, confirmed, minted>>

-----------------------------------------------------------------------------

Destructive(op) == repair_spec(op) # {}

\* reopen, once classify has found the file initialised: its checks of the
\* schema catalog, the repair sidecars and the pending window.
reopen(d) ==
  /\ catalog_validate(db[d])
  /\ repair_validate(db[d])
  /\ validate_expected(db[d], UNION {repair_spec(e.batch.op) : e \in Elements(pending[d])})

-----------------------------------------------------------------------------

Init ==
  /\ menu \in Menus
  /\ db = [d \in Devices |-> Base]
  /\ pending = [d \in Devices |-> <<>>]
  /\ log = <<>>
  /\ applied = [d \in Devices |-> 0]
  /\ stuck = [d \in Devices |-> "no"]
  /\ confirmed = [d \in Devices |-> Base]
  /\ minted = 0

\* A local transaction of one statement.
Update(d, stmt) ==
  /\ stuck[d] = "no" /\ minted < menu[2] /\ Len(pending[d]) < MaxPending
  /\ \E op \in Prepare(db[d], 100 * (minted + 1), stmt) :
       /\ \E after \in apply_speculative(db[d], op) : db' = [db EXCEPT ![d] = after]
       /\ pending' = [pending EXCEPT ![d] =
                        Append(@, [batch |-> compile(op), upto |-> applied[d]])]
  /\ minted' = minted + 1
  /\ UNCHANGED <<menu, log, applied, stuck, confirmed>>

\* The authority's check of the assertions: nothing another device had admitted
\* after the snapshot rewrites a guarded prefix.
Conflicts(d, entry) ==
  conflicts_with_writes(GuardFootprint(entry.batch.guards), "Snapshot",
    UNION {WriteRegions(log[i].batch.mutations) :
             i \in {j \in (entry.upto + 1)..Len(log) : log[j].device # d}})

\* accept_through, with the trim of the submit log.
Admitted(d) ==
  LET entry == Head(pending[d])
      op == entry.batch.op
  IN /\ stuck[d] = "no"
     /\ pending[d] # <<>>
     /\ ~ Conflicts(d, entry)
     /\ log' = Append(log, [device |-> d, batch |-> entry.batch, upto |-> entry.upto])
     /\ pending' = [pending EXCEPT ![d] = Tail(@)]
     /\ db' = [db EXCEPT ![d] = IF Destructive(op) THEN retire(@, op.mutation) ELSE @]
     /\ confirmed' = [confirmed EXCEPT ![d] = CHOOSE e \in apply(@, op) \cup {@} :
                                                apply(@, op) # {} => e \in apply(@, op)]
     /\ UNCHANGED <<menu, applied, stuck, minted>>

Unwound_oldest_first(d) ==
  {e \in FoldLeft(LAMBDA dbs, entry : UNION {rollback(x, entry.batch.op) : x \in dbs},
                  {db[d]}, pending[d]) : DOMAIN e.repairs = {}}

\* RejectionRepair::apply over prepare_rejection: newest first; no sidecar may
\* be left.
Unwound(d) ==
  {e \in FoldLeft(LAMBDA dbs, entry : UNION {rollback(x, entry.batch.op) : x \in dbs},
                  {db[d]}, Reverse(pending[d])) : DOMAIN e.repairs = {}}

Rejected(d) ==
  /\ stuck[d] = "no"
  /\ pending[d] # <<>>
  /\ Conflicts(d, Head(pending[d]))
  /\ IF Unwound(d) = {}
       THEN /\ stuck' = [stuck EXCEPT ![d] = "repair"]
            /\ UNCHANGED <<db, pending, confirmed>>
       ELSE /\ \E e \in Unwound(d) : /\ db' = [db EXCEPT ![d] = e]
                                      /\ confirmed' = [confirmed EXCEPT ![d] = e]
            /\ pending' = [pending EXCEPT ![d] = <<>>]
            /\ UNCHANGED stuck
  /\ UNCHANGED <<menu, log, applied, minted>>

\* CommitProposal::apply_admissions: the next admitted batch.
Rebase(d) ==
  LET next == log[applied[d] + 1]
      results == IF next.device = d THEN {db[d]} ELSE apply(db[d], next.batch.op)
  IN /\ stuck[d] = "no"
     /\ pending[d] = <<>>
     /\ applied[d] < Len(log)
     /\ IF results = {}
          THEN /\ stuck' = [stuck EXCEPT ![d] = "apply"]
               /\ UNCHANGED <<db, applied, confirmed>>
          ELSE /\ \E e \in results : /\ db' = [db EXCEPT ![d] = e]
                                     /\ confirmed' = [confirmed EXCEPT ![d] = e]
               /\ applied' = [applied EXCEPT ![d] = @ + 1]
               /\ UNCHANGED stuck
     /\ UNCHANGED <<menu, pending, log, minted>>

Next ==
  \E d \in Devices :
    \/ \E stmt \in menu[1] : Update(d, stmt)
    \/ Admitted(d)
    \/ Rejected(d)
    \/ Rebase(d)

Spec == Init /\ [][Next]_vars

Drained(d) == stuck[d] = "no" /\ pending[d] = <<>> /\ applied[d] = Len(log)

-----------------------------------------------------------------------------
(* The reasons for which a replica refuses what the authority admitted.    *)

Failing(d) == log[applied[d] + 1].batch.op
Current(d, table) == db[d].tables[table].def

\* Everything the operation names is still there, and something of it under
\* another spelling.
StaleSpelling(d, op) ==
  CASE op.op = "AddColumn" ->
         \/ \E c \in Elements(op.spec.checks) :
              /\ bind_expression(c.expr, Append(Current(d, op.table).columns, op.spec.column)) = {}
              /\ \A k \in Elements(OwnedChecks(op.after, op.column)) :
                   k.deps \ {op.column} \subseteq ColumnIds(Current(d, op.table))
         \/ \E f \in Elements(op.spec.fks) : name_by_id(db[d], f.parent) \notin {{}, {f.pname}}
    [] op.op = "CreateIndex" ->
         /\ op.index.deps \subseteq ColumnIds(Current(d, op.table))
         /\ bind_expression(op.index.pred, Current(d, op.table).columns) = {}
    [] op.op = "CreateView" ->
         /\ \A dep \in op.deps : dep.table \in DOMAIN db[d].tables
              /\ {c[1] : c \in dep.columns} \subseteq ColumnIds(Current(d, dep.table))
         /\ ~ validate_dependencies(db[d], op)
    [] op.op = "DropIndex" ->
         \E x \in Elements(Active(Current(d, op.table).indexes)) :
           x # op.index /\ [x EXCEPT !.pred = op.index.pred] = op.index
    [] op.op = "DropConstraint" ->
         \E c \in Elements(Active(Current(d, op.table).checks)), k \in Elements(op.before.checks) :
           c # k /\ k.name = op.name /\ [c EXCEPT !.expr = k.expr] = k
    [] op.op = "DropTable" ->
         /\ op.table \in DOMAIN db[d].tables /\ Current(d, op.table) # op.before
         /\ Schema(Current(d, op.table)) = Schema(op.before)
    [] OTHER -> FALSE

\* SQLite cannot rebuild a table that a view reads: without the views over it,
\* the operation applies.
RebuildUnderView(d, op) ==
  /\ op.op \in {"AddColumn", "DropConstraint"} /\ ViewsOver(db[d], op.table) # {}
  /\ apply([db[d] EXCEPT !.views = Restrict(@, DOMAIN @ \ ViewsOver(db[d], op.table))], op) # {}

\* A change of the parent's rows from before the child table was created does
\* not know its foreign key.
UnknownChild(d, op) ==
  op.op = "RowChanges" /\ \E t \in Elements(op.tables) :
    \E i \in incoming_foreign_keys(db[d], t.rules.table) :
      IncomingRule(i) \notin t.rules.incoming

\* Nor does the catalog know the foreign key of a child table that is gone.
DroppedChild(d, op) ==
  op.op = "RowChanges" /\ \E t \in Elements(op.tables) :
    \E i \in t.rules.incoming : i[2] \notin DOMAIN db[d].tables

-----------------------------------------------------------------------------
(* The reasons for which an inverse fails.                                 *)

\* Undone in the order they were done, the rows of one statement pass through
\* a duplicate: a later row still holds the key an earlier one returns to.
CrossesKeys(op) ==
  op.op = "RowChanges" /\ \E t \in Elements(op.tables) : \E x \in t.rules.indexes :
    \E i, j \in DOMAIN t.rows :
      /\ i < j /\ t.rows[i].before # None /\ t.rows[j].after # None
      /\ t.rows[i].before[x[2]] = t.rows[j].after[x[2]]
      /\ t.rows[i].before[x[2]] # NULL

\* Undoing a RENAME COLUMN quotes the name in every expression, and the inverse
\* of an earlier operation compares the expression's text.
Respells(window) ==
  \E i, j \in DOMAIN window :
    LET op == window[i].batch.op
    IN /\ i < j /\ window[j].batch.op.op = "RenameColumn"
       /\ op.op \in {"CreateIndex", "DropIndex", "DropConstraint", "CreateTable"}
       /\ op.table = window[j].batch.op.table

\* The added column's constraints became the table's when it was rebuilt, or
\* restored after a DROP TABLE.
RebuiltAfterAdd(d, window) ==
  \E i \in DOMAIN window :
    LET op == window[i].batch.op
    IN /\ op.op = "AddColumn"
       /\ added_column_changes_write_contract(op.after, op.column)
       /\ \/ op.table \notin DOMAIN db[d].tables
          \/ ~ DroppableInPlace(db[d].tables[op.table], op.column)

-----------------------------------------------------------------------------
(* The keys a database has at the authority.                               *)

TableKeys(d, t) ==
  LET entry == d.tables[t]
      rules == RulesOf(d, t, index_rules(entry.def), FALSE)
  IN UNION {
       {schema_object_name_scope_key(entry.name)},
       {schema_object_name_scope_key(x.name) : x \in Elements(Active(entry.def.indexes))},
       {column_name_scope_key(t, c.name) : c \in Elements(entry.def.columns)},
       {active_constraint_key(t, i) : i \in {entry.def.primary.id}
                                               \cup {x[1] : x \in rules.indexes}},
       {constraint_reference_key(f[3], f[4], f[1]) : f \in rules.fks},
       {row_key(rules, r) : r \in entry.rows},
       UNION {index_entries(rules, r) \cup foreign_references(rules, r) : r \in entry.rows}}

KeysOf(d) ==
  UNION {TableKeys(d, t) : t \in DOMAIN d.tables}
    \cup {schema_object_name_scope_key(v) : v \in DOMAIN d.views}

\* What the authority holds after the log, starting from the keys of Base.
AuthorityKeys ==
  FoldLeft(LAMBDA keys, entry :
             LET of(kind) == {m[2] : m \in {x \in entry.batch.mutations : x[1] = kind}}
             IN {k \in keys \ of("Delete") :
                   ~ \E p \in of("DeletePrefix") : starts_with(k, p)} \cup of("Set"),
           KeysOf(Base), log)

-----------------------------------------------------------------------------
(* Properties.                                                             *)

\* Every compiled operation obeys the contract of guard.rs: each guard and each
\* mutation is of a family the operation may touch, the operation's mandatory
\* guards are there, and every key it writes carries the guards its family
\* requires, and its repair is the one its family is allowed (MultiliteOp::compile
\* fails otherwise: validate_compiled_output, validate_rejection).
Contract ==
  \A d \in Devices : pending[d] # <<>> =>
    LET batch == Last(pending[d]).batch
        op == batch.op
        mutations == batch.mutations \ SetAt({transaction_log_key(op.mutation)})
    IN /\ \A g \in batch.guards : GuardAllowed(op.op, g)
       /\ validate_compiled_output(op.op, mutations, batch.guards)
       /\ validate_rejection(op.op, rejection_kind(op))

\* Two replicas that have nothing pending and have applied the whole log hold
\* the same tables, columns in the same order, constraints, rows, views and
\* user version, in whatever order each came to them: its own operations first
\* (tests/operation_pairs.rs asserts it of single pairs).
Converge ==
  \A d, e \in Devices : Drained(d) /\ Drained(e) => Observed(db[d]) = Observed(db[e])

\* Undoing a rejected window gives back the database without it: the rows, the
\* values of a dropped column, a dropped table with its rows and its place in
\* the column order (RejectionRepair::apply).
RejectionRestores ==
  [][\A d \in Devices :
       pending[d] # <<>> /\ pending'[d] = <<>> /\ log' = log =>
         Observed(db'[d]) = Observed(confirmed[d])]_vars

\* A replica can apply what the authority admitted, except for the refusals
\* named above: an operation compiled against a name that was renamed, a
\* rebuild of a table under a view, and row changes compiled without, or with,
\* the foreign key of a child table that came or went.
AdmittedApplies ==
  \A d \in Devices : stuck[d] = "apply" =>
    \/ StaleSpelling(d, Failing(d))
    \/ RebuildUnderView(d, Failing(d))
    \/ UnknownChild(d, Failing(d))
    \/ DroppedChild(d, Failing(d))

\* A rejected window can be undone, except for the failures named above: rows
\* that exchange a unique value, expressions a rename re-quoted, and an added
\* column whose constraints a rebuild made the table's.
WindowInvertible ==
  \A d \in Devices : stuck[d] = "repair" =>
    \/ \E e \in Elements(pending[d]) : CrossesKeys(e.batch.op)
    \/ Respells(pending[d])
    \/ RebuiltAfterAdd(d, pending[d])

\* A replica stopped after any transaction opens again: its column names and
\* column order are those of its definitions, no two tables share an index name
\* or a foreign key, and it keeps the repair sidecar of exactly the destructive
\* operations it has pending, so none is missing when a rejection needs it and
\* none outlives the decision (reopen: catalog.rs and repair.rs, validate and
\* validate_expected).
Reopens == \A d \in Devices : reopen(d)

\* Whatever a replica ran, undid and applied, its rows satisfy its constraints,
\* its foreign keys resolve, every definition is valid and every view's tables
\* exist.
Consistent ==
  \A d \in Devices :
    /\ ForeignKeysHold(db[d])
    /\ \A t \in DOMAIN db[d].tables :
         /\ RowsAllowed(db[d].tables[t].def, db[d].tables[t].rows)
         /\ validate_table_schema(t, db[d].tables[t].def)
         /\ validate_foreign_key_parents(db[d], t, db[d].tables[t].def)
    /\ \A v \in DOMAIN db[d].views : db[d].views[v] \subseteq DOMAIN db[d].tables

Mirrored == {"SchemaObjectName", "ColumnName", "ActiveConstraint", "ConstraintReference", "Row"}

\* The keys at the authority are those of the database: a drained replica finds
\* there every name binding, active constraint, row, unique owner and foreign
\* reference it has, and no name, constraint, reference or row it has not.
AuthorityMirrors ==
  \A d \in Devices : Drained(d) =>
    /\ KeysOf(db[d]) \subseteq AuthorityKeys
    /\ \A k \in AuthorityKeys : classify(k) \in Mirrored => k \in KeysOf(db[d])

\* Replicas that have nothing left to do agree, with each other and with what the
\* authority has on record.
ReplicasAgree == Converge /\ AuthorityMirrors

\* A replica never stops working but for the named reasons: it applies what was
\* admitted and undoes what was rejected.
OnlyNamedFailures == AdmittedApplies /\ WindowInvertible

\* Every state in which a replica may be stopped is one to go on from: it is
\* consistent, it opens, and what waits in it is fit to be sent.
StaysUsable == Consistent /\ Reopens /\ Contract
=============================================================================
