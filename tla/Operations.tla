----------------------------- MODULE Operations -----------------------------
\* The logical operations, in four parts: their lowering to the authority, row
\* changes, the operation families as a whole (prepare, apply, undo), and the
\* statements that produce them.
(***************************************************************************)
(* Lowering of schema operations to the authority (to_homebase in          *)
(* multilite/src/logical: alter.rs, index.rs, drop_table.rs, view.rs,      *)
(* user_version.rs, schema.rs).  The result [mutations, guards] depends on *)
(* the operation alone.  The key of a table schema carries the definition  *)
(* it stores, whose content the revision identifies.                       *)
(***************************************************************************)
EXTENDS Catalog

SetAt(keys) == {"Set"} \X keys
DeleteAt(keys) == {"Delete"} \X keys
DeleteUnder(prefixes) == {"DeletePrefix"} \X prefixes
Invariant(reason, keys) == {"Invariant"} \X {reason} \X keys
Write(reason, keys) == {"Write"} \X {reason} \X keys
Guarded(reason, keys) == Invariant(reason, keys) \cup Write(reason, keys)

primary_index_prefix(table, def) == value_target(table, "rows", def.primary.id, <<>>)

\* rename_homebase.
rename_homebase(op, reason, old, new) ==
  [mutations |-> SetAt({schema_log_key(op.mutation), new}) \cup DeleteAt({old}),
   guards |-> Invariant(reason, {old, new})]

\* A foreign key added with a column writes the parent column's name, so that
\* a rename of it conflicts in either order.
AddedReference(f) ==
  LET column == column_name_scope_key(f.parent, f.pcolname)
      reference == constraint_reference_key(f.parent, f.pindex, f.id)
      revision == write_revision_key(f.parent)
  IN [mutations |-> SetAt({column, reference, revision}),
      guards |-> UNION {
        Invariant("SchemaObjectName", {schema_object_name_scope_key(f.pname)}),
        Invariant("SchemaRevision", {active_schema_revision_key(f.parent)}),
        Guarded("ColumnNameBinding", {column}),
        Invariant("ConstraintState", {active_constraint_key(f.parent, f.pindex)}),
        Guarded("ConstraintReference", {reference}),
        Invariant("ExistingRows", {table_row_prefix(f.parent)}),
        Write("WriteContract", {revision})}]

add_column_homebase(op) ==
  LET t == op.table
      def == op.after
      name == column_name_scope_key(t, op.name)
      \* added_column_dependencies: the names its CHECKs spell.
      read == {column_name_scope_key(t, n) :
                 n \in UNION {referenced_columns(c.expr) :
                                c \in Elements(OwnedChecks(def, op.column))}}
      depends == {column_check_dependency_key(t, d, op.column) :
                    d \in column_check_dependencies(def, op.column)}
      references == {AddedReference(f) : f \in Elements(added_column_foreign_keys(def, op.column))}
      bindings == {constraint_name_scope_key(t, x.name) :
                     x \in {y \in Elements(OwnedChecks(def, op.column))
                                    \cup Elements(added_column_foreign_keys(def, op.column)) :
                              y.name # Unnamed}}
      contract == IF added_column_changes_write_contract(def, op.column)
                    THEN {write_revision_key(t)} ELSE {}
      existing == IF contract # {} THEN {primary_index_prefix(t, op.before)} ELSE {}
  IN [mutations |-> SetAt({schema_log_key(op.mutation), name, table_schema_key(t, def)}
                            \cup depends \cup bindings \cup contract)
                      \cup UNION {r.mutations : r \in references},
      guards |-> UNION ({Guarded("ColumnNameBinding", {name}),
                         Invariant("ColumnNameBinding", read),
                         Guarded("ColumnDependency", depends),
                         Invariant("ConstraintNameBinding", bindings),
                         Write("WriteContract", contract),
                         Invariant("ExistingRows", existing)}
                          \cup {r.guards : r \in references})]

drop_column_homebase(op) ==
  LET t == op.table
      name == column_name_scope_key(t, op.name)
      depends == {column_check_dependency_key(t, d, op.column) :
                    d \in column_check_dependencies(op.before, op.column)}
      dependents == column_dependency_prefix(t, op.column)
      bindings == {constraint_name_scope_key(t, c.name) :
                     c \in {x \in Elements(OwnedChecks(op.before, op.column)) :
                              x.name # Unnamed}}
  IN [mutations |-> UNION {SetAt({schema_log_key(op.mutation), table_schema_key(t, op.after)}),
                           DeleteAt({name} \cup depends \cup bindings),
                           DeleteUnder({dependents})},
      guards |-> UNION {Invariant("ColumnNameBinding", {name}),
                        Invariant("ViewDependency", {view_dependency_prefix(t)}),
                        Guarded("ColumnDependency", depends \cup {dependents}),
                        Guarded("ConstraintNameBinding", bindings)}]

drop_constraint_homebase(op) ==
  LET t == op.table
      kept(field) == {k[2] : k \in {x \in droppable_constraint_named(op.before, op.name) :
                                      x[1] = field}}
      name == constraint_name_scope_key(t, op.name)
      active == {active_constraint_key(t, u.id) : u \in kept("uniques")}
      referrers == {constraint_reference_prefix(t, u.id) : u \in kept("uniques")}
      reference == {constraint_reference_key(f.parent, f.pindex, f.id) : f \in kept("fks")}
  IN [mutations |-> UNION {SetAt({schema_log_key(op.mutation), table_schema_key(t, op.after)}),
                           DeleteAt({name} \cup active \cup reference),
                           DeleteUnder(referrers)},
      guards |-> UNION {Guarded("ConstraintNameBinding", {name}),
                        Guarded("ConstraintState", active),
                        Guarded("ConstraintReference", referrers \cup reference)}]

create_table_homebase(op) ==
  LET t == op.table
      fks == Elements(op.def.fks)
      references == {constraint_reference_key(f.parent, f.pindex, f.id) : f \in fks}
      revisions == {write_revision_key(f.parent) : f \in fks} \cup {write_revision_key(t)}
      name == schema_object_name_scope_key(op.name)
  IN [mutations |-> SetAt(UNION {
        {schema_log_key(op.mutation), name, table_schema_key(t, op.def),
         active_schema_revision_key(t), active_primary_index_key(t),
         index_definition_key(t, op.def.primary.id),
         active_constraint_key(t, op.def.primary.id)},
        {index_definition_key(t, u.id) : u \in Elements(op.def.uniques)},
        {active_constraint_key(t, u.id) : u \in Elements(op.def.uniques)},
        {column_name_scope_key(t, c.name) : c \in Elements(op.def.columns)},
        {constraint_name_scope_key(t, n) : n \in Elements(ConstraintNames(op.def))},
        revisions, references}),
      guards |-> UNION {
        Invariant("SchemaObjectName", {name}),
        Invariant("SchemaRevision", {active_schema_revision_key(f.parent) : f \in fks}),
        Invariant("ConstraintState", {active_constraint_key(f.parent, f.pindex) : f \in fks}),
        Guarded("ConstraintReference", references),
        Write("WriteContract", revisions)}]

drop_table_homebase(op) ==
  LET t == op.table
      names == {schema_object_name_scope_key(n) :
                  n \in {op.source} \cup {x.name : x \in Elements(Active(op.before.indexes))}}
      fks == Elements(Active(op.before.fks))
      references == {constraint_reference_key(f.parent, f.pindex, f.id) : f \in fks}
      children == {foreign_reference_prefix(f.parent, f.id, f.pindex, <<>>) : f \in fks}
  IN [mutations |-> UNION {SetAt({schema_log_key(op.mutation)}),
                           DeleteAt(names \cup references),
                           DeleteUnder({table_prefix(t)} \cup children)},
      guards |-> UNION {Guarded("TableExistence", {table_prefix(t)}),
                        Invariant("SchemaObjectName", names),
                        Guarded("ConstraintReference", references),
                        Guarded("ForeignReference", children)}]

\* create_dependencies: the column and the names the predicate spells.
create_dependencies(op) ==
  {c.name : c \in {x \in Elements(op.before.columns) : x.id \in op.index.cols}}
    \cup referenced_columns(op.index.pred)

index_homebase(op) ==
  LET t == op.table
      x == op.index
      create == op.op = "CreateIndex"
      When(condition, keys) == IF condition THEN keys ELSE {}
      name == {schema_object_name_scope_key(x.name)}
      head == {active_schema_revision_key(t)}
      depends == {column_index_dependency_key(t, c, x.id) : c \in x.deps}
      active == When(x.unique, {active_constraint_key(t, x.id)})
      referrers == When(x.unique /\ ~ create, {constraint_reference_prefix(t, x.id)})
      owners == {value_target(t, "unique", x.id, <<image>>) : image \in op.backfill}
      contract == When(x.unique, {write_revision_key(t)})
      bound == name \cup depends \cup active
  IN [mutations |-> UNION {
        SetAt({schema_log_key(op.mutation), table_schema_key(t, op.after)} \cup head),
        IF create THEN SetAt(bound \cup owners \cup contract
                               \cup {index_definition_key(t, x.id)})
                  ELSE DeleteAt(bound),
        DeleteUnder(referrers)},
      guards |-> UNION {
        Invariant("SchemaObjectName", name),
        Guarded("SchemaRevision", head),
        Invariant("ColumnNameBinding",
                  When(create, {column_name_scope_key(t, n) : n \in create_dependencies(op)})),
        Guarded("ColumnDependency", depends),
        Guarded("ConstraintState", active),
        Guarded("ConstraintReference", referrers),
        IF create THEN Write("WriteContract", contract)
                  ELSE Invariant("WriteContract", contract),
        Invariant("ExistingRows",
                  When(x.unique /\ create, {primary_index_prefix(t, op.before)}))}]

view_homebase(op) ==
  LET name == schema_object_name_scope_key(op.name)
      markers == {view_dependency_key(dep.table, op.name) : dep \in op.deps}
      columns == UNION {{column_view_dependency_key(dep.table, c[1], op.name) :
                           c \in dep.columns} : dep \in op.deps}
      bound == {name} \cup markers \cup columns
  IN [mutations |-> SetAt({schema_log_key(op.mutation)})
                      \cup (IF op.op = "CreateView" THEN SetAt(bound) ELSE DeleteAt(bound)),
      guards |-> UNION {
        Invariant("SchemaObjectName", {name}),
        Invariant("ViewDependency", markers),
        Invariant("ViewDependency", {schema_object_name_scope_key(dep.name) : dep \in op.deps}),
        Guarded("ColumnDependency", columns),
        Invariant("ViewDependency",
                  UNION {{column_name_scope_key(dep.table, c[2]) : c \in dep.columns} :
                           dep \in op.deps})}]

user_version_homebase(op) ==
  [mutations |-> SetAt({user_version_key}), guards |-> Write("UserVersion", {user_version_key})]
-----------------------------------------------------------------------------
(***************************************************************************)
(* Row statements (multilite/src/logical/row.rs): the fold of SQLite's     *)
(* ordered preupdate stream into one net delta per row, its lowering to    *)
(* the authority, its replay on another replica and its inverse.           *)
(*                                                                         *)
(* A captured event is [table, before, after], a row or None on either     *)
(* side; an operation is the sequence of its tables' changes               *)
(* [rules, rows], rows being the sequence of deltas [before, after].       *)
(***************************************************************************)

None == <<>>
Present(rows) == SelectSeq(rows, LAMBDA r : r # None)
SortedSeq(ids) == SetToSortSeq(ids, <)

-----------------------------------------------------------------------------
(* RowRules: the keys of a table's rows at capture.                        *)

\* known_foreign_key_target_columns: of a key of the parent, retired or not.
known_foreign_key_target_columns(def, index) ==
  {k.col : k \in {x \in {def.primary} \cup Elements(def.uniques) : x.id = index}}
    \cup UNION {x.cols : x \in {y \in Elements(def.indexes) : y.unique /\ y.id = index}}

index_rules(def) ==
  {<<u.id, u.col>> : u \in Elements(Active(def.uniques))}
    \cup UNION {{x.id} \X x.cols : x \in {y \in Elements(Active(def.indexes)) : y.unique}}

known_index_rules(def) ==
  {<<u.id, u.col>> : u \in Elements(def.uniques)}
    \cup UNION {{x.id} \X x.cols : x \in {y \in Elements(def.indexes) : y.unique}}

\* foreign_key_rule: whether the catalog resolves the link; the parent has to
\* be there for a retired foreign key too.
foreign_key_rule(db, child, f, retired) ==
  /\ \E parent \in by_id(db, f.parent) :
       {f.pcol} = IF retired THEN known_foreign_key_target_columns(parent, f.pindex)
                             ELSE foreign_key_target_columns(parent, f.pindex)
  /\ f.col \in ColumnIds(db.tables[child].def)

ForeignRule(f) == <<f.id, f.col, f.parent, f.pindex, f.pcol>>
IncomingRule(i) == <<i[2].id, i[1], i[2].pindex, i[2].pcol>>

\* Every link of a table, outgoing and incoming, with the retired ones if asked.
Links(db, t, retired) ==
  ({t} \X Elements(IF retired THEN db.tables[t].def.fks ELSE Active(db.tables[t].def.fks)))
    \cup (IF retired THEN known_incoming_foreign_keys(db, t) ELSE incoming_foreign_keys(db, t))

LinksResolve(db, t, retired) ==
  \A link \in Links(db, t, retired) : foreign_key_rule(db, link[1], link[2], retired)

RulesOf(db, t, indexes, retired) ==
  [table |-> t, primary |-> db.tables[t].def.primary, indexes |-> indexes,
   fks |-> {ForeignRule(l[2]) : l \in {x \in Links(db, t, retired) : x[1] = t}},
   incoming |-> {IncomingRule(l) : l \in {x \in Links(db, t, retired) : x[2].parent = t}}]

\* RowRules::from_table.
from_table(db, t) ==
  IF LinksResolve(db, t, FALSE)
    THEN {RulesOf(db, t, index_rules(db.tables[t].def), FALSE)} ELSE {}

row_key(rules, row) == value_target(rules.table, "rows", rules.primary.id, <<row[rules.primary.col]>>)

\* index_entries: a NULL has none.
index_entries(rules, row) ==
  {value_target(rules.table, "unique", x[1], <<row[x[2]]>>) :
     x \in {y \in rules.indexes : row[y[2]] # NULL}}

foreign_references(rules, row) ==
  {foreign_reference_prefix(f[3], f[1], f[4],
                            <<row[f[2]], rules.primary.id, row[rules.primary.col]>>) :
     f \in {g \in rules.fks : row[g[2]] # NULL}}

incoming_reference_prefixes(rules, row) ==
  {foreign_reference_prefix(rules.table, i[1], i[3], <<row[i[4]]>>) :
     i \in {j \in rules.incoming : row[j[4]] # NULL}}

-----------------------------------------------------------------------------
(* TableChangesBuilder: the net effect of the events on one table.         *)

NoChanges == [rows |-> <<>>, current |-> <<>>, tombstones |-> <<>>]

\* The delta an event continues, or a new one.
Continue(b, known, before) ==
  IF known # {} THEN b.rows ELSE Append(b.rows, [before |-> before, after |-> None])
Slot(b, known) == IF known # {} THEN CHOOSE i \in known : TRUE ELSE Len(b.rows) + 1
Forget(f, key) == Restrict(f, DOMAIN f \ {key})
At(f, key) == {f[k] : k \in {key} \cap DOMAIN f}

\* An insert over a key deleted by the statement continues the deletion.
insert(b, key, row) ==
  LET known == {i \in At(b.tombstones, key) : b.rows[i].after = None}
      i == Slot(b, known)
  IN IF key \in DOMAIN b.current THEN {}
       ELSE {[rows |-> [Continue(b, known, None) EXCEPT ![i].after = row],
              current |-> (key :> i) @@ b.current,
              tombstones |-> Forget(b.tombstones, key)]}

delete(b, key, row) ==
  LET known == At(b.current, key)
      i == Slot(b, known)
  IN IF \E k \in known : b.rows[k].after # row THEN {}
       ELSE {[rows |-> [Continue(b, known, row) EXCEPT ![i].after = None],
              current |-> Forget(b.current, key),
              tombstones |-> (key :> i) @@ b.tombstones]}

update(b, key, before, moved, after) ==
  LET known == At(b.current, key)
      i == Slot(b, known)
      current == Forget(b.current, key)
  IN IF (\E k \in known : b.rows[k].after # before) \/ moved \in DOMAIN current THEN {}
       ELSE {[rows |-> [Continue(b, known, before) EXCEPT ![i].after = after],
              current |-> (moved :> i) @@ current,
              tombstones |-> IF key = moved THEN Forget(b.tombstones, key)
                                            ELSE (key :> i) @@ b.tombstones]}

Capture1(b, rules, e) ==
  CASE e.before = None -> insert(b, e.after[rules.primary.col], e.after)
    [] e.after = None -> delete(b, e.before[rules.primary.col], e.before)
    [] OTHER -> update(b, e.before[rules.primary.col], e.before,
                       e.after[rules.primary.col], e.after)

\* The builder of one table after the statement's events, if they fit together.
Built(db, events, t) ==
  UNION {FoldLeft(LAMBDA bs, e : UNION {Capture1(b, rules, e) : b \in bs},
                  {NoChanges}, SelectSeq(events, LAMBDA e : e.table = t)) :
           rules \in from_table(db, t)}

Touched(events) == {e.table : e \in Elements(events)}
Captured(db, events) == \A t \in Touched(events) : Built(db, events, t) # {}

\* RowChanges::from_catalog: tables by identity, without the deltas that end
\* where they began; nothing at all when no delta is left.
from_catalog(db, id, events) ==
  LET net(t) == SelectSeq((CHOOSE b \in Built(db, events, t) : TRUE).rows,
                          LAMBDA d : d.before # d.after)
      changed == {t \in Touched(events) : net(t) # <<>>}
  IN IF ~ Captured(db, events) \/ changed = {} THEN {}
       ELSE {[op |-> "RowChanges", mutation |-> id,
              tables |-> Mapped(SortedSeq(changed), LAMBDA t :
                [rules |-> CHOOSE r \in from_table(db, t) : TRUE, rows |-> net(t)])]}

-----------------------------------------------------------------------------
(* Lowering.                                                               *)

Befores(rows) == Present(Mapped(rows, LAMBDA d : d.before))
Afters(rows) == Present(Mapped(rows, LAMBDA d : d.after))

\* The entries of some rows, each with the row key that owns it.
OwnedEntries(rules, rows, Entries(_, _)) ==
  UNION {Entries(rules, r) \X {row_key(rules, r)} : r \in Elements(rows)}

\* lower_map_delta.
lower_map_delta(before, after, reason) ==
  LET gone == {e[1] : e \in before \ after}
      new == {e[1] : e \in after \ before}
  IN [mutations |-> DeleteAt(gone \ new) \cup SetAt(new),
      guards |-> Write(reason, gone) \cup Guarded(reason, new)]

lower(changes) ==
  LET rules == changes.rules
      before == Befores(changes.rows)
      after == Afters(changes.rows)
      keys(rows) == {row_key(rules, r) : r \in Elements(rows)}
      unique == lower_map_delta(OwnedEntries(rules, before, index_entries),
                                OwnedEntries(rules, after, index_entries), "UniqueOwnership")
      references == lower_map_delta(OwnedEntries(rules, before, foreign_references),
                                    OwnedEntries(rules, after, foreign_references),
                                    "ForeignReference")
      incoming(rows) == UNION {incoming_reference_prefixes(rules, r) : r \in Elements(rows)}
      abandoned == incoming(before) \ incoming(after)
  IN [mutations |-> UNION {DeleteAt(keys(before) \ keys(after)), SetAt(keys(after)),
                           unique.mutations, references.mutations, DeleteUnder(abandoned)},
      guards |-> UNION {Write("RowIdentity", keys(before)),
                        Guarded("RowIdentity", keys(after)),
                        unique.guards, references.guards,
                        Guarded("ForeignChildren", abandoned),
                        Invariant("PrimaryIndex", {active_primary_index_key(rules.table)}),
                        Invariant("WriteContract", {write_revision_key(rules.table)})}]

prune_redundant_point_deletes(mutations) ==
  {m \in mutations : ~ (/\ m[1] = "Delete"
                        /\ \E r \in mutations : r[1] = "DeletePrefix" /\ starts_with(m[2], r[2]))}

row_changes_homebase(op) ==
  LET lowered == {lower(t) : t \in Elements(op.tables)}
  IN [mutations |-> prune_redundant_point_deletes(UNION {l.mutations : l \in lowered}),
      guards |-> UNION {l.guards : l \in lowered}]

-----------------------------------------------------------------------------
(* Replay and inverse.                                                     *)

\* validate_against_catalog: the rules cover every active key and link and name
\* none the catalog never knew.
validate_against_catalog(db, rules) ==
  LET t == rules.table
      active == RulesOf(db, t, index_rules(db.tables[t].def), FALSE)
      known == RulesOf(db, t, known_index_rules(db.tables[t].def), TRUE)
  IN /\ t \in DOMAIN db.tables
     /\ LinksResolve(db, t, FALSE) /\ LinksResolve(db, t, TRUE)
     /\ rules.primary = db.tables[t].def.primary
     /\ \A field \in {"indexes", "fks", "incoming"} :
          active[field] \subseteq rules[field] /\ rules[field] \subseteq known[field]

\* materialized_rows: the replica's image of a captured row; the columns it
\* still has must hold the captured values.
materialized(entry, row) ==
  {r \in entry.rows : /\ KeyOf(entry.def, r) = row[entry.def.primary.col]
                      /\ \A c \in DOMAIN row \cap DOMAIN r : r[c] = row[c]}

\* One row written by SQLite, which checks the table's constraints row by row.
Put1(db, t, old, new) ==
  LET def == db.tables[t].def
      rows == (db.tables[t].rows \ {old}) \cup ({new} \ {None})
      \* A replaced or added row has a key of its own.
  IN IF new # None /\ (new \in db.tables[t].rows \ {old} \/ ~ RowsAllowed(def, rows)) THEN {}
       ELSE {[db EXCEPT !.tables[t].rows = rows]}

\* RowSet::apply: the columns the first row carries; the others default.
InsertedRow(def, first, row) ==
  [id \in ColumnIds(def) |->
     IF id \in DOMAIN first /\ id \in DOMAIN row THEN row[id]
       ELSE (CHOOSE c \in Elements(def.columns) : c.id = id).dflt]

InsertAll(db, t, rows) ==
  LET def == db.tables[t].def
      whole == \A r \in Elements(rows) : ColumnIds(def) \subseteq DOMAIN r
      written == ColumnIds(def) \cap DOMAIN rows[1]
  IN IF ~ whole /\ \E r \in Elements(rows) : ~ (written \subseteq DOMAIN r) THEN {}
       ELSE FoldLeft(LAMBDA dbs, r :
                       UNION {Put1(d, t, None, InsertedRow(def, rows[1], r)) : d \in dbs},
                     {db}, rows)

\* update_stable_rows: every column some row changes, row by row.
update_stable_rows(db, t, deltas) ==
  LET columns == {c \in ColumnIds(db.tables[t].def) :
                    \E d \in Elements(deltas) :
                      c \in DOMAIN d.before /\ d.before[c] # d.after[c]}
      assign(r, after) == [c \in DOMAIN r |-> IF c \in columns THEN after[c] ELSE r[c]]
      step(x, d) == UNION {Put1(x, t, r, assign(r, d.after)) :
                             r \in {q \in x.tables[t].rows :
                                      KeyOf(x.tables[t].def, q)
                                        = d.before[x.tables[t].def.primary.col]}}
  IN IF columns = {} THEN {db}
       ELSE FoldLeft(LAMBDA dbs, d : UNION {step(x, d) : x \in dbs}, {db}, deltas)

\* TableChanges::apply: deletions and moved rows go first, rows that keep their
\* key are updated in the delta's order, insertions and moved rows come last.
apply_table(db, changes, reverse) ==
  LET rules == changes.rules
      t == rules.table
      pk(row) == row[rules.primary.col]
      deltas == IF reverse THEN Mapped(changes.rows, LAMBDA d :
                                         [before |-> d.after, after |-> d.before])
                           ELSE changes.rows
      stable(d) == d.before # None /\ d.after # None /\ pk(d.before) = pk(d.after)
      current(d) == CHOOSE r \in materialized(db.tables[t], d.before) : TRUE
      carried(d) == [c \in DOMAIN current(d) |->
                       IF c \in DOMAIN d.after THEN d.after[c] ELSE current(d)[c]]
      target(d) == IF d.before = None THEN d.after ELSE carried(d)
      removed == {current(d) : d \in {e \in Elements(deltas) : e.before # None /\ ~ stable(e)}}
      inserted == Mapped(SelectSeq(deltas, LAMBDA d : d.after # None /\ ~ stable(d)), target)
      cleared == [db EXCEPT !.tables[t].rows = @ \ removed]
  IN IF ~ validate_against_catalog(db, rules)
          \/ \E d \in Elements(deltas) :
               d.before # None /\ materialized(db.tables[t], d.before) = {}
       THEN {}
       ELSE UNION {IF inserted = <<>> THEN {d} ELSE InsertAll(d, t, inserted) :
                     d \in update_stable_rows(cleared, t, SelectSeq(deltas, stable))}

\* RowChanges::apply and restore_materialized under apply_final_row_state: the
\* foreign keys are checked once, at the end.
ApplyTables(db, tables, reverse) ==
  {d \in FoldLeft(LAMBDA dbs, t : UNION {apply_table(x, t, reverse) : x \in dbs}, {db}, tables) :
     ForeignKeysHold(d)}

apply_row_changes(db, op) == ApplyTables(db, op.tables, FALSE)
restore_materialized(db, op) == ApplyTables(db, Reverse(op.tables), TRUE)

-----------------------------------------------------------------------------
(* Row statements as SQLite runs them (external): the events it reports.   *)

Event(t, before, after) == [table |-> t, before |-> before, after |-> after]
KeyOrder(def, rows) == SetToSortSeq(rows, LAMBDA r, s : KeyOf(def, r) < KeyOf(def, s))

\* The children that go with a parent row deleted under ON DELETE CASCADE.
Cascaded(db, t, row) ==
  LET links == {i \in incoming_foreign_keys(db, t) : i[2].cascade}
      rows(i) == {r \in db.tables[i[1]].rows : r[i[2].col] # NULL /\ r[i[2].col] = row[i[2].pcol]}
      events(i) == Mapped(KeyOrder(db.tables[i[1]].def, rows(i)), LAMBDA r : Event(i[1], r, None))
  IN FlattenSeq(SetToSeq({events(i) : i \in links}))

\* stmt.kind is one of Insert, Replace, Delete and Update of one key, Shift
\* (every row's column minus one), and without a WHERE clause Clear, which
\* deletes every row, and Fill, which sets a column of every row.
EventsOf(db, t, stmt) ==
  LET entry == db.tables[t]
      def == entry.def
      column == UNION {column_id_by_name(db, t, n) : n \in {stmt.column}}
      new == [id \in ColumnIds(def) |->
                CASE id = def.primary.col -> stmt.key
                  [] id # def.primary.col /\ id \in column -> stmt.value
                  [] OTHER -> (CHOOSE c \in Elements(def.columns) : c.id = id).dflt]
      at(k) == {r \in entry.rows : KeyOf(def, r) = k}
      victims == {r \in entry.rows : \E c \in UniqueColumns(def) : r[c] # NULL /\ r[c] = new[c]}
      deletion(r) == <<Event(t, r, None)>> \o Cascaded(db, t, r)
      set(r, F(_)) == [c \in DOMAIN r |-> IF c \in column THEN F(r[c]) ELSE r[c]]
      Down(v) == IF v = NULL THEN v ELSE v - 1
      Value(v) == stmt.value
  IN CASE stmt.kind = "Insert" -> <<Event(t, None, new)>>
       [] stmt.kind = "Replace" ->
            FlattenSeq(Mapped(KeyOrder(def, victims), deletion)) \o <<Event(t, None, new)>>
       [] stmt.kind = "Delete" ->
            FlattenSeq(Mapped(KeyOrder(def, at(stmt.key)), deletion))
       [] stmt.kind = "Clear" ->
            FlattenSeq(Mapped(KeyOrder(def, entry.rows), deletion))
       [] stmt.kind = "Fill" ->
            Mapped(KeyOrder(def, entry.rows), LAMBDA r : Event(t, r, set(r, Value)))
       [] stmt.kind = "Update" ->
            Mapped(KeyOrder(def, at(stmt.key)), LAMBDA r : Event(t, r, set(r, Value)))
       [] stmt.kind = "Shift" ->
            Mapped(KeyOrder(def, entry.rows), LAMBDA r : Event(t, r, set(r, Down)))

Run(db, events) ==
  {d \in FoldLeft(LAMBDA dbs, e : UNION {Put1(x, e.table, e.before, e.after) : x \in dbs},
                  {db}, events) : ForeignKeysHold(d)}

\* A statement that SQLite accepts, captured.
prepare_row_changes(db, id, stmt) ==
  UNION {LET events == EventsOf(db, t, stmt)
         IN IF events = <<>> \/ Run(db, events) = {} THEN {} ELSE from_catalog(db, id, events) :
           t \in by_name(db, stmt.table)}
-----------------------------------------------------------------------------
(***************************************************************************)
(* MultiliteOp and MultiliteTransaction: the dispatch of an operation to   *)
(* its family (multilite/src/logical/operation.rs and transaction.rs), and *)
(* what two databases are compared by.                                     *)
(***************************************************************************)

-----------------------------------------------------------------------------
(* MultiliteOp: dispatch over the operation families.                      *)

Prepare(d, id, stmt) ==
  CASE stmt.do = "RenameTable" -> prepare_rename_table(d, id, stmt)
    [] stmt.do = "RenameColumn" -> prepare_rename_column(d, id, stmt)
    [] stmt.do = "AddColumn" -> prepare_add_column(d, id, stmt)
    [] stmt.do = "DropColumn" -> prepare_drop_column(d, id, stmt)
    [] stmt.do = "DropConstraint" -> prepare_drop_constraint(d, id, stmt)
    [] stmt.do = "CreateTable" -> prepare_create_table(d, id, stmt)
    [] stmt.do = "DropTable" -> prepare_drop_table(d, id, stmt)
    [] stmt.do = "CreateIndex" -> prepare_create_index(d, id, stmt)
    [] stmt.do = "DropIndex" -> prepare_drop_index(d, id, stmt)
    [] stmt.do = "CreateView" -> prepare_create_view(d, id, stmt)
    [] stmt.do = "DropView" -> prepare_drop_view(d, id, stmt)
    [] stmt.do = "SetUserVersion" -> prepare_user_version(d, id, stmt)
    [] stmt.do = "Rows" -> prepare_row_changes(d, id, stmt)

to_homebase(op) ==
  CASE op.op = "RenameTable" ->
         rename_homebase(op, "SchemaObjectName", schema_object_name_scope_key(op.old),
                         schema_object_name_scope_key(op.new))
    [] op.op = "RenameColumn" ->
         rename_homebase(op, "ColumnNameBinding", column_name_scope_key(op.table, op.old),
                         column_name_scope_key(op.table, op.new))
    [] op.op = "AddColumn" -> add_column_homebase(op)
    [] op.op = "DropColumn" -> drop_column_homebase(op)
    [] op.op = "DropConstraint" -> drop_constraint_homebase(op)
    [] op.op = "CreateTable" -> create_table_homebase(op)
    [] op.op = "DropTable" -> drop_table_homebase(op)
    [] op.op \in {"CreateIndex", "DropIndex"} -> index_homebase(op)
    [] op.op \in {"CreateView", "DropView"} -> view_homebase(op)
    [] op.op = "SetUserVersion" -> user_version_homebase(op)
    [] op.op = "RowChanges" -> row_changes_homebase(op)

AlterFamily == {"RenameTable", "RenameColumn", "AddColumn", "DropColumn", "DropConstraint"}

\* AlterTableOperation::apply, with its catalog record.
apply_alter(d, op) ==
  IF ~ validate_catalog_before(d, op) THEN {}
    ELSE CASE op.op = "RenameTable" -> apply_rename_table(d, op)
           [] op.op = "RenameColumn" -> apply_rename_column(d, op)
           [] op.op = "AddColumn" -> apply_add_column(d, op)
           [] op.op = "DropColumn" -> apply_drop_column(d, op)
           [] op.op = "DropConstraint" -> apply_drop_constraint(d, op)

\* MultiliteOp::apply.
apply(d, op) ==
  CASE op.op \in AlterFamily -> apply_alter(d, op)
    [] op.op = "CreateTable" -> apply_create_table(d, op)
    [] op.op = "DropTable" -> apply_drop_table(d, op)
    [] op.op = "CreateIndex" -> apply_create_index(d, op)
    [] op.op = "DropIndex" -> apply_drop_index(d, op)
    [] op.op = "CreateView" -> AddView(d, op)
    [] op.op = "DropView" -> RemoveView(d, op)
    [] op.op = "SetUserVersion" -> {[d EXCEPT !.version = op.after]}
    [] op.op = "RowChanges" -> apply_row_changes(d, op)

\* MultiliteOp::compile: the repair an operation is given in case it is rejected.
rejection_kind(op) ==
  CASE op.op \in AlterFamily -> "RevertAlterTable"
    [] op.op = "CreateTable" -> "RemoveCreatedTable"
    [] op.op = "DropTable" -> "RestoreDroppedTable"
    [] op.op = "RowChanges" -> "RestoreRowChanges"
    [] op.op \in {"CreateIndex", "DropIndex"} -> "RevertIndex"
    [] op.op = "SetUserVersion" -> "RestoreUserVersion"
    [] op.op \in {"CreateView", "DropView"} -> "RevertView"

\* apply_rejection: the inverse of one operation.
rollback(d, op) ==
  IF op.op \in AlterFamily /\ ~ validate_catalog_after(d, op) THEN {}
    ELSE CASE op.op = "RenameTable" -> rollback_rename_table(d, op)
           [] op.op = "RenameColumn" -> rollback_rename_column(d, op)
           [] op.op = "AddColumn" -> rollback_add_column(d, op)
           [] op.op = "DropColumn" -> rollback_drop_column(d, op)
           [] op.op = "DropConstraint" -> rollback_drop_constraint(d, op)
           [] op.op = "CreateTable" -> rollback_create_table(d, op)
           [] op.op = "DropTable" -> rollback_drop_table(d, op)
           [] op.op = "CreateIndex" -> rollback_create_index(d, op)
           [] op.op = "DropIndex" -> rollback_drop_index(d, op)
           [] op.op = "CreateView" -> RemoveView(d, op)
           [] op.op = "DropView" -> AddView(d, op)
           [] op.op = "SetUserVersion" -> rollback_user_version(d, op)
           [] op.op = "RowChanges" -> restore_materialized(d, op)

\* compile_operations: the manifest first, then the operation's mutations.
compile(op) ==
  LET lowered == to_homebase(op)
  IN [op |-> op, guards |-> lowered.guards,
      mutations |-> SetAt({transaction_log_key(op.mutation)}) \cup lowered.mutations]

\* apply_speculative: capture the inverse state, then apply.
apply_speculative(d, op) == UNION {apply(e, op) : e \in capture_local_repair(d, op)}

-----------------------------------------------------------------------------
(* What two databases have in common when they hold the same schema and    *)
(* rows: neither the quoting of renamed columns in expressions, the order  *)
(* of constraints, nor columns that are gone.                              *)

Plain(expression) == Mapped(expression, LAMBDA token : token.name)

Schema(def) ==
  [columns |-> def.columns, primary |-> def.primary, uniques |-> Elements(def.uniques),
   fks |-> Elements(def.fks),
   checks |-> {[c EXCEPT !.expr = Plain(@)] : c \in Elements(def.checks)},
   indexes |-> {[x EXCEPT !.pred = Plain(@)] : x \in Elements(def.indexes)}]

Observed(d) ==
  [tables |-> [t \in DOMAIN d.tables |-> <<d.tables[t].name, Schema(d.tables[t].def),
                                           d.tables[t].rows>>],
   views |-> d.views, version |-> d.version]
-----------------------------------------------------------------------------
(***************************************************************************)
(* The database the instances of the logical layer start from, a parent    *)
(* table p and a child table c with every kind of constraint, an index and *)
(* a few rows, and the statements they run.                                *)
(***************************************************************************)

Column(id, name) == [id |-> id, name |-> name, notnull |-> FALSE, dflt |-> NULL]
Token(name) == [name |-> name, quoted |-> FALSE]

ParentDef ==
  [columns |-> <<Column(11, "k"), Column(12, "u"), Column(13, "a")>>,
   primary |-> [id |-> 14, col |-> 11],
   uniques |-> <<[id |-> 15, name |-> "un", col |-> 12, active |-> TRUE]>>,
   checks |-> <<[name |-> "ca", owner |-> 13, expr |-> <<Token("a")>>, deps |-> {13},
                 active |-> TRUE],
                [name |-> "ct", owner |-> TableOwned, expr |-> <<Token("u")>>, deps |-> {12},
                 active |-> TRUE]>>,
   fks |-> <<>>, indexes |-> <<>>]

ChildDef ==
  [columns |-> <<Column(21, "k"), Column(22, "r")>>,
   primary |-> [id |-> 24, col |-> 21], uniques |-> <<>>, checks |-> <<>>,
   fks |-> <<[id |-> 25, name |-> "fk", col |-> 22, parent |-> 1, pname |-> "p",
              pindex |-> 15, pcol |-> 12, pcolname |-> "u", cascade |-> TRUE,
              active |-> TRUE]>>,
   indexes |-> <<[id |-> 26, name |-> "ix", unique |-> FALSE, cols |-> {22},
                  pred |-> <<Token("r")>>, deps |-> {22}, active |-> TRUE]>>]

MCBase ==
  [tables |-> (1 :> NewTable("p", ParentDef, {(11 :> 1) @@ (12 :> 4) @@ (13 :> 0),
                                              (11 :> 2) @@ (12 :> 5) @@ (13 :> 0)}))
              @@ (2 :> NewTable("c", ChildDef, {(21 :> 1) @@ (22 :> 4)})),
   views |-> <<>>, version |-> 0, repairs |-> <<>>]

AddPlain(t, c) == [do |-> "AddColumn", table |-> t, column |-> c, notnull |-> FALSE,
                   dflt |-> NULL, checks |-> <<>>, refs |-> <<>>]
AddChecked(t, c, n, reads) ==
  [AddPlain(t, c) EXCEPT !.checks = <<[name |-> n, expr |-> <<Token(reads)>>]>>]
AddReference(t, c, n, parent, column) ==
  [AddPlain(t, c) EXCEPT !.refs = <<[name |-> n, parent |-> parent, column |-> column]>>]
RenameTable(t, n) == [do |-> "RenameTable", table |-> t, new |-> n]
RenameColumn(t, o, n) == [do |-> "RenameColumn", table |-> t, old |-> o, new |-> n]
DropColumn(t, c) == [do |-> "DropColumn", table |-> t, column |-> c]
DropConstraint(t, n) == [do |-> "DropConstraint", table |-> t, name |-> n]
CreateTable(t, refs) == [do |-> "CreateTable", table |-> t, columns |-> <<"k", "m">>,
                         checks |-> <<[name |-> "cm", expr |-> <<Token("m")>>]>>, refs |-> refs]
DropTable(t) == [do |-> "DropTable", table |-> t]
CreateIndex(t, n, c, unique, pred) ==
  [do |-> "CreateIndex", table |-> t, name |-> n, column |-> c, unique |-> unique,
   pred |-> pred]
DropIndex(n) == [do |-> "DropIndex", name |-> n]
CreateView(n, t) == [do |-> "CreateView", name |-> n, table |-> t]
DropView(n) == [do |-> "DropView", name |-> n]
SetVersion(v) == [do |-> "SetUserVersion", value |-> v]
Rows(kind, t, key, column, value) ==
  [do |-> "Rows", kind |-> kind, table |-> t, key |-> key, column |-> column,
   value |-> value]

Child(t) == CreateTable(t, <<[name |-> "fd", col |-> "m", parent |-> "p", column |-> "u"]>>)
=============================================================================
