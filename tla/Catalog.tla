------------------------------ MODULE Catalog -------------------------------
\* Catalog state of a Multilite database, in four parts: the authority targets an
\* operation reads and writes, the catalog of tables, the steps of ALTER TABLE, and
\* the other schema operations (tables, indexes, views, user_version).
(***************************************************************************)
(* The authority key space of a Multilite database and the contract every  *)
(* compiled operation obeys (multilite/src/logical/guard.rs).  A key is a  *)
(* sequence of components as in KeyRanges; the root component every key    *)
(* starts with is left out.  Identities are numbers, names are strings and *)
(* a key image is the value it encodes.  A guard is the triple             *)
(* <<class, reason, key>>, a mutation the pair <<kind, key>>.              *)
(***************************************************************************)
EXTENDS Footprint, SequencesExt, FiniteSets, Naturals, Integers

-----------------------------------------------------------------------------
(* LogicalTarget::render: one constructor per target.                      *)

schema_log_key(mutation) == <<"schema", "log", mutation>>
schema_object_name_scope_key(name) == <<"schema", "names", "main", name>>
table_prefix(table) == <<"tables", table>>
table_schema_key(table, revision) == <<"tables", table, "schema", revision>>
column_name_scope_key(table, name) == <<"tables", table, "names", "columns", name>>
constraint_name_scope_key(table, name) ==
  <<"tables", table, "names", "constraints", name>>
active_constraint_key(table, constraint) ==
  <<"tables", table, "active-constraints", constraint>>
constraint_reference_prefix(table, constraint) ==
  <<"tables", table, "constraint-references", constraint>>
constraint_reference_key(table, constraint, foreignKey) ==
  Append(constraint_reference_prefix(table, constraint), foreignKey)
column_dependency_prefix(table, column) ==
  <<"tables", table, "column-dependencies", column>>
column_index_dependency_key(table, column, index) ==
  column_dependency_prefix(table, column) \o <<"indexes", index>>
column_check_dependency_key(table, column, owner) ==
  column_dependency_prefix(table, column) \o <<"columns", owner>>
column_view_dependency_key(table, column, view) ==
  column_dependency_prefix(table, column) \o <<"view-dependencies", view>>
active_primary_index_key(table) == <<"tables", table, "active-primary-index">>
active_schema_revision_key(table) == <<"tables", table, "active-schema-revision">>
index_definition_key(table, index) == <<"tables", table, "index-definitions", index>>
write_revision_key(table) == <<"tables", table, "write-revision">>
view_dependency_prefix(table) == <<"tables", table, "view-dependencies">>
view_dependency_key(table, view) == Append(view_dependency_prefix(table), view)
table_row_prefix(table) == <<"tables", table, "rows">>
value_target(table, label, index, images) ==
  <<"tables", table, label, index>> \o images
foreign_reference_prefix(parent, foreignKey, index, images) ==
  <<"tables", parent, "foreign-references", foreignKey, index>> \o images
transaction_log_key(transaction) == <<"transactions", "log", transaction>>
user_version_key == <<"metadata", "user-version">>

-----------------------------------------------------------------------------
(* TargetFamily::classify: the family of a rendered key, "None" for a key  *)
(* no constructor renders.                                                 *)

FixedTargets ==
  [label \in {"schema", "active-constraints", "active-primary-index",
              "active-schema-revision", "index-definitions", "write-revision"} |->
     CASE label = "schema" -> <<"TableSchema", 4>>
       [] label = "active-constraints" -> <<"ActiveConstraint", 4>>
       [] label = "active-primary-index" -> <<"ActivePrimaryIndex", 3>>
       [] label = "active-schema-revision" -> <<"ActiveSchemaRevision", 3>>
       [] label = "index-definitions" -> <<"IndexDefinition", 4>>
       [] label = "write-revision" -> <<"WriteRevision", 3>>]

TableFamily(key) ==
  LET n == Len(key)
      label == key[3]
  IN CASE label \in DOMAIN FixedTargets /\ n = FixedTargets[label][2] ->
            FixedTargets[label][1]
       [] label = "names" /\ n = 5 ->
            IF key[4] = "columns" THEN "ColumnName" ELSE "ConstraintName"
       [] label = "constraint-references" /\ n \in {4, 5} -> "ConstraintReference"
       [] label = "column-dependencies" /\ n >= 4 -> "ColumnDependency"
       [] label = "view-dependencies" /\ n \in {3, 4} -> "ViewDependency"
       [] label = "rows" /\ n = 3 -> "TableRows"
       [] label = "rows" /\ n >= 4 -> "Row"
       [] label = "unique" /\ n >= 4 -> "UniqueOwner"
       [] label = "foreign-references" /\ n >= 5 -> "ForeignReference"
       [] OTHER -> "None"

classify(key) ==
  CASE key[1] = "schema" /\ key[2] = "log" /\ Len(key) = 3 -> "SchemaLog"
    [] key[1] = "schema" /\ key[2] = "names" /\ Len(key) = 4 -> "SchemaObjectName"
    [] key[1] = "tables" /\ Len(key) = 2 -> "TableRoot"
    [] key[1] = "tables" /\ Len(key) > 2 -> TableFamily(key)
    [] key[1] = "transactions" /\ Len(key) = 3 -> "TransactionLog"
    [] key = user_version_key -> "UserVersion"
    [] OTHER -> "None"

-----------------------------------------------------------------------------
(* The contract tables.                                                    *)

Sets(operation, families) == {operation} \X {"Set"} \X families
Deletes(operation, families) == {operation} \X {"Delete"} \X families
Ranges(operation, families) == {operation} \X {"DeletePrefix"} \X families

MUTATION_CONTRACTS ==
  UNION {
    Sets("TransactionEnvelope", {"TransactionLog"}),
    Sets("SetUserVersion", {"UserVersion"}),
    Sets("CreateView",
         {"SchemaLog", "SchemaObjectName", "ViewDependency", "ColumnDependency"}),
    Sets("DropView", {"SchemaLog"}),
    Deletes("DropView", {"SchemaObjectName", "ViewDependency", "ColumnDependency"}),
    Sets("CreateTable",
         {"SchemaLog", "SchemaObjectName", "TableSchema", "ActivePrimaryIndex",
          "ActiveSchemaRevision", "IndexDefinition", "ColumnName", "ConstraintName",
          "ActiveConstraint", "ConstraintReference", "WriteRevision"}),
    Sets("DropTable", {"SchemaLog"}),
    Deletes("DropTable", {"SchemaObjectName", "ConstraintReference"}),
    Ranges("DropTable", {"TableRoot", "ForeignReference"}),
    Sets("RowChanges", {"Row", "UniqueOwner", "ForeignReference"}),
    Deletes("RowChanges", {"Row", "UniqueOwner", "ForeignReference"}),
    Ranges("RowChanges", {"ForeignReference"}),
    Sets("CreateIndex",
         {"SchemaLog", "SchemaObjectName", "TableSchema", "ActiveSchemaRevision",
          "ColumnDependency", "IndexDefinition", "ActiveConstraint", "UniqueOwner",
          "WriteRevision"}),
    Sets("DropIndex", {"SchemaLog", "TableSchema", "ActiveSchemaRevision"}),
    Deletes("DropIndex", {"SchemaObjectName", "ColumnDependency", "ActiveConstraint"}),
    Ranges("DropIndex", {"ConstraintReference"}),
    Sets("RenameTable", {"SchemaLog", "SchemaObjectName"}),
    Deletes("RenameTable", {"SchemaObjectName"}),
    Sets("RenameColumn", {"SchemaLog", "ColumnName"}),
    Deletes("RenameColumn", {"ColumnName"}),
    Sets("AddColumn",
         {"SchemaLog", "ColumnName", "ConstraintName", "ConstraintReference",
          "TableSchema", "ColumnDependency", "WriteRevision"}),
    Sets("DropColumn", {"SchemaLog", "TableSchema"}),
    Deletes("DropColumn", {"ColumnName", "ConstraintName", "ColumnDependency"}),
    Ranges("DropColumn", {"ColumnDependency"}),
    Sets("DropConstraint", {"SchemaLog", "TableSchema"}),
    Deletes("DropConstraint", {"ConstraintName", "ActiveConstraint", "ConstraintReference"}),
    Ranges("DropConstraint", {"ConstraintReference"})}

\* The contracts of an operation whose guards have one reason, of one class or both.
Asserted(operation, reason, family) == {<<operation, "Invariant", reason, family>>}
Written(operation, reason, family) == {<<operation, "Write", reason, family>>}
Both(operation, reason, family) ==
  Asserted(operation, reason, family) \cup Written(operation, reason, family)

GUARD_CONTRACTS ==
  UNION {
    UNION {Asserted(op, "SchemaObjectName", "SchemaObjectName") :
             op \in {"CreateTable", "DropTable", "CreateIndex", "DropIndex", "RenameTable",
                     "AddColumn", "CreateView", "DropView"}},
    UNION {Asserted(op, "SchemaRevision", "ActiveSchemaRevision") :
             op \in {"CreateTable", "CreateIndex", "DropIndex", "AddColumn"}},
    UNION {Written(op, "SchemaRevision", "ActiveSchemaRevision") :
             op \in {"CreateIndex", "DropIndex"}},
    UNION {Asserted(op, "ConstraintState", "ActiveConstraint") :
             op \in {"CreateTable", "CreateIndex", "DropIndex", "AddColumn", "DropConstraint"}},
    UNION {Written(op, "ConstraintState", "ActiveConstraint") :
             op \in {"CreateIndex", "DropIndex", "DropConstraint"}},
    UNION {Both(op, "ConstraintReference", "ConstraintReference") :
             op \in {"CreateTable", "DropTable", "DropIndex", "AddColumn", "DropConstraint"}},
    UNION {Written(op, "WriteContract", "WriteRevision") :
             op \in {"CreateTable", "CreateIndex", "AddColumn"}},
    UNION {Asserted(op, "WriteContract", "WriteRevision") : op \in {"RowChanges", "DropIndex"}},
    Both("DropTable", "TableExistence", "TableRoot"),
    Both("DropTable", "ForeignReference", "ForeignReference"),
    Both("RowChanges", "RowIdentity", "Row"),
    Both("RowChanges", "UniqueOwnership", "UniqueOwner"),
    Both("RowChanges", "ForeignReference", "ForeignReference"),
    Both("RowChanges", "ForeignChildren", "ForeignReference"),
    Asserted("RowChanges", "PrimaryIndex", "ActivePrimaryIndex"),
    UNION {Asserted(op, "ColumnNameBinding", "ColumnName") :
             op \in {"CreateIndex", "RenameColumn", "AddColumn", "DropColumn"}},
    Written("AddColumn", "ColumnNameBinding", "ColumnName"),
    UNION {Both(op, "ColumnDependency", "ColumnDependency") :
             op \in {"CreateIndex", "DropIndex", "AddColumn", "DropColumn", "CreateView",
                     "DropView"}},
    UNION {Asserted(op, "ExistingRows", "Row") : op \in {"CreateIndex", "AddColumn"}},
    Asserted("AddColumn", "ExistingRows", "TableRows"),
    UNION {Asserted(op, "ConstraintNameBinding", "ConstraintName") :
             op \in {"AddColumn", "DropColumn", "DropConstraint"}},
    UNION {Written(op, "ConstraintNameBinding", "ConstraintName") :
             op \in {"DropColumn", "DropConstraint"}},
    UNION {Asserted(op, "ViewDependency", family) :
             op \in {"CreateView", "DropView"},
             family \in {"SchemaObjectName", "ColumnName", "ViewDependency"}},
    Asserted("DropColumn", "ViewDependency", "ViewDependency"),
    Written("SetUserVersion", "UserVersion", "UserVersion"),
    {<<"TransactionRead", "SerializableRead", "SerializableRead", family>> :
       family \in {"TableRoot", "SchemaObjectName", "UserVersion"}}}

REQUIRED_GUARD_CONTRACTS ==
  UNION {
    UNION {Asserted(op, "SchemaObjectName", "SchemaObjectName") :
             op \in {"CreateTable", "DropTable", "CreateIndex", "DropIndex", "RenameTable",
                     "CreateView", "DropView"}},
    Written("CreateTable", "WriteContract", "WriteRevision"),
    Both("DropTable", "TableExistence", "TableRoot"),
    Asserted("RowChanges", "PrimaryIndex", "ActivePrimaryIndex"),
    Asserted("RowChanges", "WriteContract", "WriteRevision"),
    UNION {Both(op, "SchemaRevision", "ActiveSchemaRevision") :
             op \in {"CreateIndex", "DropIndex"}},
    UNION {Asserted(op, "ColumnNameBinding", "ColumnName") :
             op \in {"RenameColumn", "AddColumn", "DropColumn"}},
    Asserted("DropColumn", "ViewDependency", "ViewDependency"),
    Asserted("DropConstraint", "ConstraintNameBinding", "ConstraintName"),
    Written("SetUserVersion", "UserVersion", "UserVersion")}

REJECTION_CONTRACTS ==
  {<<"CreateTable", "RemoveCreatedTable">>, <<"DropTable", "RestoreDroppedTable">>,
   <<"RowChanges", "RestoreRowChanges">>, <<"SetUserVersion", "RestoreUserVersion">>}
  \cup {"CreateIndex", "DropIndex"} \X {"RevertIndex"}
  \cup {"CreateView", "DropView"} \X {"RevertView"}
  \cup {"RenameTable", "RenameColumn", "AddColumn", "DropColumn", "DropConstraint"}
         \X {"RevertAlterTable"}

\* mutation_guard_requirements: the <<class, reason>> pairs that must guard the
\* very key a mutation writes.
mutation_guard_requirements(operation, kind, family) ==
  LET both(reason) == {<<"Invariant", reason>>, <<"Write", reason>>}
  IN CASE family = "SchemaObjectName" -> {<<"Invariant", "SchemaObjectName">>}
       [] family = "ViewDependency" -> {<<"Invariant", "ViewDependency">>}
       [] family = "ColumnDependency" -> both("ColumnDependency")
       [] family = "ColumnName" /\ operation = "AddColumn" -> both("ColumnNameBinding")
       [] family = "ColumnName" /\ operation \in {"RenameColumn", "DropColumn"} ->
            {<<"Invariant", "ColumnNameBinding">>}
       [] family = "ConstraintName" /\ operation = "AddColumn" ->
            {<<"Invariant", "ConstraintNameBinding">>}
       [] family = "ConstraintName" /\ kind = "Delete" -> both("ConstraintNameBinding")
       [] family = "ActiveConstraint" /\ operation # "CreateTable" -> both("ConstraintState")
       [] family = "ConstraintReference" -> both("ConstraintReference")
       [] family = "ActiveSchemaRevision" /\ operation # "CreateTable" -> both("SchemaRevision")
       [] family = "WriteRevision" -> {<<"Write", "WriteContract">>}
       [] family = "Row" ->
            IF kind = "Set" THEN both("RowIdentity") ELSE {<<"Write", "RowIdentity">>}
       [] family = "UniqueOwner" /\ operation = "RowChanges" ->
            IF kind = "Set" THEN both("UniqueOwnership") ELSE {<<"Write", "UniqueOwnership">>}
       [] family = "ForeignReference" /\ operation = "RowChanges" /\ kind = "DeletePrefix" ->
            both("ForeignChildren")
       [] family = "ForeignReference" /\ kind = "Delete" -> {<<"Write", "ForeignReference">>}
       [] family = "ForeignReference" -> both("ForeignReference")
       [] family = "TableRoot" -> both("TableExistence")
       [] family = "UserVersion" -> {<<"Write", "UserVersion">>}
       [] OTHER -> {}

-----------------------------------------------------------------------------
(* The validators.  A compiled operation is [op, mutations, guards].       *)

\* GuardPlan::insert.
GuardAllowed(operation, guard) ==
  <<operation, guard[1], guard[2], classify(guard[3])>> \in GUARD_CONTRACTS

validate_mutations(operation, mutations) ==
  \A m \in mutations :
    m[2] # Full /\ <<operation, m[1], classify(m[2])>> \in MUTATION_CONTRACTS

validate_compiled_output(operation, mutations, guards) ==
  /\ validate_mutations(operation, mutations)
  /\ \A required \in REQUIRED_GUARD_CONTRACTS :
       required[1] = operation =>
         \E g \in guards : <<operation, g[1], g[2], classify(g[3])>> = required
  /\ \A m \in mutations :
       \A need \in mutation_guard_requirements(operation, m[1], classify(m[2])) :
         <<need[1], need[2], m[2]>> \in guards

validate_rejection(operation, rejection) == <<operation, rejection>> \in REJECTION_CONTRACTS

\* GuardPlan::footprint.
GuardFootprint(guards) ==
  LET of(class) == {g[3] : g \in {h \in guards : h[1] = class}}
  IN [constraints |-> of("Invariant"), writes |-> of("Write"),
      reads |-> of("SerializableRead")]

\* writes_from_mutations (commit/history.rs): the regions a batch rewrites.
WriteRegions(mutations) ==
  {IF m[1] = "DeletePrefix" THEN DeletedRange(m[2]) ELSE Point(m[2]) : m \in mutations}
-----------------------------------------------------------------------------
(***************************************************************************)
(* The local schema catalog and the table definitions it stores            *)
(* (multilite/src/catalog.rs, multilite/src/logical/schema.rs and          *)
(* schema/compiler.rs).                                                    *)
(*                                                                         *)
(* A table is [name, def, nodes, names, inline, rows]: its current name    *)
(* binding, its folded definition, the predecessor graph of every column   *)
(* it ever had (0 above the first), the name bound to each live column,    *)
(* the columns SQLite holds with their own constraints inline, and its     *)
(* rows, functions from column identity to value.  A database is           *)
(* [tables, views, version, repairs].  A definition is                     *)
(*   [columns, primary, uniques, checks, fks, indexes]                     *)
(* of sequences, since equality of definitions looks at their order.  Keys *)
(* have one column.  An expression is the sequence of its column tokens    *)
(* [name, quoted]; it rejects the row in which one of them is Forbidden.   *)
(* What may fail is the set of its results: empty for an error.            *)
(***************************************************************************)

NULL == -1
Forbidden == 2
Unnamed == ""
TableOwned == 0

Active(s) == SelectSeq(s, LAMBDA x : x.active)
Elements(s) == ToSet(s)
Named(s, name) == {x \in Elements(s) : x.name = name}
Mapped(s, F(_)) == [i \in DOMAIN s |-> F(s[i])]

-----------------------------------------------------------------------------
(* Expressions.                                                            *)

\* SqlExpression::referenced_columns.
referenced_columns(expression) == {token.name : token \in Elements(expression)}

\* SqlExpression::rename_column: the new name is always written quoted.
rename_column(expression, old, new) ==
  Mapped(expression, LAMBDA token : IF token.name = old
                                      THEN [name |-> new, quoted |-> TRUE] ELSE token)

\* bind_expression, and resolve_expression_dependencies over it.
bind_expression(expression, columns) ==
  LET bound == {c \in Elements(columns) : c.name \in referenced_columns(expression)}
  IN IF referenced_columns(expression) \subseteq {c.name : c \in bound}
       THEN {{c.id : c \in bound}} ELSE {}

-----------------------------------------------------------------------------
(* Validity of a definition.                                               *)

ColumnIds(def) == {c.id : c \in Elements(def.columns)}

ConstraintNames(def) ==
  SelectSeq(Mapped(def.uniques, LAMBDA x : x.name) \o Mapped(def.fks, LAMBDA x : x.name)
              \o Mapped(def.checks, LAMBDA x : x.name),
            LAMBDA name : name # Unnamed)

IndexIds(def) ==
  <<def.primary.id>> \o Mapped(def.uniques, LAMBDA x : x.id)
    \o Mapped(def.indexes, LAMBDA x : x.id)

named_index_definition_is_valid(index, columns) ==
  /\ IF index.unique THEN Len(index.pred) = 0 /\ Cardinality(index.cols) = 1
                     ELSE index.cols # {}
  /\ \E read \in bind_expression(index.pred, columns) : index.deps = index.cols \cup read
  /\ index.cols \subseteq {c.id : c \in Elements(columns)}

validate_table_schema(owner, def) ==
  /\ def.columns # <<>>
  /\ IsInjective(Mapped(def.columns, LAMBDA c : c.name))
  /\ IsInjective(ConstraintNames(def))
  /\ def.primary.col \in ColumnIds(def)
  /\ \A u \in Elements(def.uniques) : u.col \in ColumnIds(def)
  /\ IsInjective(IndexIds(def))
  /\ \A x \in Elements(def.indexes) : named_index_definition_is_valid(x, def.columns)
  /\ IsInjective(Mapped(Active(def.indexes), LAMBDA x : x.name))
  /\ \A f \in Elements(def.fks) : f.parent # owner /\ f.col \in ColumnIds(def)
  /\ IsInjective(Mapped(def.fks, LAMBDA f : f.id))
  /\ \A c \in Elements(def.checks) :
       c.owner \in ColumnIds(def) \cup {TableOwned}
         /\ bind_expression(c.expr, def.columns) = {c.deps}

\* refresh_and_validate_evolution; the revision is the definition's content.
Evolved(owner, def) == IF validate_table_schema(owner, def) THEN {def} ELSE {}

\* validate_create_table: a new table mints every identity afresh.
validate_create_table(created) ==
  IsInjective(<<created.mutation, created.table>> \o IndexIds(created.def)
                \o Mapped(created.def.columns, LAMBDA c : c.id)
                \o Mapped(created.def.fks, LAMBDA f : f.id))

-----------------------------------------------------------------------------
(* Folds of one change into the current definition.                        *)

index_named(def, name) == {x \in Elements(def.indexes) : x.active /\ x.name = name}

fold_added_index(owner, def, index) ==
  IF /\ index.active
     /\ named_index_definition_is_valid(index, def.columns)
     /\ index.id \notin {x.id : x \in Elements(def.indexes)}
     /\ index_named(def, index.name) = {}
    THEN Evolved(owner, [def EXCEPT !.indexes = Append(@, index)]) ELSE {}

Retired(x) == [x EXCEPT !.active = FALSE]
Swap(s, x, y) == Mapped(s, LAMBDA z : IF z = x THEN y ELSE z)

fold_retired_index(owner, def, index) ==
  IF index \in Elements(def.indexes) /\ index.active
    THEN Evolved(owner, [def EXCEPT !.indexes = Swap(@, index, Retired(index))]) ELSE {}

fold_removed_index(owner, def, index) ==
  IF index \in Elements(def.indexes)
    THEN Evolved(owner, [def EXCEPT !.indexes = SelectSeq(@, LAMBDA x : x # index)]) ELSE {}

fold_restored_index(owner, def, index) ==
  IF Retired(index) \in Elements(def.indexes)
    THEN Evolved(owner, [def EXCEPT !.indexes = Swap(@, Retired(index), index)]) ELSE {}

\* droppable_constraint_named: <<field, constraint>>.
droppable_constraint_named(def, name) ==
  LET of(field) == {field} \X {x \in Named(def[field], name) : x.active}
  IN CASE of("uniques") # {} -> of("uniques")
       [] of("uniques") = {} /\ of("fks") # {} -> of("fks")
       [] OTHER -> of("checks")

constraint_name_is_reserved(def, name) == name \in Elements(ConstraintNames(def))

fold_retired_constraint(owner, def, constraint) ==
  LET field == constraint[1]
      x == constraint[2]
  IN IF x \in Elements(def[field])
       THEN Evolved(owner, [def EXCEPT ![field] = Swap(@, x, Retired(x))]) ELSE {}

fold_restored_constraint(owner, def, constraint) ==
  LET field == constraint[1]
      x == constraint[2]
  IN IF Retired(x) \in Elements(def[field])
       THEN Evolved(owner, [def EXCEPT ![field] = Swap(@, Retired(x), x)]) ELSE {}

reorder_columns(def, order) ==
  IF Len(order) = Len(def.columns) /\ Elements(order) = ColumnIds(def)
    THEN {[def EXCEPT !.columns =
             Mapped(order, LAMBDA id : CHOOSE c \in Elements(def.columns) : c.id = id)]}
    ELSE {}

OwnedChecks(def, column) == SelectSeq(def.checks, LAMBDA c : c.owner = column)
added_column_foreign_keys(def, column) == SelectSeq(def.fks, LAMBDA f : f.col = column)

\* with_added_column: spec is [column, checks, fks], already resolved.
with_added_column(owner, def, spec) ==
  LET names == SelectSeq(Mapped(spec.checks \o spec.fks, LAMBDA x : x.name),
                         LAMBDA name : name # Unnamed)
      columns == Append(def.columns, spec.column)
      checks == Mapped(spec.checks, LAMBDA c :
                  [c EXCEPT !.deps = UNION bind_expression(c.expr, columns)])
  IN IF \E name \in Elements(names) : constraint_name_is_reserved(def, name)
       THEN {}
       ELSE Evolved(owner, [def EXCEPT !.columns = columns, !.checks = @ \o checks,
                                       !.fks = @ \o spec.fks])

column_check_dependencies(def, column) ==
  UNION {c.deps : c \in Elements(OwnedChecks(def, column))}

added_column_changes_write_contract(def, column) ==
  \/ \E c \in Elements(def.columns) : c.id = column /\ c.notnull /\ c.dflt = NULL
  \/ OwnedChecks(def, column) # <<>>
  \/ added_column_foreign_keys(def, column) # <<>>

\* A retired CHECK of the column stays, so that its name stays reserved.
with_removed_column(owner, def, column) ==
  IF \/ def.primary.col = column
     \/ \E u \in Elements(def.uniques) : u.col = column
     \/ \E x \in Elements(def.indexes) : x.active /\ column \in x.deps
     \/ \E f \in Elements(def.fks) : f.col = column
     \/ \E c \in Elements(def.checks) :
          IF c.owner = column THEN ~ c.active ELSE column \in c.deps
     \/ column \notin ColumnIds(def)
    THEN {}
    ELSE Evolved(owner, [def EXCEPT !.columns = SelectSeq(@, LAMBDA c : c.id # column),
                                    !.checks = SelectSeq(@, LAMBDA c : c.owner # column)])

fold_added_column_appends(owner, def, source, column, order) ==
  Evolved(owner, [def EXCEPT
    !.columns = @ \o SelectSeq(source.columns, LAMBDA c : c.id = column),
    !.checks = @ \o OwnedChecks(source, column),
    !.fks = @ \o added_column_foreign_keys(source, column)])

\* fold_added_column also runs when a rejected DROP COLUMN is undone; the
\* constraints the column owns then return at the end of their lists.
fold_added_column(owner, def, source, column, order) ==
  IF def.primary # source.primary \/ column \in ColumnIds(def)
       \/ column \notin ColumnIds(source)
    THEN {}
    ELSE UNION {Evolved(owner, d) : d \in reorder_columns(
           [def EXCEPT !.columns = @ \o SelectSeq(source.columns, LAMBDA c : c.id = column),
                       !.checks = @ \o OwnedChecks(source, column),
                       !.fks = @ \o added_column_foreign_keys(source, column)], order)}

fold_reverted_added_column(owner, def, column, order) ==
  IF column \notin ColumnIds(def) THEN {}
    ELSE UNION {Evolved(owner, d) : d \in reorder_columns(
           [def EXCEPT !.fks = SelectSeq(@, LAMBDA f : f.col # column),
                       !.checks = SelectSeq(@, LAMBDA c : c.owner # column),
                       !.columns = SelectSeq(@, LAMBDA c : c.id # column)], order)}

fold_removed_column(owner, def, column, order) ==
  UNION {UNION {Evolved(owner, e) : e \in reorder_columns(d, order)} :
           d \in with_removed_column(owner, def, column)}

fold_renamed_column_expressions(owner, def, column, old, new) ==
  IF \E c \in Elements(def.columns) : c.id = column /\ c.name = old
    THEN Evolved(owner,
           [def EXCEPT
              !.columns = Mapped(@, LAMBDA c : IF c.id = column THEN [c EXCEPT !.name = new]
                                                                ELSE c),
              !.checks = Mapped(@, LAMBDA c :
                           [c EXCEPT !.expr = rename_column(c.expr, old, new)]),
              !.indexes = Mapped(@, LAMBDA x :
                            [x EXCEPT !.pred = rename_column(x.pred, old, new)])])
    ELSE {}

-----------------------------------------------------------------------------
(* Foreign-key targets.                                                    *)

\* foreign_key_target_columns: the column of an active key of the parent.
foreign_key_target_columns(def, index) ==
  {k.col : k \in {x \in {def.primary} \cup Elements(Active(def.uniques)) : x.id = index}}
    \cup UNION {x.cols : x \in {y \in Elements(Active(def.indexes)) :
                                  y.unique /\ y.id = index}}

\* resolve_foreign_key_target: the primary key, then a UNIQUE constraint, then
\* a UNIQUE index on the column.
resolve_foreign_key_target(def, column) ==
  LET uniques == SelectSeq(def.uniques, LAMBDA u : u.active /\ u.col = column)
      indexes == SelectSeq(def.indexes, LAMBDA x : x.active /\ x.unique /\ x.cols = {column})
  IN CASE def.primary.col = column -> {def.primary.id}
       [] def.primary.col # column /\ uniques # <<>> -> {uniques[1].id}
       [] OTHER -> IF indexes = <<>> THEN {} ELSE {indexes[1].id}

validate_foreign_key_link(owner, def, fk, parent) ==
  /\ fk.parent # owner
  /\ foreign_key_target_columns(parent, fk.pindex) = {fk.pcol}
  /\ fk.col \in ColumnIds(def)

-----------------------------------------------------------------------------
(* The catalog tables.                                                     *)

by_name(db, name) == {t \in DOMAIN db.tables : db.tables[t].name = name}
by_id(db, table) == {db.tables[t].def : t \in {table} \cap DOMAIN db.tables}
name_by_id(db, table) == {db.tables[t].name : t \in {table} \cap DOMAIN db.tables}

column_name_by_id(db, table, column) ==
  UNION {{db.tables[t].names[c] : c \in {column} \cap DOMAIN db.tables[t].names} :
           t \in {table} \cap DOMAIN db.tables}

column_id_by_name(db, table, name) ==
  UNION {{c \in DOMAIN db.tables[t].names : db.tables[t].names[c] = name} :
           t \in {table} \cap DOMAIN db.tables}

\* Active foreign keys onto a table, as <<child, foreign key>>.
incoming_foreign_keys(db, table) ==
  UNION {{child} \X {f \in Elements(db.tables[child].def.fks) :
                        f.active /\ f.parent = table} : child \in DOMAIN db.tables}

\* The same with the retired ones.
known_incoming_foreign_keys(db, table) ==
  UNION {{child} \X {f \in Elements(db.tables[child].def.fks) : f.parent = table} :
           child \in DOMAIN db.tables}

index_by_name(db, name) ==
  UNION {{table} \X index_named(db.tables[table].def, name) : table \in DOMAIN db.tables}

validate_foreign_key_parents(db, owner, def) ==
  \A f \in Elements(Active(def.fks)) :
    \E parent \in by_id(db, f.parent) : validate_foreign_key_link(owner, def, f, parent)

-----------------------------------------------------------------------------
(* The column bindings of one table's entry.                               *)

\* UNIQUE (table_id, column_name).
Bound(entry) == Range(entry.names)

rename_column_binding(entry, column, old, new) ==
  IF /\ column \in DOMAIN entry.names /\ entry.names[column] = old
     /\ new \notin Bound(entry)
    THEN {[entry EXCEPT !.names[column] = new]} ELSE {}

insert_column_binding(entry, column, predecessor, name) ==
  IF column \notin DOMAIN entry.nodes /\ name \notin Bound(entry)
    THEN {[entry EXCEPT !.nodes = (column :> predecessor) @@ @,
                        !.names = (column :> name) @@ @]} ELSE {}

\* The node stays in the graph without a name.
retire_column_binding(entry, column) ==
  IF column \in DOMAIN entry.names
    THEN {[entry EXCEPT !.names = Restrict(@, DOMAIN @ \ {column})]} ELSE {}

restore_column_binding(entry, column, name) ==
  IF column \in DOMAIN entry.nodes \ DOMAIN entry.names /\ name \notin Bound(entry)
    THEN {[entry EXCEPT !.names = (column :> name) @@ @]} ELSE {}

\* column_order: preorder of the predecessor graph, siblings by identity,
\* retired columns skipped; one root, and everything below it.
column_order(entry) ==
  LET nodes == entry.nodes
      children(n) == SetToSortSeq({c \in DOMAIN nodes : nodes[c] = n}, <)
      visit[n \in DOMAIN nodes] == <<n>> \o FlattenSeq(Mapped(children(n), LAMBDA c : visit[c]))
      visited == FlattenSeq(Mapped(children(0), LAMBDA c : visit[c]))
  IN IF /\ Range(nodes) \subseteq DOMAIN nodes \cup {0} /\ Len(children(0)) = 1
        /\ Len(visited) = Cardinality(DOMAIN nodes) /\ DOMAIN entry.names # {}
       THEN {SelectSeq(visited, LAMBDA n : n \in DOMAIN entry.names)} ELSE {}

\* validate: what reopening the file demands of the catalog.
catalog_validate(db) ==
  LET entry(t) == db.tables[t]
      indexes(t) == Active(entry(t).def.indexes)
      fks(t) == Elements(Active(entry(t).def.fks))
  IN /\ \A t \in DOMAIN db.tables :
          /\ IsInjective(Mapped(indexes(t), LAMBDA x : x.name))
          /\ entry(t).names = [id \in ColumnIds(entry(t).def) |->
               (CHOOSE c \in Elements(entry(t).def.columns) : c.id = id).name]
          /\ column_order(entry(t)) = {Mapped(entry(t).def.columns, LAMBDA c : c.id)}
          /\ validate_foreign_key_parents(db, t, entry(t).def)
     /\ \A t, u \in DOMAIN db.tables : t # u =>
          /\ entry(t).name # entry(u).name
          /\ {x.name : x \in Elements(indexes(t))} \cap
               {x.name : x \in Elements(indexes(u))} = {}
          /\ {<<f.parent, f.id>> : f \in fks(t)} \cap {<<f.parent, f.id>> : f \in fks(u)} = {}

\* insert: the columns of a new table form one chain.
ChainOf(columns) ==
  [id \in {c.id : c \in Elements(columns)} |->
     LET i == CHOOSE k \in DOMAIN columns : columns[k].id = id
     IN IF i = 1 THEN 0 ELSE columns[i - 1].id]

\* The shared name space of SQLite's schema objects.
ObjectNames(db) ==
  {db.tables[t].name : t \in DOMAIN db.tables} \cup DOMAIN db.views
    \cup UNION {{x.name : x \in Elements(Active(db.tables[t].def.indexes))} :
                  t \in DOMAIN db.tables}
-----------------------------------------------------------------------------
(***************************************************************************)
(* ALTER TABLE (multilite/src/logical/alter.rs): preparing an operation    *)
(* from a statement, applying it to a replica, undoing it after a          *)
(* rejection.  An operation is a record with its family in op, its minted  *)
(* identity in mutation (the identities it creates follow it) and the      *)
(* definitions it was compiled against.  Whatever may fail yields the set  *)
(* of its results, empty for an error.                                     *)
(***************************************************************************)

Put(db, table, entry) == [db EXCEPT !.tables = (table :> entry) @@ @]
Fold(db, table, defs) == {[db EXCEPT !.tables[table].def = def] : def \in defs}

-----------------------------------------------------------------------------
(* What SQLite enforces on the tables it holds (external).                 *)

RowAllowed(def, row) ==
  /\ \A c \in Elements(def.columns) :
       c.notnull \/ c.id = def.primary.col => row[c.id] # NULL
  /\ \A k \in Elements(Active(def.checks)) : \A id \in k.deps : row[id] # Forbidden

UniqueColumns(def) ==
  {def.primary.col} \cup {u.col : u \in Elements(Active(def.uniques))}
    \cup UNION {x.cols : x \in {y \in Elements(Active(def.indexes)) : y.unique}}

KeysDistinct(def, rows) ==
  \A col \in UniqueColumns(def) : \A r, s \in rows :
    r[col] = s[col] /\ r[col] # NULL => r = s

RowsAllowed(def, rows) == KeysDistinct(def, rows) /\ \A r \in rows : RowAllowed(def, r)

\* pragma_foreign_key_check over the whole database.
ForeignKeysHold(db) ==
  \A child \in DOMAIN db.tables : \A f \in Elements(Active(db.tables[child].def.fks)) :
    \A row \in db.tables[child].rows :
      \/ row[f.col] = NULL
      \/ f.parent \in DOMAIN db.tables
           /\ \E p \in db.tables[f.parent].rows : p[f.pcol] = row[f.col]

ViewsOver(db, table) == {v \in DOMAIN db.views : table \in db.views[v]}

\* ALTER TABLE DROP COLUMN refuses a column that a constraint of the table
\* names, unless the column's own declaration carries it.
DroppableInPlace(entry, column) ==
  \/ column \in entry.inline
  \/ /\ OwnedChecks(entry.def, column) = <<>>
     /\ added_column_foreign_keys(entry.def, column) = <<>>

-----------------------------------------------------------------------------
(* ALTER TABLE.                                                            *)

\* rebuild_table_if_needed, once it is: every row is copied into a table with
\* the definition's constraints, which then takes the old name.  SQLite refuses
\* that last rename while a view reads the dropped table.
rebuild(db, table) ==
  IF /\ ViewsOver(db, table) = {}
     /\ RowsAllowed(db.tables[table].def, db.tables[table].rows)
     /\ ForeignKeysHold(db)
    THEN {[db EXCEPT !.tables[table].inline = {}]} ELSE {}

rebuild_table_if_needed(db, table, materialized) ==
  IF Mapped(db.tables[table].def.columns, LAMBDA c : c.id) = materialized
    THEN {db} ELSE rebuild(db, table)

Without(row, column) == [c \in DOMAIN row \ {column} |-> row[c]]
Physical(db, table) == Mapped(db.tables[table].def.columns, LAMBDA c : c.id)

prepare_rename_table(db, id, stmt) ==
  IF by_name(db, stmt.new) # {} THEN {}
    ELSE {[op |-> "RenameTable", mutation |-> id, table |-> t,
           old |-> stmt.table, new |-> stmt.new] : t \in by_name(db, stmt.table)}

prepare_rename_column(db, id, stmt) ==
  UNION {{[op |-> "RenameColumn", mutation |-> id, table |-> t, column |-> c,
           old |-> stmt.old, new |-> stmt.new] :
             c \in {x \in column_id_by_name(db, t, stmt.old) :
                      column_id_by_name(db, t, stmt.new) = {}}} :
           t \in by_name(db, stmt.table)}

\* resolve_added_foreign_key: the parent and the key the declaration names.
resolve_added_foreign_key(db, id, column, ref) ==
  UNION {UNION {{[id |-> id + 5, name |-> ref.name, col |-> column, parent |-> p,
                  pname |-> ref.parent, pindex |-> k, pcol |-> c, pcolname |-> ref.column,
                  cascade |-> FALSE, active |-> TRUE] :
                   k \in resolve_foreign_key_target(db.tables[p].def, c)} :
                  c \in column_id_by_name(db, p, ref.column)} :
           p \in by_name(db, ref.parent)}

\* The clauses of the added column, resolved: one per reading of its REFERENCES.
AddedColumn(db, id, stmt) ==
  LET column == [id |-> id + 1, name |-> stmt.column, notnull |-> stmt.notnull,
                 dflt |-> stmt.dflt]
      checks == Mapped(stmt.checks, LAMBDA c :
                  [name |-> c.name, owner |-> id + 1, expr |-> c.expr, deps |-> {},
                   active |-> TRUE])
      refs == IF stmt.refs = <<>> THEN {<<>>}
                ELSE {<<f>> : f \in resolve_added_foreign_key(db, id, id + 1, stmt.refs[1])}
  IN {[column |-> column, checks |-> checks, fks |-> fks] : fks \in refs}

prepare_add_column(db, id, stmt) ==
  UNION {UNION {{[op |-> "AddColumn", mutation |-> id, table |-> t, column |-> id + 1,
                  pred |-> Last(db.tables[t].def.columns).id, name |-> stmt.column,
                  spec |-> spec, before |-> db.tables[t].def, after |-> after] :
                   after \in with_added_column(t, db.tables[t].def, spec)} :
                  spec \in AddedColumn(db, id, stmt)} :
           t \in {x \in by_name(db, stmt.table) : column_id_by_name(db, x, stmt.column) = {}}}

prepare_drop_column(db, id, stmt) ==
  UNION {UNION {{[op |-> "DropColumn", mutation |-> id, table |-> t, column |-> c,
                  name |-> stmt.column, before |-> db.tables[t].def, after |-> after] :
                   after \in with_removed_column(t, db.tables[t].def, c)} :
                  c \in {x \in column_id_by_name(db, t, stmt.column) :
                           \A i \in incoming_foreign_keys(db, t) : i[2].pcol # x}} :
           t \in {x \in by_name(db, stmt.table) : ViewsOver(db, x) = {}}}

Referenced(db, table, index) ==
  \E i \in incoming_foreign_keys(db, table) : i[2].pindex = index

prepare_drop_constraint(db, id, stmt) ==
  UNION {UNION {{[op |-> "DropConstraint", mutation |-> id, table |-> t, name |-> stmt.name,
                  before |-> db.tables[t].def, after |-> after] :
                   after \in fold_retired_constraint(t, db.tables[t].def, k)} :
                  k \in {x \in droppable_constraint_named(db.tables[t].def, stmt.name) :
                           x[1] = "uniques" => ~ Referenced(db, t, x[2].id)}} :
           t \in by_name(db, stmt.table)}

\* AlterTableOperation::validate_catalog_before.
validate_catalog_before(db, op) ==
  /\ op.table \in DOMAIN db.tables
  /\ CASE op.op = "RenameTable" ->
            name_by_id(db, op.table) = {op.old} /\ by_name(db, op.new) = {}
       [] op.op = "RenameColumn" ->
            /\ column_name_by_id(db, op.table, op.column) = {op.old}
            /\ column_id_by_name(db, op.table, op.new) = {}
       [] op.op = "AddColumn" ->
            /\ column_id_by_name(db, op.table, op.name) = {}
            /\ column_name_by_id(db, op.table, op.column) = {}
            /\ validate_foreign_key_parents(db, op.table, op.after)
            /\ \A f \in Elements(added_column_foreign_keys(op.after, op.column)) :
                 /\ name_by_id(db, f.parent) = {f.pname}
                 /\ column_name_by_id(db, f.parent, f.pcol) = {f.pcolname}
       [] op.op = "DropColumn" -> column_name_by_id(db, op.table, op.column) = {op.name}
       [] op.op = "DropConstraint" ->
            LET expected == droppable_constraint_named(op.before, op.name)
            IN /\ droppable_constraint_named(db.tables[op.table].def, op.name) = expected
               /\ \A k \in expected : k[1] = "uniques" => ~ Referenced(db, op.table, k[2].id)

apply_rename_table(db, op) ==
  IF op.new \in ObjectNames(db) THEN {}
    ELSE {[db EXCEPT !.tables[op.table].name = op.new]}

\* record_catalog_inner of a RenameColumn, either way.
MoveColumnName(db, op, old, new) ==
  UNION {{Put(db, op.table, [entry EXCEPT !.def = def]) :
            def \in fold_renamed_column_expressions(op.table, entry.def, op.column, old, new)} :
           entry \in rename_column_binding(db.tables[op.table], op.column, old, new)}

apply_rename_column(db, op) == MoveColumnName(db, op, op.old, op.new)

\* SQLite checks the rows already there against the new column's constraints.
apply_add_column(db, op) ==
  LET entry == db.tables[op.table]
      rows == {(op.column :> op.spec.column.dflt) @@ r : r \in entry.rows}
      folded(bound) == UNION {fold_added_column(op.table, entry.def, op.after, op.column, order) :
                                order \in column_order(bound)}
      added(bound, def) == [bound EXCEPT !.def = def, !.rows = rows,
                                         !.inline = @ \cup {op.column}]
  IN UNION {UNION {IF \A r \in rows : RowAllowed(def, r)
                     THEN rebuild_table_if_needed(Put(db, op.table, added(bound, def)), op.table,
                                                  Append(Physical(db, op.table), op.column))
                     ELSE {} : def \in folded(bound)} :
              bound \in insert_column_binding(entry, op.column, op.pred, op.name)}

apply_drop_column(db, op) ==
  LET entry == db.tables[op.table]
      rows == {Without(r, op.column) : r \in entry.rows}
      folded(bound) == UNION {fold_removed_column(op.table, entry.def, op.column, order) :
                                order \in column_order(bound)}
  IN UNION {UNION {rebuild(Put(db, op.table, [bound EXCEPT !.def = def, !.rows = rows]),
                           op.table) : def \in folded(bound)} :
              bound \in retire_column_binding(entry, op.column)}

apply_drop_constraint(db, op) ==
  UNION {UNION {rebuild(d, op.table) :
                  d \in Fold(db, op.table,
                             fold_retired_constraint(op.table, db.tables[op.table].def, k))} :
           k \in droppable_constraint_named(op.before, op.name)}

\* AlterTableOperation::validate_catalog_after, of what a rollback finds.
validate_catalog_after(db, op) ==
  /\ op.table \in DOMAIN db.tables
  /\ CASE op.op = "RenameTable" ->
            name_by_id(db, op.table) = {op.new} /\ by_name(db, op.old) = {}
       [] op.op = "RenameColumn" ->
            /\ column_name_by_id(db, op.table, op.column) = {op.new}
            /\ column_id_by_name(db, op.table, op.old) = {}
       [] op.op = "AddColumn" ->
            /\ op.column \in ColumnIds(db.tables[op.table].def)
            /\ column_name_by_id(db, op.table, op.column) = {op.name}
       [] op.op = "DropColumn" ->
            /\ op.column \notin ColumnIds(db.tables[op.table].def)
            /\ column_name_by_id(db, op.table, op.column) = {}
       [] op.op = "DropConstraint" ->
            LET def == db.tables[op.table].def
            IN /\ droppable_constraint_named(def, op.name) = {}
               /\ \A k \in droppable_constraint_named(op.before, op.name) :
                    fold_restored_constraint(op.table, def, k) # {}

\* rollback_inner, of each delta.
rollback_rename_table(db, op) ==
  IF op.old \notin ObjectNames(db)
    THEN {[db EXCEPT !.tables[op.table].name = op.old]} ELSE {}

rollback_rename_column(db, op) == MoveColumnName(db, op, op.new, op.old)

rollback_add_column(db, op) ==
  LET entry == db.tables[op.table]
      folded(bound) == UNION {fold_reverted_added_column(op.table, entry.def, op.column, order) :
                                order \in column_order(bound)}
      removed(bound, def) == [bound EXCEPT !.def = def, !.inline = @ \ {op.column},
                                           !.rows = {Without(r, op.column) : r \in @}]
  IN IF ~ DroppableInPlace(entry, op.column)
       THEN {}
       ELSE UNION {UNION {rebuild_table_if_needed(
                     Put(db, op.table, removed(bound, def)), op.table,
                     SelectSeq(Physical(db, op.table), LAMBDA c : c # op.column)) :
                     def \in folded(bound)} :
                     bound \in retire_column_binding(entry, op.column)}

rollback_drop_constraint(db, op) ==
  UNION {UNION {rebuild(d, op.table) :
                  d \in Fold(db, op.table,
                             fold_restored_constraint(op.table, db.tables[op.table].def, k))} :
           k \in droppable_constraint_named(op.before, op.name)}
-----------------------------------------------------------------------------
(***************************************************************************)
(* The schema operations that are not ALTER TABLE (multilite/src/logical:  *)
(* index.rs, drop_table.rs, view.rs, user_version.rs, the CREATE TABLE of  *)
(* schema.rs and operation.rs), the sidecars a destructive operation keeps *)
(* until it is decided (multilite/src/repair.rs), and the inverse of each  *)
(* operation (multilite/src/database/pending.rs, apply_rejection).         *)
(***************************************************************************)

-----------------------------------------------------------------------------
(* CREATE TABLE.                                                           *)

\* build_create_table and resolve_foreign_keys: the statement's columns take
\* the identities id + 1 .. id + n, its keys the ones after them.
prepare_create_table(db, id, stmt) ==
  LET columns == [i \in DOMAIN stmt.columns |->
                    [id |-> id + i, name |-> stmt.columns[i], notnull |-> FALSE, dflt |-> NULL]]
      n == Len(columns)
      named(name) == {c.id : c \in Named(columns, name)}
      checks == Mapped(stmt.checks, LAMBDA c :
                  [name |-> c.name, owner |-> TableOwned, expr |-> c.expr,
                   deps |-> UNION bind_expression(c.expr, columns), active |-> TRUE])
      def(fks) == [columns |-> columns, primary |-> [id |-> id + n + 1, col |-> id + 1],
                   uniques |-> <<>>, checks |-> checks, fks |-> fks, indexes |-> <<>>]
      refs == IF stmt.refs = <<>> THEN {<<>>}
                ELSE UNION {{<<f>> : f \in resolve_added_foreign_key(db, id, c, stmt.refs[1])} :
                              c \in named(stmt.refs[1].col)}
  IN {op \in {[op |-> "CreateTable", mutation |-> id, table |-> id + n + 2,
               name |-> stmt.table, def |-> def(fks)] : fks \in refs} :
        validate_table_schema(op.table, op.def) /\ validate_create_table(op)}

NewTable(name, def, rows) ==
  [name |-> name, def |-> def, nodes |-> ChainOf(def.columns), inline |-> {}, rows |-> rows,
   names |-> [id \in ColumnIds(def) |->
                (CHOOSE c \in Elements(def.columns) : c.id = id).name]]

apply_create_table(db, op) ==
  IF /\ validate_foreign_key_parents(db, op.table, op.def)
     /\ op.name \notin ObjectNames(db)
     /\ op.table \notin DOMAIN db.tables
    THEN {Put(db, op.table, NewTable(op.name, op.def, {}))} ELSE {}

\* RemoveCreatedTable: the catalog must still hold the very definition.
rollback_create_table(db, op) ==
  IF by_id(db, op.table) = {op.def}
    THEN {[db EXCEPT !.tables = Restrict(@, DOMAIN @ \ {op.table})]} ELSE {}

-----------------------------------------------------------------------------
(* CREATE INDEX and DROP INDEX.                                            *)

\* prepare_named_index; a UNIQUE index carries its entries for the rows there.
prepare_create_index(db, id, stmt) ==
  UNION {UNION {UNION {
    {[op |-> "CreateIndex", mutation |-> id, table |-> t, before |-> db.tables[t].def,
      after |-> after, index |-> Last(after.indexes),
      backfill |-> IF stmt.unique THEN {r[c] : r \in db.tables[t].rows} \ {NULL} ELSE {}] :
       after \in Evolved(t, [db.tables[t].def EXCEPT !.indexes =
                   Append(@, [id |-> id + 3, name |-> stmt.name, unique |-> stmt.unique,
                              cols |-> {c}, pred |-> stmt.pred, deps |-> {c} \cup read,
                              active |-> TRUE])])} :
      read \in bind_expression(stmt.pred, db.tables[t].def.columns)} :
      c \in column_id_by_name(db, t, stmt.column)} :
    t \in {x \in by_name(db, stmt.table) : index_by_name(db, stmt.name) = {}}}

\* ensure_not_referenced is the condition on the picked index.
prepare_drop_index(db, id, stmt) ==
  UNION {{[op |-> "DropIndex", mutation |-> id, table |-> i[1],
           before |-> db.tables[i[1]].def, after |-> after, index |-> i[2],
           backfill |-> {}] :
            after \in fold_retired_index(i[1], db.tables[i[1]].def, i[2])} :
           i \in {x \in index_by_name(db, stmt.name) :
                    x[2].unique => ~ Referenced(db, x[1], x[2].id)}}

\* SQLite reads the predicate's columns by the names the operation spells.
apply_create_index(db, op) ==
  IF /\ op.table \in DOMAIN db.tables
     /\ op.index.name \notin ObjectNames(db)
     /\ bind_expression(op.index.pred, db.tables[op.table].def.columns) # {}
    THEN {d \in Fold(db, op.table,
                     fold_added_index(op.table, db.tables[op.table].def, op.index)) :
            KeysDistinct(d.tables[op.table].def, d.tables[op.table].rows)}
    ELSE {}

apply_drop_index(db, op) ==
  IF /\ op.table \in DOMAIN db.tables
     /\ index_named(db.tables[op.table].def, op.index.name) = {op.index}
     /\ op.index.unique => ~ Referenced(db, op.table, op.index.id)
    THEN Fold(db, op.table, fold_retired_index(op.table, db.tables[op.table].def, op.index))
    ELSE {}

rollback_create_index(db, op) ==
  IF op.table \in DOMAIN db.tables
       /\ index_named(db.tables[op.table].def, op.index.name) = {op.index}
    THEN Fold(db, op.table, fold_removed_index(op.table, db.tables[op.table].def, op.index))
    ELSE {}

rollback_drop_index(db, op) ==
  IF op.table \in DOMAIN db.tables /\ op.index.name \notin ObjectNames(db)
    THEN {d \in Fold(db, op.table,
                     fold_restored_index(op.table, db.tables[op.table].def, op.index)) :
            KeysDistinct(d.tables[op.table].def, d.tables[op.table].rows)}
    ELSE {}

-----------------------------------------------------------------------------
(* Sidecars.  A DROP COLUMN keeps the column's value by primary key, a     *)
(* DROP TABLE the table's catalog state and rows; the job says how many    *)
(* values a retained row has and how many rows there are.                  *)

KeyOf(def, row) == row[def.primary.col]

capture_drop_column(db, op) ==
  LET entry == db.tables[op.table]
      row(k) == CHOOSE r \in entry.rows : KeyOf(entry.def, r) = k
  IN [kind |-> "column", parts |-> 1, count |-> Cardinality(entry.rows),
      values |-> [k \in {KeyOf(entry.def, r) : r \in entry.rows} |-> row(k)[op.column]]]

capture_drop_table(db, op) ==
  LET entry == db.tables[op.table]
  IN [kind |-> "table", parts |-> Len(entry.def.columns), count |-> Cardinality(entry.rows),
      state |-> entry]

Capture(db, op, sidecar) ==
  {[db EXCEPT !.repairs = (op.mutation :> sidecar) @@ @]}

retire(db, mutation) == [db EXCEPT !.repairs = Restrict(@, DOMAIN @ \ {mutation})]

\* repair.rs: validate, what reopening the file demands of a job and its rows.
repair_validate(db) ==
  \A m \in DOMAIN db.repairs :
    LET job == db.repairs[m]
    IN CASE job.kind = "column" -> Cardinality(DOMAIN job.values) = job.count
         [] job.kind = "table" ->
              /\ Cardinality(job.state.rows) = job.count
              /\ Len(job.state.def.columns) = job.parts
              /\ \A r \in job.state.rows : Cardinality(DOMAIN r) = job.parts

\* repair_spec: the job a pending destructive operation needs.
repair_spec(op) ==
  CASE op.op = "DropColumn" -> {<<op.mutation, "column", 1>>}
    [] op.op = "DropTable" -> {<<op.mutation, "table", Len(op.before.columns)>>}
    [] OTHER -> {}

\* validate_expected: the jobs are those of the pending operations.
validate_expected(db, expected) ==
  expected = {<<m, db.repairs[m].kind, db.repairs[m].parts>> : m \in DOMAIN db.repairs}

restore_drop_column_blank(entry, op, values) ==
  {{(op.column :> NULL) @@ r : r \in entry.rows}}

\* restore_drop_column: every retained value must find its row.
restore_drop_column(entry, op, values) ==
  IF \A k \in DOMAIN values : \E r \in entry.rows : KeyOf(entry.def, r) = k
    THEN {{(op.column :> (IF KeyOf(entry.def, r) \in DOMAIN values
                            THEN values[KeyOf(entry.def, r)] ELSE NULL)) @@ r :
             r \in entry.rows}}
    ELSE {}

\* capture_local_repair.
capture_local_repair(db, op) ==
  CASE op.op = "DropColumn" ->
         IF validate_catalog_before(db, op) THEN Capture(db, op, capture_drop_column(db, op))
                                            ELSE {}
    [] op.op = "DropTable" ->
         IF by_id(db, op.table) = {op.before} /\ name_by_id(db, op.table) = {op.source}
           THEN Capture(db, op, capture_drop_table(db, op)) ELSE {}
    [] OTHER -> {db}

\* The column returns as an untyped one, is filled, and the table is rebuilt.
rollback_drop_column(db, op) ==
  LET entry == db.tables[op.table]
      folded(bound) == UNION {fold_added_column(op.table, entry.def, op.before, op.column, order) :
                                order \in column_order(bound)}
      restored(bound, def, rows) == [bound EXCEPT !.def = def, !.rows = rows]
  IN IF op.mutation \notin DOMAIN db.repairs
       THEN {}
       ELSE UNION {UNION {UNION {
         {retire(d, op.mutation) :
            d \in rebuild(Put(db, op.table, restored(bound, def, rows)), op.table)} :
           rows \in restore_drop_column(entry, op, db.repairs[op.mutation].values)} :
           def \in folded(bound)} :
           bound \in restore_column_binding(entry, op.column, op.name)}

-----------------------------------------------------------------------------
(* DROP TABLE.                                                             *)

prepare_drop_table_under_view(db, id, stmt) ==
  {[op |-> "DropTable", mutation |-> id, table |-> t, source |-> stmt.table,
    before |-> db.tables[t].def] :
     t \in {x \in by_name(db, stmt.table) : incoming_foreign_keys(db, x) = {}}}

prepare_drop_table(db, id, stmt) ==
  {[op |-> "DropTable", mutation |-> id, table |-> t, source |-> stmt.table,
    before |-> db.tables[t].def] :
     t \in {x \in by_name(db, stmt.table) :
              incoming_foreign_keys(db, x) = {} /\ ViewsOver(db, x) = {}}}

apply_drop_table(db, op) ==
  IF /\ by_id(db, op.table) = {op.before}
     /\ name_by_id(db, op.table) = {op.source}
     /\ incoming_foreign_keys(db, op.table) = {}
    THEN {[db EXCEPT !.tables = Restrict(@, DOMAIN @ \ {op.table})]} ELSE {}

rollback_drop_table(db, op) ==
  IF \/ op.table \in DOMAIN db.tables
     \/ op.source \in ObjectNames(db)
     \/ op.mutation \notin DOMAIN db.repairs
    THEN {}
    ELSE LET state == db.repairs[op.mutation].state
             d == Put(db, op.table, [state EXCEPT !.inline = {}])
         IN IF state.name = op.source /\ state.def = op.before /\ ForeignKeysHold(d)
                 /\ RowsAllowed(state.def, state.rows)
              THEN {retire(d, op.mutation)} ELSE {}

-----------------------------------------------------------------------------
(* Views.  The database keeps the base tables each view reads; SQLite      *)
(* rewrites their names in a view when they are renamed.                   *)

\* resolve_dependencies: every column of every source table.
resolve_dependencies(db, tables) ==
  {[table |-> t, name |-> db.tables[t].name,
    columns |-> {<<c.id, c.name>> : c \in Elements(db.tables[t].def.columns)}] : t \in tables}

prepare_create_view(db, id, stmt) ==
  {[op |-> "CreateView", mutation |-> id, name |-> stmt.name,
    deps |-> resolve_dependencies(db, {t})] : t \in by_name(db, stmt.table)}

prepare_drop_view(db, id, stmt) ==
  {[op |-> "DropView", mutation |-> id, name |-> v,
    deps |-> resolve_dependencies(db, db.views[v])] : v \in {stmt.name} \cap DOMAIN db.views}

validate_dependencies(db, op) ==
  \A dep \in op.deps :
    /\ name_by_id(db, dep.table) = {dep.name}
    /\ \A c \in dep.columns : column_name_by_id(db, dep.table, c[1]) = {c[2]}

AddView(db, op) ==
  IF validate_dependencies(db, op) /\ op.name \notin ObjectNames(db)
    THEN {[db EXCEPT !.views = (op.name :> {dep.table : dep \in op.deps}) @@ @]} ELSE {}

RemoveView(db, op) ==
  IF op.name \in DOMAIN db.views
    THEN {[db EXCEPT !.views = Restrict(@, DOMAIN @ \ {op.name})]} ELSE {}

-----------------------------------------------------------------------------
(* PRAGMA user_version.                                                    *)

prepare_user_version(db, id, stmt) ==
  IF db.version = stmt.value THEN {}
    ELSE {[op |-> "SetUserVersion", mutation |-> id, before |-> db.version,
           after |-> stmt.value]}

rollback_user_version(db, op) ==
  IF db.version = op.after THEN {[db EXCEPT !.version = op.before]} ELSE {}
=============================================================================
