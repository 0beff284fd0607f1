---------------------------- MODULE SqlFrontEnd -----------------------------
\* The SQL front end, in three parts: the walks over a parse tree, the validation
\* of statements, and the compilation of schema definitions.
(***************************************************************************)
(* The walks of the SQL front end over a parsed statement                  *)
(* (multilite/src/sql.rs): which base tables a view reads, whether a       *)
(* statement reads a reserved table, and which expressions a schema may    *)
(* store.                                                                  *)
(*                                                                         *)
(* A node of the tree is [k, name, in]: its kind, the name it carries, and *)
(* the nodes in each of its slots.  A kind is a variant of the parser's    *)
(* AST, a slot one of its fields; fields without nodes are left out.       *)
(***************************************************************************)
EXTENDS Naturals, FiniteSets, Sequences, SequencesExt

CONSTANTS
  Reserved,   \* names with the prefix __multilite__
  Internal    \* names with the prefix sqlite_

Node(k, name, in) == [k |-> k, name |-> name, in |-> in]

\* The nodes in some slots of a node.
Kids(n, slots) == UNION {n.in[s] : s \in slots \cap DOMAIN n.in}

OneOperand == {"Cast", "Collate", "IsNull", "NotNull", "Unary"}
Atoms == {"DoublyQualified", "Id", "Literal", "Name", "Qualified"}

has_multilite_prefix(name) == name \in Reserved
is_sqlite_internal_table(name) == name \in Internal

-----------------------------------------------------------------------------
(* collect_view_dependencies.  The result holds Refused if the walk fails. *)

Refused == "refused"

\* reject_reserved_schema_name.
reject_reserved_schema_name(name) == has_multilite_prefix(name) \/ is_sqlite_internal_table(name)

RECURSIVE collect_select_dependencies(_, _)
RECURSIVE collect_from_dependencies(_, _)
RECURSIVE collect_expression_dependencies(_, _)

collect_window_dependencies(window, ctes) ==
  UNION {collect_expression_dependencies(e, ctes) :
           e \in Kids(window, {"partition_by", "order_by", "start", "end"})}

\* A parameter or IN table is refused; a window over count(*) is not looked at.
collect_expression_dependencies(e, ctes) ==
  LET expressions(slots) == UNION {collect_expression_dependencies(n, ctes) : n \in Kids(e, slots)}
      selects(slot) == UNION {collect_select_dependencies(n, ctes) : n \in Kids(e, {slot})}
      window(slot) == UNION {collect_window_dependencies(n, ctes) : n \in Kids(e, {slot})}
  IN CASE e.k = "Between" -> expressions({"lhs", "start", "end"})
       [] e.k = "Binary" -> expressions({"left", "right"})
       [] e.k = "Case" -> expressions({"base", "else", "when", "then"})
       [] e.k \in OneOperand -> expressions({"expr"})
       [] e.k \in {"Exists", "Subquery"} -> selects("select")
       [] e.k = "FunctionCall" -> expressions({"args", "order_by", "filter"}) \cup window("over")
       [] e.k = "FunctionCallStar" -> expressions({"filter"})
       [] e.k = "InList" -> expressions({"lhs", "rhs"})
       [] e.k = "InSelect" -> expressions({"lhs"}) \cup selects("rhs")
       [] e.k = "InTable" -> {Refused}
       [] e.k = "Like" -> expressions({"lhs", "rhs", "escape"})
       [] e.k = "Parenthesized" -> expressions({"expressions"})
       [] e.k = "Raise" -> expressions({"expression"})
       [] e.k = "Variable" -> {Refused}
       [] e.k \in Atoms -> {}

\* A name that is not a common table expression in scope is a base table.
collect_table_dependencies(table, ctes) ==
  CASE table.k \in {"HintedTable", "QualifiedTable", "TableCall"} -> {Refused}
    [] table.k = "Table" ->
         IF table.name \in ctes THEN {}
           ELSE {IF reject_reserved_schema_name(table.name) THEN Refused ELSE table.name}
    [] table.k = "SubSelect" ->
         UNION {collect_select_dependencies(n, ctes) : n \in Kids(table, {"select"})}
    [] table.k = "Sub" ->
         UNION {collect_from_dependencies(n, ctes) : n \in Kids(table, {"from"})}

collect_from_dependencies(from, ctes) ==
  UNION {collect_table_dependencies(n, ctes) : n \in Kids(from, {"select", "joins"})}
    \cup UNION {collect_expression_dependencies(n, ctes) : n \in Kids(from, {"on"})}

collect_one_select_dependencies(select, ctes) ==
  LET expressions(slots) ==
        UNION {collect_expression_dependencies(n, ctes) : n \in Kids(select, slots)}
  IN CASE select.k = "OneSelect" ->
            expressions({"columns", "where", "having", "group_by"})
              \cup UNION {collect_from_dependencies(n, ctes) : n \in Kids(select, {"from"})}
              \cup UNION {collect_window_dependencies(n, ctes) : n \in Kids(select, {"windows"})}
       [] select.k = "Values" -> expressions({"rows"})

collect_select_dependencies_unscoped(select, ctes) ==
  LET bodies == UNION {Kids(c, {"select"}) : c \in Kids(select, {"with"})}
  IN UNION {collect_select_dependencies(n, ctes) : n \in bodies}
       \cup UNION {collect_one_select_dependencies(n, ctes) :
                     n \in Kids(select, {"body", "compounds"})}
       \cup UNION {collect_expression_dependencies(n, ctes) :
                     n \in Kids(select, {"order_by", "limit", "offset"})}

\* All the common table expressions of a WITH are in scope in its bodies and in
\* the rest of the query, and nowhere else.
collect_select_dependencies(select, ctes) ==
  LET inner == ctes \cup {c.name : c \in Kids(select, {"with"})}
      bodies == UNION {Kids(c, {"select"}) : c \in Kids(select, {"with"})}
  IN UNION {collect_select_dependencies(n, inner) : n \in bodies}
       \cup UNION {collect_one_select_dependencies(n, inner) :
                     n \in Kids(select, {"body", "compounds"})}
       \cup UNION {collect_expression_dependencies(n, inner) :
                     n \in Kids(select, {"order_by", "limit", "offset"})}

\* collect_view_dependencies: a view reads at least one table.
collect_view_dependencies(select) ==
  LET found == collect_select_dependencies(select, {})
  IN IF found = {} THEN {Refused} ELSE found

-----------------------------------------------------------------------------
(* Whether anything reads a reserved table.                                *)

RECURSIVE select_reads_reserved(_)
RECURSIVE from_reads_reserved(_)
RECURSIVE expression_reads_reserved(_)

window_reads_reserved(window) ==
  \E n \in Kids(window, {"partition_by", "order_by", "start", "end"}) : expression_reads_reserved(n)

\* function_order_reads_reserved and function_tail_reads_reserved.
function_tail_reads_reserved(call) ==
  \/ \E n \in Kids(call, {"order_by", "filter"}) : expression_reads_reserved(n)
  \/ \E n \in Kids(call, {"over"}) : window_reads_reserved(n)

expression_reads_reserved(e) ==
  LET expressions(slots) == \E n \in Kids(e, slots) : expression_reads_reserved(n)
      selects(slot) == \E n \in Kids(e, {slot}) : select_reads_reserved(n)
  IN CASE e.k = "Between" -> expressions({"lhs", "start", "end"})
       [] e.k = "Binary" -> expressions({"left", "right"})
       [] e.k = "Case" -> expressions({"base", "when", "then", "else"})
       [] e.k \in OneOperand -> expressions({"expr"})
       [] e.k \in {"Exists", "Subquery"} -> selects("select")
       [] e.k = "FunctionCall" -> expressions({"args"}) \/ function_tail_reads_reserved(e)
       [] e.k = "FunctionCallStar" -> function_tail_reads_reserved(e)
       [] e.k = "InList" -> expressions({"lhs", "rhs"})
       [] e.k = "InSelect" -> expressions({"lhs"}) \/ selects("rhs")
       [] e.k = "InTable" -> expressions({"lhs", "args"}) \/ has_multilite_prefix(e.name)
       [] e.k = "Like" -> expressions({"lhs", "rhs", "escape"})
       [] e.k = "Parenthesized" -> expressions({"expressions"})
       [] e.k = "Raise" -> expressions({"expression"})
       [] e.k \in Atoms \cup {"Variable"} -> FALSE

result_column_reads_reserved(column) ==
  CASE column.k = "TableStar" -> has_multilite_prefix(column.name)
    [] column.k = "Star" -> FALSE
    [] OTHER -> expression_reads_reserved(column)

select_table_reads_reserved(table) ==
  CASE table.k \in {"Table", "HintedTable", "QualifiedTable"} -> has_multilite_prefix(table.name)
    [] table.k = "TableCall" ->
         \/ has_multilite_prefix(table.name)
         \/ \E n \in Kids(table, {"args"}) : expression_reads_reserved(n)
    [] table.k = "SubSelect" -> \E n \in Kids(table, {"select"}) : select_reads_reserved(n)
    [] table.k = "Sub" -> \E n \in Kids(table, {"from"}) : from_reads_reserved(n)

from_reads_reserved(from) ==
  \/ \E n \in Kids(from, {"select", "joins"}) : select_table_reads_reserved(n)
  \/ \E n \in Kids(from, {"on"}) : expression_reads_reserved(n)

one_select_reads_reserved(select) ==
  CASE select.k = "OneSelect" ->
         \/ \E n \in Kids(select, {"columns"}) : result_column_reads_reserved(n)
         \/ \E n \in Kids(select, {"from"}) : from_reads_reserved(n)
         \/ \E n \in Kids(select, {"where", "group_by", "having"}) : expression_reads_reserved(n)
         \/ \E n \in Kids(select, {"windows"}) : window_reads_reserved(n)
    [] select.k = "Values" -> \E n \in Kids(select, {"rows"}) : expression_reads_reserved(n)

with_reads_reserved(ctes) ==
  \E c \in ctes : \E n \in Kids(c, {"select"}) : select_reads_reserved(n)

select_reads_reserved(select) ==
  \/ with_reads_reserved(Kids(select, {"with"}))
  \/ \E n \in Kids(select, {"body", "compounds"}) : one_select_reads_reserved(n)
  \/ \E n \in Kids(select, {"order_by", "limit", "offset"}) : expression_reads_reserved(n)

\* The ON CONFLICT clauses of an INSERT.
upsert_reads_reserved(insert) ==
  \E n \in Kids(insert, {"targets", "target_where", "sets", "set_where"}) :
    expression_reads_reserved(n)

-----------------------------------------------------------------------------
(* The expressions an index may have, and a stored schema in general.      *)

RECURSIVE validate_index_expression(_)

validate_index_expression(e) ==
  LET expressions(slots) == \A n \in Kids(e, slots) : validate_index_expression(n)
  IN CASE e.k = "Between" -> expressions({"lhs", "start", "end"})
       [] e.k = "Binary" -> expressions({"left", "right"})
       [] e.k = "Case" -> expressions({"base", "when", "then", "else"})
       [] e.k \in OneOperand -> expressions({"expr"})
       [] e.k = "FunctionCall" ->
            /\ Kids(e, {"order_by", "filter", "over"}) = {} /\ e.name # "distinct"
            /\ expressions({"args"})
       [] e.k = "InList" -> expressions({"lhs", "rhs"})
       [] e.k = "Like" -> expressions({"lhs", "rhs", "escape"})
       [] e.k = "Parenthesized" -> expressions({"expressions"})
       [] e.k \in {"Id", "Literal", "Name"} -> TRUE
       [] OTHER -> FALSE

\* create_index_term: a column, a column with a collation, or an expression.
create_index_term(e) ==
  LET column(n) == n.k \in {"Id", "Name"}
  IN CASE column(e) -> "column"
       [] e.k = "Collate" /\ \A n \in Kids(e, {"expr"}) : column(n) -> "collated"
       [] OTHER -> IF validate_index_expression(e) THEN "expression" ELSE Refused

\* parse_schema_expression: what a decoded schema takes as an expression.
parse_schema_expression(e) == validate_index_expression(e)
-----------------------------------------------------------------------------
(***************************************************************************)
(* What the SQL front end makes of a statement (multilite/src/sql.rs): the *)
(* operation it stands for, or a refusal, for every entry point; and what  *)
(* the authorizer of the public connection then lets SQLite do             *)
(* (multilite/src/database.rs).                                            *)
(*                                                                         *)
(* A statement is a node of the tree with the flags, names and options of  *)
(* its variant added.                                                      *)
(***************************************************************************)

CONSTANTS
  MaxIndexColumns,   \* MAX_INDEX_COLUMNS
  SqlMaxInt,         \* the largest i32
  SqlTypes,          \* declared types
  SqlIntegerType,    \* the type INTEGER
  SqlStrictTypes     \* types a STRICT table may use

\* A statement: its variant, target, nodes, flags, conflict resolution and second name.
SqlStatement(k, name, in, flags, or, other) ==
  [k |-> k, name |-> name, in |-> in, flags |-> flags, or |-> or, other |-> other]

Unsupported == [op |-> Refused]

\* A target is unqualified, and is no reserved or internal name.
is_reserved(name) == has_multilite_prefix(name) \/ is_sqlite_internal_table(name)
UserTarget(s) == ~is_reserved(s.name) /\ "db" \notin s.flags
SchemaTarget(s) == UserTarget(s) /\ "alias" \notin s.flags

\* write_output.
write_output(s) == IF "returning" \in DOMAIN s.in THEN "Rows" ELSE "Changes"

returning_reads_reserved(s) == \E n \in Kids(s, {"returning"}) : result_column_reads_reserved(n)

write_selection_reads_reserved(s) ==
  \E n \in Kids(s, {"order_by", "limit", "offset"}) : expression_reads_reserved(n)

\* validate_write_selection: ORDER BY needs LIMIT.
validate_write_selection(s) == "order_by" \in DOMAIN s.in => "limit" \in DOMAIN s.in

\* validate_index_hint.
validate_index_hint(s) == "indexed_by" \in s.flags => ~is_reserved(s.other)

\* Conflict resolutions of INSERT and UPDATE, and of schema constraints.
Resolutions == {"none", "Abort", "Ignore", "Replace"}

constraint_conflict_policy(or) == IF or = "none" THEN "Abort" ELSE or

-----------------------------------------------------------------------------
(* validate_create_table.  A column has a name, a type and a sequence of   *)
(* constraints; a table constraint also names its columns.                 *)

NoRepeats(names) == \A i, j \in DOMAIN names : names[i] = names[j] => i = j

\* The columns a foreign key names, on either side.
simple_indexed_column_names(names) ==
  names # <<>> /\ Len(names) <= MaxIndexColumns /\ NoRepeats(names)

simple_indexed_columns(c, columns) ==
  /\ ~c.ordered /\ simple_indexed_column_names(c.columns)
  /\ ToSet(c.columns) \subseteq {col.name : col \in ToSet(columns)}

\* The columns of a PRIMARY KEY or UNIQUE constraint.
simple_key_columns(c, columns) ==
  /\ ~c.ordered /\ c.columns # <<>> /\ Len(c.columns) <= MaxIndexColumns
  /\ NoRepeats(c.columns) /\ ToSet(c.columns) \subseteq {col.name : col \in ToSet(columns)}

\* validate_foreign_key.
validate_foreign_key(c) ==
  /\ ~c.deferred /\ ~c.ordered
  /\ NoRepeats(c.actions) /\ ToSet(c.actions) \subseteq {"delete", "update"}
  /\ c.referenced # <<>> => simple_indexed_column_names(c.referenced) /\ Len(c.referenced) = Len(c.columns)

ForeignKey(c) ==
  [name |-> c.name, columns |-> c.columns, parent |-> c.parent,
   referenced |-> c.referenced, actions |-> ToSet(c.actions)]

Unique(c) ==
  [name |-> c.name, columns |-> c.columns, conflict |-> constraint_conflict_policy(c.or)]

WithKind(constraints, kind) == SelectSeq(constraints, LAMBDA c : c.kind = kind)

\* What the constraints of one column may be.
ColumnConstraints(col) ==
  LET cs == [j \in DOMAIN col.constraints |-> [col.constraints[j] EXCEPT !.columns = <<col.name>>]]
  IN /\ \A c \in ToSet(cs) :
          /\ c.kind \in {"PrimaryKey", "NotNull", "Unique", "Default", "Check", "ForeignKey"}
          /\ c.kind \in {"PrimaryKey", "NotNull", "Unique"} => c.or \in Resolutions
          /\ c.kind = "PrimaryKey" => ~c.ordered /\ ~c.auto_increment
          /\ c.kind = "ForeignKey" => validate_foreign_key(c)
     /\ \A kind \in {"PrimaryKey", "NotNull", "Default"} : Len(WithKind(cs, kind)) <= 1

\* What a table constraint may be, given the columns of the table.
TableConstraints(c, columns) ==
  /\ c.kind \in {"PrimaryKey", "Unique"} => c.or \in Resolutions /\ simple_key_columns(c, columns)
  /\ c.kind = "PrimaryKey" => ~c.auto_increment
  /\ c.kind = "Check" => c.or = "none"
  /\ c.kind = "ForeignKey" => simple_indexed_columns(c, columns) /\ validate_foreign_key(c)

\* The constraints declared inline, each over its own column.
Inline(columns, kind) ==
  LET over(i) == [j \in DOMAIN columns[i].constraints |->
                    [columns[i].constraints[j] EXCEPT !.columns = <<columns[i].name>>]]
  IN FlattenSeq([i \in DOMAIN columns |-> WithKind(over(i), kind)])

\* A key column of a STRICT or WITHOUT ROWID table is not null.
not_null_key(strict, rowid, inline) == strict \/ ~rowid

\* Exactly one primary key, on a single INTEGER column unless the table is
\* WITHOUT ROWID; checks read columns of the table.
KeyAndChecks(columns, rowid, keys, checks) ==
  LET key == keys[1].columns
      typeOf(name) == (CHOOSE c \in ToSet(columns) : c.name = name).type
  IN /\ Len(keys) = 1
     /\ rowid => Len(key) = 1 /\ typeOf(key[1]) = SqlIntegerType
     /\ \A c \in ToSet(checks) : c.reads \subseteq {col.name : col \in ToSet(columns)}

validate_create_table(s) ==
  LET columns == s.columns
      strict == "strict" \in s.flags
      rowid == "without_rowid" \notin s.flags
      inline == Inline(columns, "PrimaryKey")
      keys == inline \o WithKind(s.constraints, "PrimaryKey")
      key == keys[1].columns
      checks == Inline(columns, "Check") \o WithKind(s.constraints, "Check")
      valid ==
        /\ ~has_multilite_prefix(s.name) /\ "as_select" \notin s.flags
        /\ \A c \in ToSet(columns) :
             c.type \in SqlTypes /\ (strict => c.type \in SqlStrictTypes) /\ ColumnConstraints(c)
        /\ NoRepeats([i \in DOMAIN columns |-> columns[i].name])
        /\ \A c \in ToSet(s.constraints) : TableConstraints(c, columns)
        /\ KeyAndChecks(columns, rowid, keys, checks)
      SqlColumn(col) ==
        [name |-> col.name, type |-> col.type,
         not_null |-> \/ WithKind(col.constraints, "NotNull") # <<>>
                      \/ col.name \in ToSet(key) /\ not_null_key(strict, rowid, inline # <<>>),
         default |-> WithKind(col.constraints, "Default") # <<>>,
         primary_key |-> {i \in DOMAIN key : key[i] = col.name}]
  IN IF ~valid THEN Unsupported
     ELSE [op |-> "CreateTable", name |-> s.name, strict |-> strict, rowid |-> rowid,
           columns |-> [i \in DOMAIN columns |-> SqlColumn(columns[i])],
           key_name |-> keys[1].name, key_conflict |-> constraint_conflict_policy(keys[1].or),
           unique |-> {Unique(c) : c \in ToSet(Inline(columns, "Unique") \o WithKind(s.constraints, "Unique"))},
           foreign |-> {ForeignKey(c) : c \in ToSet(Inline(columns, "ForeignKey")
                                                      \o WithKind(s.constraints, "ForeignKey"))},
           checks |-> {<<c.name, c.reads>> : c \in ToSet(checks)}]

-----------------------------------------------------------------------------
(* validate_execute_statement, one operator for each kind of statement.    *)

Op(op, s) == [op |-> op, name |-> s.name, other |-> s.other, output |-> "Changes"]

\* AlterTable.  An added column has at most one NOT NULL, one DEFAULT and one
\* REFERENCES, and no key.
validate_alter_table(s) ==
  LET column == s.columns[1]
      kinds == {"NotNull", "Default", "ForeignKey"}
      valid ==
        /\ SchemaTarget(s)
        /\ s.k = "RenameTo" => ~is_reserved(s.other) /\ s.other # s.name
        /\ s.k = "RenameColumn" => s.from # s.other
        /\ s.k = "AddColumn" =>
             /\ column.type \in SqlTypes
             /\ \A c \in ToSet(column.constraints) :
                  /\ c.kind \in kinds \cup {"Check"}
                  /\ c.kind = "NotNull" => c.or \in Resolutions
             /\ ColumnConstraints(column)
             /\ \A kind \in kinds : Len(WithKind(column.constraints, kind)) <= 1
  IN IF valid /\ s.k # "SetNotNull" THEN Op(s.k, s) ELSE Unsupported

\* CreateIndex.  A unique index is over distinct plain columns, with no predicate.
validate_create_index(s) ==
  LET terms == [i \in DOMAIN s.terms |-> create_index_term(s.terms[i])]
      valid ==
        /\ SchemaTarget(s) /\ ~is_reserved(s.other)
        /\ Len(s.terms) \in 1..MaxIndexColumns
        /\ "nulls" \notin s.flags /\ Refused \notin ToSet(terms)
        /\ \A n \in Kids(s, {"where"}) : validate_index_expression(n)
        /\ "unique" \in s.flags =>
             /\ Kids(s, {"where"}) = {} /\ ToSet(terms) = {"column"} /\ "ordered" \notin s.flags
             /\ NoRepeats([i \in DOMAIN s.terms |-> s.terms[i].name])
  IN IF valid THEN Op("CreateIndex", s) ELSE Unsupported

\* CreateTable and the drops.
validate_create(s) ==
  IF "temporary" \in s.flags \/ "db" \in s.flags \/ "alias" \in s.flags
    THEN Unsupported ELSE validate_create_table(s) @@ [output |-> "Changes", other |-> s.other]

validate_drop(s) == IF SchemaTarget(s) THEN Op(s.k, s) ELSE Unsupported

\* CreateView and DropView: neither takes IF.
validate_view(s) ==
  LET dependencies == UNION {collect_view_dependencies(n) : n \in Kids(s, {"select"})}
      valid ==
        /\ SchemaTarget(s) /\ {"temporary", "if"} \cap s.flags = {}
        /\ s.k = "CreateView" => /\ ~\E n \in Kids(s, {"select"}) : select_reads_reserved(n)
                                 /\ Refused \notin dependencies
  IN IF valid THEN Op(s.k, s) @@ [dependencies |-> dependencies] ELSE Unsupported

validate_insert(s) ==
  LET reads_reserved ==
        \/ with_reads_reserved(Kids(s, {"with"}))
        \/ \E n \in Kids(s, {"body"}) : select_reads_reserved(n)
        \/ upsert_reads_reserved(s)
        \/ returning_reads_reserved(s)
  IN IF s.or \in Resolutions /\ UserTarget(s) /\ ~reads_reserved
       THEN [Op("Insert", s) EXCEPT !.output = write_output(s)] ELSE Unsupported

validate_delete(s) ==
  LET reads_reserved ==
        \/ with_reads_reserved(Kids(s, {"with"}))
        \/ \E n \in Kids(s, {"where"}) : expression_reads_reserved(n)
        \/ returning_reads_reserved(s)
        \/ write_selection_reads_reserved(s)
  IN IF UserTarget(s) /\ validate_index_hint(s) /\ validate_write_selection(s) /\ ~reads_reserved
       THEN [Op("Delete", s) EXCEPT !.output = write_output(s)] ELSE Unsupported

validate_update(s) ==
  LET reads_reserved ==
        \/ with_reads_reserved(Kids(s, {"with"}))
        \/ \E n \in Kids(s, {"sets", "where"}) : expression_reads_reserved(n)
        \/ \E n \in Kids(s, {"from"}) : from_reads_reserved(n)
        \/ returning_reads_reserved(s)
        \/ write_selection_reads_reserved(s)
  IN IF /\ s.or \in Resolutions /\ UserTarget(s)
        /\ validate_index_hint(s) /\ validate_write_selection(s) /\ ~reads_reserved
       THEN [Op("Update", s) EXCEPT !.output = write_output(s)] ELSE Unsupported

\* parse_pragma_object and parse_pragma_i32: the value a pragma is given.
parse_pragma_object(v) == v.k = "object" /\ ~is_reserved(v.name)
parse_pragma_i32(v) == v.k = "number" /\ v.number \in -SqlMaxInt - 1 .. SqlMaxInt

TablePragmas == {"table_info", "table_xinfo", "index_list", "foreign_key_list"}
IndexPragmas == {"index_info", "index_xinfo"}

\* is_public_pragma.
is_public_pragma(name) == name \in TablePragmas \cup IndexPragmas \cup {"user_version"}

\* validate_pragma: reads the schema or the user version, or sets the latter.
validate_pragma(s) ==
  LET read(ok) == IF ok THEN [Op("Read", s) EXCEPT !.output = "Rows"] ELSE Unsupported
  IN CASE {"other_db", "alias"} \cap s.flags # {} -> Unsupported
       [] s.name = "user_version" /\ s.value.k = "none" -> read(TRUE)
       [] s.name = "user_version" /\ s.value.k # "none" ->
            IF parse_pragma_i32(s.value) THEN Op("SetUserVersion", s) ELSE Unsupported
       [] s.name \in TablePragmas \cup IndexPragmas -> read(parse_pragma_object(s.value))
       [] OTHER -> Unsupported

Alters == {"RenameTo", "RenameColumn", "AddColumn", "DropColumn", "DropConstraint", "SetNotNull"}
TransactionControl == {"Begin", "Commit", "Rollback", "Savepoint", "Release"}

validate_execute_statement(s) ==
  CASE s.k \in Alters -> validate_alter_table(s)
    [] s.k = "CreateIndex" -> validate_create_index(s)
    [] s.k = "CreateTable" -> validate_create(s)
    [] s.k \in {"DropTable", "DropIndex"} -> validate_drop(s)
    [] s.k \in {"CreateView", "DropView"} -> validate_view(s)
    [] s.k = "Insert" -> validate_insert(s)
    [] s.k = "Delete" -> validate_delete(s)
    [] s.k = "Update" -> validate_update(s)
    [] s.k = "Pragma" -> LET v == validate_pragma(s) IN IF v.op = "Read" THEN Unsupported ELSE v
    [] OTHER -> Unsupported

-----------------------------------------------------------------------------
(* The entry points.  A command is a statement, explained or not.          *)

\* validate_execute: changes without rows.
validate_execute(s) ==
  LET v == validate_execute_statement(s)
  IN IF "explain" \in s.flags \/ (v.op # Refused /\ v.output = "Rows") THEN Unsupported ELSE v

\* validate_statement: a read or a write.
validate_statement(s) ==
  CASE s.k = "Select" ->
         IF \E n \in Kids(s, {"select"}) : select_reads_reserved(n)
           THEN Unsupported ELSE [Op("Read", s) EXCEPT !.output = "Rows"]
    [] s.k # "Select" /\ "explain" \in s.flags -> Unsupported
    [] s.k = "Pragma" /\ "explain" \notin s.flags -> validate_pragma(s)
    [] s.k \in TransactionControl -> Unsupported
    [] OTHER -> validate_execute_statement(s)

\* validate_managed_statement.
validate_managed_statement(s) == "explain" \in s.flags \/ s.k \notin TransactionControl

\* validate_read_statement.
validate_read_statement(s) ==
  \/ s.k = "Select" /\ ~\E n \in Kids(s, {"select"}) : select_reads_reserved(n)
  \/ s.k = "Pragma" /\ "explain" \notin s.flags /\ validate_pragma(s).op = "Read"
-----------------------------------------------------------------------------
(***************************************************************************)
(* Statements as an application writes them, and what the SQL front end    *)
(* and the authorizer of multilite do with each.                           *)
(*                                                                         *)
(* A behaviour grows one parse tree: a table at the bottom is wrapped in   *)
(* ever larger pieces of the grammar until it is a query or a statement.   *)
(* CREATE TABLE statements are given whole.                                *)
(***************************************************************************)

CONSTANTS
  SqlBase,       \* a table the application made
  SqlOther,      \* another one
  SqlHidden,     \* a table of multilite's own
  SqlSchema,     \* the schema tables of SQLite
  SqlSequence,   \* a table of SQLite's own that is not a schema table
  MaxOperators,  \* bound: expressions and joined tables in which a tree is wrapped
  MaxQueries,    \* bound: queries in which a tree is wrapped
  CreateTables,  \* CREATE TABLE statements
  OtherStatements  \* statements without a tree

VARIABLE
  parsed   \* [sort, node, operators, queries]

-----------------------------------------------------------------------------
(* The grammar of sqlite3_parser: what each piece is made of.              *)

Slot(sort, kind, slot, of, needed) ==
  [sort |-> sort, kind |-> kind, slot |-> slot, of |-> of, needed |-> needed]

Grammar ==
  {Slot("expr", kind, "expr", "expr", TRUE) : kind \in OneOperand}
    \cup {Slot("expr", "Between", slot, "expr", TRUE) : slot \in {"lhs", "start", "end"}}
    \cup {Slot("expr", "Binary", slot, "expr", TRUE) : slot \in {"left", "right"}}
    \cup {Slot("expr", "Case", slot, "expr", TRUE) : slot \in {"when", "then"}}
    \cup {Slot("expr", "Case", slot, "expr", FALSE) : slot \in {"base", "else"}}
    \cup {Slot("expr", kind, "select", "select", TRUE) : kind \in {"Exists", "Subquery"}}
    \cup {Slot("expr", "FunctionCall", slot, "expr", FALSE) : slot \in {"args", "order_by", "filter"}}
    \cup {Slot("expr", "FunctionCall", "over", "window", FALSE)}
    \cup {Slot("expr", "FunctionCallStar", "filter", "expr", FALSE),
          Slot("expr", "FunctionCallStar", "over", "window", FALSE)}
    \cup {Slot("expr", "InList", slot, "expr", TRUE) : slot \in {"lhs", "rhs"}}
    \cup {Slot("expr", "InSelect", "lhs", "expr", TRUE), Slot("expr", "InSelect", "rhs", "select", TRUE)}
    \cup {Slot("expr", "InTable", "lhs", "expr", TRUE), Slot("expr", "InTable", "args", "expr", FALSE)}
    \cup {Slot("expr", "Like", slot, "expr", TRUE) : slot \in {"lhs", "rhs"}}
    \cup {Slot("expr", "Like", "escape", "expr", FALSE)}
    \cup {Slot("expr", "Parenthesized", "expressions", "expr", TRUE)}
    \cup {Slot("expr", "Raise", "expression", "expr", TRUE)}
    \cup {Slot("window", "Window", slot, "expr", FALSE) :
            slot \in {"partition_by", "order_by", "start", "end"}}
    \cup {Slot("table", "SubSelect", "select", "select", TRUE), Slot("table", "Sub", "from", "from", TRUE),
          Slot("table", "TableCall", "args", "expr", FALSE)}
    \cup {Slot("from", "From", "select", "table", TRUE), Slot("from", "From", "joins", "table", FALSE),
          Slot("from", "From", "on", "expr", FALSE)}
    \cup {Slot("one", "OneSelect", slot, "expr", FALSE) : slot \in {"columns", "where", "group_by", "having"}}
    \cup {Slot("one", "OneSelect", "from", "from", FALSE), Slot("one", "OneSelect", "windows", "window", FALSE),
          Slot("one", "Values", "rows", "expr", TRUE)}
    \cup {Slot("select", "Query", "body", "one", TRUE), Slot("select", "Query", "compounds", "one", FALSE),
          Slot("select", "Query", "with", "cte", FALSE)}
    \cup {Slot("select", "Query", slot, "expr", FALSE) : slot \in {"order_by", "limit", "offset"}}
    \cup {Slot("cte", "Cte", "select", "select", TRUE)}

SqlLeaf(k, name) == Node(k, name, <<>>)
OneOf(e) == Node("OneSelect", "", [columns |-> {e}])
FromTable(name) == Node("From", "", [select |-> {SqlLeaf("Table", name)}])

\* What stands in a slot that must be filled and that the tree is not in.
Filler(sort) ==
  CASE sort = "expr" -> SqlLeaf("Literal", "")
    [] sort = "table" -> SqlLeaf("Table", SqlOther)
    [] sort = "from" -> FromTable(SqlOther)
    [] sort = "one" -> OneOf(SqlLeaf("Literal", ""))
    [] sort = "select" -> Node("Query", "", [body |-> {OneOf(SqlLeaf("Literal", ""))}])

\* The names a kind may carry, and whether a call has DISTINCT.
NodeNames(kind) ==
  CASE kind \in {"InTable", "TableCall"} -> {SqlBase}
    [] kind = "Cte" -> {SqlBase, SqlOther}
    [] kind = "FunctionCall" -> {"", "distinct"}
    [] OTHER -> {""}

\* A tree in one slot of a new node, whose other needed slots are filled.
Wrapped(g, name, node) ==
  LET needed == {h \in Grammar : h.sort = g.sort /\ h.kind = g.kind /\ h.needed /\ h.slot # g.slot}
      other(slot) == (CHOOSE h \in needed : h.slot = slot).of
  IN Node(g.kind, name,
          [slot \in {h.slot : h \in needed} |-> {Filler(other(slot))}] @@ (g.slot :> {node}))

\* WITH name AS (SELECT ...) before a query.
Shadowed(node, name) ==
  [node EXCEPT !.in = @ @@ [with |-> {Node("Cte", name, [select |-> {Filler("select")}])}]]

\* The queries that may stand in another one.
InnerQueries ==
  LET query(name) == Node("Query", "", [body |-> {Node("OneSelect", "", [from |-> {FromTable(name)}])}])
  IN UNION {{query(name), Shadowed(query(name), SqlBase)} : name \in {SqlBase, SqlHidden}}

\* Statements a query or an expression may stand in.
StatementSlots ==
  {<<"Insert", slot, "expr">> : slot \in {"targets", "target_where", "sets", "set_where", "returning"}}
    \cup {<<kind, "with", "cte">> : kind \in {"Insert", "Delete", "Update"}}
    \cup {<<"Insert", "body", "select">>, <<"Update", "from", "from">>, <<"Update", "sets", "expr">>}
    \cup {<<kind, slot, "expr">> : kind \in {"Delete", "Update"},
                                   slot \in {"where", "returning", "limit", "offset"}}
    \cup {<<"Select", "select", "select">>, <<"CreateView", "select", "select">>}

-----------------------------------------------------------------------------
(* What SQLite reads of a tree, whatever slots it has.                     *)

RECURSIVE TablesRead(_, _)

\* The tables a tree reads: every name in a table's place that no common table
\* expression in scope has.
TablesRead(n, ctes) ==
  LET inner == ctes \cup {c.name : c \in Kids(n, {"with"})}
      own == IF n.k \in {"Table", "HintedTable", "InTable", "TableCall"} THEN {n.name} \ ctes
               ELSE IF n.k = "QualifiedTable" THEN {n.name} ELSE {}
  IN own \cup UNION {TablesRead(m, inner) : m \in Kids(n, DOMAIN n.in)}

-----------------------------------------------------------------------------
SqlInit ==
  parsed \in
    {[sort |-> "table", node |-> SqlLeaf("Table", name), operators |-> 0, queries |-> 0] :
       name \in {SqlBase, SqlHidden, SqlSequence} \cup SqlSchema}
      \cup {[sort |-> "table", node |-> SqlLeaf(kind, SqlHidden), operators |-> 0, queries |-> 0] :
              kind \in {"HintedTable", "QualifiedTable", "TableCall"}}
      \cup {[sort |-> "expr", node |-> Node("InTable", name, [lhs |-> {Filler("expr")}]),
             operators |-> 0, queries |-> 0] : name \in {SqlBase, SqlHidden}}
      \cup {[sort |-> "expr", node |-> SqlLeaf(kind, ""), operators |-> 0, queries |-> 0] :
              kind \in Atoms \cup {"Variable"}}
      \cup {[sort |-> "statement", node |-> s, operators |-> 0, queries |-> 0] :
              s \in CreateTables \cup OtherStatements}

\* The tree becomes part of a larger one.
Wrap ==
  \E g \in {h \in Grammar : h.of = parsed.sort} :
    \E name \in NodeNames(g.kind) :
      LET operators == parsed.operators + (IF g.sort \in {"expr", "table"} /\ g.of # "select" THEN 1 ELSE 0)
          queries == parsed.queries + (IF g.sort = "select" THEN 1 ELSE 0)
          node == Wrapped(g, name, parsed.node)
      IN /\ operators <= MaxOperators /\ queries <= MaxQueries
         /\ g.of = "select" => parsed.node \in InnerQueries
         /\ parsed' \in {[sort |-> g.sort, node |-> n, operators |-> operators, queries |-> queries] :
                           n \in {node} \cup (IF g.slot = "body" /\ queries = 1
                                                THEN {Shadowed(node, SqlBase)} ELSE {})}

\* The tree becomes part of a statement.
Complete ==
  /\ parsed.operators = 0 /\ parsed.queries <= 1
  /\ \E g \in {h \in StatementSlots : h[3] = parsed.sort} :
       \E flags \in {{}, {"explain"}}, ordered \in BOOLEAN :
         LET in == (g[2] :> {parsed.node})
                     @@ (IF ordered THEN [order_by |-> {Filler("expr")}] ELSE <<>>)
         IN parsed' = [parsed EXCEPT
              !.sort = "statement",
              !.node = SqlStatement(g[1], SqlOther, in, flags, "none", "")]

SqlNext == Wrap \/ Complete
SqlSpec == SqlInit /\ [][SqlNext]_parsed

-----------------------------------------------------------------------------
(* What SQLite does with a tree.                                           *)

RECURSIVE Nodes(_)
Nodes(n) == {n} \cup UNION {Nodes(m) : m \in Kids(n, DOMAIN n.in)}

HasKind(n, kinds) == \E m \in Nodes(n) : m.k \in kinds

\* A window over count(*) somewhere in the tree.
StarWindow(n) == \E m \in Nodes(n) : m.k = "FunctionCallStar" /\ Kids(m, {"over"}) # {}

Action(a, name, db) == [a |-> a, name |-> name, db |-> db]

SchemaWrite(a) == {Action(a, "sqlite_master", "main"), Action("Update", "sqlite_master", "main"),
                   Action("Read", "sqlite_master", "main")}

\* The actions SQLite asks the authorizer about while it prepares a statement.
ActionsOf(s) ==
  LET main(a, name) == Action(a, name, "main")
      reads == {main("Read", t) : t \in TablesRead(s, {})}
                 \cup {Action("Read", t, "none") : t \in TablesRead(s, {})}
  IN CASE s.k = "Select" -> {Action("Select", "", "none")} \cup reads
       [] s.k \in {"Insert", "Delete", "Update"} ->
            {main(s.k, s.name), Action("Select", "", "none")} \cup reads
       [] s.k = "CreateTable" ->
            SchemaWrite("Insert")
              \cup {main("CreateTable", s.name), main("AutoIndex", s.name), main("Read", s.name)}
       [] s.k = "CreateIndex" ->
            SchemaWrite("Insert")
              \cup {main("CreateIndex", s.name), main("Read", s.other), main("Reindex", s.name)}
       [] s.k = "DropTable" -> SchemaWrite("Delete") \cup {main("DropTable", s.name), main("Delete", s.name)}
       [] s.k = "DropIndex" -> SchemaWrite("Delete") \cup {main("DropIndex", s.name)}
       [] s.k = "CreateView" -> SchemaWrite("Insert") \cup {main("CreateView", s.name)}
       [] s.k = "DropView" -> SchemaWrite("Delete") \cup {main("DropView", s.name), main("Delete", s.name)}
       [] s.k \in {"RenameTo", "RenameColumn"} ->
            SchemaWrite("Update")
              \cup {main("AlterTable", s.name), Action("Function", "", "none"),
                    Action("Update", "sqlite_temp_master", "temp"),
                    Action("Read", "sqlite_temp_master", "temp")}
       [] s.k = "AddColumn" ->
            SchemaWrite("Update")
              \cup {main("AlterTable", s.name), Action("Function", "", "none"),
                    main("Read", "pragma_quick_check"), main("QuickCheck", s.name)}
       [] s.k = "Pragma" -> {Action("Pragma", s.name, "none")}
       [] OTHER -> {}

-----------------------------------------------------------------------------
(* authorize_database on a connection in public mode.                      *)

is_main(database) == database \in {"none", "main"}
is_schema_table(table) == table \in SqlSchema

authorize_user_table(database, table) == is_main(database) /\ ~is_reserved(table)

authorize_schema(database) == is_main(database) \/ database = "temp"

authorize_read(database, table) ==
  IF is_schema_table(table) THEN is_main(database) \/ database = "temp"
    ELSE authorize_user_table(database, table)

authorize_database(c) ==
  CASE c.a \in {"Select", "Function", "Recursive"} -> TRUE
    [] c.a = "Read" -> authorize_read(c.db, c.name)
    [] c.a \in {"CreateTable", "DropTable", "CreateView", "DropView", "AlterTable", "AutoIndex"} ->
         authorize_user_table(c.db, c.name)
    [] c.a \in {"CreateIndex", "DropIndex", "Reindex"} -> is_main(c.db) /\ ~is_reserved(c.name)
    [] c.a = "QuickCheck" -> authorize_user_table("main", c.name)
    [] c.a = "Pragma" -> is_public_pragma(c.name)
    [] c.a \in {"Insert", "Update", "Delete"} ->
         IF is_schema_table(c.name) THEN authorize_schema(c.db) ELSE authorize_user_table(c.db, c.name)
    [] OTHER -> FALSE

-----------------------------------------------------------------------------
Query == parsed.sort = "select"
Stated == parsed.sort = "statement"
View == SqlStatement("CreateView", "v", [select |-> {parsed.node}], {}, "none", "")

\* A view's recorded dependencies are the base tables its query reads, at any
\* depth, with common table expressions in their scope (sql.rs
\* collect_view_dependencies): the guards of DROP and RENAME rest on them.  A
\* window over count(*) is not looked into.
DependenciesComplete ==
  Query =>
    LET v == validate_execute_statement(View)
    IN v.op # Refused /\ ~StarWindow(parsed.node) => v.dependencies = TablesRead(parsed.node, {})

\* No statement that any entry point takes reads a table of multilite's own,
\* however deep it stands (sql.rs select_reads_reserved and its callers).
ReservedRefused ==
  /\ Query => (validate_execute_statement(View).op # Refused
                 => SqlHidden \notin TablesRead(parsed.node, {}))
  /\ Stated /\ parsed.node.k \notin {"CreateTable"} =>
       (validate_statement(parsed.node).op # Refused => SqlHidden \notin TablesRead(parsed.node, {}))

\* The entry points agree: a statement a prepared handle takes as a read is one
\* a view takes, and one it takes as a change without rows is one execute takes
\* (sql.rs validate_statement, validate_read_statement, validate_execute).
EntryPointsAgree ==
  Stated =>
    LET s == parsed.node
        v == validate_statement(s)
        accepted == v.op # Refused
    IN /\ validate_read_statement(s) <=> accepted /\ v.op = "Read"
       /\ accepted /\ v.op # "Read" /\ v.output = "Changes" <=> validate_execute(s).op # Refused
       /\ accepted => validate_managed_statement(s)

\* What the front end takes, the authorizer lets SQLite do (database.rs
\* authorize_database), except to read SQLite's own tables outside the schema.
AcceptedIsAuthorized ==
  Stated /\ SqlSequence \notin TablesRead(parsed.node, {}) =>
    (validate_statement(parsed.node).op # Refused =>
       \A a \in ActionsOf(parsed.node) : authorize_database(a))

\* An inline PRIMARY KEY, UNIQUE or REFERENCES means what the same constraint
\* means at the end of the table (sql.rs validate_create_table).
InlineIsTableLevel ==
  Stated /\ parsed.node.k = "CreateTable" =>
    LET s == parsed.node
    IN \A i \in DOMAIN s.columns : \A j \in DOMAIN s.columns[i].constraints :
         LET c == s.columns[i].constraints[j]
             hoisted == [s EXCEPT
               !.columns[i].constraints = RemoveAt(@, j),
               !.constraints = Append(@, [c EXCEPT !.columns = <<s.columns[i].name>>])]
         IN c.kind \in {"PrimaryKey", "Unique", "ForeignKey"} =>
              validate_create(hoisted) = validate_create(s)

\* What SQLite takes as the expression of a CHECK.
SqliteTakesCheck(e) ==
  /\ ~HasKind(e, {"Exists", "Subquery", "InSelect", "InTable", "FunctionCallStar", "Variable"})
  /\ \A n \in Nodes(e) : n.k = "FunctionCall" => Kids(n, {"filter", "over", "order_by"}) = {}

\* A CHECK expression that SQLite takes reads back from the stored definition,
\* except a qualified column, DISTINCT and RAISE (sql.rs parse_schema_expression).
ChecksReadBack ==
  /\ parsed.sort = "expr" /\ SqliteTakesCheck(parsed.node)
  /\ ~HasKind(parsed.node, {"Qualified", "DoublyQualified", "Raise"})
  /\ \A n \in Nodes(parsed.node) : n.name # "distinct"
  => parse_schema_expression(parsed.node)

\* The front end takes what it can carry out and knows what it reads: dependencies,
\* reserved tables, entry points, the authorizer and stored constraints agree.
FrontEndIsSound ==
  /\ DependenciesComplete /\ ReservedRefused
  /\ EntryPointsAgree /\ AcceptedIsAuthorized
  /\ InlineIsTableLevel /\ ChecksReadBack
=============================================================================
