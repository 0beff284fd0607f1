-------------------------- MODULE OperationFrames ---------------------------
\* Frames of what a device submits, in four parts: row operations, the other
\* logical operations, proposals, and the machine that writes, damages and reads
\* every kind of frame.
(***************************************************************************)
(* The frame of one row operation (multilite/src/logical/row.rs, value.rs): *)
(* the per-table rules a replica needs to recompute keys, and the before   *)
(* and after image of every row.  Also the byte images keys are made of,   *)
(* and the sizes the capture budget is charged with.                       *)
(*                                                                         *)
(* A value is [kind, n, bytes]; a REAL n stands for n halves.              *)
(***************************************************************************)
EXTENDS Records

CONSTANTS MinInt, MaxInt,          \* scaled i64 range, inside one word
          MaxCapturedChanges,      \* MAX_CAPTURED_CHANGES
          MaxOperationBytes        \* MAX_ROW_OPERATION_BYTES

ValueKinds == (0 :> "Null") @@ (1 :> "Integer") @@ (2 :> "Real") @@ (3 :> "Text") @@ (4 :> "Blob")

(* StoredValue::encode, ::decode, ::encoded_len.                           *)
Value_encode(v) ==
    U8(ByteOf(ValueKinds, v.kind))
    \o (IF v.kind \in {"Integer", "Real"} THEN U64(AsWord(v.n)) ELSE v.bytes)
Value_decode(fr) ==
    LET kind == OfByte(ValueKinds, fr[1].n)
    IN IF ~Starts(fr, <<"u8">>) \/ ~IsSome(kind) THEN None
       ELSE IF kind[1] = "Null" THEN Check(Len(fr) = 1, [kind |-> "Null", n |-> 0, bytes |-> <<>>])
       ELSE IF kind[1] \in {"Integer", "Real"}
       THEN Check(Exactly(fr, <<"u8", "u64">>), [kind |-> kind[1], n |-> AsSigned(fr[2].n), bytes |-> <<>>])
       ELSE Some([kind |-> kind[1], n |-> 0, bytes |-> Tail(fr)])
Value_encoded_len(v) ==
    CASE v.kind = "Null" -> 1 [] v.kind \in {"Integer", "Real"} -> 9 [] OTHER -> 1 + Size(v.bytes)

encode_column_value(c) == Field(1, Uuid(c.column)) \o Field(2, Value_encode(c.value))
decode_column_value(fr) ==
    Then(Tagged(fr, {1, 2}, {}, {}, LAMBDA t, p : IF t = 1 THEN uuid_bytes(p) ELSE Value_decode(p)),
         LAMBDA r : Some([column |-> r[1], value |-> r[2]]))

(* A row is its column values, in table order.                             *)
validate_row_values(row) == Check(row # <<>> /\ Distinct(EachOf(row, LAMBDA c : c.column)), row)
encode_row_image(row) == U8(1) \o FieldEach(4, row, encode_column_value)
decode_row_image(fr) ==
    IF ~Versioned(fr, 1) THEN None
    ELSE Then(Tagged(Tail(fr), {}, {}, {4}, LAMBDA t, p : decode_column_value(p)),
              LAMBDA r : validate_row_values(r[4]))

encode_key_part(k) ==
    Field(1, Uuid(k.column)) \o Field(2, Enum(Affinities, k.affinity)) \o Field(3, U8(Bit(k.rowid_alias)))
decode_key_part(fr) ==
    Then(Tagged(fr, 1..3, {}, {}, LAMBDA t, p : CASE t = 1 -> uuid_bytes(p)
                                                  [] t = 2 -> LeafEnum(p, Affinities)
                                                  [] t = 3 -> decode_boolean(p)),
         LAMBDA r : Check(r[3] => r[2] = "Integer", [column |-> r[1], affinity |-> r[2], rowid_alias |-> r[3]]))

DistinctColumns(parts) == parts # <<>> /\ Distinct(EachOf(parts, LAMBDA k : k.column))

encode_index_rules(x) == Field(1, Uuid(x.index)) \o FieldEach(2, x.parts, encode_key_part)
decode_index_rules(fr) ==
    Then(Tagged(fr, {1}, {}, {2}, LAMBDA t, p : IF t = 1 THEN uuid_bytes(p) ELSE decode_key_part(p)),
         LAMBDA r : Check(DistinctColumns(r[2]), [index |-> r[1], parts |-> r[2]]))

encode_foreign_key_part(k) == Field(1, Uuid(k.child)) \o Field(2, encode_key_part(k.parent))
decode_foreign_key_part(fr) ==
    Then(Tagged(fr, {1, 2}, {}, {}, LAMBDA t, p : IF t = 1 THEN uuid_bytes(p) ELSE decode_key_part(p)),
         LAMBDA r : Some([child |-> r[1], parent |-> r[2]]))
encode_foreign_key(f) ==
    Field(1, Uuid(f.id)) \o Field(2, Uuid(f.parent_table)) \o Field(5, Uuid(f.parent_index))
    \o FieldEach(4, f.parts, encode_foreign_key_part)
decode_foreign_key(fr) ==
    Then(Tagged(fr, {1, 2, 5}, {}, {4}, LAMBDA t, p : IF t = 4 THEN decode_foreign_key_part(p) ELSE uuid_bytes(p)),
         LAMBDA r : Check(r[4] # <<>>, [id |-> r[1], parent_table |-> r[2], parent_index |-> r[5], parts |-> r[4]]))

encode_incoming_foreign_key(f) ==
    Field(1, Uuid(f.id)) \o Field(2, Uuid(f.child_table)) \o Field(3, Uuid(f.child_primary))
    \o Field(5, Uuid(f.parent_index)) \o FieldEach(6, f.parts, encode_key_part)
decode_incoming_foreign_key(fr) ==
    Then(Tagged(fr, {1, 2, 3, 5}, {}, {6}, LAMBDA t, p : IF t = 6 THEN decode_key_part(p) ELSE uuid_bytes(p)),
         LAMBDA r : Check(r[6] # <<>>, [id |-> r[1], child_table |-> r[2], child_primary |-> r[3],
                                        parent_index |-> r[5], parts |-> r[6]]))

(* RowRules::validate.                                                     *)
rules_are_valid(s) ==
    /\ DistinctColumns(s.key_parts)
    /\ (\E i \in DOMAIN s.key_parts : s.key_parts[i].rowid_alias)
         => Len(s.key_parts) = 1 /\ s.key_parts[1].affinity = "Integer"
    /\ Distinct(EachOf(s.indexes, LAMBDA x : x.index))
    /\ \A i \in DOMAIN s.indexes :
         /\ DistinctColumns(s.indexes[i].parts)
         /\ \A j \in DOMAIN s.indexes[i].parts : ~s.indexes[i].parts[j].rowid_alias
    /\ Distinct(EachOf(s.fks, LAMBDA f : f.id))
    /\ \A i \in DOMAIN s.fks : s.fks[i].parts # <<>> /\ Distinct(EachOf(s.fks[i].parts, LAMBDA k : k.child))
    /\ Distinct(EachOf(s.incoming, LAMBDA f : f.id))
    /\ \A i \in DOMAIN s.incoming : DistinctColumns(s.incoming[i].parts)

RowRules_encode(s) ==
    U8(2) \o Field(1, Uuid(s.table)) \o Field(2, Uuid(s.revision)) \o Field(3, Uuid(s.primary_index))
    \o Field(4, Enum(TableStorages, s.storage)) \o FieldEach(5, s.key_parts, encode_key_part)
    \o FieldEach(6, s.indexes, encode_index_rules) \o FieldEach(7, s.fks, encode_foreign_key)
    \o FieldEach(8, s.incoming, encode_incoming_foreign_key)
(* Rules travel alone here: a row among them (tag 9) is refused.           *)
decode_row_rules(fr) ==
    IF ~Versioned(fr, 2) THEN None
    ELSE Then(Tagged(Tail(fr), 1..4, {}, 5..9,
                     LAMBDA t, p : CASE t \in 1..3 -> uuid_bytes(p)
                                     [] t = 4 -> LeafEnum(p, TableStorages)
                                     [] t = 5 -> decode_key_part(p)
                                     [] t = 6 -> decode_index_rules(p)
                                     [] t = 7 -> decode_foreign_key(p)
                                     [] t = 8 -> decode_incoming_foreign_key(p)
                                     [] t = 9 -> None),
              LAMBDA r : LET s == [table |-> r[1], revision |-> r[2], primary_index |-> r[3], storage |-> r[4],
                                   key_parts |-> r[5], indexes |-> r[6], fks |-> r[7], incoming |-> r[8]]
                         IN Check(rules_are_valid(s), s))

(* The order-preserving image of one key value; none for a value that can  *)
(* not be a key.  An integral REAL has the image of the INTEGER it equals. *)
HasValue(row, column) == \E i \in DOMAIN row : row[i].column = column
ValueOf(row, column) == row[CHOOSE i \in DOMAIN row : row[i].column = column].value
key_image(v, part) ==
    IF v.kind = "Null" \/ (part.affinity = "Text" /\ v.kind \in {"Integer", "Real"}) THEN None
    ELSE CASE v.kind = "Integer" -> Some(<<1, v.n - MinInt>>)
           [] v.kind = "Real" -> IF v.n % 2 = 0 /\ v.n \div 2 \in MinInt..MaxInt
                                 THEN Some(<<1, v.n \div 2 - MinInt>>) ELSE Some(<<2, v.n>>)
           [] v.kind = "Text" -> Some(<<3>> \o EachOf(v.bytes, LAMBDA t : t.n))
           [] v.kind = "Blob" -> Some(<<4>> \o EachOf(v.bytes, LAMBDA t : t.n))
ImagesOf(row, columns, parts) ==
    IF \A i \in DOMAIN parts : HasValue(row, columns[i]) /\ IsSome(key_image(ValueOf(row, columns[i]), parts[i]))
    THEN Some([i \in DOMAIN parts |-> key_image(ValueOf(row, columns[i]), parts[i])[1]]) ELSE None
HasNull(row, columns) ==
    \E i \in DOMAIN columns : HasValue(row, columns[i]) /\ ValueOf(row, columns[i]).kind = "Null"
ColumnsOf(parts) == EachOf(parts, LAMBDA k : k.column)

row_key(s, row) == ImagesOf(row, ColumnsOf(s.key_parts), s.key_parts)

(* index_entries, foreign_references: a NULL among the values exempts the  *)
(* row, otherwise every value must have an image.                          *)
entry_is_valid(row, columns, parts) ==
    /\ \A i \in DOMAIN columns : HasValue(row, columns[i])
    /\ HasNull(row, columns) \/ IsSome(ImagesOf(row, columns, parts))
index_keys(s, row) ==
    {<<s.indexes[i].index, ImagesOf(row, ColumnsOf(s.indexes[i].parts), s.indexes[i].parts)[1]>> :
        i \in {i \in DOMAIN s.indexes : ~HasNull(row, ColumnsOf(s.indexes[i].parts))}}

(* RowSet::validate_structure over the before or the after images.         *)
rows_are_valid(s, rows) ==
    /\ \A i \in DOMAIN rows :
         /\ ColumnsOf(rows[i]) = ColumnsOf(rows[1])
         /\ IsSome(row_key(s, rows[i]))
         /\ \A j \in DOMAIN s.indexes : entry_is_valid(rows[i], ColumnsOf(s.indexes[j].parts), s.indexes[j].parts)
         /\ \A j \in DOMAIN s.fks : entry_is_valid(rows[i], EachOf(s.fks[j].parts, LAMBDA k : k.child),
                                                   EachOf(s.fks[j].parts, LAMBDA k : k.parent))
    /\ \A i, j \in DOMAIN rows : i # j => /\ row_key(s, rows[i]) # row_key(s, rows[j])
                                          /\ index_keys(s, rows[i]) \cap index_keys(s, rows[j]) = {}

RowDelta_encode(d) == U8(1) \o FieldEach(1, d.before, encode_row_image) \o FieldEach(2, d.after, encode_row_image)
RowDelta_decode(fr) ==
    IF ~Versioned(fr, 1) THEN None
    ELSE Then(Tagged(Tail(fr), {}, {1, 2}, {}, LAMBDA t, p : decode_row_image(p)),
              LAMBDA r : Some([before |-> r[1], after |-> r[2]]))

table_changes_are_valid(t) ==
    /\ rules_are_valid(t.rules)
    /\ t.rows # <<>> /\ \A i \in DOMAIN t.rows : t.rows[i].before # t.rows[i].after
    /\ rows_are_valid(t.rules, FlattenSeq(EachOf(t.rows, LAMBDA d : d.before)))
    /\ rows_are_valid(t.rules, FlattenSeq(EachOf(t.rows, LAMBDA d : d.after)))
TableChanges_encode(t) == U8(1) \o Field(1, RowRules_encode(t.rules)) \o FieldEach(2, t.rows, RowDelta_encode)
TableChanges_decode(fr) ==
    IF ~Versioned(fr, 1) THEN None
    ELSE Then(Tagged(Tail(fr), {1}, {}, {2}, LAMBDA t, p : IF t = 1 THEN decode_row_rules(p) ELSE RowDelta_decode(p)),
              LAMBDA r : LET t == [rules |-> r[1], rows |-> r[2]] IN Check(table_changes_are_valid(t), t))

(* The sizes the budget is computed from, without encoding the rows.       *)
Sum(s) == FoldLeft(LAMBDA a, b : a + b, 0, s)
field_len(n) == n + 5
row_image_len(row) ==
    1 + Sum(EachOf(row, LAMBDA c : field_len(field_len(16) + field_len(Value_encoded_len(c.value)))))
RowDelta_encoded_len(d) == 1 + Sum(EachOf(d.before \o d.after, LAMBDA row : field_len(row_image_len(row))))
TableChanges_encoded_len(t) ==
    1 + field_len(Size(RowRules_encode(t.rules))) + Sum(EachOf(t.rows, LAMBDA d : field_len(RowDelta_encoded_len(d))))
RowChanges_encoded_len(c) == 1 + Sum(EachOf(c, LAMBDA t : field_len(TableChanges_encoded_len(t))))
validate_budget_with(c, max_changes, max_bytes) ==
    Sum(EachOf(c, LAMBDA t : Len(t.rows))) <= max_changes /\ RowChanges_encoded_len(c) <= max_bytes

(* Tables in ascending identity order, each with at least one change.      *)
RowChanges_encode(c) == U8(1) \o FieldEach(1, c, TableChanges_encode)
RowChanges_decode(fr) ==
    IF ~Versioned(fr, 1) \/ Size(fr) > MaxOperationBytes THEN None
    ELSE Then(Tagged(Tail(fr), {}, {}, {1}, LAMBDA t, p : TableChanges_decode(p)),
              LAMBDA r : Check(/\ r[1] # <<>>
                               /\ \A i \in 2..Len(r[1]) : r[1][i - 1].rules.table < r[1][i].rules.table
                               /\ validate_budget_with(r[1], MaxCapturedChanges, MaxOperationBytes), r[1]))
-----------------------------------------------------------------------------
(***************************************************************************)
(* The frames of the other logical operations and of a transaction         *)
(* (multilite/src/logical/{alter,index,drop_table,view,user_version,       *)
(* operation,transaction}.rs).  An ALTER TABLE and an index operation carry *)
(* the table before and after: the decoder recomputes one from the other   *)
(* and from the SQL text.                                                  *)
(***************************************************************************)

CONSTANTS MaxTransactionOperations,   \* MAX_TRANSACTION_OPERATIONS
          MaxTransactionBytes,        \* MAX_TRANSACTION_FRAME_BYTES
          Lowered(_)                  \* operation -> its mutations (to_homebase)

StatementOf(sql, kinds) ==
    IF sql \in DOMAIN Statement /\ Statement[sql].kind \in kinds THEN Some(Statement[sql]) ELSE None

(* refresh_and_validate_evolution: the definition under its new revision.  *)
Evolve(t, s) ==
    LET c == [t EXCEPT !.create.schema = s]
    IN Check(schema_is_valid(t.create.table, s), [c EXCEPT !.create.revision = computed_schema_revision(c.create)])

ActiveIndex(t, name) == SelectSeq(t.create.schema.indexes, LAMBDA x : x.active /\ x.name = name)
with_added_index(t, x) == Evolve(t, [t.create.schema EXCEPT !.indexes = Append(@, x)])
with_retired_index(t, name) ==
    IF ActiveIndex(t, name) = <<>> THEN None
    ELSE Evolve(t, [t.create.schema EXCEPT !.indexes =
                        EachOf(@, LAMBDA x : IF x.active /\ x.name = name THEN [x EXCEPT !.active = FALSE] ELSE x)])

(* The checks of a new column are bound against the evolved columns; its   *)
(* foreign key, resolved at capture, must be the one the SQL spells.       *)
ForeignKeysOn(t, column) == SelectSeq(t.create.schema.fks, LAMBDA f : column \in ToSet(f.columns))
with_added_column(before, id, spec, fk) ==
    LET s == before.create.schema
        cols == Append(s.columns, [id |-> id, name |-> spec.column.name, type |-> spec.column.type,
                                   not_null |-> spec.column.not_null, not_null_name |-> spec.column.not_null_name,
                                   not_null_conflict |-> spec.column.not_null_conflict,
                                   default |-> spec.column.default])
        wide == [s EXCEPT !.columns = cols]
        checks == EachOf(spec.checks, LAMBDA k :
                    [column |-> <<id>>, name |-> k.name, expression |-> k.expression,
                     dependencies |-> Ascending(Bound(wide, ExprReads[k.expression])), active |-> TRUE])
    IN IF /\ Len(fk) <= 1 /\ IsSome(fk) = IsSome(spec.fk)
          /\ \A i \in DOMAIN spec.checks : Binds(wide, spec.checks[i].expression)
          /\ IsSome(fk) => LET x == spec.fk[1] IN
               /\ <<x.columns, x.name, x.on_delete, x.on_update, x.table>>
                    = <<<<spec.column.name>>, fk[1].name, fk[1].on_delete, fk[1].on_update, fk[1].table_name>>
               /\ fk[1].columns = <<id>> /\ Len(fk[1].parent_columns) = 1
               /\ x.parents # <<>> => x.parents[1] = fk[1].parent_names
       THEN Evolve(before, [wide EXCEPT !.checks = @ \o checks, !.fks = @ \o fk]) ELSE None

(* Keys, indexes, foreign keys and other columns' checks hold a column; a  *)
(* retired check of its own keeps its name reserved and holds it too.      *)
with_removed_column(t, id) ==
    LET s == t.create.schema
        Holds(c) == IF id \in ToSet(c.column) THEN ~c.active ELSE id \in ToSet(c.dependencies)
    IN IF /\ id \in ColumnIdsOf(s) /\ id \notin ToSet(s.primary_key.index.columns)
          /\ \A i \in DOMAIN s.uniques : id \notin ToSet(s.uniques[i].index.columns)
          /\ \A i \in DOMAIN s.indexes : s.indexes[i].active => id \notin ToSet(s.indexes[i].dependencies)
          /\ \A i \in DOMAIN s.fks : id \notin ToSet(s.fks[i].columns)
          /\ \A i \in DOMAIN s.checks : ~Holds(s.checks[i])
       THEN Evolve(t, [s EXCEPT !.columns = SelectSeq(@, LAMBDA c : c.id # id),
                                !.checks = SelectSeq(@, LAMBDA c : id \notin ToSet(c.column))]) ELSE None

(* droppable_constraint_named picks a UNIQUE, else a foreign key, else a   *)
(* CHECK; the retired constraint stays in the definition.                  *)
with_retired_constraint(t, name) ==
    LET s == t.create.schema
        Hit(x) == x.active /\ x.name = <<name>>
        Retire(xs) == EachOf(xs, LAMBDA x : IF Hit(x) THEN [x EXCEPT !.active = FALSE] ELSE x)
        Hits(xs) == \E i \in DOMAIN xs : Hit(xs[i])
        fixed == s.primary_key.name \o FlattenSeq(EachOf(s.columns, LAMBDA c : c.not_null_name))
                 \o FlattenSeq(EachOf(s.columns, LAMBDA c : IF IsSome(c.default) THEN c.default[1].name ELSE <<>>))
    IN IF name \in ToSet(fixed) \/ ~(Hits(s.uniques) \/ Hits(s.fks) \/ Hits(s.checks)) THEN None
       ELSE Evolve(t, IF Hits(s.uniques) THEN [s EXCEPT !.uniques = Retire(@)]
                      ELSE IF Hits(s.fks) THEN [s EXCEPT !.fks = Retire(@)]
                      ELSE [s EXCEPT !.checks = Retire(@)])

(* AlterTableOperation.  Which fields a delta has is its shape.            *)
AlterActions == (1 :> "RenameTable") @@ (2 :> "RenameColumn") @@ (3 :> "AddColumn")
                @@ (4 :> "DropColumn") @@ (5 :> "DropConstraint")
AlterTags == [old |-> 4, new |-> 5, column |-> 8, before |-> 9, after |-> 10, predecessor |-> 13]
AlterFieldOrder ==
    [RenameTable |-> <<"old", "new">>, RenameColumn |-> <<"column", "old", "new">>,
     AddColumn |-> <<"column", "predecessor", "new", "before", "after">>,
     DropColumn |-> <<"column", "old", "before", "after">>, DropConstraint |-> <<"old", "before", "after">>]
Alter_field(a, name) ==
    Field(AlterTags[name], CASE name \in {"old", "new"} -> Text(a.delta[name])
                             [] name \in {"column", "predecessor"} -> Uuid(a.delta[name])
                             [] OTHER -> CreateTable_encode(a.delta[name]))
Alter_encode(a) ==
    U8(6) \o Field(1, Uuid(a.mutation)) \o Field(2, Text(a.sql)) \o Field(3, Uuid(a.table))
    \o Field(12, Uuid(a.revision)) \o Field(7, Text(a.source_table)) \o Field(6, Enum(AlterActions, a.action))
    \o FlattenSeq([i \in DOMAIN AlterFieldOrder[a.action] |-> Alter_field(a, AlterFieldOrder[a.action][i])])

Alter_is_valid(a) ==
    LET d == a.delta
        parsed == StatementOf(a.sql, {a.action})
        p == parsed[1]
        Around == /\ d.before.create.table = a.table /\ d.before.create.revision = a.revision
                  /\ d.after.create.revision # a.revision
    IN /\ IsSome(parsed) /\ p.table = a.source_table
       /\ CASE a.action = "RenameTable" -> p.table = d.old /\ p.new = d.new
            [] a.action = "RenameColumn" -> p.old = d.old /\ p.new = d.new
            [] a.action = "AddColumn" ->
                 /\ p.column.name = d.new /\ Around
                 /\ d.before.create.schema.columns[Len(d.before.create.schema.columns)].id = d.predecessor
                 /\ with_added_column(d.before, d.column, p, ForeignKeysOn(d.after, d.column)) = Some(d.after)
            [] a.action = "DropColumn" ->
                 p.old = d.old /\ Around /\ with_removed_column(d.before, d.column) = Some(d.after)
            [] a.action = "DropConstraint" ->
                 p.old = d.old /\ Around /\ with_retired_constraint(d.before, d.old) = Some(d.after)

(* A field that the action does not take is as bad as one it misses.       *)
Alter_decode(fr) ==
    IF ~Versioned(fr, 6) THEN None
    ELSE Then(Tagged(Tail(fr), {1, 2, 3, 6, 7, 12}, {4, 5, 8, 9, 10, 13}, {},
                     LAMBDA t, p : CASE t \in {1, 3, 8, 12, 13} -> uuid_bytes(p)
                                     [] t \in {2, 4, 5, 7} -> Leaf(p, "text")
                                     [] t = 6 -> LeafEnum(p, AlterActions)
                                     [] t \in {9, 10} -> CreateTable_decode(p)),
              LAMBDA r : LET given == {n \in DOMAIN AlterTags : IsSome(r[AlterTags[n]])}
                             a == [mutation |-> r[1], sql |-> r[2], table |-> r[3], revision |-> r[12],
                                   source_table |-> r[7], action |-> r[6],
                                   delta |-> [n \in given |-> r[AlterTags[n]][1]]]
                         IN Check(given = ToSet(AlterFieldOrder[r[6]]) /\ Alter_is_valid(a), a))

(* A backfill entry: the key of a unique entry and the key of its owner.   *)
RowSpace == 1
UniqueSpace == 2
EntryKey(space, table, index, image) == [space |-> space, table |-> table, index |-> index, image |-> image]
EntryKey_encode(k) == U8(k.space) \o Uuid(k.table) \o Uuid(k.index) \o Prim("bytes", k.image)
EntryKey_decode(fr) ==
    Check(Exactly(fr, <<"u8", "uuid", "uuid", "bytes">>), EntryKey(fr[1].n, fr[2].n, fr[3].n, fr[4].n))
encode_backfill(e) == U8(1) \o Field(1, EntryKey_encode(e.key)) \o Field(2, e.owner)
decode_backfill(fr) ==
    IF ~Versioned(fr, 1) THEN None
    ELSE Then(Tagged(Tail(fr), {1, 2}, {}, {}, LAMBDA t, p : IF t = 1 THEN EntryKey_decode(p) ELSE Some(p)),
              LAMBDA r : Some([key |-> r[1], owner |-> r[2]]))

named_index_matches_spec(t, x, p) ==
    LET s == t.create.schema
        Plain(n) == [column |-> <<n>>, collation |-> <<>>, expression |-> <<>>, order |-> <<>>]
    IN /\ p.name = x.name /\ p.unique = (x.index.kind = "Unique")
       /\ IF p.unique
          THEN /\ p.predicate = <<>> /\ x.predicate = <<>> /\ x.terms = <<>>
               /\ p.terms = EachOf(NamesOf(s, x.index.columns), Plain)
          ELSE /\ p.predicate = x.predicate /\ x.index.columns = <<>>
               /\ p.terms = EachOf(x.terms, LAMBDA e : [e EXCEPT !.column = NamesOf(s, @)])

backfill_is_valid(o) ==
    LET t == o.after.create
    IN /\ \A i \in DOMAIN o.backfill :
            LET owner == EntryKey_decode(o.backfill[i].owner)
            IN /\ o.backfill[i].key.space = UniqueSpace /\ o.backfill[i].key.table = t.table
               /\ o.backfill[i].key.index = o.index.index.id
               /\ IsSome(owner) /\ owner[1].space = RowSpace /\ owner[1].table = t.table
               /\ owner[1].index = t.schema.primary_key.index.id
       /\ \A i \in 2..Len(o.backfill) : o.backfill[i - 1].key.image < o.backfill[i].key.image

Index_is_valid(o) ==
    LET parsed == StatementOf(o.sql, {o.action})
        b == o.before.create
        a == o.after.create
    IN /\ b.table = a.table /\ b.name = a.name
       /\ b.schema.primary_key.index.id = a.schema.primary_key.index.id
       /\ IsSome(parsed) /\ b.revision # a.revision
       /\ IF o.action = "CreateIndex"
          THEN /\ with_added_index(o.before, o.index) = Some(o.after)
               /\ named_index_matches_spec(o.before, o.index, parsed[1])
               /\ ActiveIndex(o.before, o.index.name) = <<>> /\ ActiveIndex(o.after, o.index.name) = <<o.index>>
               /\ IF o.index.index.kind = "Unique" THEN backfill_is_valid(o) ELSE o.backfill = <<>>
          ELSE /\ with_retired_index(o.before, o.index.name) = Some(o.after)
               /\ parsed[1].name = o.index.name /\ ActiveIndex(o.before, o.index.name) = <<o.index>>
               /\ o.backfill = <<>>

IndexActions == (1 :> "CreateIndex") @@ (2 :> "DropIndex")
Index_encode(o) ==
    U8(2) \o Field(1, Uuid(o.mutation)) \o Field(2, Text(o.sql)) \o Field(3, CreateTable_encode(o.before))
    \o Field(4, CreateTable_encode(o.after)) \o Field(5, Enum(IndexActions, o.action))
    \o Field(6, encode_named_index(o.index)) \o FieldEach(7, o.backfill, encode_backfill)
Index_decode(fr) ==
    IF ~Versioned(fr, 2) THEN None
    ELSE Then(Tagged(Tail(fr), 1..6, {}, {7}, LAMBDA t, p : CASE t = 1 -> uuid_bytes(p)
                                                              [] t = 2 -> Leaf(p, "text")
                                                              [] t \in {3, 4} -> CreateTable_decode(p)
                                                              [] t = 5 -> LeafEnum(p, IndexActions)
                                                              [] t = 6 -> decode_named_index(p)
                                                              [] t = 7 -> decode_backfill(p)),
              LAMBDA r : LET o == [mutation |-> r[1], sql |-> r[2], before |-> r[3], after |-> r[4],
                                   action |-> r[5], index |-> r[6], backfill |-> r[7]]
                         IN Check(Index_is_valid(o), o))

Drop_is_valid(o) ==
    LET parsed == StatementOf(o.sql, {"DropTable"})
    IN IsSome(parsed) /\ parsed[1].name = o.source_table /\ created_is_valid(o.before)
Drop_encode(o) ==
    U8(1) \o Field(1, Uuid(o.mutation)) \o Field(2, Text(o.sql)) \o Field(3, Text(o.source_table))
    \o Field(4, CreateTable_encode(o.before))
Drop_decode(fr) ==
    IF ~Versioned(fr, 1) THEN None
    ELSE Then(Tagged(Tail(fr), 1..4, {}, {}, LAMBDA t, p : CASE t = 1 -> uuid_bytes(p)
                                                             [] t \in {2, 3} -> Leaf(p, "text")
                                                             [] t = 4 -> CreateTable_decode(p)),
              LAMBDA r : LET o == [mutation |-> r[1], sql |-> r[2], source_table |-> r[3], before |-> r[4]]
                         IN Check(Drop_is_valid(o), o))

encode_column_dependency(c) == U8(1) \o Field(1, Uuid(c.column)) \o Field(2, Text(c.name))
decode_column_dependency(fr) ==
    IF ~Versioned(fr, 1) THEN None
    ELSE Then(Tagged(Tail(fr), {1, 2}, {}, {}, LAMBDA t, p : IF t = 1 THEN uuid_bytes(p) ELSE Leaf(p, "text")),
              LAMBDA r : Some([column |-> r[1], name |-> r[2]]))
encode_dependency(d) ==
    U8(1) \o Field(1, Uuid(d.table)) \o Field(2, Text(d.name)) \o FieldEach(3, d.columns, encode_column_dependency)
decode_dependency(fr) ==
    IF ~Versioned(fr, 1) THEN None
    ELSE Then(Tagged(Tail(fr), {1, 2}, {}, {3}, LAMBDA t, p : CASE t = 1 -> uuid_bytes(p)
                                                                [] t = 2 -> Leaf(p, "text")
                                                                [] t = 3 -> decode_column_dependency(p)),
              LAMBDA r : Some([table |-> r[1], name |-> r[2], columns |-> r[3]]))
View_is_valid(o) ==
    LET parsed == StatementOf(o.sql, {"CreateView"})
        ds == o.dependencies
    IN /\ IsSome(parsed) /\ parsed[1].name = o.name /\ parsed[1].dependencies = EachOf(ds, LAMBDA d : d.name)
       /\ ds # <<>> /\ Distinct(EachOf(ds, LAMBDA d : d.table)) /\ Distinct(EachOf(ds, LAMBDA d : d.name))
       /\ \A i \in DOMAIN ds :
            /\ ds[i].columns # <<>> /\ Distinct(EachOf(ds[i].columns, LAMBDA c : c.column))
            /\ Distinct(EachOf(ds[i].columns, LAMBDA c : c.name))
ViewActions == (1 :> "Create") @@ (2 :> "Drop")
View_encode(o) ==
    U8(1) \o Field(1, Uuid(o.mutation)) \o Field(2, Enum(ViewActions, o.action)) \o Field(3, Text(o.name))
    \o Field(4, Text(o.sql)) \o FieldEach(5, o.dependencies, encode_dependency)
View_decode(fr) ==
    IF ~Versioned(fr, 1) THEN None
    ELSE Then(Tagged(Tail(fr), 1..4, {}, {5}, LAMBDA t, p : CASE t = 1 -> uuid_bytes(p)
                                                              [] t = 2 -> LeafEnum(p, ViewActions)
                                                              [] t \in {3, 4} -> Leaf(p, "text")
                                                              [] t = 5 -> decode_dependency(p)),
              LAMBDA r : LET o == [mutation |-> r[1], action |-> r[2], name |-> r[3], sql |-> r[4],
                                   dependencies |-> r[5]]
                         IN Check(View_is_valid(o), o))

(* i32 versions travel as u32.                                             *)
UserVersion_encode(o) == U8(1) \o U32(AsWord(o.before)) \o U32(AsWord(o.after))
UserVersion_decode(fr) ==
    IF Versioned(fr, 1) /\ Exactly(fr, <<"u8", "u32", "u32">>) /\ fr[2].n # fr[3].n
    THEN Some([before |-> AsSigned(fr[2].n), after |-> AsSigned(fr[3].n)]) ELSE None

(* MultiliteOp: a version, a kind, and the operation's own frame.          *)
OperationKinds == (1 :> "CreateTable") @@ (2 :> "ChangeRows") @@ (5 :> "Index") @@ (6 :> "AlterTable")
                  @@ (7 :> "DropTable") @@ (8 :> "SetUserVersion") @@ (9 :> "View")
MultiliteOp_encode(o) ==
    U8(1) \o Enum(OperationKinds, o.kind)
    \o CASE o.kind = "CreateTable" -> CreateTable_encode(o.op)
         [] o.kind = "ChangeRows" -> RowChanges_encode(o.op)
         [] o.kind = "Index" -> Index_encode(o.op)
         [] o.kind = "AlterTable" -> Alter_encode(o.op)
         [] o.kind = "DropTable" -> Drop_encode(o.op)
         [] o.kind = "SetUserVersion" -> UserVersion_encode(o.op)
         [] o.kind = "View" -> View_encode(o.op)
Body_of(kind, rest) ==
    CASE kind = "CreateTable" -> CreateTable_decode_operation(rest)
      [] kind = "ChangeRows" -> RowChanges_decode(rest)
      [] kind = "Index" -> Index_decode(rest)
      [] kind = "AlterTable" -> Alter_decode(rest)
      [] kind = "DropTable" -> Drop_decode(rest)
      [] kind = "SetUserVersion" -> UserVersion_decode(rest)
      [] kind = "View" -> View_decode(rest)
MultiliteOp_decode(fr) ==
    IF Versioned(fr, 1) /\ Starts(fr, <<"u8", "u8">>)
    THEN Then(OfByte(OperationKinds, fr[2].n), LAMBDA kind :
           Then(Body_of(kind, Drop(fr, 2)), LAMBDA o : Some([kind |-> kind, op |-> o])))
    ELSE None

(* MultiliteTransaction::encode: none over the limits.                     *)
WithinBytes(fr) == Check(Size(fr) <= MaxTransactionBytes, fr)
Transaction_encode(t) ==
    IF Len(t.operations) > MaxTransactionOperations THEN None
    ELSE WithinBytes(U8(1) \o Field(1, Uuid(t.id)) \o FieldEach(2, t.operations, MultiliteOp_encode))
Transaction_decode(fr) ==
    IF ~Versioned(fr, 1) \/ Size(fr) > MaxTransactionBytes THEN None
    ELSE Then(Tagged(Tail(fr), {1}, {}, {2}, LAMBDA t, p : IF t = 1 THEN uuid_bytes(p) ELSE MultiliteOp_decode(p)),
              LAMBDA r : Check(Len(r[2]) \in 1..MaxTransactionOperations, [id |-> r[1], operations |-> r[2]]))

(* MultiliteTransaction::to_homebase and ::from_homebase: an admitted batch *)
(* is the transaction only if lowering the transaction gives the batch.    *)
to_homebase(t) ==
    Then(Transaction_encode(t), LAMBDA fr : Some(
        <<[kind |-> "Set", target |-> t.id, value |-> fr]>> \o FlattenSeq(EachOf(t.operations, Lowered))))
from_homebase(mutations) ==
    IF mutations = <<>> \/ mutations[1].kind # "Set" THEN None
    ELSE Then(Transaction_decode(mutations[1].value),
              LAMBDA t : Check(to_homebase(t) = Some(mutations), t))
-----------------------------------------------------------------------------
(***************************************************************************)
(* The records multilite keeps about transactions: commit proposals and    *)
(* their identities (commit/proposal.rs), transaction-start frontiers      *)
(* (commit/snapshot.rs), the write sets of the commit log                  *)
(* (commit/history.rs), pending records (database/pending.rs), catalog     *)
(* states and row tuples saved for repair (catalog.rs, repair.rs).         *)
(***************************************************************************)

CONSTANTS KeyPath,         \* key -> its components, for order and prefixes
          MandatoryOf(_)   \* transaction -> [writes, constraints] of its guards

RECURSIVE PathLess(_, _)
PathLess(a, b) ==
    b # <<>> /\ (a = <<>> \/ a[1] < b[1] \/ (a[1] = b[1] /\ PathLess(Tail(a), Tail(b))))
KeyLess(j, k) == PathLess(KeyPath[j], KeyPath[k])
KeyStarts(k, p) == IsPrefix(KeyPath[p], KeyPath[k])
canonical_keys(ks) == \A i \in 2..Len(ks) : KeyLess(ks[i - 1], ks[i]) /\ ~KeyStarts(ks[i], ks[i - 1])

(* SnapshotDescriptor::encode, ::decode.                                   *)
Snapshot_encode(s) == U8(1) \o U64(s.commit_seq) \o U64(s.authority) \o OplogCursors_encode(s.submit)
Snapshot_decode(fr) ==
    IF Versioned(fr, 1) /\ Starts(fr, <<"u8", "u64", "u64">>)
    THEN Then(OplogCursors_decode(Drop(fr, 3)),
              LAMBDA c : Check(c.head # 0 /\ c.head <= c.neck /\ c.neck <= c.tail,
                               [commit_seq |-> fr[2].n, authority |-> fr[3].n, submit |-> c]))
    ELSE None

(* The write regions of one commit, strictly ascending, points before      *)
(* ranges.  The legacy version has points only and no kind bytes.          *)
encode_writes(ws) ==
    U8(2) \o U32(Len(ws)) \o FlattenSeq(EachOf(ws, LAMBDA w :
        IF w.kind = "Point" THEN U8(1) \o Blob(Prim("key", w.at)) ELSE U8(2) \o Blob(Range_encode(w.at))))
canonical_writes(ws) ==
    \A i \in 2..Len(ws) :
        \/ ws[i - 1].kind = "Point" /\ ws[i].kind = "Range"
        \/ /\ ws[i - 1].kind = ws[i].kind
           /\ IF ws[i - 1].at = FullRange THEN ws[i].at # FullRange
              ELSE ws[i].at # FullRange /\ KeyLess(ws[i - 1].at, ws[i].at)
Region_decode(kind, p) ==
    IF kind = 1 THEN Then(Leaf(p, "key"), LAMBDA k : Some([kind |-> "Point", at |-> k]))
    ELSE IF kind = 2 THEN Then(Range_decode(p), LAMBDA r : Some([kind |-> "Range", at |-> r])) ELSE None
Write_decode(tagged, fr) ==
    LET i == IF tagged THEN 2 ELSE 1
    IN IF ~Starts(fr, IF tagged THEN <<"u8", "blob">> ELSE <<"blob">>) THEN None
       ELSE Then(Region_decode(IF tagged THEN fr[1].n ELSE 1, fr[i].p),
                 LAMBDA region : Got(region, Drop(fr, i)))
decode_writes(fr) ==
    IF ~(Versioned(fr, 1) \/ Versioned(fr, 2)) THEN None
    ELSE Then(Counted(Tail(fr), LAMBDA rest : Write_decode(fr[1].n = 2, rest)),
              LAMBDA r : Check(canonical_writes(r.got) /\ r.rest = <<>>, r.got))

(* Cursors inside a proposal have no version.                              *)
encode_cursors(c) == U64(c.head) \o U64(c.neck) \o U64(c.tail)
decode_cursors(p) ==
    Check(Exactly(p, <<"u64", "u64", "u64">>), [head |-> p[1].n, neck |-> p[2].n, tail |-> p[3].n])

encode_opaque_mutation(e) ==
    CASE e.kind = "Set" -> U8(1) \o Blob(Prim("key", e.target)) \o Blob(e.value)
      [] e.kind = "Delete" -> U8(2) \o Blob(Prim("key", e.target))
      [] e.kind = "DeleteRange" -> U8(3) \o Blob(Range_encode(e.target))
decode_opaque_mutation(p) ==
    LET target == IF p[1].n = 3 THEN Range_decode(p[2].p) ELSE Leaf(p[2].p, "key")
    IN IF /\ Starts(p, <<"u8", "blob">>) /\ p[1].n \in 1..3 /\ IsSome(target)
          /\ Exactly(p, IF p[1].n = 1 THEN <<"u8", "blob", "blob">> ELSE <<"u8", "blob">>)
       THEN Some([kind |-> <<"Set", "Delete", "DeleteRange">>[p[1].n], target |-> target[1],
                  value |-> IF p[1].n = 1 THEN p[3].p ELSE <<>>])
       ELSE None
encode_admitted_entry(a) ==
    Blob(encode_opaque_mutation(a.entry)) \o Tag_encode(a.entry.tag) \o Blob(Seal_encode(a.entry.seal))
    \o U64(a.admission) \o U32(a.op)
decode_admitted_entry(p) ==
    IF ~Exactly(p, <<"blob">> \o TagKinds \o <<"blob", "u64", "u32">>) THEN None
    ELSE Then(decode_opaque_mutation(p[1].p), LAMBDA mutation : Then(Seal_decode(p[6].p), LAMBDA seal :
              Some([entry |-> [kind |-> mutation.kind, target |-> mutation.target, tag |-> TagAt(p, 2),
                               seal |-> seal, value |-> mutation.value],
                    admission |-> p[7].n, op |-> p[8].n])))

(* put_count and put_blob, take_blob: a counted list of blobs.             *)
BlobEach(vs, Enc(_)) == U32(Len(vs)) \o FlattenSeq(EachOf(vs, LAMBDA v : Blob(Enc(v))))
BlobsOf(fr, Dec(_)) ==
    Then(Counted(fr, LAMBDA rest : IF Starts(rest, <<"blob">>)
                                   THEN Then(Dec(rest[1].p), LAMBDA v : Got(v, Tail(rest))) ELSE None),
         LAMBDA r : Check(r.rest = <<>>, r.got))
encode_admitted_batch(b) ==
    U64(b.seq) \o Prim("device", b.device) \o U64(b.device_seq) \o Prim("checksum", b.checksum)
    \o BlobEach(b.entries, encode_admitted_entry)
decode_admitted_batch(p) ==
    IF ~Starts(p, <<"u64", "device", "u64", "checksum">>) THEN None
    ELSE Then(BlobsOf(Drop(p, 4), decode_admitted_entry),
              LAMBDA es : LET b == [seq |-> p[1].n, device |-> p[2].n, device_seq |-> p[3].n,
                                    checksum |-> p[4].n, entries |-> es]
                          IN Check(Batch_validate(b), b))
encode_pull_response(r) == U8(1) \o U64(r.after) \o U64(r.through) \o BlobEach(r.batches, encode_admitted_batch)
decode_pull_response(p) ==
    IF ~(Versioned(p, 1) /\ Starts(p, <<"u8", "u64", "u64">>)) THEN None
    ELSE Then(BlobsOf(Drop(p, 3), decode_admitted_batch),
              LAMBDA bs : LET r == [after |-> p[2].n, through |-> p[3].n, batches |-> bs]
                          IN Check(Pull_validate_dense(r), r))

(* The transaction inside is always below the size limits.                 *)
encode_admitted_transaction(t) == Prim("device", t.device) \o Transaction_encode(t.transaction)[1]
decode_admitted_transaction(p) ==
    IF Starts(p, <<"device">>)
    THEN Then(Transaction_decode(Tail(p)), LAMBDA t : Some([device |-> p[1].n, transaction |-> t]))
    ELSE None

(* CommitProposal::validate, also what the constructors refuse.            *)
Proposal_validate(b) ==
    CASE b.kind = "Transaction" ->
           <<b.writes, b.constraints>> = <<MandatoryOf(b.transaction).writes, MandatoryOf(b.transaction).constraints>>
      [] b.kind = "Apply" -> b.admits.neck <= b.through /\ b.through <= b.admits.tail
      [] b.kind = "Reject" -> b.failed_at = b.submit.neck /\ b.failed_at < b.submit.tail
      [] b.kind = "Accept" -> b.submit.neck <= b.through /\ b.through < b.submit.tail
      [] b.kind = "Append" -> /\ Pull_validate_dense(b.response)
                              /\ b.admits.tail # 0 /\ b.response.after = b.admits.tail - 1

(* The identity of an authority transition is a hash of the transition, so *)
(* that a retry of it finds the receipt of the first attempt; a local      *)
(* transaction takes a fresh identity when it is proposed.                 *)
ProposalIdentity_without_window(b) ==
    CASE b.kind = "Apply" ->
           encode_cursors(b.admits) \o U64(b.through) \o Prim("device", b.device)
           \o BlobEach(b.transactions, encode_admitted_transaction)
      [] b.kind = "Reject" -> U64(b.failed_at)
      [] b.kind = "Accept" -> U64(b.through) \o Prim("checksum", b.checksum)
      [] b.kind = "Append" -> encode_cursors(b.admits) \o encode_pull_response(b.response)
ProposalIdentity(b) ==
    CASE b.kind = "Apply" ->
           encode_cursors(b.submit) \o encode_cursors(b.admits) \o U64(b.through) \o Prim("device", b.device)
           \o BlobEach(b.transactions, encode_admitted_transaction)
      [] b.kind = "Reject" -> encode_cursors(b.submit) \o U64(b.failed_at)
      [] b.kind = "Accept" -> encode_cursors(b.submit) \o U64(b.through) \o Prim("checksum", b.checksum)
      [] b.kind = "Append" -> encode_cursors(b.admits) \o encode_pull_response(b.response)

ProposalKinds == (1 :> "Transaction") @@ (2 :> "Apply") @@ (3 :> "Reject") @@ (4 :> "Accept") @@ (5 :> "Append")
Isolations == (0 :> "Snapshot") @@ (1 :> "Serializable")
Body_encode(b) ==
    LET Keys(tag, ks) == FieldEach(tag, ks, LAMBDA k : Prim("key", k))
    IN CASE b.kind = "Transaction" ->
              Field(2, Snapshot_encode(b.snapshot)) \o Field(3, Enum(Isolations, b.isolation))
              \o Field(5, Transaction_encode(b.transaction)[1])
              \o Keys(10, b.writes) \o Keys(11, b.constraints) \o Keys(12, b.reads)
         [] b.kind = "Apply" ->
              Field(20, encode_cursors(b.submit)) \o Field(21, encode_cursors(b.admits)) \o Field(22, U64(b.through))
              \o Field(23, Prim("device", b.device)) \o FieldEach(24, b.transactions, encode_admitted_transaction)
         [] b.kind = "Reject" -> Field(20, encode_cursors(b.submit)) \o Field(25, U64(b.failed_at))
         [] b.kind = "Accept" -> Field(20, encode_cursors(b.submit)) \o Field(26, U64(b.through))
                                 \o Field(27, Prim("checksum", b.checksum))
         [] b.kind = "Append" -> Field(21, encode_cursors(b.admits)) \o Field(28, encode_pull_response(b.response))
Proposal_encode(p) ==
    U8(4) \o Field(1, Uuid(p.id)) \o Field(4, Enum(ProposalKinds, p.body.kind)) \o Body_encode(p.body)

(* Fields that belong to another kind of proposal are read and ignored.    *)
Body_decode(kind, r) ==
    LET Need(tags, body) == Check(\A t \in tags : IsSome(r[t]), body)
    IN CASE kind = "Transaction" ->
              Then(Need({2, 3, 5}, 0), LAMBDA z :
                   Check(canonical_keys(r[10]) /\ canonical_keys(r[11]) /\ canonical_keys(r[12]),
                         [kind |-> kind, snapshot |-> r[2][1], isolation |-> r[3][1], transaction |-> r[5][1],
                          writes |-> r[10], constraints |-> r[11], reads |-> r[12]]))
         [] kind = "Apply" ->
              Need({20, 21, 22, 23}, [kind |-> kind, submit |-> r[20][1], admits |-> r[21][1], through |-> r[22][1],
                                      device |-> r[23][1], transactions |-> r[24]])
         [] kind = "Reject" -> Need({20, 25}, [kind |-> kind, submit |-> r[20][1], failed_at |-> r[25][1]])
         [] kind = "Accept" ->
              Need({20, 26, 27}, [kind |-> kind, submit |-> r[20][1], through |-> r[26][1], checksum |-> r[27][1]])
         [] kind = "Append" -> Need({21, 28}, [kind |-> kind, admits |-> r[21][1], response |-> r[28][1]])
Proposal_decode(fr) ==
    IF ~Versioned(fr, 4) THEN None
    ELSE Then(Tagged(Tail(fr), {1, 4}, {2, 3, 5, 20, 21, 22, 23, 25, 26, 27, 28}, {10, 11, 12, 24},
                     LAMBDA t, p : CASE t = 1 -> uuid_bytes(p)
                                     [] t = 2 -> Snapshot_decode(p)
                                     [] t = 3 -> LeafEnum(p, Isolations)
                                     [] t = 4 -> LeafEnum(p, ProposalKinds)
                                     [] t = 5 -> Transaction_decode(p)
                                     [] t \in 10..12 -> Leaf(p, "key")
                                     [] t \in {20, 21} -> decode_cursors(p)
                                     [] t \in {22, 25, 26} -> Leaf(p, "u64")
                                     [] t = 23 -> Leaf(p, "device")
                                     [] t = 24 -> decode_admitted_transaction(p)
                                     [] t = 27 -> Leaf(p, "checksum")
                                     [] t = 28 -> decode_pull_response(p)),
              LAMBDA r : Then(Body_decode(r[4], r),
                              LAMBDA b : Check(Proposal_validate(b), [id |-> r[1], body |-> b])))

(* PendingCodec.                                                           *)
Pending_encode(p) == U8(3) \o Field(1, U64(p.seq)) \o Field(2, Transaction_encode(p.transaction)[1])
Pending_decode(fr) ==
    IF ~Versioned(fr, 3) THEN None
    ELSE Then(Tagged(Tail(fr), {1, 2}, {}, {}, LAMBDA t, p : IF t = 1 THEN Leaf(p, "u64") ELSE Transaction_decode(p)),
              LAMBDA r : Some([seq |-> r[1], transaction |-> r[2]]))

(* TableState: the catalog rows of one table.  Column bindings form a tree *)
(* under their predecessors; read depth first, the named ones are the      *)
(* columns of the definition in order.                                     *)
RECURSIVE ColumnOrder(_, _)
ColumnOrder(cols, parent) ==
    LET ids == Ascending({cols[i].id : i \in {i \in DOMAIN cols : cols[i].predecessor = parent}})
    IN FlattenSeq([i \in DOMAIN ids |-> <<ids[i]>> \o ColumnOrder(cols, <<ids[i]>>)])
validate_table_state(s) ==
    LET ids == EachOf(s.columns, LAMBDA c : c.id)
        order == ColumnOrder(s.columns, <<>>)
        Active(id) == \E i \in DOMAIN s.columns : s.columns[i].id = id /\ s.columns[i].name # <<>>
    IN /\ created_is_valid(s.definition) /\ s.columns # <<>> /\ Distinct(ids)
       /\ Distinct(FlattenSeq(EachOf(s.columns, LAMBDA c : c.name)))
       /\ \A i \in DOMAIN s.columns : ToSet(s.columns[i].predecessor) \subseteq ToSet(ids)
       /\ Cardinality({i \in DOMAIN s.columns : s.columns[i].predecessor = <<>>}) = 1
       /\ Len(order) = Len(ids)
       /\ SelectSeq(order, Active) = EachOf(s.definition.create.schema.columns, LAMBDA c : c.id)
encode_column_state(c) == Field(1, Uuid(c.id)) \o FieldEach(2, c.predecessor, Uuid) \o FieldEach(3, c.name, Text)
decode_column_state(p) ==
    Then(Tagged(p, {1}, {2, 3}, {}, LAMBDA t, q : IF t = 3 THEN decode_name(q) ELSE uuid_bytes(q)),
         LAMBDA r : Some([id |-> r[1], predecessor |-> r[2], name |-> r[3]]))
TableState_encode(s) ==
    U8(1) \o Field(1, Text(s.name)) \o Field(2, CreateTable_encode(s.definition))
    \o FieldEach(3, s.columns, encode_column_state)
decode_table_state(fr) ==
    IF ~Versioned(fr, 1) THEN None
    ELSE Then(Tagged(Tail(fr), {1, 2}, {}, {3}, LAMBDA t, p : CASE t = 1 -> decode_name(p)
                                                                [] t = 2 -> CreateTable_decode(p)
                                                                [] t = 3 -> decode_column_state(p)),
              LAMBDA r : LET s == [name |-> r[1], definition |-> r[2], columns |-> r[3]]
                         IN Check(validate_table_state(s), s))

(* One row tuple of a repair sidecar.                                      *)
encode_tuple(vs) == U8(1) \o FieldEach(1, vs, Value_encode)
decode_tuple(fr) ==
    IF ~Versioned(fr, 1) THEN None
    ELSE Then(Tagged(Tail(fr), {}, {}, {1}, LAMBDA t, p : Value_decode(p)), LAMBDA r : Some(r[1]))
-----------------------------------------------------------------------------
(***************************************************************************)
(* Every durable record and wire frame of the program through one machine: *)
(* a record is written, then read back as it was written or with one piece *)
(* of its frame damaged at some depth.  A reader that accepts a damaged    *)
(* frame has to be one that means to (unknown or reordered tagged fields). *)
(***************************************************************************)

CONSTANT Samples   \* what the machine writes: pairs of a format and a value of it

VARIABLES fmt, value, frame, damage, result   \* result: <<>> until it is read, then <<what was read>>

codecVars == <<fmt, value, frame, damage, result>>

Encode(f, v) ==
    CASE f = "Seal" -> Seal_encode(v)                      [] f = "Range" -> Range_encode(v)
      [] f = "AdmissionHeader" -> AdmissionHeader_encode(v) [] f = "LeaseRecord" -> LeaseRecord_encode(v)
      [] f = "Counters" -> CountersRecord_encode(v)        [] f = "Data" -> DataRecord_encode(v)
      [] f = "RangeDelete" -> RangeDelete_encode(v)        [] f = "PrefixMeta" -> PrefixMeta_encode(v)
      [] f = "ServerDevice" -> DeviceRecord_encode(v)      [] f = "Checksum" -> Checksum_encode(v)
      [] f = "ClientDevice" -> ClientDevice_encode(v)      [] f = "VerHigh" -> VerHigh_encode(v)
      [] f = "Clock" -> Clock_encode(v)                    [] f = "OplogCursors" -> OplogCursors_encode(v)
      [] f = "AdmitCursors" -> AdmitCursors_encode(v)      [] f = "Codec" -> Codec_encode(v)
      [] f = "Envelope" -> Envelope_encode(v)              [] f = "HeldLease" -> HeldLease_encode(v)
      [] f = "DeviceOp" -> DeviceOp_encode(v)              [] f = "AdmittedBatch" -> AdmittedBatch_encode(v)
      [] f = "CreateTable" -> CreateTable_encode(v)        [] f = "RowChanges" -> RowChanges_encode(v)
      [] f = "Proposal" -> Proposal_encode(v)              [] f = "Snapshot" -> Snapshot_encode(v)
      [] f = "Writes" -> encode_writes(v)                  [] f = "Pending" -> Pending_encode(v)
      [] f = "TableState" -> TableState_encode(v)          [] f = "Tuple" -> encode_tuple(v)
      [] f = "Batch" -> to_homebase(v)[1]

(* Operations and transactions are read inside a pending record, a         *)
(* proposal or a batch, each by an action of its own.                      *)
Record_decode(f, fr) ==
    CASE f = "Seal" -> Seal_decode(fr)                     [] f = "Range" -> Range_decode(fr)
      [] f = "AdmissionHeader" -> AdmissionHeader_decode(fr) [] f = "LeaseRecord" -> LeaseRecord_decode(fr)
      [] f = "Counters" -> CountersRecord_decode(fr)       [] f = "Data" -> DataRecord_decode(value.key, fr)
      [] f = "RangeDelete" -> RangeDelete_decode(value.entry.key, fr)
      [] f = "PrefixMeta" -> PrefixMeta_decode(fr)
      [] f = "ServerDevice" -> DeviceRecord_decode(fr)     [] f = "Checksum" -> Checksum_decode(fr)
      [] f = "ClientDevice" -> ClientDevice_decode(fr)     [] f = "VerHigh" -> VerHigh_decode(fr)
      [] f = "Clock" -> Clock_decode(fr)                   [] f = "OplogCursors" -> OplogCursors_decode(fr)
      [] f = "AdmitCursors" -> AdmitCursors_decode(fr)     [] f = "Codec" -> Codec_decode(fr)
      [] f = "Envelope" -> Envelope_decode(fr)             [] f = "HeldLease" -> HeldLease_decode(fr)
      [] f = "DeviceOp" -> DeviceOp_decode(fr)             [] f = "AdmittedBatch" -> AdmittedBatch_decode(fr)
      [] f = "CreateTable" -> CreateTable_decode(fr)       [] f = "RowChanges" -> RowChanges_decode(fr)
      [] f = "Snapshot" -> Snapshot_decode(fr)             [] f = "Writes" -> decode_writes(fr)
      [] f = "TableState" -> decode_table_state(fr)        [] f = "Tuple" -> decode_tuple(fr)

(***************************************************************************)
(* Damage to one level of a frame, and to any level inside it.             *)
(***************************************************************************)
Insert(fr, i, t) == SubSeq(fr, 1, i) \o <<t>> \o SubSeq(fr, i + 1, Len(fr))
Swap(fr, i) == [fr EXCEPT ![i] = fr[i + 1], ![i + 1] = fr[i]]
IsField(t) == t.k = "field"
UnknownTag == 99
Words == {"u8", "u16", "u32", "u64"}
IdentityKinds == {"uuid", "text", "device", "checksum"}

LevelDamage(fr) ==
    {[kind |-> "dropped", frame |-> RemoveAt(fr, i)] : i \in DOMAIN fr}
    \cup {[kind |-> "repeated", frame |-> Insert(fr, i, fr[i])] : i \in DOMAIN fr}
    \cup {[kind |-> "bumped", frame |-> [fr EXCEPT ![i].n = @ + 1]] :
            i \in {i \in DOMAIN fr : fr[i].k \in IdentityKinds \/ (fr[i].k \in Words /\ fr[i].n + 1 < WordSize)}}
    \cup {[kind |-> IF IsField(fr[i]) /\ IsField(fr[i + 1]) THEN "reordered" ELSE "swapped", frame |-> Swap(fr, i)] :
            i \in {i \in 1..Len(fr) - 1 : fr[i] # fr[i + 1] /\ ~(IsField(fr[i]) /\ IsField(fr[i + 1]) /\ fr[i].n = fr[i + 1].n)}}
    \cup {[kind |-> "trailing", frame |-> Append(fr, Token("u8", 0, <<>>))]}
    \cup (IF fr # <<>> /\ IsField(Last(fr))
          THEN {[kind |-> "unknown", frame |-> Append(fr, Token("field", UnknownTag, <<>>))]} ELSE {})

RECURSIVE DeepDamage(_)
DeepDamage(fr) ==
    LevelDamage(fr)
    \cup UNION {{[kind |-> d.kind, frame |-> [fr EXCEPT ![i].p = d.frame]] : d \in DeepDamage(fr[i].p)} :
                 i \in {i \in DOMAIN fr : fr[i].k \in {"field", "blob"} /\ fr[i].p # <<>>}}

(* A batch with one mutation lost, repeated or moved, or its frame altered. *)
BatchDamage(b) ==
    {[kind |-> "dropped", frame |-> RemoveAt(b, i)] : i \in DOMAIN b}
    \cup {[kind |-> "repeated", frame |-> Insert(b, i, b[i])] : i \in DOMAIN b}
    \cup {[kind |-> "swapped", frame |-> Swap(b, i)] : i \in {i \in 1..Len(b) - 1 : b[i] # b[i + 1]}}
    \cup {[kind |-> "bumped", frame |-> [b EXCEPT ![1].value = d.frame]] : d \in DeepDamage(b[1].value)}

CodecInit == fmt = "" /\ value = <<>> /\ frame = <<>> /\ damage = "none" /\ result = <<>>

WriteRecord ==
    /\ fmt = ""
    /\ \E s \in Samples : fmt' = s[1] /\ value' = s[2] /\ frame' = Encode(s[1], s[2])
    /\ UNCHANGED <<damage, result>>

DamageRecord ==
    /\ fmt # "" /\ damage = "none" /\ result = <<>>
    /\ \E d \in IF fmt = "Batch" THEN BatchDamage(frame) ELSE DeepDamage(frame) :
          frame' = d.frame /\ damage' = d.kind
    /\ UNCHANGED <<fmt, value, result>>

Reads(got) == result' = <<got>> /\ UNCHANGED <<fmt, value, frame, damage>>
Unread == fmt # "" /\ result = <<>>

ReadRecord == Unread /\ fmt \notin {"Pending", "Proposal", "Batch"} /\ Reads(Record_decode(fmt, frame))
ReadPending == Unread /\ fmt = "Pending" /\ Reads(Pending_decode(frame))
ReadProposal == Unread /\ fmt = "Proposal" /\ Reads(Proposal_decode(frame))
ReadBatch == Unread /\ fmt = "Batch" /\ Reads(from_homebase(frame))

CodecNext == WriteRecord \/ DamageRecord \/ ReadRecord \/ ReadPending \/ ReadProposal \/ ReadBatch

(***************************************************************************)
(* Properties.                                                             *)
(***************************************************************************)
(* Whatever a codec writes it reads back as the same value: every record   *)
(* of the two stores, every logical operation and every proposal.          *)
RoundTrip == result # <<>> /\ damage = "none" => result[1] = Some(value)

(* The server records whose readers stop without asking for the end.       *)
StopsEarly == fmt \in {"Counters", "ServerDevice", "Data"} /\ damage \in {"trailing", "repeated"}

(* A damaged frame is refused, or it is the exact frame of the value that  *)
(* was read: a repeated singular field, a missing part, a wrong count,     *)
(* a wrong version or bytes behind the end never pass for something else.  *)
(* So MultiliteTransaction::from_homebase takes a batch for a transaction  *)
(* only if it is exactly the batch to_homebase makes of it: no mutation    *)
(* missing, repeated or out of order, and no other spelling of the frame.  *)
OnlyCanonical ==
    /\ result # <<>> /\ damage \in {"dropped", "repeated", "bumped", "swapped", "trailing"} /\ ~StopsEarly
    /\ IsSome(result[1])
    => Encode(fmt, result[1][1]) = frame

(* Tagged frames stay readable when a newer writer adds a field or orders  *)
(* its fields differently: the same value is read, at every depth.         *)
TolerantOfUnknown == result # <<>> /\ damage \in {"unknown", "reordered"} => result[1] = Some(value)

(* RowChanges::encoded_len charges the capture budget with exactly the     *)
(* bytes RowChanges::encode writes, so no captured operation that fits the *)
(* budget is refused by a replica's decoder.                               *)
BudgetIsExact ==
    fmt = "RowChanges" /\ damage = "none" => RowChanges_encoded_len(value) = Size(frame)

(* The identity of an authority proposal determines its body and is        *)
(* determined by it: a retried transition finds the receipt of the first   *)
(* attempt, and two transitions never share one.                           *)
IdentityFollowsBody ==
    result # <<>> /\ fmt = "Proposal" /\ value.body.kind # "Transaction" =>
        \A b \in {p.body : p \in ToSet(result[1])} :
            b.kind = value.body.kind => ((ProposalIdentity(b) = ProposalIdentity(value.body)) <=> (b = value.body))

\* What is written is what is read: a frame decodes to its value, also with unknown
\* fields, a damaged one to nothing or to the value it spells, and the sizes, parts
\* and identities computed beside it are its own.
FramesReadBack ==
    RoundTrip /\ OnlyCanonical /\ TolerantOfUnknown /\ BudgetIsExact /\ IdentityFollowsBody
=============================================================================
