----------------------------- MODULE MCFormats ------------------------------
(***************************************************************************)
(* Sample values for the codecs: numbers below 100 are identities, 200-299 *)
(* SQL texts, 300-399 names, 401 and 402 types, 501-503 expressions.       *)
(***************************************************************************)
EXTENDS OperationFrames, SqlFrontEnd, StorageKeys, Cipher

(* A stand-in for SHA-256 cut to 16 bytes.                                 *)
KindCode == [u8 |-> 1, u32 |-> 2, u64 |-> 3, uuid |-> 4, text |-> 5, field |-> 6, blob |-> 7]
RECURSIVE Digest(_)
Digest(fr) ==
    MapThenSumSet(LAMBDA i : ((13 * i * i + 5) * (KindCode[fr[i].k] * 7 + fr[i].n + 3 * Digest(fr[i].p))) % 9973,
                  DOMAIN fr) % 9973
MCHash(fr) == 10000 + Digest(fr)

IntType == [name |-> 401, arguments |-> <<>>]
StrType == [name |-> 402, arguments |-> <<12>>]
PlainDefault == <<[name |-> <<>>, expression |-> 503]>>

ParsedColumn(name, type, nn, nn_name, default, pk) ==
    [name |-> name, type |-> type, not_null |-> nn, not_null_name |-> nn_name, not_null_conflict |-> "Abort",
     default |-> default, primary_key |-> pk]
Rename(kind, table, old, new) == [kind |-> kind, table |-> table, old |-> old, new |-> new]
PlainTerm(n) == [column |-> <<n>>, collation |-> <<>>, expression |-> <<>>, order |-> <<>>]
MCStatement ==
    201 :> [kind |-> "CreateTable", name |-> 301, mode |-> "Ordinary", storage |-> "Rowid",
            pk_name |-> <<>>, pk_conflict |-> "Abort",
            columns |-> <<ParsedColumn(302, IntType, FALSE, <<>>, <<>>, <<1>>),
                          ParsedColumn(303, StrType, TRUE, <<314>>, PlainDefault, <<>>)>>,
            uniques |-> <<[name |-> <<311>>, columns |-> <<303>>, conflict |-> "Replace"]>>,
            fks |-> <<[name |-> <<312>>, columns |-> <<303>>, table |-> 305, parents |-> <<<<306>>>>,
                       on_delete |-> "Cascade", on_update |-> "NoAction"]>>,
            checks |-> <<[column |-> <<303>>, name |-> <<313>>, expression |-> 501]>>]
    @@ 202 :> [kind |-> "CreateTable", name |-> 307, mode |-> "Strict", storage |-> "WithoutRowid",
               pk_name |-> <<315>>, pk_conflict |-> "Ignore",
               columns |-> <<ParsedColumn(302, IntType, TRUE, <<>>, <<>>, <<2>>),
                             ParsedColumn(303, IntType, TRUE, <<>>, <<>>, <<1>>)>>,
               uniques |-> <<>>, fks |-> <<>>, checks |-> <<>>]
    @@ 210 :> Rename("RenameTable", 301, 301, 308) @@ 211 :> Rename("RenameColumn", 301, 303, 309)
    @@ 212 :> [kind |-> "AddColumn", table |-> 301, column |-> ParsedColumn(304, IntType, FALSE, <<>>, PlainDefault, <<>>),
               checks |-> <<[name |-> <<>>, expression |-> 502]>>, fk |-> <<>>]
    @@ 213 :> Rename("DropColumn", 301, 304, 0) @@ 214 :> Rename("DropConstraint", 301, 311, 0)
    @@ 215 :> [kind |-> "CreateIndex", name |-> 320, unique |-> TRUE, terms |-> <<PlainTerm(303)>>, predicate |-> <<>>]
    @@ 216 :> [kind |-> "CreateIndex", name |-> 321, unique |-> FALSE, predicate |-> <<501>>,
               terms |-> <<PlainTerm(303), [column |-> <<>>, collation |-> <<>>, expression |-> <<502>>, order |-> <<"Desc">>]>>]
    @@ 217 :> [kind |-> "DropIndex", name |-> 320] @@ 218 :> [kind |-> "DropTable", name |-> 301]
    @@ 219 :> [kind |-> "CreateView", name |-> 322, dependencies |-> <<301, 307>>]
MCExprReads == 501 :> {303} @@ 502 :> {302, 303} @@ 503 :> {}

Column(id, name, type, nn, nn_name, default) ==
    [id |-> id, name |-> name, type |-> type, not_null |-> nn, not_null_name |-> nn_name,
     not_null_conflict |-> "Abort", default |-> default]
Idx(id, kind, columns) == [id |-> id, kind |-> kind, columns |-> columns]
Revised(t) == [t EXCEPT !.create.revision = computed_schema_revision(t.create)]
T1 == Revised(
    [mutation |-> 1, sql |-> 201,
     create |-> [table |-> 2, name |-> 301, revision |-> 0, schema |->
        [mode |-> "Ordinary", storage |-> "Rowid",
         primary_key |-> [index |-> Idx(10, "Primary", <<20>>), name |-> <<>>, conflict |-> "Abort"],
         columns |-> <<Column(20, 302, IntType, FALSE, <<>>, <<>>), Column(21, 303, StrType, TRUE, <<314>>, PlainDefault)>>,
         uniques |-> <<[index |-> Idx(11, "Unique", <<21>>), name |-> <<311>>, conflict |-> "Replace", active |-> TRUE]>>,
         indexes |-> <<>>,
         fks |-> <<[id |-> 40, name |-> <<312>>, columns |-> <<21>>, table |-> 3, table_name |-> 305, parent_index |-> 12,
                    on_delete |-> "Cascade", on_update |-> "NoAction", parent_columns |-> <<25>>,
                    parent_names |-> <<306>>, active |-> TRUE]>>,
         checks |-> <<[column |-> <<21>>, name |-> <<313>>, expression |-> 501, dependencies |-> <<21>>, active |-> TRUE]>>]]])
T2 == Revised(
    [mutation |-> 5, sql |-> 202,
     create |-> [table |-> 6, name |-> 307, revision |-> 0, schema |->
        [mode |-> "Strict", storage |-> "WithoutRowid",
         primary_key |-> [index |-> Idx(15, "Primary", <<31, 30>>), name |-> <<315>>, conflict |-> "Ignore"],
         columns |-> <<Column(30, 302, IntType, TRUE, <<>>, <<>>), Column(31, 303, IntType, TRUE, <<>>, <<>>)>>,
         uniques |-> <<>>, indexes |-> <<>>, fks |-> <<>>, checks |-> <<>>]]])

Unq == [index |-> Idx(16, "Unique", <<21>>), name |-> 320, active |-> TRUE, terms |-> <<>>, predicate |-> <<>>,
        dependencies |-> <<21>>]
Sec == [index |-> Idx(17, "Secondary", <<>>), name |-> 321, active |-> TRUE, predicate |-> <<501>>, dependencies |-> <<20, 21>>,
        terms |-> <<PlainTerm(21), [column |-> <<>>, collation |-> <<>>, expression |-> <<502>>, order |-> <<"Desc">>]>>]
T1Wide == with_added_column(T1, 22, MCStatement[212], <<>>)[1]
T1Unq == with_added_index(T1, Unq)[1]

Alter(sql, action, delta) ==
    [kind |-> "AlterTable", op |-> [mutation |-> 50, sql |-> sql, table |-> 2, revision |-> T1.create.revision,
                                    source_table |-> 301, action |-> action, delta |-> delta]]
IndexOp(sql, action, before, after, index, backfill) ==
    [kind |-> "Index", op |-> [mutation |-> 51, sql |-> sql, before |-> before, after |-> after, action |-> action,
                               index |-> index, backfill |-> backfill]]
Backfill == <<[key |-> EntryKey(UniqueSpace, 2, 16, 3), owner |-> EntryKey_encode(EntryKey(RowSpace, 2, 10, 7))],
              [key |-> EntryKey(UniqueSpace, 2, 16, 4), owner |-> EntryKey_encode(EntryKey(RowSpace, 2, 10, 6))]>>

Of(kind, n, bytes) == [kind |-> kind, n |-> n, bytes |-> bytes]
Row(a, b) == <<[column |-> 20, value |-> a], [column |-> 21, value |-> b]>>
Txt(n) == Of("Text", 0, Prim("bytes", n))
Num(n) == Of("Integer", n, <<>>)
Key1 == [column |-> 20, affinity |-> "Integer", rowid_alias |-> TRUE]
Key2 == [column |-> 21, affinity |-> "Text", rowid_alias |-> FALSE]
Rules ==
    [table |-> 2, revision |-> T1.create.revision, primary_index |-> 10, storage |-> "Rowid", key_parts |-> <<Key1>>,
     indexes |-> <<[index |-> 11, parts |-> <<Key2>>]>>,
     fks |-> <<[id |-> 40, parent_table |-> 3, parent_index |-> 12, parts |-> <<[child |-> 21, parent |-> Key2]>>]>>,
     incoming |-> <<[id |-> 41, child_table |-> 6, child_primary |-> 15, parent_index |-> 10, parts |-> <<Key1>>]>>]
Rules2 ==
    [table |-> 6, revision |-> T2.create.revision, primary_index |-> 15, storage |-> "WithoutRowid",
     key_parts |-> <<[column |-> 20, affinity |-> "Blob", rowid_alias |-> FALSE]>>, indexes |-> <<>>, fks |-> <<>>, incoming |-> <<>>]
Changes1 == <<[rules |-> Rules, rows |-> <<[before |-> <<>>, after |-> <<Row(Num(-3), Txt(2))>>],
                                          [before |-> <<Row(Num(4), Txt(2))>>, after |-> <<Row(Num(4), Txt(0))>>]>>]>>
Changes2 == <<[rules |-> Rules, rows |-> <<[before |-> <<Row(Num(31), Txt(1))>>, after |-> <<>>]>>],
              [rules |-> Rules2, rows |-> <<[before |-> <<>>, after |-> <<Row(Of("Real", 3, <<>>), Of("Null", 0, <<>>))>>],
                                            [before |-> <<>>, after |-> <<Row(Of("Blob", 0, Prim("bytes", 4)), Num(-32))>>]>>]>>

Operations ==
    {[kind |-> "CreateTable", op |-> T1], [kind |-> "ChangeRows", op |-> Changes1],
     Alter(210, "RenameTable", [old |-> 301, new |-> 308]),
     Alter(211, "RenameColumn", [column |-> 21, old |-> 303, new |-> 309]),
     Alter(212, "AddColumn", [column |-> 22, predecessor |-> 21, new |-> 304, before |-> T1, after |-> T1Wide]),
     [Alter(213, "DropColumn", [column |-> 22, old |-> 304, before |-> T1Wide, after |-> with_removed_column(T1Wide, 22)[1]])
        EXCEPT !.op.revision = T1Wide.create.revision],
     Alter(214, "DropConstraint", [old |-> 311, before |-> T1, after |-> with_retired_constraint(T1, 311)[1]]),
     IndexOp(215, "CreateIndex", T1, T1Unq, Unq, Backfill),
     IndexOp(216, "CreateIndex", T1, with_added_index(T1, Sec)[1], Sec, <<>>),
     IndexOp(217, "DropIndex", T1Unq, with_retired_index(T1Unq, 320)[1], Unq, <<>>),
     [kind |-> "DropTable", op |-> [mutation |-> 52, sql |-> 218, source_table |-> 301, before |-> T1]],
     [kind |-> "SetUserVersion", op |-> [before |-> 0, after |-> -1]],
     [kind |-> "View", op |-> [mutation |-> 53, action |-> "Create", name |-> 322, sql |-> 219,
        dependencies |-> <<[table |-> 2, name |-> 301, columns |-> <<[column |-> 20, name |-> 302], [column |-> 21, name |-> 303]>>],
                           [table |-> 6, name |-> 307, columns |-> <<[column |-> 30, name |-> 302]>>]>>]]}

Version(b, a) == [kind |-> "SetUserVersion", op |-> [before |-> b, after |-> a]]
Tx1 == [id |-> 60, operations |-> <<Version(0, 5)>>]
Tx2 == [id |-> 61, operations |-> <<Version(0, 5), [kind |-> "ChangeRows", op |-> <<Changes1[1]>>], Version(5, -2)>>]
MCLowered(o) ==
    IF o.kind = "SetUserVersion" THEN <<[kind |-> "Set", target |-> 7, value |-> U32(AsWord(o.op.after))]>>
    ELSE <<[kind |-> "Set", target |-> 8, value |-> <<>>], [kind |-> "Delete", target |-> 9, value |-> <<>>]>>
MCMandatory(t) == IF Len(t.operations) = 1 THEN [writes |-> <<2>>, constraints |-> <<>>]
                  ELSE [writes |-> <<2, 3>>, constraints |-> <<4>>]
MCKeyPath == 0 :> <<>> @@ 1 :> <<1>> @@ 2 :> <<1, 1>> @@ 3 :> <<1, 2>> @@ 4 :> <<2>>

Tag(d, s) == [device |-> d, seq |-> s, ver |-> 3, epoch |-> 0]
Sealed(n) == [nonce |-> n, aead |-> n + 1]
At(wall) == [wall |-> wall, mono |-> 2, lineage |-> 70]
Event(key, d, adm, op) == [key |-> key, tag |-> Tag(d, 1), admission |-> adm, op |-> op, seal |-> Sealed(1),
                           kind |-> "DeleteRange", value |-> <<>>]
Tomb1 == RangeDelete_new(Event(2, 80, 4, 0))
Tomb2 == RangeDelete_observe(RangeDelete_observe(Tomb1, Event(2, 81, 6, 1)), Event(2, 80, 6, 2))
Entry(kind, target, s, v) == [kind |-> kind, target |-> target, tag |-> Tag(80, s), seal |-> Sealed(5), value |-> v]
Entries3(s) == <<Entry("Set", 1, s, Prim("bytes", 3)), Entry("Delete", 2, s, <<>>), Entry("DeleteRange", FullRange, s, <<>>)>>
Batch(seq, s, n) ==
    [seq |-> seq, device |-> 80, device_seq |-> s, checksum |-> 90,
     entries |-> [i \in 1..n |-> [entry |-> Entries3(s)[i], admission |-> seq, op |-> i - 1]]]
Cur(h, n, t) == [head |-> h, neck |-> n, tail |-> t]
Snap == [commit_seq |-> 3, authority |-> 2, submit |-> Cur(1, 1, 2)]
Prop(id, body) == [id |-> id, body |-> body]
Reject(s, f) == [kind |-> "Reject", submit |-> s, failed_at |-> f]
Accept(s, t, c) == [kind |-> "Accept", submit |-> s, through |-> t, checksum |-> c]
Apply(through, txs) == [kind |-> "Apply", submit |-> Cur(1, 2, 3), admits |-> Cur(1, 2, 5), through |-> through,
                        device |-> 80, transactions |-> txs]
Append1(after, batches) == [kind |-> "Append", admits |-> Cur(1, 1, after + 1),
                            response |-> [after |-> after, through |-> after + Len(batches), batches |-> batches]]
Leased(key, mode) == [id |-> 4, mode |-> mode, device |-> 80, requested_at |-> At(1), granted_at |-> 5, barrier |-> 6,
                      deadline |-> 9, ttl |-> WordSize - 1, prefix |-> key]
Held(flag) == [id |-> 4, mode |-> "Write", requested_at |-> At(1), granted_at |-> 5, ttl |-> 8, barrier |-> 6,
               deadline |-> At(7), forgotten |-> flag, prefix |-> 3]
Datum(kind, v) == [key |-> 2, tag |-> Tag(80, 2), admission |-> 4, op |-> 0, seal |-> Sealed(5), kind |-> kind, value |-> v]
State(cols) == [name |-> 301, definition |-> T1, columns |-> cols]
Bind(id, pred, name) == [id |-> id, predecessor |-> pred, name |-> name]

SampleValues ==
    [Seal |-> {Sealed(1)}, Range |-> {FullRange, 3},
     AdmissionHeader |-> {[device |-> 80, seq |-> 2, checksum |-> 90, count |-> 3]},
     LeaseRecord |-> {Leased(1, "Read"), Leased(2, "Write")}, Counters |-> {[next_lease_id |-> 3, admission_high_water |-> 0]},
     Data |-> {Datum("Delete", <<>>), Datum("Set", <<>>), Datum("Set", Prim("bytes", 2))},
     RangeDelete |-> {Tomb1, Tomb2},
     PrefixMeta |-> {[history |-> Tomb2.history, max_ver |-> 3, live_count |-> 2, count_epoch |-> [seq |-> 6, op |-> 1]]},
     ServerDevice |-> {[last_seq |-> 4, checksum |-> 90]}, Checksum |-> {90}, ClientDevice |-> {80}, VerHigh |-> {7}, Clock |-> {0},
     OplogCursors |-> {Cur(1, 2, 4)}, AdmitCursors |-> {Cur(1, 1, 1)}, Codec |-> {[epoch |-> 0, sealed |-> Prim("bytes", 3)]},
     Envelope |-> {[kind |-> "Plaintext", space |-> 95],
                   [kind |-> "Encrypted", name_key |-> 96, keys |-> <<[epoch |-> 0, key |-> 97], [epoch |-> 2, key |-> 98]>>]},
     HeldLease |-> {Held(FALSE), Held(TRUE)},
     DeviceOp |-> {[kind |-> "Rollback", marker |-> 2],
                   [kind |-> "Commit", mode |-> "Checked", entries |-> Entries3(2), asserts |-> <<[prefix |-> 1, upto |-> 4]>>, evidence |-> <<5, 6>>],
                   [kind |-> "Commit", mode |-> "Unchecked", entries |-> <<>>, asserts |-> <<>>, evidence |-> <<>>]},
     AdmittedBatch |-> {Batch(3, 2, 3), Batch(1, 1, 0)},
     CreateTable |-> {T1Wide, T1Unq, T2}, RowChanges |-> {Changes1, Changes2}, Batch |-> {Tx1, Tx2},
     Proposal |-> {Prop(1, [kind |-> "Transaction", snapshot |-> Snap, isolation |-> "Serializable", transaction |-> Tx2,
                            writes |-> <<2, 3>>, constraints |-> <<4>>, reads |-> <<1, 4>>]),
                   Prop(2, Reject(Cur(1, 2, 4), 2)), Prop(3, Reject(Cur(2, 2, 4), 2)), Prop(4, Accept(Cur(1, 2, 4), 2, 90)),
                   Prop(5, Accept(Cur(1, 2, 4), 3, 91)), Prop(6, Apply(4, <<>>)),
                   Prop(7, Apply(5, <<[device |-> 81, transaction |-> Tx1], [device |-> 80, transaction |-> Tx1]>>)),
                   Prop(8, Append1(0, <<>>)), Prop(9, Append1(2, <<Batch(3, 2, 2), Batch(4, 3, 1)>>))},
     Snapshot |-> {Snap}, Writes |-> {<<>>, <<[kind |-> "Point", at |-> 1], [kind |-> "Point", at |-> 3],
                                              [kind |-> "Range", at |-> FullRange], [kind |-> "Range", at |-> 2]>>},
     Pending |-> {[seq |-> 4, transaction |-> t] : t \in {Tx1, Tx2} \cup {[id |-> 62, operations |-> <<o>>] : o \in Operations}},
     TableState |-> {State(<<Bind(20, <<>>, <<302>>), Bind(21, <<20>>, <<303>>)>>),
                     State(<<Bind(21, <<23>>, <<303>>), Bind(23, <<20>>, <<>>), Bind(20, <<>>, <<302>>)>>)},
     Tuple |-> {<<>>, <<Num(-1), Txt(2), Of("Null", 0, <<>>)>>}]
Pairs(of) == UNION {{<<f, v>> : v \in of[f]} : f \in DOMAIN of}
MCSamples == Pairs(SampleValues)

MCMinInt == -32
-----------------------------------------------------------------------------

MCSchema == {"sqlite_master", "sqlite_temp_master"}
MCInternal == MCSchema \cup {"sqlite_sequence"}

Constraint(kind, or, ordered, referenced, reads) ==
  [kind |-> kind, name |-> "", or |-> or, columns |-> <<>>, ordered |-> ordered,
   auto_increment |-> FALSE, deferred |-> FALSE, actions |-> <<>>, referenced |-> referenced,
   parent |-> "q", reads |-> reads]
Plain(kind) == Constraint(kind, "none", FALSE, <<>>, {})

ColumnMenu ==
  {Plain("PrimaryKey"), Constraint("PrimaryKey", "Replace", FALSE, <<>>, {}),
   Constraint("PrimaryKey", "none", TRUE, <<>>, {}), Plain("NotNull"), Plain("Unique"),
   Constraint("Unique", "Fail", FALSE, <<>>, {}), Plain("ForeignKey"),
   [Constraint("ForeignKey", "none", FALSE, <<"x">>, {}) EXCEPT !.actions = <<"delete", "update">>],
   Constraint("ForeignKey", "none", FALSE, <<"x", "y">>, {}), Plain("Default"),
   Constraint("Check", "none", FALSE, <<>>, {"a"}), Plain("Generated")}

TableMenu ==
  {[Plain(kind) EXCEPT !.columns = columns] :
     kind \in {"PrimaryKey", "Unique", "ForeignKey"}, columns \in {<<"b", "a">>, <<"b">>, <<"b", "b">>}}
    \cup {Constraint("Check", "none", FALSE, <<>>, {"b"}), Constraint("Check", "Fail", FALSE, <<>>, {})}

SqlColumn(name, type, constraints) == [name |-> name, type |-> type, constraints |-> constraints]

MCCreateTables ==
  {SqlStatement("CreateTable", name, <<>>, flags, "none", "")
     @@ [columns |-> <<SqlColumn("a", type, first), SqlColumn(second, "TEXT", other)>>, constraints |-> last] :
     name \in {"t"}, flags \in SUBSET {"strict", "without_rowid"}, type \in {"INTEGER", "CHAR"},
     first \in {<<>>} \cup {<<c>> : c \in ColumnMenu}
                 \cup {<<Plain("PrimaryKey"), c>> : c \in ColumnMenu},
     second \in {"b"}, other \in {<<>>, <<Plain("Unique")>>, <<Plain("PrimaryKey")>>},
     last \in {<<>>} \cup {<<c>> : c \in TableMenu}}
   \cup {SqlStatement("CreateTable", name, <<>>, flags, "none", "")
     @@ [columns |-> <<SqlColumn("a", "INTEGER", <<Plain("PrimaryKey")>>), SqlColumn(second, "TEXT", <<>>)>>,
         constraints |-> <<>>] :
     name \in {"t", "hidden"}, second \in {"a", "b"},
     flags \in {{}, {"db"}, {"alias"}, {"temporary"}, {"explain"}, {"as_select"}}}

Targets == {"p", "hidden", "sqlite_sequence"}
FlagSets == {{}, {"db"}, {"alias"}, {"if"}, {"temporary"}, {"explain"}}

Simple(kinds) ==
  {SqlStatement(k, name, <<>>, flags, "none", other) :
     k \in kinds, name \in Targets, flags \in FlagSets, other \in Targets \cup {"n"}}

MCOtherStatements ==
  Simple({"RenameTo", "DropColumn", "DropConstraint", "SetNotNull", "DropTable", "DropIndex",
          "DropView", "Begin", "Commit", "Analyze"})
    \cup {s @@ [from |-> "n"] : s \in Simple({"RenameColumn"})}
    \cup {s @@ [columns |-> <<SqlColumn("c", type, constraints)>>] :
            s \in Simple({"AddColumn"}), type \in {"TEXT", "none"},
            constraints \in {<<c>> : c \in ColumnMenu} \cup {<<>>, <<Plain("Check"), Plain("Check")>>,
                                                            <<Plain("NotNull"), Plain("NotNull")>>}}
    \cup {[s EXCEPT !.flags = @ \cup more] @@ [terms |-> terms] :
            s \in Simple({"CreateIndex"}), more \in {{}, {"unique"}, {"unique", "ordered"}},
            terms \in {<<SqlLeaf("Name", "a")>>, <<SqlLeaf("Name", "a"), SqlLeaf("Name", "a")>>,
                       <<Node("Collate", "", [expr |-> {SqlLeaf("Id", "a")}])>>,
                       <<Node("Unary", "", [expr |-> {SqlLeaf("Variable", "a")}])>>}}
    \cup {SqlStatement(k, name, in, flags, or, other) :
            k \in {"Insert", "Delete", "Update"}, name \in Targets, or \in {"none", "Replace", "Fail"},
            flags \in FlagSets \cup {{"indexed_by"}}, other \in {"n", "hidden"},
            in \in {<<>>, [returning |-> {SqlLeaf("Star", "")}],
                    [order_by |-> {SqlLeaf("Literal", "")}]}}
    \cup {SqlStatement("Pragma", name, <<>>, flags, "none", "") @@ [value |-> v] :
            name \in {"user_version", "table_info", "index_info", "journal_mode"},
            flags \in {{}, {"explain"}, {"other_db"}},
            v \in {[k |-> "none"], [k |-> "object", name |-> "p"], [k |-> "object", name |-> "hidden"],
                   [k |-> "number", number |-> 8], [k |-> "number", number |-> 9]}}
-----------------------------------------------------------------------------
(***************************************************************************)
(* What is written down and read back: records and frames, the keys of the *)
(* two stores, sealed entries, and SQL text, one of them in each behaviour.*)
(***************************************************************************)

TwoComponents == {<<<<1>>>>, <<<<1, 0>>>>, <<<<1>>, <<1>>>>, <<<<0>>, <<1, 0>>>>}

CipherNames == {<<1>>, <<1, 1>>, <<2, 1>>}
UserBytes == {<<>>, <<1>>}

VARIABLE part   \* which of them runs: "codecs", "keys", "cipher" or "sql"

\* The envelope and the tree of a behaviour that is about neither.
AnEnvelope == PlaintextEnvelope(CHOOSE k \in NameKeys : TRUE)
ATree == [sort |-> "table", node |-> SqlLeaf("Table", SqlBase), operators |-> 0, queries |-> 0]

MCInit ==
  /\ part \in {"codecs", "keys", "cipher", "sql"}
  /\ CodecInit /\ StorageInit
  /\ IF part = "cipher" THEN CipherInit ELSE envelope = AnEnvelope /\ sealed = <<>> /\ delivered = <<>>
  /\ IF part = "sql" THEN SqlInit ELSE parsed = ATree

InCodecs == part = "codecs" /\ UNCHANGED <<part, storageVars, cipherVars, parsed>>
CodecPart ==
  \/ InCodecs /\ WriteRecord
  \/ InCodecs /\ DamageRecord
  \/ InCodecs /\ ReadRecord
  \/ InCodecs /\ ReadPending
  \/ InCodecs /\ ReadProposal
  \/ InCodecs /\ ReadBatch
KeyPart == part = "keys" /\ StorageNext /\ UNCHANGED <<part, codecVars, cipherVars, parsed>>
CipherPart == part = "cipher" /\ CipherNext /\ UNCHANGED <<part, codecVars, storageVars, parsed>>
SqlPart == part = "sql" /\ SqlNext /\ UNCHANGED <<part, codecVars, storageVars, cipherVars>>

MCSpec ==
  MCInit /\ [][CodecPart \/ KeyPart \/ CipherPart \/ SqlPart]_<<part, codecVars, storageVars, cipherVars, parsed>>
=============================================================================
