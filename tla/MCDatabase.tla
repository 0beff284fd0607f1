----------------------------- MODULE MCDatabase -----------------------------
(***************************************************************************)
(* A multilite database and what it stands on, one of them running in each *)
(* behaviour: the replica of MCReplica; the opening of its file, from      *)
(* plain files, whole ones, and whole ones with something missing or       *)
(* wrong; the rowids of two replicas; and the ordered stores, with batches *)
(* that write a key twice, delete what they wrote, and fill a statement.   *)
(***************************************************************************)
EXTENDS MCReplica, RowIds, DatabaseFile, OrderedStores

MCTag(d) == d

EveryTable ==
  {"meta", "pending", "repair", "repair_rows", "catalog", "catalog_columns",
   "commit_log", "commit_state", "rowid_slots", "rowid_state"}

UserTables ==
  {UserTable("table", FALSE, <<"INTEGER">>, FALSE), UserTable("table", TRUE, <<"TEXT", "TEXT">>, TRUE),
   UserTable("table", FALSE, <<"TEXT">>, TRUE), UserTable("table", FALSE, <<>>, FALSE),
   UserTable("virtual", FALSE, <<"INTEGER">>, FALSE)}

FileSpace(id, envelope) == [id |-> id, envelope |-> envelope]

WholeFile ==
  [Plain({}) EXCEPT !.tables = EveryTable, !.device = "d1", !.allocator = "d1",
                    !.spaces = {FileSpace("x", "x")}]

Files ==
  {Plain(user) : user \in SUBSET UserTables}
    \cup {[WholeFile EXCEPT !.tables = @ \ {t}] : t \in EveryTable}
    \cup {[WholeFile EXCEPT !.malformed = {t}] : t \in EveryTable}
    \cup {WholeFile, [WholeFile EXCEPT !.tables = @ \cup {"meta_stray"}],
          [WholeFile EXCEPT !.allocator = "d2"], [WholeFile EXCEPT !.device = NoId],
          [WholeFile EXCEPT !.spaces = {FileSpace("x", "y")}],
          [WholeFile EXCEPT !.spaces = {FileSpace("x", "x"), FileSpace("y", "y")}]}

Batches ==
  {<<Put(1, "a"), Put(2, "b"), Put(1, "b")>>, <<Put(1, "a"), Delete(1)>>,
   <<Delete(1), Put(1, "a"), Put(2, "a")>>, <<Delete(2)>>,
   <<Put(2, "b"), Delete(2), Delete(1), Put(2, "a")>>}

VARIABLE part   \* which of them runs: "replica", "rowids", "file" or "stores"

MCInit ==
  /\ part \in {"replica", "rowids", "file", "stores"}
  /\ Init /\ RowInit /\ FileInit /\ StoreInit
  /\ part # "file" => given = WholeFile
  /\ part # "stores" => backend = "memory"

ReplicaPart == part = "replica" /\ Next /\ UNCHANGED <<part, rowVars, fileVars, storeVars>>
RowidPart == part = "rowids" /\ RowNext /\ UNCHANGED <<part, vars, fileVars, storeVars>>
FilePart == part = "file" /\ FileNext /\ UNCHANGED <<part, vars, rowVars, storeVars>>
StorePart == part = "stores" /\ StoreNext /\ UNCHANGED <<part, vars, rowVars, fileVars>>

MCNext == ReplicaPart \/ RowidPart \/ FilePart \/ StorePart

MCSpec == MCInit /\ [][MCNext]_<<part, vars, rowVars, fileVars, storeVars>>
=============================================================================
