---------------------------- MODULE StorageKeys -----------------------------
\* Keys as bytes, in two parts: the encoding of component keys and ordered scans,
\* and the key layouts of the server's and the client's stores.
(***************************************************************************)
(* Byte encodings of component keys (core/src/key.rs) and byte-ordered     *)
(* scans (core/src/storage.rs).  A byte is a number below ByteBase, 256 in *)
(* the code; the three length limits are scaled down with it.  A component *)
(* is escaped (0 becomes 0 1) and closed by the terminator 0 0, so that    *)
(* byte order and byte prefixes agree with component order and component   *)
(* prefixes.                                                               *)
(***************************************************************************)
EXTENDS Integers, SequencesExt

CONSTANTS ByteBase, MaxComponentLen, MaxComponents, MaxEncodedKeyLen

ASSUME ByteAssumption == /\ ByteBase \in Nat \ {0, 1}
                         /\ MaxComponentLen \in Nat \ {0}
                         /\ MaxComponents \in Nat \ {0}
                         /\ MaxEncodedKeyLen \in Nat \ {0}

Bytes == 0 .. ByteBase - 1

component_is_valid(component) == Len(component) \in 1 .. MaxComponentLen

escape(byte) == IF byte = 0 THEN <<0, 1>> ELSE <<byte>>

encode_component(component) ==
  FlattenSeq([i \in DOMAIN component |-> escape(component[i])]) \o <<0, 0>>

encode_components(components) ==
  FlattenSeq([i \in DOMAIN components |-> encode_component(components[i])])

encoded_components_len(components) ==
  FoldSeq(LAMBDA component, total :
            total + Len(component) + Cardinality({i \in DOMAIN component : component[i] = 0}) + 2,
          0, components)

key_is_valid(components) ==
  /\ Len(components) \in 1 .. MaxComponents
  /\ encoded_components_len(components) <= MaxEncodedKeyLen

(***************************************************************************)
(* decode_components walks the bytes once.  "open" is inside a component,  *)
(* "zero" just after a 0 that the next byte must explain; a decode ends    *)
(* well only between components.                                           *)
(***************************************************************************)
ScanState == [at |-> "boundary", done |-> <<>>, component |-> <<>>]

push_component_byte(state, byte) ==
  IF Len(state.component) < MaxComponentLen
  THEN [state EXCEPT !.at = "open", !.component = Append(@, byte)]
  ELSE [state EXCEPT !.at = "refused"]

scan_byte(state, byte) ==
  IF state.at /= "zero"
  THEN IF byte = 0 THEN [state EXCEPT !.at = "zero"]
       ELSE push_component_byte(state, byte)
  ELSE IF byte = 1 THEN push_component_byte(state, 0)
  ELSE IF byte = 0 /\ component_is_valid(state.component)
       THEN [at |-> "boundary", done |-> Append(state.done, state.component), component |-> <<>>]
  ELSE [state EXCEPT !.at = "refused"]

RECURSIVE scan_bytes(_, _)
scan_bytes(state, bytes) ==
  IF state.at = "refused" \/ bytes = <<>> THEN state
  ELSE scan_bytes(scan_byte(state, Head(bytes)), Tail(bytes))

decode_components(bytes) ==
  LET final == scan_bytes(ScanState, bytes)
  IN  IF final.at = "boundary" THEN <<final.done>> ELSE <<>>

Key_decode(bytes) ==
  IF Len(bytes) > MaxEncodedKeyLen THEN <<>>
  ELSE SelectSeq(decode_components(bytes), key_is_valid)

(***************************************************************************)
(* Byte-ordered scans.  An absent end bound is the empty option.           *)
(***************************************************************************)
BytesLess(a, b) ==
  \/ IsStrictPrefix(a, b)
  \/ \E i \in 1 .. Len(a) :
       i <= Len(b) /\ a[i] < b[i] /\ SubSeq(a, 1, i - 1) = SubSeq(b, 1, i - 1)

BytesLessEq(a, b) == a = b \/ BytesLess(a, b)

prefix_successor(prefix) ==
  LET last == SelectLastInSeq(prefix, LAMBDA byte : byte < ByteBase - 1)
  IN  IF last = 0 THEN <<>> ELSE <<Append(SubSeq(prefix, 1, last - 1), prefix[last] + 1)>>

scan(keys, start, end) ==
  {key \in keys : BytesLessEq(start, key) /\ (end = <<>> \/ BytesLess(key, end[1]))}

scan_prefix(keys, prefix) == scan(keys, prefix, prefix_successor(prefix))
-----------------------------------------------------------------------------
(***************************************************************************)
(* The keyspaces of the two ordered stores: the shard store of a server    *)
(* (server/src/schema.rs) and the metadata store of a client               *)
(* (client/src/meta.rs).  Every record lives under one tuple of components *)
(* encoded by KeyEncoding; every query is a scan of a byte prefix or a few *)
(* point reads.  A stored record is named by                               *)
(*   [kind, space, path, n, op]                                            *)
(* (path: user key components, n: a sequence, lease or device number, op:  *)
(* an operation index); fields a kind does not have are <<>> or 0.         *)
(* Integers are big-endian in ByteBase with scaled widths.                 *)
(***************************************************************************)

CONSTANTS Spaces, Paths, Numbers, \* space ids, user keys, and sequences, ids and indexes
          MaxStored               \* records stored at once

VARIABLES shard, meta, live

storageVars == <<shard, meta, live>>

RecordKind == [Data |-> 0, RangeDelete |-> 1, LeaseByPrefix |-> 2, LeaseById |-> 3,
               Meta |-> 4, Device |-> 5, PrefixMeta |-> 6, AdmissionLog |-> 7]

BigEndian(value, width) ==
  [i \in 1 .. width |-> (value \div (ByteBase ^ (width - i))) % ByteBase]

OfBigEndian(bytes) == FoldLeft(LAMBDA value, byte : value * ByteBase + byte, 0, bytes)

\* Widths of the fixed components, scaled: 16 bytes for a space or device id, 8 for
\* a u64, 4 for a u32 and 2 for a depth.
space_component(space) == BigEndian(space, 4)
u64_component(value) == BigEndian(value, 3)
u32_component(value) == BigEndian(value, 2)
depth_component(depth) == BigEndian(depth, 2)
byte_component(byte) == <<byte>>

\* The literals "root" and "counters".
RootLiteral == <<2, 3>>
CountersLiteral == <<3, 2>>

(***************************************************************************)
(* The server's keyspace.                                                  *)
(***************************************************************************)
ServerTuple(space, kind) == <<space_component(space), byte_component(RecordKind[kind])>>

data_key(space, key) == encode_components(ServerTuple(space, "Data") \o key)

user_key_from_data(bytes) ==
  LET parts == decode_components(bytes)
  IN  IF parts /= <<>> /\ Len(parts[1]) >= 2 /\ key_is_valid(SubSeq(parts[1], 3, Len(parts[1])))
      THEN <<SubSeq(parts[1], 3, Len(parts[1]))>> ELSE <<>>

data_scan_all(space) == encode_components(ServerTuple(space, "Data"))

prefix_meta_key(space, head) ==
  encode_components(ServerTuple(space, "PrefixMeta") \o <<depth_component(Len(head))>> \o head)

prefix_meta_scan_all(space) == encode_components(ServerTuple(space, "PrefixMeta"))

root_meta_key(space) == encode_components(Append(ServerTuple(space, "Meta"), RootLiteral))

counters_key(space) == encode_components(Append(ServerTuple(space, "Meta"), CountersLiteral))

\* A range is the path of its prefix; Full is the empty path, at the reserved depth 0.
range_delete_key(space, range) ==
  encode_components(ServerTuple(space, "RangeDelete") \o <<depth_component(Len(range))>> \o range)

range_delete_scan_all(space) == encode_components(ServerTuple(space, "RangeDelete"))

range_delete_parts(bytes) ==
  LET parts == decode_components(bytes)
      tuple == parts[1]
      depth == OfBigEndian(tuple[3])
  IN  IF /\ parts /= <<>> /\ Len(tuple) >= 3 /\ Len(tuple[1]) = 4
         /\ tuple[2] = byte_component(RecordKind.RangeDelete)
         /\ Len(tuple[3]) = 2 /\ Len(tuple) = 3 + depth
         /\ (depth = 0 \/ key_is_valid(SubSeq(tuple, 4, Len(tuple))))
      THEN <<[space |-> OfBigEndian(tuple[1]), range |-> SubSeq(tuple, 4, Len(tuple))]>>
      ELSE <<>>

covering_range_delete_keys_exact(space, target) ==
  {range_delete_key(space, <<>>), range_delete_key(space, target)}

\* Full followed by every ancestor of the target through the target itself.
covering_range_delete_keys(space, target) ==
  {range_delete_key(space, SubSeq(target, 1, depth)) : depth \in 0 .. Len(target)}

AdmissionComponent == [Header |-> 0, Op |-> 1, Point |-> 0, Full |-> 1, Prefix |-> 2]

admission_component(part) == byte_component(AdmissionComponent[part])

admission_log_scan_all(space) == encode_components(ServerTuple(space, "AdmissionLog"))

admission_header_key(space, seq) ==
  encode_components(ServerTuple(space, "AdmissionLog")
                    \o <<u64_component(seq), admission_component("Header")>>)

AdmissionOpTuple(space, seq) ==
  ServerTuple(space, "AdmissionLog") \o <<u64_component(seq), admission_component("Op")>>

admission_op_key(space, seq, op, key) ==
  encode_components(AdmissionOpTuple(space, seq)
                    \o <<u32_component(op), admission_component("Point")>> \o key)

admission_range_op_key(space, seq, op, range) ==
  encode_components(AdmissionOpTuple(space, seq)
                    \o <<u32_component(op), admission_component(IF range = <<>> THEN "Full" ELSE "Prefix")>>
                    \o range)

admission_op_scan(space, seq) == encode_components(AdmissionOpTuple(space, seq))

admission_op_parts(bytes) ==
  LET parts == decode_components(bytes)
      tuple == parts[1]
      path  == SubSeq(tuple, 7, Len(tuple))
  IN  IF /\ parts /= <<>> /\ Len(tuple) >= 6
         /\ tuple[4] = admission_component("Op")
         /\ Len(tuple[3]) = 3 /\ Len(tuple[5]) = 2
         /\ \/ tuple[6] \in {admission_component("Point"), admission_component("Prefix")} /\ key_is_valid(path)
            \/ tuple[6] = admission_component("Full") /\ path = <<>>
      THEN <<[seq |-> OfBigEndian(tuple[3]), op |-> OfBigEndian(tuple[5]), path |-> path,
              point |-> tuple[6] = admission_component("Point")]>>
      ELSE <<>>

server_device_key(space, device) ==
  encode_components(Append(ServerTuple(space, "Device"), space_component(device)))

lease_by_id_key(space, id) ==
  encode_components(Append(ServerTuple(space, "LeaseById"), u64_component(id)))

lease_by_id_scan(space) == encode_components(ServerTuple(space, "LeaseById"))

lease_by_prefix_key(space, prefix, id) ==
  encode_components(ServerTuple(space, "LeaseByPrefix") \o <<depth_component(Len(prefix))>>
                    \o prefix \o <<u64_component(id)>>)

lease_by_prefix_scan(space, depth, head) ==
  encode_components(ServerTuple(space, "LeaseByPrefix") \o <<depth_component(depth)>> \o head)

lease_by_prefix_scan_all(space) == encode_components(ServerTuple(space, "LeaseByPrefix"))

ServerKey(r) ==
  CASE r.kind = "Data"            -> data_key(r.space, r.path)
    [] r.kind = "PrefixMeta"      -> prefix_meta_key(r.space, r.path)
    [] r.kind = "RootMeta"        -> root_meta_key(r.space)
    [] r.kind = "Counters"        -> counters_key(r.space)
    [] r.kind = "RangeDelete"     -> range_delete_key(r.space, r.path)
    [] r.kind = "AdmissionHeader" -> admission_header_key(r.space, r.n)
    [] r.kind = "AdmissionPoint"  -> admission_op_key(r.space, r.n, r.op, r.path)
    [] r.kind = "AdmissionRange"  -> admission_range_op_key(r.space, r.n, r.op, r.path)
    [] r.kind = "ServerDevice"    -> server_device_key(r.space, r.n)
    [] r.kind = "LeaseById"       -> lease_by_id_key(r.space, r.n)
    [] r.kind = "LeaseByPrefix"   -> lease_by_prefix_key(r.space, r.path, r.n)

ServerKinds == {"Data", "PrefixMeta", "RootMeta", "Counters", "RangeDelete", "AdmissionHeader",
                "AdmissionPoint", "AdmissionRange", "ServerDevice", "LeaseById", "LeaseByPrefix"}

(***************************************************************************)
(* The client's keyspace: everything under the Meta namespace.             *)
(***************************************************************************)
MetaNamespace == byte_component(0)
Root == [Client |-> 0, Space |-> 1]
ClientKind == [Device |-> 0, Clock |-> 4]
SpaceKind == [Codec |-> 0, Lease |-> 1, Cursors |-> 2, Ver |-> 3, Oplog |-> 4,
              DeviceChecksum |-> 5, AdmitCursors |-> 6, AdmitLog |-> 7]

client_kind(kind) ==
  <<MetaNamespace, byte_component(Root.Client), byte_component(ClientKind[kind])>>

space_kind(space, kind) ==
  <<MetaNamespace, byte_component(Root.Space), space_component(space), byte_component(SpaceKind[kind])>>

meta_scan_all == encode_components(<<MetaNamespace>>)

oplog_scan(space) == encode_components(space_kind(space, "Oplog"))

oplog_key(space, seq) == encode_components(Append(space_kind(space, "Oplog"), u64_component(seq)))

admit_log_scan(space) == encode_components(space_kind(space, "AdmitLog"))

admit_log_key(space, seq) == encode_components(Append(space_kind(space, "AdmitLog"), u64_component(seq)))

lease_key(space, prefix) == encode_components(space_kind(space, "Lease") \o prefix)

\* The records of one space without a suffix: codec, cursors, version, checksum, admit cursors.
space_record_key(space, kind) == encode_components(space_kind(space, kind))

ClientKey(r) ==
  CASE r.kind \in DOMAIN ClientKind -> encode_components(client_kind(r.kind))
    [] r.kind = "Oplog"             -> oplog_key(r.space, r.n)
    [] r.kind = "AdmitLog"          -> admit_log_key(r.space, r.n)
    [] r.kind = "Lease"             -> lease_key(r.space, r.path)
    [] OTHER                        -> space_record_key(r.space, r.kind)

\* load: the one record each stored key stands for, dispatched on its components;
\* a key none of the arms accepts is a panic (no record).
LoadedRecord(bytes) ==
  LET parts == decode_components(bytes)
      tuple == parts[1]
      named(table, byte) == {kind \in DOMAIN table : <<table[kind]>> = byte}
      as(kind, space, path, n) == {[kind |-> kind, space |-> space, path |-> path, n |-> n, op |-> 0]}
      suffix == SubSeq(tuple, 5, Len(tuple))
      space == OfBigEndian(tuple[3])
  IN  IF parts = <<>> \/ Len(tuple) < 3 \/ tuple[1] /= MetaNamespace THEN {}
      ELSE IF tuple[2] = byte_component(Root.Client)
      THEN UNION {as(kind, 0, <<>>, 0) : kind \in {k \in named(ClientKind, tuple[3]) : Len(tuple) = 3}}
      ELSE IF tuple[2] /= byte_component(Root.Space) \/ Len(tuple) < 4 \/ Len(tuple[3]) /= 4 THEN {}
      ELSE UNION {CASE kind = "Lease" -> IF key_is_valid(suffix) THEN as(kind, space, suffix, 0) ELSE {}
                    [] kind \in {"Oplog", "AdmitLog"} ->
                         IF suffix /= <<>> /\ Len(suffix[1]) = 3 /\ (kind = "Oplog" \/ Len(suffix) = 1)
                         THEN as(kind, space, <<>>, OfBigEndian(suffix[1])) ELSE {}
                    [] OTHER -> IF suffix = <<>> \/ kind = "Codec" THEN as(kind, space, <<>>, 0) ELSE {} :
                  kind \in named(SpaceKind, tuple[4])}

\* oplog and admitted_batches: from the first key to the end of the log's prefix,
\* stopping at the first sequence above `through`.
LogRead(keys, from_key, log_scan, through) ==
  LET seq(bytes) == OfBigEndian(decode_components(bytes)[1][5])
      found == scan(keys, from_key, prefix_successor(log_scan))
  IN  {bytes \in found : \A other \in found : BytesLessEq(other, bytes) => seq(other) <= through}

oplog(space, from, through) ==
  IF from > through THEN {}
  ELSE LogRead(DOMAIN meta, oplog_key(space, from), oplog_scan(space), through)

admitted_batches(space, from, through) ==
  IF from > through THEN {}
  ELSE LogRead(DOMAIN meta, admit_log_key(space, from), admit_log_scan(space), through)

\* leases_covering: point reads of the target's ancestors.
leases_covering(space, key) ==
  {bytes \in DOMAIN meta : \E depth \in 1 .. Len(key) : bytes = lease_key(space, SubSeq(key, 1, depth))}

(***************************************************************************)
(* The machine stores and removes records; `live` is what was stored.      *)
(***************************************************************************)
RecordsOf(kinds, spaces, paths, numbers, ops) ==
  [kind : kinds, space : spaces, path : paths, n : numbers, op : ops]

StoredRecords ==
  UNION {RecordsOf({"Data", "PrefixMeta", "RangeDelete", "Lease"}, Spaces, Paths, {0}, {0}),
         RecordsOf({"RangeDelete", "RootMeta", "Counters"}, Spaces, {<<>>}, {0}, {0}),
         RecordsOf({"AdmissionHeader", "ServerDevice", "LeaseById"}, Spaces, {<<>>}, Numbers, {0}),
         RecordsOf({"LeaseByPrefix"}, Spaces, Paths, Numbers, {0}),
         RecordsOf({"AdmissionPoint", "AdmissionRange"}, Spaces, Paths, Numbers, Numbers),
         RecordsOf({"AdmissionRange"}, Spaces, {<<>>}, Numbers, Numbers),
         RecordsOf(DOMAIN ClientKind, {0}, {<<>>}, {0}, {0}),
         RecordsOf({"Oplog", "AdmitLog"}, Spaces, {<<>>}, Numbers, {0}),
         RecordsOf(DOMAIN SpaceKind \ {"Lease", "Oplog", "AdmitLog"}, Spaces, {<<>>}, {0}, {0})}

StorageInit == shard = <<>> /\ meta = <<>> /\ live = {}

Stored(store, bytes, r) == [key \in (DOMAIN store) \cup {bytes} |-> IF key = bytes THEN r ELSE store[key]]

Removed(store, bytes) == [key \in (DOMAIN store) \ {bytes} |-> store[key]]

PutRecord(r) ==
  /\ r \notin live /\ Cardinality(live) < MaxStored
  /\ live' = live \cup {r}
  /\ IF r.kind \in ServerKinds
     THEN shard' = Stored(shard, ServerKey(r), r) /\ UNCHANGED meta
     ELSE meta' = Stored(meta, ClientKey(r), r) /\ UNCHANGED shard

DeleteRecord(r) ==
  /\ r \in live
  /\ live' = live \ {r}
  /\ IF r.kind \in ServerKinds
     THEN shard' = Removed(shard, ServerKey(r)) /\ UNCHANGED meta
     ELSE meta' = Removed(meta, ClientKey(r)) /\ UNCHANGED shard

StorageNext == \E r \in StoredRecords : PutRecord(r) \/ DeleteRecord(r)

(***************************************************************************)
(* Properties.                                                             *)
(***************************************************************************)
InShard(Wanted(_)) == {bytes \in DOMAIN shard : Wanted(shard[bytes])}

InMeta(Wanted(_)) == {bytes \in DOMAIN meta : Wanted(meta[bytes])}

OfKind(kinds, space, r) == r.kind \in kinds /\ r.space = space

\* Distinct records never share a storage key: whatever user key components contain,
\* writing one record (any builder of server/src/schema.rs or client/src/meta.rs)
\* replaces no other, and both stores hold exactly the records that were put.
RecordsKeepApart ==
  /\ {shard[bytes] : bytes \in DOMAIN shard} \cup {meta[bytes] : bytes \in DOMAIN meta} = live
  /\ Cardinality(DOMAIN shard) + Cardinality(DOMAIN meta) = Cardinality(live)

\* Every prefix scan of the server returns exactly the records it is meant to
\* enumerate: a space's records of one kind, the data at or below a key, the leases
\* of one depth below a head, one admitted batch's operations; and the point reads of
\* covering_range_delete_keys find every tombstone covering the target.
ServerScansExact ==
  live # {} => \A s \in Spaces :
    LET hits(prefix) == scan_prefix(DOMAIN shard, prefix)
        all(kinds) == InShard(LAMBDA r : OfKind(kinds, s, r))
    IN  /\ hits(data_scan_all(s)) = all({"Data"})
        /\ hits(prefix_meta_scan_all(s)) = all({"PrefixMeta"})
        /\ hits(range_delete_scan_all(s)) = all({"RangeDelete"})
        /\ hits(lease_by_id_scan(s)) = all({"LeaseById"})
        /\ hits(lease_by_prefix_scan_all(s)) = all({"LeaseByPrefix"})
        /\ hits(admission_log_scan_all(s)) = all({"AdmissionHeader", "AdmissionPoint", "AdmissionRange"})
        /\ \A seq \in Numbers : hits(admission_op_scan(s, seq)) =
             InShard(LAMBDA r : OfKind({"AdmissionPoint", "AdmissionRange"}, s, r) /\ r.n = seq)
        /\ \A key \in Paths :
             /\ hits(data_key(s, key)) = InShard(LAMBDA r : OfKind({"Data"}, s, r) /\ IsPrefix(key, r.path))
             /\ covering_range_delete_keys(s, key) \cap DOMAIN shard =
                  InShard(LAMBDA r : OfKind({"RangeDelete"}, s, r) /\ IsPrefix(r.path, key))
             /\ \A depth \in Len(key) .. MaxComponents : hits(lease_by_prefix_scan(s, depth, key)) =
                  InShard(LAMBDA r : /\ OfKind({"LeaseByPrefix"}, s, r)
                                     /\ Len(r.path) = depth /\ IsPrefix(key, r.path))

\* The client's reads are exact too: load sees every metadata record under its own
\* kind, space and suffix; oplog and admitted_batches return exactly the requested
\* window of one space; leases_covering finds exactly the leases above a key.
ClientReadsExact == live # {} =>
  /\ scan_prefix(DOMAIN meta, meta_scan_all) = DOMAIN meta
  /\ \A bytes \in DOMAIN meta : LoadedRecord(bytes) = {meta[bytes]}
  /\ \A s \in Spaces :
       /\ \A from, through \in Numbers :
            LET window(kind) == InMeta(LAMBDA r : OfKind({kind}, s, r) /\ r.n \in from .. through)
            IN  oplog(s, from, through) = window("Oplog") /\ admitted_batches(s, from, through) = window("AdmitLog")
       /\ \A key \in Paths :
            leases_covering(s, key) = InMeta(LAMBDA r : OfKind({"Lease"}, s, r) /\ IsPrefix(r.path, key))

\* The parsers invert the builders (Key::decode, user_key_from_data,
\* range_delete_parts and admission_op_parts recover what was encoded, and range_delete_parts accepts no
\* other record), and the byte order of the admission log is (sequence, header
\* before operations, operation index), the order in which pull and replay read it.
KeysReadBack ==
  /\ \A bytes \in DOMAIN shard :
       LET r == shard[bytes]
       IN  /\ r.kind = "Data" =>
                user_key_from_data(bytes) = <<r.path>> /\ Key_decode(encode_components(r.path)) = <<r.path>>
           /\ range_delete_parts(bytes) =
                IF r.kind = "RangeDelete" THEN <<[space |-> r.space, range |-> r.path]>> ELSE <<>>
           /\ r.kind \in {"AdmissionPoint", "AdmissionRange"} =>
                admission_op_parts(bytes) = <<[seq |-> r.n, op |-> r.op, path |-> r.path,
                                               point |-> r.kind = "AdmissionPoint"]>>
  /\ \A a, b \in InShard(LAMBDA r : r.kind \in {"AdmissionHeader", "AdmissionPoint", "AdmissionRange"}) :
       LET place(r) == <<r.space, r.n, IF r.kind = "AdmissionHeader" THEN 0 ELSE 1, r.op>>
       IN  BytesLess(place(shard[a]), place(shard[b])) => BytesLess(a, b)

\* Keys are exact: records keep apart, every scan of server and client returns the
\* records it means, and parsing a key gives back what it was built from.
KeysAreExact == RecordsKeepApart /\ ServerScansExact /\ ClientReadsExact /\ KeysReadBack
=============================================================================
