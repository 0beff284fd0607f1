------------------------------ MODULE Records -------------------------------
\* Stored records as frames, in five parts: the byte records themselves, the
\* server's records, the client's records, and the frames of schemas and tables.
(***************************************************************************)
(* The byte records of core/src/reader.rs and core/src/writer.rs, at the   *)
(* grain at which the codecs see them.  A frame is a sequence of tokens: a *)
(* primitive (kind k, value n), or a delimited piece of the frame (a tagged *)
(* field or a length-prefixed blob) whose payload p is a frame of its own. *)
(* A reader that asks for the primitive the frame does not hold fails, so  *)
(* an encoder and a decoder that disagree on order, width or tag disagree  *)
(* here too.  What is left out is the arithmetic of the lengths: a reader  *)
(* that asks for other widths at the same offset would read some bytes.    *)
(*                                                                         *)
(* Decoders return an option: <<>> is refused, <<v>> is the value v.       *)
(***************************************************************************)
EXTENDS Integers, Sequences, FiniteSets, SequencesExt, TLC, HistoricalHeads

CONSTANT WordSize   \* scaled 2^32 and 2^64: the range of an encoded integer

ASSUME WordSizeAssumption == WordSize \in Nat \ {0, 1} /\ WordSize % 2 = 0

Token(k, n, p) == [k |-> k, n |-> n, p |-> p]

(* Writer::u8, ::u32, ::u64, ::bytes16 and ::bytes: one primitive.         *)
(* Fixed-width identities and strings are primitives of their own kind.    *)
Prim(k, n) == <<Token(k, n, <<>>)>>
U8(n) == Prim("u8", n)
U32(n) == Prim("u32", n)
U64(n) == Prim("u64", n)

(* Writer::field: tag, length, payload.  The 4 GiB limit is left out.      *)
Field(tag, p) == <<Token("field", tag, p)>>

(* A u32 length and that many bytes.                                       *)
Blob(p) == <<Token("blob", 0, p)>>

(* Signed integers travel as the unsigned word of the same width.          *)
AsWord(i) == i % WordSize
AsSigned(w) == IF w < WordSize \div 2 THEN w ELSE w - WordSize

None == <<>>
Some(v) == <<v>>
IsSome(o) == Len(o) = 1
Check(ok, v) == IF ok THEN Some(v) ELSE None
Then(o, F(_)) == IF IsSome(o) THEN F(o[1]) ELSE None

Bit(b) == IF b THEN 1 ELSE 0

(* The position of an enumerated value in the byte table of its codec, and *)
(* back: a byte outside the table is refused.                              *)
ByteOf(table, e) == CHOOSE n \in DOMAIN table : table[n] = e
OfByte(table, n) == IF n \in DOMAIN table THEN Some(table[n]) ELSE None

Drop(fr, n) == SubSeq(fr, n + 1, Len(fr))

(* Reader::u8, ::u32, ::u64, ::bytes16, ::take: the frame starts with      *)
(* primitives of these kinds.                                              *)
Starts(fr, kinds) ==
    Len(fr) >= Len(kinds) /\ \A i \in DOMAIN kinds : fr[i].k = kinds[i]

(* ... and Reader::end succeeds after them.                                *)
Exactly(fr, kinds) == Len(fr) = Len(kinds) /\ Starts(fr, kinds)

Versioned(fr, v) == Starts(fr, <<"u8">>) /\ fr[1].n = v

(* Reading one primitive that fills its field.                             *)
Leaf(p, kind) == IF Exactly(p, <<kind>>) THEN Some(p[1].n) ELSE None
LeafEnum(p, table) == IF Exactly(p, <<"u8">>) THEN OfByte(table, p[1].n) ELSE None

(* F of every element.  (<<>> @@ f is f; it makes TLC compute f once.)     *)
EachOf(s, F(_)) == <<>> @@ [i \in DOMAIN s |-> F(s[i])]

(* The values of a field that occurs in a tagged record, in frame order.   *)
Payloads(fr, tag) == EachOf(SelectSeq(fr, LAMBDA t : t.n = tag), LAMBDA t : t.p)

(* The loop every tagged codec runs: Reader::field until the clean end, an *)
(* unknown tag skipped, a second singular field refused (set_once), a      *)
(* payload its reader refuses refused, a missing required field refused.   *)
(* The result maps each tag to its value (required) or to the sequence of  *)
(* its values (optional, repeated).                                        *)
Gathered(fr, required, optional, repeated, all) ==
    IF /\ \A i \in DOMAIN fr : fr[i].k = "field"
       /\ \A t \in DOMAIN all : \A i \in DOMAIN all[t] : IsSome(all[t][i])
       /\ \A t \in required : Len(all[t]) = 1
       /\ \A t \in optional : Len(all[t]) <= 1
    THEN Some(<<>> @@ [t \in DOMAIN all |-> IF t \in required THEN all[t][1][1]
                                            ELSE EachOf(all[t], LAMBDA o : o[1])])
    ELSE None
Tagged(fr, required, optional, repeated, Read(_, _)) ==
    Gathered(fr, required, optional, repeated,
             <<>> @@ [t \in required \cup optional \cup repeated |->
                        EachOf(Payloads(fr, t), LAMBDA p : Read(t, p))])

(* `count` items read one after another; Read returns an item and what is  *)
(* left of the frame.                                                      *)
Items(fr, count, Read(_)) ==
    FoldLeft(LAMBDA acc, i :
                Then(acc, LAMBDA a : Then(Read(a.rest), LAMBDA r :
                    Some([got |-> Append(a.got, r.got), rest |-> r.rest]))),
             Some([got |-> <<>>, rest |-> fr]),
             [i \in 1..count |-> i])

Got(v, rest) == Some([got |-> v, rest |-> rest])

(* The encodings of a sequence of values, one field each.                  *)
FieldEach(tag, vs, Enc(_)) == FlattenSeq(EachOf(vs, LAMBDA v : Field(tag, Enc(v))))

(* Bytes of a frame: a field has a tag and a u32 length, a blob the length. *)
RECURSIVE Size(_)
Size(fr) ==
    IF fr = <<>> THEN 0
    ELSE LET t == Head(fr)
         IN Size(Tail(fr)) + CASE t.k = "u8" -> 1
                               [] t.k = "u32" -> 4
                               [] t.k = "u64" -> 8
                               [] t.k = "field" -> 5 + Size(t.p)
                               [] t.k = "blob" -> 4 + Size(t.p)
                               [] t.k \in {"text", "bytes", "key"} -> t.n
                               [] t.k = "checksum" -> 32
                               [] OTHER -> 16

Distinct(s) == \A i, j \in DOMAIN s : s[i] = s[j] => i = j
-----------------------------------------------------------------------------
(***************************************************************************)
(* The record values of the server's store (server/src/schema.rs) and the  *)
(* seal and range encodings of core that they embed.  Fixed-width records: *)
(* every reader asks for the primitives in the order the writer put them.  *)
(* Keys, devices, checksums, nonces and values are numbers of their kind.  *)
(***************************************************************************)

LeaseModes == (0 :> "Read") @@ (1 :> "Write")

(* Seal::encode, ::decode: scheme 0 is the only one and takes no payload.  *)
Seal_encode(s) == U8(0) \o Prim("nonce", s.nonce) \o Prim("aead", s.aead) \o Blob(<<>>)
Seal_decode(fr) ==
    IF Exactly(fr, <<"u8", "nonce", "aead", "blob">>) /\ fr[1].n = 0 /\ fr[4].p = <<>>
    THEN Some([nonce |-> fr[2].n, aead |-> fr[3].n]) ELSE None

(* Range::encode, ::decode.  Key 0 stands for Full.                        *)
FullRange == 0
Range_encode(r) == IF r = FullRange THEN U8(0) ELSE U8(1) \o Blob(Prim("key", r))
Range_decode(fr) ==
    IF Exactly(fr, <<"u8">>) /\ fr[1].n = 0 THEN Some(FullRange)
    ELSE IF Exactly(fr, <<"u8", "blob">>) /\ fr[1].n = 1 THEN Leaf(fr[2].p, "key")
    ELSE None

(* The tag of one mutation: device, device_seq, ver, cipher_epoch.         *)
TagKinds == <<"device", "u64", "u64", "u64">>
Tag_encode(t) == Prim("device", t.device) \o U64(t.seq) \o U64(t.ver) \o U64(t.epoch)
TagAt(fr, i) == [device |-> fr[i].n, seq |-> fr[i + 1].n, ver |-> fr[i + 2].n, epoch |-> fr[i + 3].n]

HybridKinds == <<"u64", "u64", "lineage">>
Hybrid_encode(t) == U64(t.wall) \o U64(t.mono) \o Prim("lineage", t.lineage)
HybridAt(fr, i) == [wall |-> fr[i].n, mono |-> fr[i + 1].n, lineage |-> fr[i + 2].n]

AdmissionHeader_encode(h) ==
    U8(1) \o Prim("device", h.device) \o U64(h.seq) \o Prim("checksum", h.checksum) \o U32(h.count)
AdmissionHeader_decode(fr) ==
    IF Versioned(fr, 1) /\ Exactly(fr, <<"u8", "device", "u64", "checksum", "u32">>)
    THEN Some([device |-> fr[2].n, seq |-> fr[3].n, checksum |-> fr[4].n, count |-> fr[5].n])
    ELSE None

(* The prefix is what is left of the record, so nothing can trail it.      *)
LeaseRecord_encode(l) ==
    U8(2) \o U64(l.id) \o U8(ByteOf(LeaseModes, l.mode)) \o Prim("device", l.device)
    \o Hybrid_encode(l.requested_at) \o U64(l.granted_at) \o U64(l.barrier) \o U64(l.deadline)
    \o U64(IF l.ttl < WordSize THEN l.ttl ELSE WordSize - 1) \o Prim("key", l.prefix)
LeaseRecord_decode(fr) ==
    LET rest == Drop(fr, 11)
    IN IF /\ Versioned(fr, 2)
          /\ Starts(fr, <<"u8", "u64", "u8", "device">> \o HybridKinds \o <<"u64", "u64", "u64", "u64">>)
          /\ IsSome(OfByte(LeaseModes, fr[3].n))
          /\ IsSome(Leaf(rest, "key"))
       THEN Some([id |-> fr[2].n, mode |-> LeaseModes[fr[3].n], device |-> fr[4].n,
                  requested_at |-> HybridAt(fr, 5), granted_at |-> fr[8].n, barrier |-> fr[9].n,
                  deadline |-> fr[10].n, ttl |-> fr[11].n, prefix |-> rest[1].n])
       ELSE None

(* No end check: bytes after the two counters are ignored.                 *)
CountersRecord_encode(c) == U8(1) \o U64(c.next_lease_id) \o U64(c.admission_high_water)
CountersRecord_decode(fr) ==
    IF Versioned(fr, 1) /\ Starts(fr, <<"u8", "u64", "u64">>)
    THEN Some([next_lease_id |-> fr[2].n, admission_high_water |-> fr[3].n]) ELSE None

(* The key is in the storage key and handed to the decoder.  A set's value *)
(* is the rest of the record; nothing is checked behind a delete.          *)
DataHeader == <<"u8">> \o TagKinds \o <<"u64", "u32", "blob", "u8">>
DataRecord_encode(e) ==
    U8(1) \o Tag_encode(e.tag) \o U64(e.admission) \o U32(e.op) \o Blob(Seal_encode(e.seal))
    \o (IF e.kind = "Delete" THEN U8(0) ELSE U8(1) \o e.value)
DataRecord_decode(key, fr) ==
    LET rest == Drop(fr, 9)
        seal == Seal_decode(fr[8].p)
    IN IF Versioned(fr, 1) /\ Starts(fr, DataHeader) /\ IsSome(seal) /\ fr[9].n \in {0, 1}
       THEN Some([key |-> key, tag |-> TagAt(fr, 2), admission |-> fr[6].n, op |-> fr[7].n,
                  seal |-> seal[1], kind |-> IF fr[9].n = 0 THEN "Delete" ELSE "Set",
                  value |-> IF fr[9].n = 0 THEN <<>> ELSE rest])
       ELSE None

HeadKinds == <<"device", "u64", "device", "u64">>
Heads_encode_into(h) ==
    Prim("device", h.first.device) \o U64(h.first.seq) \o Prim("device", h.second.device) \o U64(h.second.seq)
Heads_decode_from(fr, i) ==
    LET h == [first |-> [device |-> fr[i].n, seq |-> fr[i + 1].n],
              second |-> [device |-> fr[i + 2].n, seq |-> fr[i + 3].n]]
    IN IF /\ h.first.seq >= h.second.seq
          /\ h.second.seq = 0 \/ h.first.device # h.second.device
          /\ h.first.seq # 0 \/ h.second.seq = 0
       THEN Some(h) ELSE None

(* RangeDeleteRecord::new, ::observe: the newest event at one exact target *)
(* and what is remembered of the older ones.                               *)
LaterOf(a, b) == IF a[1] > b[1] \/ (a[1] = b[1] /\ a[2] > b[2]) THEN a ELSE b
RangeDelete_new(e) == [entry |-> e, history |-> observe(EmptyHeads, e.tag.device, e.admission), max_ver |-> e.tag.ver]
RangeDelete_observe(r, e) ==
    [entry |-> IF <<e.admission, e.op>> = LaterOf(<<e.admission, e.op>>, <<r.entry.admission, r.entry.op>>)
               THEN e ELSE r.entry,
     history |-> observe(r.history, e.tag.device, e.admission),
     max_ver |-> MaxOf(r.max_ver, e.tag.ver)]

(* The decoder insists that the newest event is a head of the history.     *)
RangeDelete_encode(r) ==
    U8(1) \o Tag_encode(r.entry.tag) \o U64(r.entry.admission) \o U32(r.entry.op)
    \o Heads_encode_into(r.history) \o U64(r.max_ver) \o Blob(Seal_encode(r.entry.seal))
RangeDelete_decode(range, fr) ==
    LET heads == Heads_decode_from(fr, 8)
        seal == Seal_decode(fr[13].p)
        tag == TagAt(fr, 2)
    IN IF /\ Versioned(fr, 1)
          /\ Exactly(fr, <<"u8">> \o TagKinds \o <<"u64", "u32">> \o HeadKinds \o <<"u64", "blob">>)
          /\ IsSome(heads) /\ IsSome(seal)
          /\ [device |-> tag.device, seq |-> fr[6].n] \in {heads[1].first, heads[1].second}
          /\ max_admission_seq(heads[1]) = fr[6].n
          /\ fr[12].n >= tag.ver
       THEN Some([entry |-> [key |-> range, tag |-> tag, admission |-> fr[6].n, op |-> fr[7].n,
                             seal |-> seal[1], kind |-> "DeleteRange", value |-> <<>>],
                  history |-> heads[1], max_ver |-> fr[12].n])
       ELSE None

PrefixMeta_encode(m) ==
    U8(1) \o Heads_encode_into(m.history) \o U64(m.max_ver) \o U64(m.live_count)
    \o U64(m.count_epoch.seq) \o U32(m.count_epoch.op)
PrefixMeta_decode(fr) ==
    LET heads == Heads_decode_from(fr, 2)
    IN IF /\ Versioned(fr, 1)
          /\ Exactly(fr, <<"u8">> \o HeadKinds \o <<"u64", "u64", "u64", "u32">>)
          /\ IsSome(heads)
       THEN Some([history |-> heads[1], max_ver |-> fr[6].n, live_count |-> fr[7].n,
                  count_epoch |-> [seq |-> fr[8].n, op |-> fr[9].n]])
       ELSE None

(* No end check here either.                                               *)
DeviceRecord_encode(d) == U8(1) \o U64(d.last_seq) \o Prim("checksum", d.checksum)
DeviceRecord_decode(fr) ==
    IF Versioned(fr, 1) /\ Starts(fr, <<"u8", "u64", "checksum">>)
    THEN Some([last_seq |-> fr[2].n, checksum |-> fr[3].n]) ELSE None
-----------------------------------------------------------------------------
(***************************************************************************)
(* The record values of the client's metadata store (client/src/meta.rs).  *)
(***************************************************************************)

SubmitModes == (0 :> "Unchecked") @@ (1 :> "Checked")
Flags == (0 :> FALSE) @@ (1 :> TRUE)

(* The one-value records: device, checksum, version high-water, clock.     *)
One_encode(kind, v) == U8(1) \o Prim(kind, v)
One_decode(kind, fr) ==
    IF Versioned(fr, 1) /\ Exactly(fr, <<"u8", kind>>) THEN Some(fr[2].n) ELSE None
Checksum_encode(c) == One_encode("checksum", c)
Checksum_decode(fr) == One_decode("checksum", fr)
ClientDevice_encode(d) == One_encode("device", d)
ClientDevice_decode(fr) == One_decode("device", fr)
VerHigh_encode(v) == One_encode("u64", v)
VerHigh_decode(fr) == One_decode("u64", fr)
Clock_encode(t) == One_encode("u64", t)
Clock_decode(fr) == One_decode("u64", fr)

(* OplogCursors and AdmitCursors share their shape.                        *)
OplogCursors_encode(c) == U8(1) \o U64(c.head) \o U64(c.neck) \o U64(c.tail)
OplogCursors_decode(fr) ==
    IF Versioned(fr, 1) /\ Exactly(fr, <<"u8", "u64", "u64", "u64">>)
    THEN Some([head |-> fr[2].n, neck |-> fr[3].n, tail |-> fr[4].n]) ELSE None
AdmitCursors_encode(c) == OplogCursors_encode(c)
AdmitCursors_decode(fr) == OplogCursors_decode(fr)

Codec_encode(c) == U8(1) \o U64(c.epoch) \o c.sealed
Codec_decode(fr) ==
    IF Versioned(fr, 1) /\ Starts(fr, <<"u8", "u64">>)
    THEN Some([epoch |-> fr[2].n, sealed |-> Drop(fr, 2)]) ELSE None

(* SpaceEnvelope::encode, ::decode (client/src/cipher.rs): the sealed part  *)
(* of a codec record.  Value keys are ordered by epoch.                    *)
Envelope_encode(e) ==
    IF e.kind = "Plaintext" THEN U8(1) \o U8(1) \o Prim("space", e.space)
    ELSE U8(1) \o U8(0) \o Prim("secret", e.name_key) \o Prim("u16", Len(e.keys))
         \o FlattenSeq([i \in DOMAIN e.keys |-> U64(e.keys[i].epoch) \o Prim("secret", e.keys[i].key)])
Envelope_decode(fr) ==
    LET keys == Items(Drop(fr, 4), fr[4].n,
                      LAMBDA rest : IF Starts(rest, <<"u64", "secret">>)
                                    THEN Got([epoch |-> rest[1].n, key |-> rest[2].n], Drop(rest, 2)) ELSE None)
        \* BTreeMap::insert: the last key of an epoch, in epoch order
        by_epoch == LET epochs == {keys[1].got[i].epoch : i \in DOMAIN keys[1].got}
                    IN [i \in DOMAIN SetToSortSeq(epochs, <) |->
                          LET e == SetToSortSeq(epochs, <)[i]
                          IN keys[1].got[SelectLastInSeq(keys[1].got, LAMBDA k : k.epoch = e)]]
    IN IF ~(Versioned(fr, 1) /\ Starts(fr, <<"u8", "u8">>)) THEN None
       ELSE IF fr[2].n = 1 /\ Exactly(fr, <<"u8", "u8", "space">>) THEN Some([kind |-> "Plaintext", space |-> fr[3].n])
       ELSE IF fr[2].n = 0 /\ Starts(fr, <<"u8", "u8", "secret", "u16">>) /\ IsSome(keys) /\ keys[1].rest = <<>>
       THEN Some([kind |-> "Encrypted", name_key |-> fr[3].n, keys |-> by_epoch])
       ELSE None

HeldLease_encode(h) ==
    U8(3) \o U64(h.id) \o U8(ByteOf(LeaseModes, h.mode)) \o Hybrid_encode(h.requested_at)
    \o U64(h.granted_at) \o U64(IF h.ttl < WordSize THEN h.ttl ELSE WordSize - 1) \o U64(h.barrier)
    \o Hybrid_encode(h.deadline) \o U8(Bit(h.forgotten)) \o Prim("key", h.prefix)
HeldLease_decode(fr) ==
    LET rest == Drop(fr, 13)
    IN IF /\ Versioned(fr, 3)
          /\ Starts(fr, <<"u8", "u64", "u8">> \o HybridKinds \o <<"u64", "u64", "u64">> \o HybridKinds \o <<"u8">>)
          /\ IsSome(OfByte(LeaseModes, fr[3].n)) /\ IsSome(OfByte(Flags, fr[13].n))
          /\ IsSome(Leaf(rest, "key"))
       THEN Some([id |-> fr[2].n, mode |-> LeaseModes[fr[3].n], requested_at |-> HybridAt(fr, 4),
                  granted_at |-> fr[7].n, ttl |-> fr[8].n, barrier |-> fr[9].n,
                  deadline |-> HybridAt(fr, 10), forgotten |-> Flags[fr[13].n], prefix |-> rest[1].n])
       ELSE None

(* One mutation with its tag and seal; only a set carries a value.         *)
DeviceEntry_encode(e) ==
    LET target == IF e.kind = "DeleteRange" THEN Range_encode(e.target) ELSE Prim("key", e.target)
    IN U8(CASE e.kind = "Set" -> 1 [] e.kind = "Delete" -> 2 [] e.kind = "DeleteRange" -> 3)
       \o Blob(target) \o Tag_encode(e.tag) \o Blob(Seal_encode(e.seal))
       \o (IF e.kind = "Set" THEN Blob(e.value) ELSE <<>>)
DeviceEntry_decode(fr) ==
    LET target == IF fr[1].n = 3 THEN Range_decode(fr[2].p) ELSE Leaf(fr[2].p, "key")
        seal == Seal_decode(fr[7].p)
        set == fr[1].n = 1
        entry == [kind |-> <<"Set", "Delete", "DeleteRange">>[fr[1].n], target |-> target[1],
                  tag |-> TagAt(fr, 3), seal |-> seal[1], value |-> IF set THEN fr[8].p ELSE <<>>]
    IN IF /\ Starts(fr, <<"u8", "blob">> \o TagKinds \o <<"blob">>)
          /\ IsSome(seal) /\ fr[1].n \in 1..3 /\ IsSome(target)
          /\ set => Len(fr) >= 8 /\ fr[8].k = "blob"
       THEN Got(entry, Drop(fr, IF set THEN 8 ELSE 7))
       ELSE None

(* encode_entries, decode_entries.                                         *)
Entries_encode(es) == U32(Len(es)) \o FlattenSeq([i \in DOMAIN es |-> DeviceEntry_encode(es[i])])
Counted(fr, Read(_)) == IF Starts(fr, <<"u32">>) THEN Items(Tail(fr), fr[1].n, Read) ELSE None
Entries_decode(fr) == Counted(fr, DeviceEntry_decode)

Asserts_encode(as) ==
    U32(Len(as)) \o FlattenSeq([i \in DOMAIN as |-> Blob(Prim("key", as[i].prefix)) \o U64(as[i].upto)])
Assert_decode(fr) ==
    IF Starts(fr, <<"blob", "u64">>) /\ IsSome(Leaf(fr[1].p, "key"))
    THEN Got([prefix |-> fr[1].p[1].n, upto |-> fr[2].n], Drop(fr, 2)) ELSE None
Evidence_decode(fr) == IF Starts(fr, <<"u64">>) THEN Got(fr[1].n, Tail(fr)) ELSE None

DeviceOp_encode(op) ==
    U8(4) \o (IF op.kind = "Rollback" THEN U8(1) \o U64(op.marker)
              ELSE U8(0) \o U8(ByteOf(SubmitModes, op.mode)) \o Entries_encode(op.entries)
                   \o Asserts_encode(op.asserts)
                   \o U32(Len(op.evidence)) \o FlattenSeq([i \in DOMAIN op.evidence |-> U64(op.evidence[i])]))
DeviceOp_decode(fr) ==
    IF ~(Versioned(fr, 4) /\ Starts(fr, <<"u8", "u8">>)) THEN None
    ELSE IF fr[2].n = 1 /\ Exactly(fr, <<"u8", "u8", "u64">>)
    THEN Some([kind |-> "Rollback", marker |-> fr[3].n])
    ELSE IF fr[2].n = 0 /\ Starts(fr, <<"u8", "u8", "u8">>) /\ fr[3].n \in DOMAIN SubmitModes
    THEN Then(Entries_decode(Drop(fr, 3)), LAMBDA entries :
         Then(Counted(entries.rest, Assert_decode), LAMBDA asserts :
         Then(Counted(asserts.rest, Evidence_decode), LAMBDA evidence :
              Check(evidence.rest = <<>>,
                    [kind |-> "Commit", mode |-> SubmitModes[fr[3].n], entries |-> entries.got,
                     asserts |-> asserts.got, evidence |-> evidence.got]))))
    ELSE None

(* AdmittedBatch::validate and PullResponse::validate_dense.               *)
Batch_validate(b) ==
    \A i \in DOMAIN b.entries :
        LET e == b.entries[i]
        IN /\ e.admission = b.seq /\ e.op = i - 1
           /\ e.entry.tag.device = b.device /\ e.entry.tag.seq = b.device_seq
Pull_validate_dense(r) ==
    /\ r.through >= r.after
    /\ Len(r.batches) = r.through - r.after
    /\ \A i \in DOMAIN r.batches : r.batches[i].seq = r.after + i /\ Batch_validate(r.batches[i])

(* encode_admitted_batch, decode_admitted_batch.                           *)
AdmittedBatch_encode(b) ==
    U8(1) \o U64(b.seq) \o Prim("device", b.device) \o U64(b.device_seq) \o Prim("checksum", b.checksum)
    \o U32(Len(b.entries))
    \o FlattenSeq([i \in DOMAIN b.entries |->
            DeviceEntry_encode(b.entries[i].entry) \o U64(b.entries[i].admission) \o U32(b.entries[i].op)])
AdmittedEntry_decode(fr) ==
    Then(DeviceEntry_decode(fr), LAMBDA e :
         IF Starts(e.rest, <<"u64", "u32">>)
         THEN Got([entry |-> e.got, admission |-> e.rest[1].n, op |-> e.rest[2].n], Drop(e.rest, 2)) ELSE None)
AdmittedBatch_decode(fr) ==
    IF ~(Versioned(fr, 1) /\ Starts(fr, <<"u8", "u64", "device", "u64", "checksum">>)) THEN None
    ELSE Then(Counted(Drop(fr, 5), AdmittedEntry_decode), LAMBDA items :
              LET batch == [seq |-> fr[2].n, device |-> fr[3].n, device_seq |-> fr[4].n, checksum |-> fr[5].n,
                            entries |-> items.got]
              IN Check(items.rest = <<>> /\ Batch_validate(batch), batch))
-----------------------------------------------------------------------------
(***************************************************************************)
(* The frame of one table definition (multilite/src/logical/schema.rs): a  *)
(* version byte and tagged fields, nested four deep, and the checks its    *)
(* decoders run: byte tables, the schema invariants of schema/compiler.rs, *)
(* the revision that hashes the definition, and the SQL kept as provenance. *)
(*                                                                         *)
(* Identities, names and texts are numbers.  What the SQL parser makes of  *)
(* a text is given: Statement maps a parsable text to its statement, and   *)
(* ExprReads a parsable expression to the column names it reads.           *)
(***************************************************************************)

CONSTANTS Statement,      \* text -> parsed statement (sql::validate_execute)
          ExprReads,      \* text -> names read (sql::parse_schema_expression)
          TypeNames,      \* type names the parser reads back unchanged
          IntegerType,    \* the one spelling is_exact_integer accepts
          StrictTypes,    \* the type names STRICT tables admit
          MaxParts,       \* MAX_INDEX_COLUMNS
          Hash(_)         \* SHA-256 of a frame, cut to an identity

Affinities == (1 :> "Integer") @@ (2 :> "Real") @@ (3 :> "Text") @@ (4 :> "Blob") @@ (5 :> "Numeric")
ConflictPolicies == (1 :> "Abort") @@ (2 :> "Ignore") @@ (3 :> "Replace")
TableModes == (0 :> "Ordinary") @@ (1 :> "Strict")
TableStorages == (0 :> "Rowid") @@ (1 :> "WithoutRowid")
ReferentialActionBytes ==
    (0 :> "NoAction") @@ (1 :> "Cascade") @@ (2 :> "SetNull") @@ (3 :> "SetDefault") @@ (4 :> "Restrict")
IndexKinds == (1 :> "Primary") @@ (2 :> "Unique") @@ (3 :> "Secondary")
IndexOrders == (1 :> "Asc") @@ (2 :> "Desc")

Enum(table, e) == U8(ByteOf(table, e))
Uuid(n) == Prim("uuid", n)
Text(n) == Prim("text", n)
uuid_bytes(p) == Leaf(p, "uuid")
decode_name(p) == Leaf(p, "text")
decode_boolean(p) == LeafEnum(p, Flags)
decode_conflict_policy(p) == LeafEnum(p, ConflictPolicies)
decode_expression(p) == Then(Leaf(p, "text"), LAMBDA e : Check(e \in DOMAIN ExprReads, e))

encode_type_declaration(d) == U8(1) \o Field(1, Text(d.name)) \o FieldEach(2, d.arguments, Text)
type_declaration_is_valid(d) == d.name \in TypeNames /\ Len(d.arguments) <= 2 /\ 0 \notin ToSet(d.arguments)
decode_type_declaration(fr) ==
    IF ~Versioned(fr, 1) THEN None
    ELSE Then(Tagged(Tail(fr), {1}, {}, {2}, LAMBDA t, p : Leaf(p, "text")),
              LAMBDA r : LET d == [name |-> r[1], arguments |-> r[2]]
                         IN Check(type_declaration_is_valid(d), d))

encode_default(d) == FieldEach(1, d.name, Text) \o Field(2, Text(d.expression))
decode_default(fr) ==
    Then(Tagged(fr, {2}, {1}, {}, LAMBDA t, p : IF t = 1 THEN decode_name(p) ELSE decode_expression(p)),
         LAMBDA r : Some([name |-> r[1], expression |-> r[2]]))

encode_column(c) ==
    Field(1, Uuid(c.id)) \o Field(2, Text(c.name)) \o Field(3, encode_type_declaration(c.type))
    \o Field(4, U8(Bit(c.not_null))) \o FieldEach(5, c.not_null_name, Text)
    \o Field(7, Enum(ConflictPolicies, c.not_null_conflict)) \o FieldEach(6, c.default, encode_default)
decode_column(fr) ==
    Then(Tagged(fr, {1, 2, 3, 4, 7}, {5, 6}, {},
                LAMBDA t, p : CASE t = 1 -> uuid_bytes(p)
                                [] t \in {2, 5} -> decode_name(p)
                                [] t = 3 -> decode_type_declaration(p)
                                [] t = 4 -> decode_boolean(p)
                                [] t = 6 -> decode_default(p)
                                [] t = 7 -> decode_conflict_policy(p)),
         LAMBDA r : Some([id |-> r[1], name |-> r[2], type |-> r[3], not_null |-> r[4],
                          not_null_name |-> r[5], not_null_conflict |-> r[7], default |-> r[6]]))

encode_logical_index(x) ==
    U8(1) \o Field(1, Uuid(x.id)) \o Field(2, Enum(IndexKinds, x.kind)) \o FieldEach(3, x.columns, Uuid)
decode_logical_index(fr) ==
    IF ~Versioned(fr, 1) THEN None
    ELSE Then(Tagged(Tail(fr), {1, 2}, {}, {3},
                     LAMBDA t, p : IF t = 2 THEN LeafEnum(p, IndexKinds) ELSE uuid_bytes(p)),
              LAMBDA r : Check(IF r[2] = "Secondary" THEN r[3] = <<>> ELSE r[3] # <<>> /\ Distinct(r[3]),
                               [id |-> r[1], kind |-> r[2], columns |-> r[3]]))

encode_primary_key(k) ==
    Field(1, encode_logical_index(k.index)) \o FieldEach(2, k.name, Text)
    \o Field(3, Enum(ConflictPolicies, k.conflict))
decode_primary_key(fr) ==
    Then(Tagged(fr, {1, 3}, {2}, {}, LAMBDA t, p : CASE t = 1 -> decode_logical_index(p)
                                                     [] t = 2 -> decode_name(p)
                                                     [] t = 3 -> decode_conflict_policy(p)),
         LAMBDA r : Check(r[1].kind = "Primary", [index |-> r[1], name |-> r[2], conflict |-> r[3]]))

encode_unique_constraint(u) ==
    Field(1, encode_logical_index(u.index)) \o FieldEach(2, u.name, Text)
    \o Field(3, Enum(ConflictPolicies, u.conflict)) \o Field(4, U8(Bit(u.active)))
decode_unique_constraint(fr) ==
    Then(Tagged(fr, {1, 3, 4}, {2}, {}, LAMBDA t, p : CASE t = 1 -> decode_logical_index(p)
                                                        [] t = 2 -> decode_name(p)
                                                        [] t = 3 -> decode_conflict_policy(p)
                                                        [] t = 4 -> decode_boolean(p)),
         LAMBDA r : Check(r[1].kind = "Unique",
                          [index |-> r[1], name |-> r[2], conflict |-> r[3], active |-> r[4]]))

(* A term is a column, perhaps with a collation, or an expression.         *)
encode_index_term(t) ==
    U8(1) \o FieldEach(1, t.column, Uuid) \o FieldEach(2, t.collation, Text)
    \o FieldEach(3, t.expression, Text) \o FieldEach(4, t.order, LAMBDA o : Enum(IndexOrders, o))
decode_index_term(fr) ==
    IF ~Versioned(fr, 1) THEN None
    ELSE Then(Tagged(Tail(fr), {}, 1..4, {}, LAMBDA t, p : CASE t = 1 -> uuid_bytes(p)
                                                             [] t = 2 -> decode_name(p)
                                                             [] t = 3 -> decode_expression(p)
                                                             [] t = 4 -> LeafEnum(p, IndexOrders)),
              LAMBDA r : Check(IsSome(r[1]) # IsSome(r[3]) /\ (IsSome(r[2]) => IsSome(r[1])),
                               [column |-> r[1], collation |-> r[2], expression |-> r[3], order |-> r[4]]))

encode_named_index(x) ==
    Field(1, encode_logical_index(x.index)) \o Field(2, Text(x.name)) \o Field(6, U8(Bit(x.active)))
    \o FieldEach(7, x.terms, encode_index_term) \o FieldEach(8, x.predicate, Text)
    \o FieldEach(9, x.dependencies, Uuid)
decode_named_index(fr) ==
    Then(Tagged(fr, {1, 2, 6}, {8}, {7, 9}, LAMBDA t, p : CASE t = 1 -> decode_logical_index(p)
                                                            [] t = 2 -> decode_name(p)
                                                            [] t = 6 -> decode_boolean(p)
                                                            [] t = 7 -> decode_index_term(p)
                                                            [] t = 8 -> decode_expression(p)
                                                            [] t = 9 -> uuid_bytes(p)),
         LAMBDA r : Some([index |-> r[1], name |-> r[2], active |-> r[6], terms |-> r[7],
                          predicate |-> r[8], dependencies |-> r[9]]))

(* The parent's columns travel as (identity, name) pairs.                  *)
encode_foreign_key_definition(f) ==
    Field(1, Uuid(f.id)) \o FieldEach(2, f.name, Text) \o FieldEach(3, f.columns, Uuid)
    \o Field(4, Uuid(f.table)) \o Field(5, Text(f.table_name)) \o Field(9, Uuid(f.parent_index))
    \o Field(10, Enum(ReferentialActionBytes, f.on_delete))
    \o Field(11, Enum(ReferentialActionBytes, f.on_update))
    \o FlattenSeq([i \in DOMAIN f.parent_columns |->
            Field(7, Uuid(f.parent_columns[i])) \o Field(8, Text(f.parent_names[i]))])
    \o Field(12, U8(Bit(f.active)))
decode_foreign_key_definition(fr) ==
    Then(Tagged(fr, {1, 4, 5, 9, 10, 11, 12}, {2}, {3, 7, 8},
                LAMBDA t, p : CASE t \in {1, 3, 4, 7, 9} -> uuid_bytes(p)
                                [] t \in {2, 5, 8} -> decode_name(p)
                                [] t \in {10, 11} -> LeafEnum(p, ReferentialActionBytes)
                                [] t = 12 -> decode_boolean(p)),
         LAMBDA r : Check(r[3] # <<>> /\ Len(r[3]) = Len(r[7]) /\ Len(r[3]) = Len(r[8]),
                          [id |-> r[1], name |-> r[2], columns |-> r[3], table |-> r[4],
                           table_name |-> r[5], parent_index |-> r[9], on_delete |-> r[10],
                           on_update |-> r[11], parent_columns |-> r[7], parent_names |-> r[8],
                           active |-> r[12]]))

encode_check_constraint(c) ==
    FieldEach(1, c.column, Uuid) \o FieldEach(2, c.name, Text) \o Field(3, Text(c.expression))
    \o FieldEach(4, c.dependencies, Uuid) \o Field(5, U8(Bit(c.active)))
decode_check_constraint(fr) ==
    Then(Tagged(fr, {3, 5}, {1, 2}, {4}, LAMBDA t, p : CASE t \in {1, 4} -> uuid_bytes(p)
                                                         [] t = 2 -> decode_name(p)
                                                         [] t = 3 -> decode_expression(p)
                                                         [] t = 5 -> decode_boolean(p)),
         LAMBDA r : Some([column |-> r[1], name |-> r[2], expression |-> r[3],
                          dependencies |-> r[4], active |-> r[5]]))
-----------------------------------------------------------------------------
(***************************************************************************)
(* One whole table creation: its frame, the invariants every decoded       *)
(* definition meets, and the agreement with the SQL it was written as.     *)
(***************************************************************************)

ColumnIdsOf(s) == {s.columns[i].id : i \in DOMAIN s.columns}
ColumnOf(s, id) == s.columns[CHOOSE i \in DOMAIN s.columns : s.columns[i].id = id]
column_name(s, id) == ColumnOf(s, id).name

(* compiler::bind_expression and the ascending identities it returns.      *)
Bound(s, names) == {s.columns[i].id : i \in {i \in DOMAIN s.columns : s.columns[i].name \in names}}
Binds(s, e) == \A n \in ExprReads[e] : \E i \in DOMAIN s.columns : s.columns[i].name = n
Ascending(ids) == SetToSortSeq(ids, LAMBDA a, b : a < b)
IndexReads(s, x) ==
    LET exprs == x.predicate \o FlattenSeq(EachOf(x.terms, LAMBDA t : t.expression))
        ids == ToSet(x.index.columns) \cup ToSet(FlattenSeq(EachOf(x.terms, LAMBDA t : t.column)))
    IN IF \A i \in DOMAIN exprs : Binds(s, exprs[i])
       THEN Some(Ascending(ids \cup UNION {Bound(s, ExprReads[exprs[i]]) : i \in DOMAIN exprs}))
       ELSE None

valid_index_columns(s, ids) ==
    ids # <<>> /\ Len(ids) <= MaxParts /\ Distinct(ids) /\ ToSet(ids) \subseteq ColumnIdsOf(s)

named_index_is_valid(s, x) ==
    /\ CASE x.index.kind = "Primary" -> FALSE
         [] x.index.kind = "Unique" ->
              valid_index_columns(s, x.index.columns) /\ x.terms = <<>> /\ x.predicate = <<>>
         [] x.index.kind = "Secondary" ->
              /\ x.index.columns = <<>> /\ Len(x.terms) \in 1..MaxParts
              /\ \A i \in DOMAIN x.terms : ToSet(x.terms[i].column) \subseteq ColumnIdsOf(s)
    /\ IndexReads(s, x) = Some(x.dependencies)

(* Every constraint name a table may not reuse, retired ones included.     *)
constraint_names(s) ==
    s.primary_key.name \o FlattenSeq(EachOf(s.columns, LAMBDA c : c.not_null_name))
    \o FlattenSeq(EachOf(s.columns, LAMBDA c : IF IsSome(c.default) THEN c.default[1].name ELSE <<>>))
    \o FlattenSeq(EachOf(s.uniques, LAMBDA u : u.name)) \o FlattenSeq(EachOf(s.fks, LAMBDA f : f.name))
    \o FlattenSeq(EachOf(s.checks, LAMBDA c : c.name))

index_ids(s) ==
    <<s.primary_key.index.id>> \o EachOf(s.uniques, LAMBDA u : u.index.id) \o EachOf(s.indexes, LAMBDA x : x.index.id)

(* compiler::validate_table_schema, over the decoded definition.           *)
schema_is_valid(owner, s) ==
    LET key == s.primary_key.index.columns
        not_null(id) == ColumnOf(s, id).not_null
    IN /\ s.columns # <<>> /\ Distinct(EachOf(s.columns, LAMBDA c : c.name))
       /\ \A i \in DOMAIN s.columns :
            /\ s.columns[i].not_null \/ (s.columns[i].not_null_name = <<>> /\ s.columns[i].not_null_conflict = "Abort")
            /\ type_declaration_is_valid(s.columns[i].type)
       /\ Distinct(constraint_names(s))
       /\ s.primary_key.index.kind = "Primary" /\ valid_index_columns(s, key)
       /\ s.mode = "Strict" =>
            /\ \A i \in DOMAIN s.columns : s.columns[i].type.name \in StrictTypes
            /\ \A i \in DOMAIN key : not_null(key[i])
       /\ s.storage = "WithoutRowid" => \A i \in DOMAIN key : not_null(key[i])
       /\ s.storage = "Rowid" => Len(key) = 1 /\ ColumnOf(s, key[1]).type = [name |-> IntegerType, arguments |-> <<>>]
       /\ \A i \in DOMAIN s.uniques :
            s.uniques[i].index.kind = "Unique" /\ valid_index_columns(s, s.uniques[i].index.columns)
       /\ \A i \in DOMAIN s.indexes : named_index_is_valid(s, s.indexes[i])
       /\ Distinct(index_ids(s))
       /\ Distinct(EachOf(SelectSeq(s.indexes, LAMBDA x : x.active), LAMBDA x : x.name))
       /\ \A i \in DOMAIN s.fks :
            /\ s.fks[i].table # owner /\ valid_index_columns(s, s.fks[i].columns)
            /\ Len(s.fks[i].columns) = Len(s.fks[i].parent_columns) /\ Distinct(s.fks[i].parent_columns)
       /\ Distinct(EachOf(s.fks, LAMBDA f : f.id))
       /\ \A i \in DOMAIN s.checks :
            /\ ToSet(s.checks[i].column) \subseteq ColumnIdsOf(s)
            /\ Binds(s, s.checks[i].expression)
            /\ s.checks[i].dependencies = Ascending(Bound(s, ExprReads[s.checks[i].expression]))

encode_create_table(t) ==
    LET s == t.schema
    IN Field(1, Uuid(t.table)) \o Field(2, Text(t.name)) \o Field(4, Uuid(t.revision))
       \o Field(7, Enum(TableModes, s.mode)) \o Field(9, Enum(TableStorages, s.storage))
       \o Field(8, encode_primary_key(s.primary_key)) \o FieldEach(3, s.columns, encode_column)
       \o FieldEach(6, s.uniques, encode_unique_constraint) \o FieldEach(10, s.indexes, encode_named_index)
       \o FieldEach(11, s.fks, encode_foreign_key_definition) \o FieldEach(12, s.checks, encode_check_constraint)
decode_create_table(fr) ==
    Then(Tagged(fr, {1, 2, 4, 7, 8, 9}, {}, {3, 6, 10, 11, 12},
                LAMBDA t, p : CASE t \in {1, 4} -> uuid_bytes(p)
                                [] t = 2 -> decode_name(p)
                                [] t = 3 -> decode_column(p)
                                [] t = 6 -> decode_unique_constraint(p)
                                [] t = 7 -> LeafEnum(p, TableModes)
                                [] t = 8 -> decode_primary_key(p)
                                [] t = 9 -> LeafEnum(p, TableStorages)
                                [] t = 10 -> decode_named_index(p)
                                [] t = 11 -> decode_foreign_key_definition(p)
                                [] t = 12 -> decode_check_constraint(p)),
         LAMBDA r : LET s == [mode |-> r[7], storage |-> r[9], primary_key |-> r[8], columns |-> r[3],
                              uniques |-> r[6], indexes |-> r[10], fks |-> r[11], checks |-> r[12]]
                    IN Check(schema_is_valid(r[1], s),
                             [table |-> r[1], name |-> r[2], revision |-> r[4], schema |-> s]))

(* The revision hashes the definition with the revision zeroed.            *)
computed_schema_revision(t) == Hash(encode_create_table([t EXCEPT !.revision = 0]))

(* compiler::validate_create_table.                                        *)
created_is_valid(c) ==
    LET s == c.create.schema
    IN /\ Distinct(<<c.mutation, c.create.table, c.create.revision>> \o index_ids(s)
                   \o EachOf(s.columns, LAMBDA x : x.id) \o EachOf(s.fks, LAMBDA f : f.id))
       /\ c.create.revision = computed_schema_revision(c.create)

(* CreateTable::encode and decode_frame.                                   *)
CreateTable_encode(c) ==
    U8(8) \o Field(1, Uuid(c.mutation)) \o Field(2, Text(c.sql)) \o Field(10, encode_create_table(c.create))
decode_frame(fr) ==
    IF ~Versioned(fr, 8) THEN None
    ELSE Then(Tagged(Tail(fr), {1, 2, 10}, {}, {}, LAMBDA t, p : CASE t = 1 -> uuid_bytes(p)
                                                                   [] t = 2 -> Leaf(p, "text")
                                                                   [] t = 10 -> decode_create_table(p)),
              LAMBDA r : LET c == [mutation |-> r[1], sql |-> r[2], create |-> r[10]]
                         IN Check(created_is_valid(c), c))

(* parse_create_table, and what the SQL has to say about the definition:   *)
(* everything at creation, only the name once the definition has evolved.  *)
parse_create_table(sql) ==
    IF sql \in DOMAIN Statement /\ Statement[sql].kind = "CreateTable" THEN Some(Statement[sql]) ELSE None
NamesOf(s, ids) == EachOf(ids, LAMBDA id : column_name(s, id))
SameAs(F(_, _), parsed, encoded) ==
    Len(parsed) = Len(encoded) /\ \A i \in DOMAIN parsed : F(parsed[i], encoded[i])
ColumnAgrees(s, p, c) ==
    /\ <<p.name, p.type, p.not_null, p.not_null_name, p.not_null_conflict, p.default>>
         = <<c.name, c.type, c.not_null, c.not_null_name, c.not_null_conflict, c.default>>
    /\ p.primary_key = SelectSeq([i \in DOMAIN s.primary_key.index.columns |-> i],
                                 LAMBDA i : s.primary_key.index.columns[i] = c.id)
validate_initial_provenance_sql(c) ==
    LET s == c.create.schema
    IN Then(parse_create_table(c.sql), LAMBDA p : Check(
        /\ <<p.name, p.mode, p.storage, p.pk_name, p.pk_conflict>>
             = <<c.create.name, s.mode, s.storage, s.primary_key.name, s.primary_key.conflict>>
        /\ s.indexes = <<>>
        /\ SameAs(LAMBDA x, y : ColumnAgrees(s, x, y), p.columns, s.columns)
        /\ SameAs(LAMBDA x, u : <<x.name, x.columns, x.conflict, TRUE>>
                                  = <<u.name, NamesOf(s, u.index.columns), u.conflict, u.active>>, p.uniques, s.uniques)
        /\ SameAs(LAMBDA x, f : /\ <<x.name, x.columns, x.on_delete, x.on_update, x.table, TRUE>>
                                     = <<f.name, NamesOf(s, f.columns), f.on_delete, f.on_update, f.table_name, f.active>>
                                /\ x.parents # <<>> => x.parents[1] = f.parent_names, p.fks, s.fks)
        /\ SameAs(LAMBDA x, k : <<x.column, x.name, x.expression, TRUE>>
                                  = <<NamesOf(s, k.column), k.name, k.expression, k.active>>, p.checks, s.checks), c))
validate_catalog_provenance_sql(c) ==
    Then(parse_create_table(c.sql), LAMBDA p : Check(p.name = c.create.name, c))

CreateTable_decode(fr) == Then(decode_frame(fr), validate_catalog_provenance_sql)
CreateTable_decode_operation(fr) == Then(decode_frame(fr), validate_initial_provenance_sql)
=============================================================================
