--------------------------- MODULE OrderedStores ----------------------------
(***************************************************************************)
(* The ordered byte maps both sides keep their state in                    *)
(* (core/src/storage.rs), with their three backends: a map in memory, a    *)
(* table of multilite's SQLite file (multilite/src/metastore.rs) inside    *)
(* whatever savepoints are open on the connection                          *)
(* (multilite/src/connection.rs), and SlateDB                              *)
(* (server/src/storage/slate.rs), whose writes return before they are      *)
(* durable.                                                                *)
(***************************************************************************)
EXTENDS Naturals, SequencesExt

CONSTANTS
  StoreKeys,      \* keys, in their order: a set of numbers
  StoreValues,    \* values
  NoValue,        \* the value of a key that is not there
  MaxPuts,        \* MAX_PUTS_PER_STATEMENT
  MaxBinds,       \* MAX_BIND_PARAMETERS
  StoreBatches,   \* write batches: sequences of operations
  MaxKept,        \* bound: batches in force at a time
  MaxFrames       \* bound: nested savepoints

VARIABLES
  backend,   \* "memory", "sqlite" or "slate"
  stored,    \* what a read sees: StoreKeys -> StoreValues or NoValue
  durable,   \* what the SQLite file holds outside its open transaction
  frames,    \* open savepoints: what each goes back to
  kept,      \* the batches acknowledged and in force, oldest first
  safe,      \* how many of them a crash may not lose
  scan       \* one scan: its range, the states it may show, its entries, what it gave

storeVars == <<backend, stored, durable, frames, kept, safe, scan>>

NothingStored == [k \in StoreKeys |-> NoValue]
Put(k, v) == [op |-> "put", key |-> k, value |-> v]
Delete(k) == [op |-> "delete", key |-> k, value |-> NoValue]

\* MemoryStore::apply: the operations in their order.
apply(ops, image) == FoldLeft(LAMBDA m, o : [m EXCEPT ![o.key] = o.value], image, ops)

-----------------------------------------------------------------------------
(* apply_ops: runs of puts and of deletes, each run one statement.         *)

\* How many operations of a kind the rest of a batch starts with, up to a limit.
RunLength(ops, kind, limit) ==
  CHOOSE n \in 0..Len(ops) :
    /\ n <= limit /\ \A i \in 1..n : ops[i].op = kind
    /\ n = limit \/ n = Len(ops) \/ ops[n + 1].op # kind

\* INSERT ... ON CONFLICT DO UPDATE, row by row; DELETE ... WHERE key IN (...).
apply_puts(puts, image) == apply(puts, image)

apply_deletes(keys, image) == [k \in StoreKeys |-> IF k \in keys THEN NoValue ELSE image[k]]

RECURSIVE apply_ops_from(_, _)
apply_ops_from(ops, image) ==
  IF ops = <<>> THEN image
  ELSE LET kind == ops[1].op
           n == RunLength(ops, kind, IF kind = "put" THEN MaxPuts ELSE MaxBinds)
           run == SubSeq(ops, 1, n)
           rest == SubSeq(ops, n + 1, Len(ops))
       IN apply_ops_from(rest, IF kind = "put" THEN apply_puts(run, image)
                                 ELSE apply_deletes({run[i].key : i \in DOMAIN run}, image))

apply_ops(ops, image) == apply_ops_from(ops, image)

\* to_slate_batch: of several operations on one key in a batch the last one counts.
to_slate_batch(ops, image) ==
  [k \in StoreKeys |->
     LET on == {i \in DOMAIN ops : ops[i].key = k}
     IN IF on = {} THEN image[k]
          ELSE ops[CHOOSE i \in on : \A j \in on : j <= i].value]

-----------------------------------------------------------------------------
(* Scans.                                                                  *)

\* The entries of a range [start, end) of an image, in key order.
Entries(image, range) ==
  LET keys == SetToSortSeq({k \in StoreKeys : range[1] <= k /\ k < range[2] /\ image[k] # NoValue}, <)
  IN [i \in DOMAIN keys |-> <<keys[i], image[keys[i]]>>]

NoScan == [range |-> <<0, 0>>, cuts |-> {}, ready |-> FALSE, entries |-> <<>>, given |-> <<>>]

\* A scan that has not been read yet may still show a later state, in SlateDB.
Seen(image) ==
  IF scan.cuts # {} /\ ~scan.ready THEN [scan EXCEPT !.cuts = @ \cup {image}] ELSE scan

-----------------------------------------------------------------------------
StoreInit ==
  /\ backend \in {"memory", "sqlite", "slate"}
  /\ stored = NothingStored /\ durable = NothingStored /\ frames = <<>> /\ kept = <<>> /\ safe = 0 /\ scan = NoScan

\* What is in the file once the savepoints left are `left`.
Settle(image, batches, left) ==
  /\ stored' = image /\ kept' = batches
  /\ IF backend = "sqlite" /\ left = <<>>
       THEN durable' = image /\ safe' = Len(batches)
       ELSE UNCHANGED <<durable, safe>>

\* OrderedStore::apply.  In SQLite the batch runs in a savepoint of its own.
Apply ==
  /\ Len(kept) < MaxKept
  /\ \E ops \in StoreBatches :
       LET image == CASE backend = "memory" -> apply(ops, stored)
                      [] backend = "sqlite" -> apply_ops(ops, stored)
                      [] backend = "slate" -> to_slate_batch(ops, stored)
       IN Settle(image, Append(kept, ops), frames) /\ scan' = Seen(image)
  /\ UNCHANGED <<backend, frames>>

\* A statement of a batch fails: its savepoint is rolled back, some of the
\* batch having been applied.
ApplyFails ==
  /\ backend = "sqlite"
  /\ \E ops \in StoreBatches : \E n \in 1..Len(ops) - 1 :
       LET begun == stored
           partly == apply_ops(SubSeq(ops, 1, n), stored)
       IN partly # begun /\ Settle(begun, kept, frames)
  /\ UNCHANGED <<backend, frames, scan>>

\* ConnectionSavepoint::begin, around any number of applies.
BeginSavepoint ==
  /\ backend = "sqlite" /\ Len(frames) < MaxFrames
  /\ frames' = Append(frames, [image |-> stored, kept |-> Len(kept)])
  /\ UNCHANGED <<backend, stored, durable, kept, safe, scan>>

\* ConnectionSavepoint::release: the outermost one commits.
ReleaseSavepoint ==
  /\ frames # <<>>
  /\ frames' = Front(frames) /\ Settle(stored, kept, Front(frames))
  /\ UNCHANGED <<backend, scan>>

\* ConnectionSavepoint::rollback, also by dropping it in a panic.
rollback(frame) == frame.image

RollbackSavepoint ==
  /\ frames # <<>>
  /\ frames' = Front(frames)
  /\ Settle(rollback(Last(frames)), SubSeq(kept, 1, Last(frames).kept), Front(frames))
  /\ UNCHANGED <<backend, scan>>

\* SlateStore::flush.
Flush ==
  /\ backend = "slate" /\ safe < Len(kept)
  /\ safe' = Len(kept)
  /\ UNCHANGED <<backend, stored, durable, frames, kept, scan>>

\* The process stops and opens its store again.  SlateDB may have persisted more
\* than was flushed, but never a later batch without an earlier one.
StoreCrash ==
  /\ kept # <<>> \/ frames # <<>>
  /\ CASE backend = "memory" -> kept' = <<>> /\ stored' = NothingStored
       [] backend = "sqlite" -> kept' = SubSeq(kept, 1, safe) /\ stored' = durable
       [] backend = "slate" ->
            \E n \in safe..Len(kept) :
              /\ kept' = SubSeq(kept, 1, n)
              /\ stored' = FoldLeft(LAMBDA m, ops : apply(ops, m), NothingStored, SubSeq(kept, 1, n))
  /\ frames' = <<>> /\ scan' = NoScan /\ UNCHANGED <<backend, durable, safe>>

\* OrderedStore::scan.  SlateScan collects its entries on the first step.
OpenScan ==
  /\ scan.cuts = {}
  /\ \E range \in {r \in StoreKeys \X StoreKeys : r[1] < r[2]} :
       scan' = [range |-> range, cuts |-> {stored}, ready |-> backend # "slate",
                entries |-> IF backend = "slate" THEN <<>> ELSE Entries(stored, range), given |-> <<>>]
  /\ UNCHANGED <<backend, stored, durable, frames, kept, safe>>

collect_range_live(now) == SubSeq(scan.given, 1, Len(scan.given))
                             \o SelectSeq(Entries(now, scan.range),
                                          LAMBDA e : \A g \in ToSet(scan.given) : g[1] < e[1])

\* SlateScan's first step collects the range; later ones only read it.
collect_range(now) == IF scan.ready THEN scan.entries ELSE Entries(now, scan.range)

\* ScanIter::next.
NextEntry ==
  /\ scan.cuts # {}
  /\ LET entries == collect_range(stored)
         n == Len(scan.given)
     IN scan' = IF n < Len(entries)
                  THEN [scan EXCEPT !.ready = TRUE, !.entries = entries,
                                    !.given = Append(@, entries[n + 1])]
                  ELSE NoScan
  /\ UNCHANGED <<backend, stored, durable, frames, kept, safe>>

StoreNext ==
  Apply \/ ApplyFails \/ BeginSavepoint \/ ReleaseSavepoint \/ RollbackSavepoint \/ Flush \/ StoreCrash \/ OpenScan \/ NextEntry

StoreSpec == StoreInit /\ [][StoreNext]_storeVars

-----------------------------------------------------------------------------
StoreReplay(batches) == FoldLeft(LAMBDA m, ops : apply(ops, m), NothingStored, batches)

\* Every backend holds what its acknowledged batches say in their order, through
\* failed statements, savepoints rolled back and crashes; what a crash would
\* leave of the SQLite file is a prefix of them (metastore.rs apply_ops,
\* connection.rs ConnectionSavepoint, slate.rs to_slate_batch).
StoredIsReplay ==
  /\ stored = StoreReplay(kept)
  /\ backend = "sqlite" => durable = StoreReplay(SubSeq(kept, 1, safe))

\* What a scan has given so far is the start of its range as the store was at
\* one moment, not before the scan was created (storage.rs OrderedStore::scan).
ScanIsOneCut ==
  scan.cuts # {} => \E cut \in scan.cuts : IsPrefix(scan.given, Entries(cut, scan.range))

\* The contract of OrderedStore: batches are atomic and ordered, scans show the
\* store as it was at one moment.
StoreContract == StoredIsReplay /\ ScanIsOneCut
=============================================================================
