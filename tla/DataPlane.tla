----------------------------- MODULE DataPlane ------------------------------
(***************************************************************************)
(* The materialised state of one space and the admission fold that updates *)
(* it (server/src/space/data.rs).  Everything is an operator over a store  *)
(*    st = [data, ranges, aggs]                                            *)
(* with the current point records, the exact range tombstones, and the     *)
(* per-prefix aggregates; Space.tla turns them into actions.               *)
(*                                                                         *)
(* As in the code, one request is folded in a scratch copy: point records, *)
(* tombstones and aggregates are read from the scratch, while tombstone    *)
(* floors and histories are read from the untouched store and corrected by *)
(* the list of events already staged.                                      *)
(***************************************************************************)
EXTENDS KeyRanges, HistoricalHeads, SequencesExt, Integers

CONSTANTS Key,   \* user keys: non-empty sequences of components
          None   \* an absent record

ASSUME KeyAssumption == Full \notin Key

\* Prefixes that have an aggregate or may be a range: Full and every ancestor.
Node == UNION {Prefixes(k) : k \in Key}

\* Admission orders are pairs (admission_seq, op_index); 0.0 precedes them all.
ZeroOrder == <<0, 0>>

After(a, b) == a[1] > b[1] \/ (a[1] = b[1] /\ a[2] > b[2])

Newest(orders) == CHOOSE o \in orders : \A p \in orders : ~After(p, o)

is_set(e) == e.op = "Set"

is_range(e) == e.op = "DeleteRange"

\* Does a mutation bear on a query range?  Point writes below it; range deletes
\* that overlap it either way.
mutation_relevant(query, e) ==
  IF is_range(e) THEN overlaps(query, e.target) ELSE covers_key(query, e.target)

EmptyMeta == [history |-> EmptyHeads, max_ver |-> 0, live_count |-> 0, count_epoch |-> ZeroOrder]

EmptyStore ==
  [data   |-> [k \in Key |-> None],
   ranges |-> [r \in Node |-> None],
   aggs   |-> [n \in Node |-> EmptyMeta]]

\* covering_range_delete_keys / aggregate_path: Full, then each depth down to
\* the target itself.
CoveringPath(target) == [i \in 1..(Len(target) + 1) |-> SubSeq(target, 1, i - 1)]

CoveringDeletes(st, target) == {r \in Prefixes(target) : st.ranges[r] # None}

\* covering_range_delete: the newest stored tombstone over target.
covering_range_delete(st, target) ==
  Newest({ZeroOrder} \cup {st.ranges[r].entry.order : r \in CoveringDeletes(st, target)})

\* newest_covering_reset: the same, with the events staged so far.
newest_covering_reset(st, events, target) ==
  Newest({covering_range_delete(st, target)} \cup
         {events[i].order : i \in {j \in DOMAIN events : is_range(events[j])
                                                       /\ covers_range(events[j].target, target)}})

\* point_record_visible_with_events (point_record_visible when nothing is staged).
Visible(st, events, record) ==
  /\ record # None
  /\ is_set(record)
  /\ After(record.order, newest_covering_reset(st, events, record.target))

\* Mutant: deletes of an ancestor are no part of a prefix's history.
effective_history_own_aggregate(st, target) ==
  [history |-> st.aggs[target].history, max_ver |-> st.aggs[target].max_ver]

\* effective_history: the aggregate below target plus the exact histories of
\* the tombstones that cover it.
effective_history(st, target) ==
  LET add(acc, r) ==
        IF st.ranges[r] = None THEN acc
        ELSE [history |-> merge(acc.history, st.ranges[r].history),
              max_ver |-> MaxOf(acc.max_ver, st.ranges[r].max_ver)]
  IN  FoldLeft(add, [history |-> st.aggs[target].history, max_ver |-> st.aggs[target].max_ver],
               CoveringPath(target))

\* effective_live_count: a stale descendant aggregate counts as empty.
effective_live_count(st, target) ==
  IF After(covering_range_delete(st, target), st.aggs[target].count_epoch)
  THEN 0 ELSE st.aggs[target].live_count
-----------------------------------------------------------------------------
\* Mutant: tombstones do not raise the version floor of the keys below them.
PointFloor_ignores_tombstones(st, acc, key) ==
  Max({0} \cup {acc.data[k].ver : k \in {key} \ {j \in Key : acc.data[j] = None}})

\* The version a point write must exceed (0: none): the key's own record and
\* every stored or staged tombstone over the key.
PointFloor(st, acc, key) ==
  Max({0} \cup {acc.data[k].ver : k \in {key} \ {j \in Key : acc.data[j] = None}}
          \cup {st.ranges[r].max_ver : r \in CoveringDeletes(st, key)}
          \cup {acc.events[i].ver : i \in {j \in DOMAIN acc.events :
                   is_range(acc.events[j]) /\ covers_key(acc.events[j].target, key)}})

\* The version a DeleteRange must exceed: anything relevant, stored or staged.
RangeFloor(st, acc, range) ==
  Max({effective_history(st, range).max_ver}
      \cup {acc.events[i].ver : i \in {j \in DOMAIN acc.events :
               mutation_relevant(range, acc.events[j])}})

\* Mutant: a stale descendant aggregate is used as it stands.
materialize_aggregate_stale(st, acc, node) == acc.aggs[node]

\* materialize_aggregate: apply the reset an ancestor tombstone left pending.
materialize_aggregate(st, acc, node) ==
  LET reset == newest_covering_reset(st, acc.events, node)
      meta  == acc.aggs[node]
  IN  IF After(reset, meta.count_epoch)
      THEN [meta EXCEPT !.live_count = 0, !.count_epoch = reset] ELSE meta

observe_history(meta, e) ==
  [meta EXCEPT !.history = observe(@, e.device, e.order[1]), !.max_ver = MaxOf(@, e.ver)]

\* apply_point_count: every aggregate from Full down to the key moves by delta.
apply_point_count(st, acc, e, delta) ==
  [n \in Node |->
    IF ~covers_range(n, e.target) THEN acc.aggs[n]
    ELSE [observe_history(materialize_aggregate(st, acc, n), e) EXCEPT
            !.live_count = @ + delta, !.count_epoch = Newest({@, e.order})]]

\* apply_range_count: the target becomes empty, its ancestors lose what it held.
apply_range_count(st, acc, e) ==
  LET removed == materialize_aggregate(st, acc, e.target).live_count IN
  [n \in Node |->
    IF ~covers_range(n, e.target) THEN acc.aggs[n]
    ELSE [observe_history(materialize_aggregate(st, acc, n), e) EXCEPT
            !.live_count = IF n = e.target THEN 0 ELSE @ - removed,
            !.count_epoch = IF n = e.target THEN e.order ELSE Newest({@, e.order})]]

\* Mutant: a repeated delete of a range keeps its first position.
Tombstone_keeps_entry(old, e) ==
  IF old = None
  THEN [entry |-> e, history |-> observe(EmptyHeads, e.device, e.order[1]), max_ver |-> e.ver]
  ELSE [old EXCEPT !.history = observe(@, e.device, e.order[1]), !.max_ver = MaxOf(@, e.ver)]

\* RangeDeleteRecord::new and ::observe.
Tombstone(old, e) ==
  IF old = None
  THEN [entry |-> e, history |-> observe(EmptyHeads, e.device, e.order[1]), max_ver |-> e.ver]
  ELSE [entry |-> IF After(e.order, old.entry.order) THEN e ELSE old.entry,
        history |-> observe(old.history, e.device, e.order[1]),
        max_ver |-> MaxOf(old.max_ver, e.ver)]

\* One entry of an admission: acc is the scratch, ok turns FALSE at the first
\* version regression and the whole request is then dropped.
ApplyEntry(st, acc, e) ==
  LET floor == IF is_range(e) THEN RangeFloor(st, acc, e.target)
               ELSE PointFloor(st, acc, e.target)
      lived == IF ~is_range(e) /\ Visible(st, acc.events, acc.data[e.target]) THEN 1 ELSE 0
      lives == IF is_set(e) THEN 1 ELSE 0
  IN  IF ~acc.ok \/ e.ver <= floor THEN [acc EXCEPT !.ok = FALSE]
      ELSE IF is_range(e)
      THEN [acc EXCEPT !.aggs = apply_range_count(st, acc, e),
                       !.ranges[e.target] = Tombstone(@, e),
                       !.events = Append(@, e)]
      ELSE [acc EXCEPT !.aggs = apply_point_count(st, acc, e, lives - lived),
                       !.data[e.target] = e,
                       !.events = Append(@, e)]

\* The admitted form of one batch's entries.
AdmittedEntries(device, batch, admission_seq) ==
  [j \in DOMAIN batch.entries |->
    [device |-> device, op |-> batch.entries[j].op, target |-> batch.entries[j].target,
     ver |-> batch.entries[j].ver, order |-> <<admission_seq, j - 1>>]]

\* The admitted entries of a whole request, in admission order.
Admitted(device, batches, high_water) ==
  FlattenSeq([i \in DOMAIN batches |-> AdmittedEntries(device, batches[i], high_water + i)])

ApplyEntries(st, entries) ==
  FoldLeft(LAMBDA acc, e : ApplyEntry(st, acc, e),
           [data |-> st.data, ranges |-> st.ranges, aggs |-> st.aggs,
            events |-> <<>>, ok |-> TRUE], entries)

\* Mutant: the submitter's own writes count against it, and hide the others'.
range_asserts_hold_first_head(st, device, batch) ==
  \A a \in batch.asserts :
    LET h == effective_history(st, a.prefix).history
    IN  h.first.device = device \/ max_admission_seq(h) <= a.upto

\* range_assert_failures: no other device admitted anything relevant to the
\* prefix above the position the submitter had read up to.
range_asserts_hold(st, device, batch) ==
  \A a \in batch.asserts :
    max_excluding(effective_history(st, a.prefix).history, device) <= a.upto
-----------------------------------------------------------------------------
\* Reads.  get and snapshot hide tombstones and tombstoned records.
VisibleKeys(st, range) ==
  {k \in Key : covers_key(range, k) /\ Visible(st, <<>>, st.data[k])}

snapshot(st, range) ==
  IF effective_live_count(st, range) = 0 THEN {}
  ELSE {st.data[k] : k \in VisibleKeys(st, range)}

\* delta: the relevant admitted operations above a cursor, in admission order;
\* the aggregates may answer "nothing" without reading the log.
delta(st, log, range, since) ==
  IF max_admission_seq(effective_history(st, range).history) <= since THEN <<>>
  ELSE SelectSeq(FlattenSeq([i \in 1..(Len(log) - since) |-> log[since + i].entries]),
                 LAMBDA e : mutation_relevant(range, e))
=============================================================================
