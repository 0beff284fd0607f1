------------------------------- MODULE Space --------------------------------
(***************************************************************************)
(* One space of the server: the lease verbs of LeaseManager and admission  *)
(* (admit) over the data plane, serialised by the space actor.             *)
(*                                                                         *)
(* A rejected request leaves the store as it was (its write batch is       *)
(* dropped before the single atomic apply), so rejections are the guards   *)
(* of Admit and not steps of their own.                                    *)
(***************************************************************************)
EXTENDS LeaseManager, DataPlane

CONSTANTS Batch,       \* batch bodies [entries, asserts] a device may submit
          MaxRequest,  \* bound: batches coalesced into one request
          MaxLog,      \* bound: admitted batches
          MaxDeviceSeq \* bound: device sequence numbers

ASSUME SpaceAssumption == MaxRequest \in Nat /\ MaxLog \in Nat /\ MaxDeviceSeq \in Nat

VARIABLES log,      \* admitted batches in admission order: headers + operations
          devices,  \* DeviceRecord per device: last_seq and cumulative checksum
          store     \* the materialised state, DataPlane's st

dataVars == <<log, devices, store>>

vars == <<now, leaseVars, admission_high_water, dataVars>>

\* DeviceChecksum::EMPTY and AdmissionBatch::checksum: a collision-free hash of
\* the previous checksum and the exact batches is the sequence of the batches.
EmptyChecksum == <<>>

ChainOver(previous, first, batches) ==
  previous \o [i \in DOMAIN batches |->
                [device_seq |-> first + i - 1, batch |-> batches[i]]]

\* validate_writes: no live lease of another device over a written key, and
\* none overlapping a deleted range in either direction (all_live for Full).
validate_writes(device, batches) ==
  \A i \in DOMAIN batches : \A j \in DOMAIN batches[i].entries :
    LET e == batches[i].entries[j]
        reserved == IF is_range(e) THEN LiveOverlapping(e.target) ELSE covering(e.target)
    IN  \A rec \in reserved : rec.device = device

\* admit_impl step 1: device sequences only move forward; gaps are allowed at
\* the front of a request, its later batches are consecutive.
SeqFollows(device, first) == first > devices[device].last_seq

\* Every batch of a request takes its own admission sequence.
HighWaterAfter(n) == admission_high_water + n

\* admit: one atomic write of the log, the materialised state, the device record
\* and the counter.
Admit(device, expected, first, batches) ==
  LET entries == Admitted(device, batches, admission_high_water)
      applied == ApplyEntries(store, entries)
      n       == Len(batches)
  IN  /\ expected = devices[device].checksum
      /\ SeqFollows(device, first)
      /\ validate_writes(device, batches)
      /\ \A i \in DOMAIN batches : range_asserts_hold(store, device, batches[i])
      /\ applied.ok
      /\ log' = log \o [i \in DOMAIN batches |->
                  [device |-> device, device_seq |-> first + i - 1,
                   asserts |-> batches[i].asserts,
                   entries |-> AdmittedEntries(device, batches[i], admission_high_water + i)]]
      /\ store' = [data |-> applied.data, ranges |-> applied.ranges, aggs |-> applied.aggs]
      /\ devices' = [devices EXCEPT ![device] =
                      [last_seq |-> first + n - 1, checksum |-> ChainOver(@.checksum, first, batches)]]
      /\ admission_high_water' = HighWaterAfter(n)
      /\ UNCHANGED <<now, leaseVars>>

Init ==
  /\ LeaseInit
  /\ log = <<>>
  /\ devices = [d \in Device |-> [last_seq |-> 0, checksum |-> EmptyChecksum]]
  /\ store = EmptyStore

AdmitSome ==
  \E d \in Device, n \in 1..MaxRequest :
    /\ Len(log) + n <= MaxLog
    /\ \E batches \in [1..n -> Batch], first \in 1..(MaxDeviceSeq - n + 1) :
         \E expected \in Prefixes(devices[d].checksum) : Admit(d, expected, first, batches)

Next ==
  \/ LeaseNext /\ UNCHANGED dataVars
  \/ AdmitSome

Spec == Init /\ [][Next]_vars
-----------------------------------------------------------------------------
LeaseRecord ==
  [id : Nat, prefix : LeasePrefix, mode : Mode, device : Device, requested_at : Stamp,
   granted_at : Nat, barrier : Nat, deadline : Nat, ttl : Ttl]

TypeOK ==
  /\ now \in Nat /\ next_lease_id \in Nat /\ admission_high_water \in Nat
  /\ leases \subseteq LeaseRecord
  /\ demand \subseteq Nat
  /\ DOMAIN devices = Device
  /\ admission_high_water = Len(log)

\* The atomic write of acquire's grant: overlapping leases that do not tolerate
\* each other are never stored together, even expired ones waiting to be purged,
\* and no id is ever shared or reused.
LeaseExclusion ==
  \A a, b \in leases :
    /\ a.id < next_lease_id
    /\ a # b => /\ a.id # b.id
                /\ overlaps(a.prefix, b.prefix) => compatible_with(a.mode, b.mode)

\* What a lease promises its holder (lease.rs grants the barrier, data.rs calls
\* validate_writes): while it is live, nobody else has changed anything below
\* its prefix since the barrier, so a holder that has read up to the barrier
\* has read everything.
ReservedSinceBarrier ==
  \A rec \in leases : is_live(rec) =>
    /\ rec.barrier <= Len(log)
    /\ \A s \in (rec.barrier + 1)..Len(log) :
         log[s].device # rec.device =>
           \A i \in DOMAIN log[s].entries : ~mutation_relevant(rec.prefix, log[s].entries[i])
-----------------------------------------------------------------------------
\* What a read of the whole space returns.
VisibleRecords == {store.data[k] : k \in VisibleKeys(store, Full)}

Map == INSTANCE ReplicatedMap WITH admitted <- log, live <- VisibleRecords

\* All admitted operations in admission order.
Events == FlattenSeq([s \in DOMAIN log |-> log[s].entries])

\* A space implements a replicated map: every admission, of however many batches
\* and mutations, is one atomic extension of the log applied to what readers
\* see, and no lease verb, clock tick or restart changes it.
ImplementsMap == Map!MapSpec

\* The records, tombstones and counts agree with a replay of the log: what get
\* and snapshot show below every prefix is what the admitted operations leave
\* there, and every (possibly stale) live_count is the true count, so that
\* neither checked_add_signed nor checked_sub can underflow (data.rs:492, 529).
MaterializedIsReplay ==
  LET live == Map!ReplayBatches({}, log) IN
  \A n \in Node :
    LET below == {r \in live : covers_key(n, r.target)} IN
    /\ {store.data[k] : k \in VisibleKeys(store, n)} = below
    /\ snapshot(store, n) = below
    /\ effective_live_count(store, n) = Cardinality(below)

RelevantSeqs(n, devs) ==
  {s \in DOMAIN log : /\ log[s].device \in devs
                      /\ \E i \in DOMAIN log[s].entries :
                           mutation_relevant(n, log[s].entries[i])}

\* effective_history is exact although it is kept lazily, at the written path
\* only, in two heads: it equals the history the log spells out, ancestor
\* deletes included.
HistoryIsExact ==
  \A n \in Node :
    LET h == effective_history(store, n) IN
    /\ max_admission_seq(h.history) = Max({0} \cup RelevantSeqs(n, Device))
    /\ \A d \in Device :
         max_excluding(h.history, d) = Max({0} \cup RelevantSeqs(n, Device \ {d}))

\* An admitted batch saw everything it claimed to have seen: no other device's
\* relevant batch lies between an assert's `upto' and the batch itself, in the
\* admission order everyone replays (range_assert_failures).
AssertsHoldInLog ==
  \A s \in DOMAIN log : \A a \in log[s].asserts :
    \A t \in RelevantSeqs(a.prefix, Device \ {log[s].device}) : t <= a.upto \/ t > s

\* Versions grow along the log wherever two operations touch the same key: a
\* late write below an older version's tombstone is refused, so admission order
\* and version order never disagree (admission rule 4).
VersionsFollowAdmission ==
  LET ev == Events IN
  \A i, j \in DOMAIN ev :
    i < j /\ (IF is_range(ev[j]) THEN mutation_relevant(ev[j].target, ev[i])
              ELSE covers_key(ev[i].target, ev[j].target)
                   /\ (is_range(ev[i]) \/ ev[i].target = ev[j].target))
    => ev[i].ver < ev[j].ver

\* read_at: a reader that took a snapshot at any cut and applies the delta to it
\* holds the snapshot of now, for every range; the aggregate short-circuit of
\* delta never hides a relevant operation.
DeltaCatchesUp ==
  \A since \in 0..Len(log) :
    LET cut == Map!ReplayBatches({}, SubSeq(log, 1, since)) IN
    \A n \in Node :
      {r \in Map!ReplayFrom({r \in cut : covers_key(n, r.target)}, delta(store, log, n, since))
         : covers_key(n, r.target)} = snapshot(store, n)

\* Each device's admitted batches carry strictly increasing device sequences and
\* hash to the stored checksum: nothing is admitted twice or out of order.
DeviceHistoryIsChain ==
  \A d \in Device :
    LET mine == SelectSeq(log, LAMBDA b : b.device = d) IN
    /\ Len(devices[d].checksum) = Len(mine)
    /\ \A i \in DOMAIN mine :
         /\ mine[i].device_seq <= devices[d].last_seq
         /\ devices[d].checksum[i].device_seq = mine[i].device_seq
         /\ i > 1 => mine[i - 1].device_seq < mine[i].device_seq

\* What a reader is given is the replay of the log, whichever way it reads: by
\* key, by snapshot, by count, or by applying a delta to an older snapshot.
ReadsAreReplay == MaterializedIsReplay /\ DeltaCatchesUp

\* The order of the log agrees with every other order in it: that of the versions
\* on one key, and that in which each device made its batches.
LogIsOrdered == VersionsFollowAdmission /\ DeviceHistoryIsChain
=============================================================================
