---------------------------- MODULE LeaseManager ----------------------------
(***************************************************************************)
(* The lease verbs of one space (server/src/space/lease.rs).  A verb runs  *)
(* to completion before the next (server/src/actor.rs), so each is one     *)
(* action; its reads of the clock all see the same `now'.                  *)
(*                                                                         *)
(* The two lease indexes (by id, by prefix) are always written together in *)
(* one atomic batch and are one set of records here.                       *)
(***************************************************************************)
EXTENDS HistoricalHeads, KeyRanges, Naturals

CONSTANTS LeasePrefix, \* prefixes devices ask leases for
          Ttl,         \* lease durations, in clock ticks
          Stamp,       \* client stamps echoed back by list_leases
          MaxNow,      \* bound: the last clock reading
          MaxLeaseId   \* bound: how many leases are granted

ASSUME LeaseAssumption ==
  /\ Full \notin LeasePrefix
  /\ Ttl \subseteq Nat
  /\ MaxNow \in Nat /\ MaxLeaseId \in Nat

Mode == {"Read", "Write"}

LeaseSpec == [prefix : LeasePrefix, mode : Mode, ttl : Ttl]

VARIABLES now,                  \* the server clock at the next dequeue
          leases,               \* the stored lease records, live or expired
          next_lease_id,        \* CountersRecord.next_lease_id
          demand,               \* contended lease ids; in memory only
          admission_high_water  \* CountersRecord.admission_high_water

leaseVars == <<leases, next_lease_id, demand>>

\* LeaseMode::compatible_with
compatible_with(a, b) == a = "Read" /\ b = "Read"

\* LeaseRecord::is_live: gone at the deadline itself.
is_live(rec) == now < rec.deadline

\* LeaseManager::overlapping, live half: ancestor, exact or descendant prefixes.
LiveOverlapping(prefix) == {rec \in leases : is_live(rec) /\ overlaps(rec.prefix, prefix)}

\* The expired half, which acquire purges as it scans.
DeadOverlapping(prefix) == {rec \in leases : ~is_live(rec) /\ overlaps(rec.prefix, prefix)}

\* LeaseManager::covering: the live leases a point write falls under.
covering(key) == {rec \in leases : is_live(rec) /\ covers_key(rec.prefix, key)}

\* Mutant: a read request is let through next to a write lease.
Blockers_read_shares(spec) ==
  {rec \in LiveOverlapping(spec.prefix) : spec.mode = "Write" /\ rec.mode = "Write"}

\* Live leases that rule a requested spec out.  A device's own lease counts:
\* there is no re-entrance and no upgrade.
Blockers(spec) ==
  {rec \in LiveOverlapping(spec.prefix) : ~compatible_with(spec.mode, rec.mode)}

SelfOverlap(specs) ==
  \E i, j \in DOMAIN specs :
    /\ i < j
    /\ overlaps(specs[i].prefix, specs[j].prefix)
    /\ ~compatible_with(specs[i].mode, specs[j].mode)

Ids(recs) == {rec.id : rec \in recs}

\* acquire, conflict path: specs are scanned in order up to the first blocked
\* one; the expired records met on the way are purged although nothing is
\* granted, and every blocker is marked contended.
AcquireContended(specs) ==
  \E i \in DOMAIN specs :
    /\ Blockers(specs[i]) # {}
    /\ \A j \in 1..(i - 1) : Blockers(specs[j]) = {}
    /\ leases' = leases \ UNION {DeadOverlapping(specs[j].prefix) : j \in 1..i}
    /\ demand' = demand \cup Ids(Blockers(specs[i]))
    /\ UNCHANGED next_lease_id

\* acquire, a batch that conflicts with itself: only the purge is applied.
AcquireSelfOverlap(specs) ==
  /\ \A i \in DOMAIN specs : Blockers(specs[i]) = {}
  /\ SelfOverlap(specs)
  /\ leases' = leases \ UNION {DeadOverlapping(specs[i].prefix) : i \in DOMAIN specs}
  /\ UNCHANGED <<next_lease_id, demand>>

\* The record of the i-th spec granted.  The barrier is the space-wide high water.
FreshLease(device, spec, stamp, i) ==
  [id |-> next_lease_id + i - 1, prefix |-> spec.prefix, mode |-> spec.mode,
   device |-> device, requested_at |-> stamp, granted_at |-> now,
   barrier |-> admission_high_water, deadline |-> now + spec.ttl, ttl |-> spec.ttl]

Granted(device, specs, stamp) ==
  {FreshLease(device, specs[i], stamp, i) : i \in DOMAIN specs}

\* acquire, all-or-nothing grant in one atomic batch with the purge.
AcquireGrant(device, specs, stamp) ==
  /\ next_lease_id + Len(specs) <= MaxLeaseId
  /\ \A i \in DOMAIN specs : Blockers(specs[i]) = {}
  /\ ~SelfOverlap(specs)
  /\ leases' = (leases \ UNION {DeadOverlapping(specs[i].prefix) : i \in DOMAIN specs})
               \cup Granted(device, specs, stamp)
  /\ next_lease_id' = next_lease_id + Len(specs)
  /\ UNCHANGED demand

Acquire(device, specs, stamp) ==
  /\ \/ AcquireContended(specs)
     \/ AcquireSelfOverlap(specs)
     \/ AcquireGrant(device, specs, stamp)
  /\ UNCHANGED <<now, admission_high_water>>

\* The record a renewal stores: fresh deadline and stamps, same ttl and barrier.
Renewed(rec, stamp) ==
  [rec EXCEPT !.deadline = now + rec.ttl, !.granted_at = now, !.requested_at = stamp]

\* Mutant: renew revives an expired lease that nobody purged yet.
Renew_revives_expired(device, ids, stamp) ==
  LET granted == {rec \in leases : rec.id \in ids /\ rec.device = device}
  IN  /\ leases' = (leases \ granted) \cup {Renewed(rec, stamp) : rec \in granted}
      /\ UNCHANGED <<now, next_lease_id, demand, admission_high_water>>

\* renew: live-and-owned leases are extended, expired ones named are purged.
Renew(device, ids, stamp) ==
  LET named   == {rec \in leases : rec.id \in ids}
      granted == {rec \in named : is_live(rec) /\ rec.device = device}
      dead    == {rec \in named : ~is_live(rec)}
  IN  /\ leases' = (leases \ (granted \cup dead)) \cup {Renewed(rec, stamp) : rec \in granted}
      /\ UNCHANGED <<now, next_lease_id, demand, admission_high_water>>

\* release: the holder drops its own, anyone may purge an expired one.
Release(device, ids) ==
  LET dropped == {rec \in leases : rec.id \in ids /\ (~is_live(rec) \/ rec.device = device)}
  IN  /\ leases' = leases \ dropped
      /\ demand' = demand \ Ids(dropped)
      /\ UNCHANGED <<now, next_lease_id, admission_high_water>>

\* list_leases: every expired record of the space is purged by the scan.
ListLeases ==
  /\ leases' = {rec \in leases : is_live(rec)}
  /\ UNCHANGED <<now, next_lease_id, demand, admission_high_water>>

\* A new process over the same store: the demand set is gone, and the clock
\* restarts no earlier than it stood.
Restart ==
  /\ demand' = {}
  /\ UNCHANGED <<now, leases, next_lease_id, admission_high_water>>

Tick ==
  /\ now < MaxNow
  /\ now' = now + 1
  /\ UNCHANGED <<leases, next_lease_id, demand, admission_high_water>>

LeaseInit ==
  /\ now = 0
  /\ leases = {}
  /\ next_lease_id = 0
  /\ demand = {}
  /\ admission_high_water = 0

\* Requests of up to two specs; any set of up to two issued ids.
SpecSeqs == {<<a>> : a \in LeaseSpec} \cup {<<a, b>> : a, b \in LeaseSpec}

IdSets == {{i, j} : i, j \in 0..(next_lease_id - 1)}

LeaseNext ==
  \/ \E d \in Device, specs \in SpecSeqs, s \in Stamp : Acquire(d, specs, s)
  \/ \E d \in Device, ids \in IdSets, s \in Stamp : Renew(d, ids, s)
  \/ \E d \in Device, ids \in IdSets : Release(d, ids)
  \/ ListLeases
  \/ Restart
  \/ Tick
=============================================================================
