---------------------------- MODULE SpaceProofs -----------------------------
(***************************************************************************)
(* Lease exclusion and the types of the lease state, for every set of      *)
(* devices, prefixes, durations and batches and every bound.               *)
(***************************************************************************)
EXTENDS Space, SequenceTheorems, TLAPS

\* The lease part of the type invariant, which is inductive by itself.
LeaseTypeOK ==
  /\ now \in Nat /\ next_lease_id \in Nat /\ admission_high_water \in Nat
  /\ leases \subseteq LeaseRecord
  /\ demand \subseteq Nat

\* Compatibility is symmetric, as overlap is: it does not matter which of two
\* leases came first (LeaseMode::compatible_with, Range::overlaps).
LEMMA Symmetric ==
  /\ \A m, n : compatible_with(m, n) <=> compatible_with(n, m)
  /\ \A p, q : overlaps(p, q) <=> overlaps(q, p)
  BY Zenon DEF compatible_with, overlaps

\* Durations count clock ticks.
LEMMA TtlIsNat == Ttl \subseteq Nat
  BY LeaseAssumption

\* The requests LeaseNext enumerates are sequences of lease specs.
LEMMA SpecSeqsType ==
  ASSUME NEW specs \in SpecSeqs
  PROVE  /\ Len(specs) \in Nat
         /\ DOMAIN specs = 1..Len(specs)
         /\ \A i \in DOMAIN specs : specs[i] \in LeaseSpec
  BY DEF SpecSeqs

\* What acquire stores is a set of well-typed records, one per spec, with fresh ids.
LEMMA GrantedType ==
  ASSUME LeaseTypeOK, NEW d \in Device, NEW specs \in SpecSeqs, NEW s \in Stamp
  PROVE  /\ Granted(d, specs, s) \subseteq LeaseRecord
         /\ \A rec \in Granted(d, specs, s) :
              \E i \in DOMAIN specs : /\ rec = FreshLease(d, specs[i], s, i)
                                      /\ rec.id = next_lease_id + i - 1
                                      /\ rec.prefix = specs[i].prefix
                                      /\ rec.mode = specs[i].mode
                                      /\ rec.barrier = admission_high_water
  <1>1. ASSUME NEW i \in DOMAIN specs
        PROVE  /\ next_lease_id + i - 1 \in Nat
               /\ now + specs[i].ttl \in Nat
               /\ specs[i].prefix \in LeasePrefix /\ specs[i].mode \in Mode
               /\ specs[i].ttl \in Ttl
    <2>1. i \in 1..Len(specs) /\ Len(specs) \in Nat /\ specs[i] \in LeaseSpec
      BY <1>1, SpecSeqsType
    <2>2. specs[i].prefix \in LeasePrefix /\ specs[i].mode \in Mode /\ specs[i].ttl \in Ttl
      BY <2>1 DEF LeaseSpec
    <2>3. specs[i].ttl \in Nat
      BY <2>2, TtlIsNat, Zenon
    <2>4. now \in Nat /\ next_lease_id \in Nat
      BY Zenon DEF LeaseTypeOK
    <2>5. now + specs[i].ttl \in Nat /\ next_lease_id + i - 1 \in Nat
      BY <2>1, <2>3, <2>4
    <2>6. QED BY <2>2, <2>5
  <1>2. QED BY <1>1 DEF Granted, FreshLease, LeaseRecord, LeaseTypeOK

\* A renewed record keeps its identity, its reservation and its type.
LEMMA RenewedType ==
  ASSUME LeaseTypeOK, NEW rec \in LeaseRecord, NEW s \in Stamp
  PROVE  /\ Renewed(rec, s) \in LeaseRecord
         /\ Renewed(rec, s).id = rec.id
         /\ Renewed(rec, s).prefix = rec.prefix
         /\ Renewed(rec, s).mode = rec.mode
         /\ Renewed(rec, s).device = rec.device
         /\ Renewed(rec, s).barrier = rec.barrier
  <1>1. now + rec.ttl \in Nat
    <2>1. rec.ttl \in Ttl
      BY Zenon DEF LeaseRecord
    <2>2. rec.ttl \in Nat
      BY <2>1, TtlIsNat, Zenon
    <2>3. now \in Nat
      BY Zenon DEF LeaseTypeOK
    <2>4. QED BY <2>2, <2>3
  <1>2. QED BY <1>1, Zenon DEF Renewed, LeaseRecord, LeaseTypeOK

\* An admission is an Admit of some device's sequence of batches.
LEMMA AdmitSomeIsAdmit ==
  ASSUME AdmitSome
  PROVE  \E d \in Device, batches \in Seq(Batch) :
           \E expected, first : Admit(d, expected, first, batches)
  <1>1. PICK d \in Device, n \in 1..MaxRequest :
          \E batches \in [1..n -> Batch], first \in 1..(MaxDeviceSeq - n + 1) :
            \E expected \in Prefixes(devices[d].checksum) : Admit(d, expected, first, batches)
    BY Zenon DEF AdmitSome
  <1>2. PICK batches \in [1..n -> Batch] : \E expected, first : Admit(d, expected, first, batches)
    BY <1>1, Zenon
  <1>3. batches \in Seq(Batch)
    <2>1. n \in Nat
      BY <1>1, SpaceAssumption
    <2>2. QED BY <1>2, <2>1, SeqDef, SMTT(30)
  <1>4. QED BY <1>2, <1>3

\* The lease state keeps its types, whatever step is taken.
LEMMA TypeStep == LeaseTypeOK /\ [Next]_vars => LeaseTypeOK'
  <1> SUFFICES ASSUME LeaseTypeOK, [Next]_vars PROVE LeaseTypeOK'
    BY Zenon
  <1>1. ASSUME NEW d \in Device, NEW specs \in SpecSeqs, NEW s \in Stamp, Acquire(d, specs, s)
        PROVE  LeaseTypeOK'
    <2>1. CASE AcquireContended(specs)
      <3>1. \A recs \in SUBSET leases : Ids(recs) \subseteq Nat
        BY Zenon DEF Ids, LeaseTypeOK, LeaseRecord
      <3>2. \A spec : Blockers(spec) \subseteq leases
        BY Zenon DEF Blockers, LiveOverlapping
      <3>3. leases' \subseteq leases /\ \E i \in DOMAIN specs : demand' = demand \cup Ids(Blockers(specs[i]))
        BY <2>1, Zenon DEF AcquireContended
      <3>4. demand' \subseteq Nat
        BY <3>1, <3>2, <3>3, ZenonT(30) DEF LeaseTypeOK
      <3>5. QED BY <1>1, <2>1, <3>3, <3>4, SMTT(30) DEF Acquire, AcquireContended, LeaseTypeOK
    <2>2. CASE AcquireSelfOverlap(specs)
      BY <1>1, <2>2 DEF Acquire, AcquireSelfOverlap, LeaseTypeOK
    <2>3. CASE AcquireGrant(d, specs, s)
      <3>1. Granted(d, specs, s) \subseteq LeaseRecord
        BY GrantedType, Zenon
      <3>2. next_lease_id' \in Nat
        BY <2>3, SpecSeqsType DEF AcquireGrant, LeaseTypeOK
      <3>3. QED BY <1>1, <2>3, <3>1, <3>2, SMTT(30) DEF Acquire, AcquireGrant, LeaseTypeOK
    <2>4. QED BY <1>1, <2>1, <2>2, <2>3, SMTT(30) DEF Acquire
  <1>2. ASSUME NEW d \in Device, NEW ids \in IdSets, NEW s \in Stamp, Renew(d, ids, s)
        PROVE  LeaseTypeOK'
    <2>1. \A rec \in leases : Renewed(rec, s) \in LeaseRecord
      BY RenewedType, Zenon DEF LeaseTypeOK
    <2>2. QED BY <1>2, <2>1, Zenon DEF Renew, LeaseTypeOK
  <1>3. ASSUME NEW d \in Device, NEW ids \in IdSets, Release(d, ids)
        PROVE  LeaseTypeOK'
    BY <1>3, Zenon DEF Release, LeaseTypeOK
  <1>4. CASE ListLeases
    BY <1>4, Zenon DEF ListLeases, LeaseTypeOK
  <1>5. CASE Restart
    BY <1>5, Zenon DEF Restart, LeaseTypeOK
  <1>6. CASE Tick
    BY <1>6 DEF Tick, LeaseTypeOK
  <1>7. CASE AdmitSome
    <2>1. PICK d \in Device, batches \in Seq(Batch) :
            \E expected, first : Admit(d, expected, first, batches)
      BY <1>7, AdmitSomeIsAdmit, Zenon
    <2>2. QED BY <2>1 DEF Admit, HighWaterAfter, LeaseTypeOK, leaseVars
  <1>8. CASE UNCHANGED vars
    BY <1>8, Zenon DEF vars, leaseVars, LeaseTypeOK
  <1>9. QED BY <1>1, <1>2, <1>3, <1>4, <1>5, <1>6, <1>7, <1>8, ZenonT(30) DEF Next, LeaseNext
-----------------------------------------------------------------------------
\* Dropping records preserves exclusion: purges, releases and list_leases.
LEMMA ExclusionShrinks ==
  ASSUME LeaseExclusion, leases' \subseteq leases, next_lease_id' = next_lease_id
  PROVE  LeaseExclusion'
  BY Zenon DEF LeaseExclusion

\* A grant joins records that tolerate each other and everything left in store.
LEMMA ExclusionGrant ==
  ASSUME LeaseTypeOK, LeaseExclusion,
         NEW d \in Device, NEW specs \in SpecSeqs, NEW s \in Stamp,
         AcquireGrant(d, specs, s)
  PROVE  LeaseExclusion'
  <1> DEFINE kept    == leases \ UNION {DeadOverlapping(specs[i].prefix) : i \in DOMAIN specs}
             granted == Granted(d, specs, s)
  <1>1. leases' = kept \cup granted /\ next_lease_id' = next_lease_id + Len(specs)
    BY Zenon DEF AcquireGrant
  <1>2. /\ Len(specs) \in Nat /\ DOMAIN specs = 1..Len(specs)
        /\ next_lease_id \in Nat
        /\ \A rec \in kept : rec \in leases /\ rec.id \in Nat /\ rec.id < next_lease_id
    BY SpecSeqsType, Zenon DEF LeaseTypeOK, LeaseRecord, LeaseExclusion
  <1>3. \A a \in granted :
          \E i \in DOMAIN specs : /\ a.id = next_lease_id + i - 1
                                  /\ a.prefix = specs[i].prefix /\ a.mode = specs[i].mode
                                  /\ a = FreshLease(d, specs[i], s, i)
    BY GrantedType
  <1>4. ASSUME NEW a \in granted PROVE a.id < next_lease_id' /\ a.id >= next_lease_id
    <2>1. PICK i \in DOMAIN specs : a.id = next_lease_id + i - 1
      BY <1>3, <1>4, Zenon
    <2>2. QED BY <1>1, <1>2, <2>1, SMTT(30)
  <1>5. ASSUME NEW a \in kept, NEW b \in granted, overlaps(a.prefix, b.prefix)
        PROVE  compatible_with(a.mode, b.mode)
    <2>1. PICK i \in DOMAIN specs : b.prefix = specs[i].prefix /\ b.mode = specs[i].mode
      BY <1>3, <1>5
    <2>2. a \in leases /\ a \notin DeadOverlapping(specs[i].prefix)
      BY <1>5, <2>1, SMTT(30)
    <2>3. a \in LiveOverlapping(specs[i].prefix)
      BY <1>5, <2>1, <2>2, SMTT(30) DEF DeadOverlapping, LiveOverlapping
    <2>4. Blockers(specs[i]) = {}
      BY <2>1 DEF AcquireGrant
    <2>5. compatible_with(specs[i].mode, a.mode)
      BY <2>3, <2>4 DEF Blockers
    <2>6. QED BY <2>1, <2>5, Symmetric, SMTT(30)
  <1>6. ASSUME NEW a \in granted, NEW b \in granted, a # b
        PROVE  a.id # b.id /\ (overlaps(a.prefix, b.prefix) => compatible_with(a.mode, b.mode))
    <2>1. PICK i \in DOMAIN specs : /\ a.id = next_lease_id + i - 1
                                    /\ a.prefix = specs[i].prefix /\ a.mode = specs[i].mode
                                    /\ a = FreshLease(d, specs[i], s, i)
      BY <1>3, <1>6, SMTT(30)
    <2>2. PICK j \in DOMAIN specs : /\ b.id = next_lease_id + j - 1
                                    /\ b.prefix = specs[j].prefix /\ b.mode = specs[j].mode
                                    /\ b = FreshLease(d, specs[j], s, j)
      BY <1>3, <1>6, SMTT(30)
    <2>3. i # j
      BY <1>6, <2>1, <2>2, SMTT(30)
    <2>num. i \in Nat /\ j \in Nat /\ next_lease_id \in Nat
      BY <1>1, <1>2
    <2>4. a.id # b.id
      <3>1. a.id = next_lease_id + i - 1 /\ b.id = next_lease_id + j - 1
        BY <2>1, <2>2
      <3> HIDE DEF granted, kept
      <3> QED BY <2>3, <2>num, <3>1, SMTT(30)
    <2>5. i < j \/ j < i
      BY <2>3, <2>num
    <2>6. ~SelfOverlap(specs)
      BY Zenon DEF AcquireGrant
    <2>7. ASSUME overlaps(a.prefix, b.prefix) PROVE compatible_with(a.mode, b.mode)
      BY <2>1, <2>2, <2>5, <2>6, <2>7, Symmetric, SMTT(30) DEF SelfOverlap
    <2>8. QED BY <2>4, <2>7, SMTT(30)
  <1>7. ASSUME NEW a \in leases', NEW b \in leases'
        PROVE  /\ a.id < next_lease_id'
               /\ a # b => /\ a.id # b.id
                           /\ overlaps(a.prefix, b.prefix) => compatible_with(a.mode, b.mode)
    <2>1. a.id < next_lease_id'
      BY <1>1, <1>2, <1>4, <1>7, SMTT(30)
    <2>2. CASE a \in kept /\ b \in kept
      BY <1>2, <2>1, <2>2, ZenonT(30) DEF LeaseExclusion
    <2>3. CASE a \in kept /\ b \in granted
      <3>1. a.id < next_lease_id /\ b.id >= next_lease_id /\ a.id \in Nat
        BY <1>2, <1>4, <2>3, SMTT(30)
      <3>2. a.id # b.id
        BY <1>2, <3>1, SMTT(30)
      <3>3. QED BY <1>5, <2>1, <2>3, <3>2, SMTT(30)
    <2>4. CASE a \in granted /\ b \in kept
      <3>1. b.id < next_lease_id /\ a.id >= next_lease_id /\ b.id \in Nat
        BY <1>2, <1>4, <2>4, SMTT(30)
      <3>2. a.id # b.id
        BY <1>2, <3>1
      <3>3. QED BY <1>5, <2>1, <2>4, <3>2, Symmetric, SMTT(30)
    <2>5. CASE a \in granted /\ b \in granted
      BY <1>6, <2>1, <2>5, SMTT(30)
    <2>6. QED BY <1>1, <1>7, <2>2, <2>3, <2>4, <2>5, SMTT(30)
  <1>8. QED BY <1>7, Zenon DEF LeaseExclusion

\* A renewal changes no id, prefix or mode, so it changes no overlap.
LEMMA ExclusionRenew ==
  ASSUME LeaseTypeOK, LeaseExclusion,
         NEW d \in Device, NEW ids \in IdSets, NEW s \in Stamp, Renew(d, ids, s)
  PROVE  LeaseExclusion'
  <1> DEFINE before(a, r) == /\ r \in leases
                             /\ a.id = r.id /\ a.prefix = r.prefix /\ a.mode = r.mode
                             /\ a = r \/ a = Renewed(r, s)
  <1>1. \A a \in leases' : \E r : before(a, r)
    BY RenewedType DEF Renew, LeaseTypeOK
  <1>2. \A a, b \in leases' : \A r : before(a, r) /\ before(b, r) => a = b
    <2>1. SUFFICES ASSUME NEW a \in leases', NEW b \in leases', NEW r, before(a, r), before(b, r)
                   PROVE  a = b
      OBVIOUS
    <2> DEFINE granted == {rec \in leases : rec.id \in ids /\ is_live(rec) /\ rec.device = d}
    <2>2. \A x \in leases' : x \in leases \ granted \/ \E g \in granted : x = Renewed(g, s)
      BY Zenon DEF Renew
    <2>3. ASSUME NEW x \in leases', before(x, r), r \in granted PROVE x = Renewed(r, s)
      <3>1. CASE x \in leases \ granted
        <4>1. x = r
          BY <2>3, <3>1 DEF LeaseExclusion
        <4>2. QED BY <2>3, <3>1, <4>1, SMTT(30)
      <3>2. CASE \E g \in granted : x = Renewed(g, s)
        <4>1. PICK g \in granted : x = Renewed(g, s)
          BY <3>2
        <4>2. g.id = x.id
          BY <4>1, RenewedType, SMTT(30) DEF LeaseTypeOK
        <4>3. g = r
          BY <2>3, <4>1, <4>2, SMTT(30) DEF LeaseExclusion
        <4>4. QED BY <4>1, <4>3
      <3>3. QED BY <2>2, <2>3, <3>1, <3>2, SMTT(30)
    <2>4. ASSUME NEW x \in leases', before(x, r), r \notin granted PROVE x = r
      <3>1. CASE x \in leases \ granted
        BY <2>4, <3>1, SMTT(30) DEF LeaseExclusion
      <3>2. CASE \E g \in granted : x = Renewed(g, s)
        <4>1. PICK g \in granted : x = Renewed(g, s)
          BY <3>2, Zenon
        <4>2. g.id = x.id
          BY <4>1, RenewedType, ZenonT(30) DEF LeaseTypeOK
        <4>3. g = r
          BY <2>4, <4>1, <4>2, SMTT(30) DEF LeaseExclusion
        <4>4. QED BY <2>4, <4>1, <4>3, SMTT(30)
      <3>3. QED BY <2>2, <2>4, <3>1, <3>2, SMTT(30)
    <2>5. QED BY <2>1, <2>3, <2>4, SMTT(30)
  <1>3. next_lease_id' = next_lease_id
    BY Zenon DEF Renew
  <1>4. ASSUME NEW a \in leases', NEW b \in leases'
        PROVE  /\ a.id < next_lease_id'
               /\ a # b => /\ a.id # b.id
                           /\ overlaps(a.prefix, b.prefix) => compatible_with(a.mode, b.mode)
    <2>1. PICK r : before(a, r)
      BY <1>1, <1>4
    <2>2. PICK q : before(b, q)
      BY <1>1, <1>4, SMTT(30)
    <2>3. r = q => a = b
      BY <1>2, <1>4, <2>1, <2>2, SMTT(30)
    <2>4. QED BY <1>3, <2>1, <2>2, <2>3, SMTT(30) DEF LeaseExclusion
  <1>5. QED BY <1>4 DEF LeaseExclusion

\* Every step preserves exclusion.
LEMMA ExclusionStep == LeaseTypeOK /\ LeaseExclusion /\ [Next]_vars => LeaseExclusion'
  <1> SUFFICES ASSUME LeaseTypeOK, LeaseExclusion, [Next]_vars PROVE LeaseExclusion'
    BY Zenon
  <1>1. ASSUME NEW d \in Device, NEW specs \in SpecSeqs, NEW s \in Stamp, Acquire(d, specs, s)
        PROVE  LeaseExclusion'
    <2>1. CASE AcquireContended(specs)
      BY <2>1, ExclusionShrinks, SMTT(30) DEF AcquireContended
    <2>2. CASE AcquireSelfOverlap(specs)
      BY <2>2, ExclusionShrinks, SMTT(30) DEF AcquireSelfOverlap
    <2>3. CASE AcquireGrant(d, specs, s)
      BY <2>3, ExclusionGrant, SMTT(30)
    <2>4. QED BY <1>1, <2>1, <2>2, <2>3, SMTT(30) DEF Acquire
  <1>2. ASSUME NEW d \in Device, NEW ids \in IdSets, NEW s \in Stamp, Renew(d, ids, s)
        PROVE  LeaseExclusion'
    BY <1>2, ExclusionRenew, SMTT(30)
  <1>3. ASSUME NEW d \in Device, NEW ids \in IdSets, Release(d, ids)
        PROVE  LeaseExclusion'
    BY <1>3, ExclusionShrinks, SMTT(30) DEF Release
  <1>4. CASE ListLeases
    BY <1>4, ExclusionShrinks, SMTT(30) DEF ListLeases
  <1>5. CASE Restart
    BY <1>5, ExclusionShrinks, SMTT(30) DEF Restart
  <1>6. CASE Tick
    BY <1>6, ExclusionShrinks, SMTT(30) DEF Tick
  <1>7. CASE AdmitSome
    BY <1>7, AdmitSomeIsAdmit, ExclusionShrinks, ZenonT(30) DEF Admit, leaseVars
  <1>8. CASE UNCHANGED vars
    BY <1>8, ExclusionShrinks, Zenon DEF vars, leaseVars
  <1>9. QED BY <1>1, <1>2, <1>3, <1>4, <1>5, <1>6, <1>7, <1>8, SMTT(30) DEF Next, LeaseNext

\* In every reachable state of a space, whatever its devices, prefixes, durations
\* and requests, overlapping stored leases tolerate each other and ids are unique
\* (LeaseManager::acquire and renew in server/src/space/lease.rs).
THEOREM LeasesExclude == Spec => []LeaseExclusion
  <1>1. Init => LeaseTypeOK /\ LeaseExclusion
    BY DEF Init, LeaseInit, LeaseTypeOK, LeaseExclusion
  <1>2. LeaseTypeOK /\ LeaseExclusion /\ [Next]_vars => (LeaseTypeOK /\ LeaseExclusion)'
    BY TypeStep, ExclusionStep, SMTT(30)
  <1>3. QED BY <1>1, <1>2, PTL DEF Spec
-----------------------------------------------------------------------------
(***************************************************************************)
(* What a lease promises, proved for every instance of Space: while it is  *)
(* live, nobody else has changed anything below its prefix since its       *)
(* barrier.  The inductive invariant is the promise itself with the types  *)
(* of the lease state and the shape of the log.                            *)
(***************************************************************************)

\* The log is a sequence, as long as the counter says.
LogOK ==
  /\ \E S : log \in Seq(S)
  /\ admission_high_water = Len(log)

\* An admission appends one header per batch, with that batch's entries.
LEMMA AdmitAppends ==
  ASSUME LogOK, NEW d \in Device, NEW batches \in Seq(Batch), NEW expected, NEW first,
         Admit(d, expected, first, batches)
  PROVE  /\ LogOK'
         /\ Len(log) \in Nat /\ Len(batches) \in Nat
         /\ Len(log') = Len(log) + Len(batches)
         /\ \A t \in 1..Len(log) : log'[t] = log[t]
         /\ \A i \in 1..Len(batches) :
              /\ log'[Len(log) + i].device = d
              /\ log'[Len(log) + i].entries
                   = AdmittedEntries(d, batches[i], admission_high_water + i)
  <1> DEFINE header(i) == [device |-> d, device_seq |-> first + i - 1,
                           asserts |-> batches[i].asserts,
                           entries |-> AdmittedEntries(d, batches[i], admission_high_water + i)]
             new == [i \in DOMAIN batches |-> header(i)]
  <1>1. log' = log \o new /\ admission_high_water' = admission_high_water + Len(batches)
    BY Zenon DEF Admit, HighWaterAfter
  <1>2. PICK S : log \in Seq(S)
    BY Zenon DEF LogOK
  <1>3. Len(batches) \in Nat /\ DOMAIN batches = 1..Len(batches)
    BY LenProperties
  <1> DEFINE T == S \cup {header(i) : i \in 1..Len(batches)}
  <1>4. new \in Seq(T) /\ Len(new) = Len(batches)
    <2> HIDE DEF header
    <2>1. new \in [1..Len(batches) -> T]
      BY <1>3
    <2>2. new \in Seq(T)
      BY <1>3, <2>1, SeqDef, SMTT(30)
    <2>3. DOMAIN new = 1..Len(new) /\ Len(new) \in Nat
      BY <2>2, LenProperties, Zenon
    <2>4. 1..Len(new) = 1..Len(batches)
      BY <1>3, <2>3, ZenonT(30)
    <2>5. QED BY <1>3, <2>2, <2>3, <2>4, SMTT(30)
  <1>5. log \in Seq(T)
    BY <1>2, SeqMonotonic, SMTT(30)
  <1>6. Len(log) \in Nat
    BY <1>2, LenProperties, SMTT(30)
  <1> HIDE DEF new, T, header
  <1>7. /\ log' \in Seq(T) /\ Len(log') = Len(log) + Len(batches)
        /\ \A t \in 1..(Len(log) + Len(batches)) :
             log'[t] = IF t <= Len(log) THEN log[t] ELSE new[t - Len(log)]
    <2>1. /\ log \o new \in Seq(T) /\ Len(log \o new) = Len(log) + Len(new)
          /\ \A t \in 1..(Len(log) + Len(new)) :
               (log \o new)[t] = IF t <= Len(log) THEN log[t] ELSE new[t - Len(log)]
      BY <1>4, <1>5, ConcatProperties, ZenonT(30)
    <2>2. QED BY <1>1, <1>4, <2>1, SMTT(30)
  <1>8. \A t \in 1..Len(log) : log'[t] = log[t]
    BY <1>3, <1>6, <1>7, SMTT(30)
  <1>9. ASSUME NEW i \in 1..Len(batches)
        PROVE  log'[Len(log) + i] = header(i)
    <2>1. log'[Len(log) + i] = new[i]
      BY <1>3, <1>6, <1>7, <1>9, SMTT(30)
    <2>2. QED BY <1>3, <2>1 DEF new
  <1>10. LogOK'
    BY <1>1, <1>7 DEF LogOK
  <1>11. \A i : /\ header(i).device = d
                /\ header(i).entries = AdmittedEntries(d, batches[i], admission_high_water + i)
    BY Zenon DEF header
  <1>12. QED BY <1>3, <1>6, <1>7, <1>8, <1>9, <1>10, <1>11, SMTT(30)

\* validate_writes keeps another device's batch off every live reservation.
LEMMA WritesAvoidReservations ==
  ASSUME NEW d \in Device, NEW batches, validate_writes(d, batches),
         NEW i \in DOMAIN batches, NEW seq,
         NEW rec \in leases, is_live(rec), rec.device # d,
         NEW j \in DOMAIN AdmittedEntries(d, batches[i], seq)
  PROVE  ~mutation_relevant(rec.prefix, AdmittedEntries(d, batches[i], seq)[j])
  <1> DEFINE e == batches[i].entries[j]
             f == AdmittedEntries(d, batches[i], seq)[j]
  <1>1. j \in DOMAIN batches[i].entries /\ f.op = e.op /\ f.target = e.target
    BY Zenon DEF AdmittedEntries
  <1>2. CASE is_range(e)
    <2>1. rec \notin LiveOverlapping(e.target)
      BY <1>1, <1>2, SMTT(30) DEF validate_writes
    <2>2. ~overlaps(rec.prefix, e.target)
      BY <2>1, SMTT(30) DEF LiveOverlapping
    <2>3. QED BY <1>1, <1>2, <2>2, SMTT(30) DEF mutation_relevant, is_range
  <1>3. CASE ~is_range(e)
    <2>1. rec \notin covering(e.target)
      BY <1>1, <1>3 DEF validate_writes
    <2>2. ~covers_key(rec.prefix, e.target)
      BY <2>1, Zenon DEF covering
    <2>3. QED BY <1>1, <1>3, <2>2, SMTT(30) DEF mutation_relevant, is_range
  <1>4. QED BY <1>2, <1>3

\* The promise of one lease at the present log.
Reserved(rec) ==
  /\ rec.barrier <= Len(log)
  /\ \A s \in (rec.barrier + 1)..Len(log) :
       log[s].device # rec.device =>
         \A i \in DOMAIN log[s].entries : ~mutation_relevant(rec.prefix, log[s].entries[i])

\* A lease verb, a restart or a tick: the log stays, and every live lease has
\* the prefix, device and barrier of one that was live, or starts at the end.
LEMMA ReservedByVerbs ==
  ASSUME LeaseTypeOK, LogOK, ReservedSinceBarrier, log' = log,
         \A a \in leases' : is_live(a)' =>
           \/ \E r \in leases : /\ is_live(r) /\ a.prefix = r.prefix
                                /\ a.device = r.device /\ a.barrier = r.barrier
           \/ a.barrier = admission_high_water
  PROVE  ReservedSinceBarrier'
  <1>1. SUFFICES ASSUME NEW a \in leases', is_live(a)' PROVE Reserved(a)'
    BY Zenon DEF ReservedSinceBarrier, Reserved
  <1>2. CASE \E r \in leases : /\ is_live(r) /\ a.prefix = r.prefix
                               /\ a.device = r.device /\ a.barrier = r.barrier
    <2>1. PICK r \in leases : /\ is_live(r) /\ a.prefix = r.prefix
                             /\ a.device = r.device /\ a.barrier = r.barrier
      BY <1>2, SMTT(30)
    <2>2. Reserved(r)
      BY <2>1, SMTT(30) DEF ReservedSinceBarrier, Reserved
    <2>3. QED BY <2>1, <2>2, SMTT(30) DEF Reserved
  <1>3. CASE a.barrier = admission_high_water
    <2>1. Len(log) \in Nat /\ a.barrier = Len(log)
      BY <1>3, LenProperties, SMTT(30) DEF LogOK
    <2>2. QED BY <2>1 DEF Reserved
  <1>4. QED BY <1>1, <1>2, <1>3, SMTT(30)

\* Every step preserves the promise.
LEMMA ReservedStep ==
  LeaseTypeOK /\ LogOK /\ ReservedSinceBarrier /\ [Next]_vars => (LogOK /\ ReservedSinceBarrier)'
  <1> SUFFICES ASSUME LeaseTypeOK, LogOK, ReservedSinceBarrier, [Next]_vars
               PROVE  LogOK' /\ ReservedSinceBarrier'
    BY Zenon
  <1> DEFINE verb == log' = log /\ admission_high_water' = admission_high_water
  <1>a. verb => LogOK'
    BY Zenon DEF LogOK
  <1>b. ASSUME verb, leases' \subseteq leases, now' \in Nat, now' >= now
        PROVE  LogOK' /\ ReservedSinceBarrier'
    <2>1. \A r \in leases : is_live(r)' => is_live(r)
      BY <1>b DEF is_live, LeaseTypeOK, LeaseRecord
    <2>2. ReservedSinceBarrier'
      BY <1>b, <2>1, ReservedByVerbs, SMTT(30)
    <2>3. QED BY <1>a, <1>b, <2>2, SMTT(30)
  <1>n. now \in Nat /\ now >= now
    BY DEF LeaseTypeOK
  <1>1. ASSUME NEW d \in Device, NEW specs \in SpecSeqs, NEW s \in Stamp, Acquire(d, specs, s),
               UNCHANGED dataVars
        PROVE  LogOK' /\ ReservedSinceBarrier'
    <2>0. verb /\ now' = now
      BY <1>1, SMTT(30) DEF Acquire, dataVars
    <2>1. CASE AcquireContended(specs)
      BY <2>0, <2>1, <1>b, <1>n, SMTT(30) DEF AcquireContended
    <2>2. CASE AcquireSelfOverlap(specs)
      BY <2>0, <2>2, <1>b, <1>n, SMTT(30) DEF AcquireSelfOverlap
    <2>3. CASE AcquireGrant(d, specs, s)
      <3>1. \A a \in leases' : a \in leases \/ a \in Granted(d, specs, s)
        BY <2>3, SMTT(30) DEF AcquireGrant
      <3>2. \A a \in Granted(d, specs, s) : a.barrier = admission_high_water
        BY GrantedType, SMTT(30)
      <3>3. \A a \in leases : is_live(a)' => is_live(a)
        BY <2>0, SMTT(30) DEF is_live
      <3>4. ReservedSinceBarrier'
        BY <2>0, <3>1, <3>2, <3>3, ReservedByVerbs, SMTT(30)
      <3>5. QED BY <1>a, <2>0, <3>4, SMTT(30)
    <2>4. QED BY <1>1, <2>1, <2>2, <2>3, SMTT(30) DEF Acquire
  <1>2. ASSUME NEW d \in Device, NEW ids \in IdSets, NEW s \in Stamp, Renew(d, ids, s),
               UNCHANGED dataVars
        PROVE  LogOK' /\ ReservedSinceBarrier'
    <2>0. verb /\ now' = now
      BY <1>2 DEF Renew, dataVars
    <2>1. \A a \in leases' : a \in leases \/ \E r \in leases : is_live(r) /\ a = Renewed(r, s)
      BY <1>2, SMTT(30) DEF Renew
    <2>2. \A r \in leases : /\ Renewed(r, s).prefix = r.prefix
                            /\ Renewed(r, s).device = r.device
                            /\ Renewed(r, s).barrier = r.barrier
      BY RenewedType DEF LeaseTypeOK
    <2>3. \A a \in leases : is_live(a)' => is_live(a)
      BY <2>0, Zenon DEF is_live
    <2>4. ASSUME NEW a \in leases', is_live(a)'
          PROVE  \E r \in leases : /\ is_live(r) /\ a.prefix = r.prefix
                                   /\ a.device = r.device /\ a.barrier = r.barrier
      BY <2>1, <2>2, <2>3, <2>4, SMTT(30)
    <2>5. ReservedSinceBarrier'
      BY <2>0, <2>4, ReservedByVerbs, SMTT(30)
    <2>6. QED BY <1>a, <2>0, <2>5, SMTT(30)
  <1>3. ASSUME NEW d \in Device, NEW ids \in IdSets, Release(d, ids), UNCHANGED dataVars
        PROVE  LogOK' /\ ReservedSinceBarrier'
    BY <1>3, <1>b, <1>n, SMTT(30) DEF Release, dataVars
  <1>4. CASE ListLeases /\ UNCHANGED dataVars
    BY <1>4, <1>b, <1>n, SMTT(30) DEF ListLeases, dataVars
  <1>5. CASE Restart /\ UNCHANGED dataVars
    BY <1>5, <1>b, <1>n, SMTT(30) DEF Restart, dataVars
  <1>6. CASE Tick /\ UNCHANGED dataVars
    <2>1. now' \in Nat /\ now' >= now
      BY <1>6, SMTT(30) DEF Tick, LeaseTypeOK
    <2>2. QED BY <1>6, <2>1, <1>b, SMTT(30) DEF Tick, dataVars
  <1>7. CASE AdmitSome
    <2>1. PICK d \in Device, batches \in Seq(Batch) :
            \E expected, first : Admit(d, expected, first, batches)
      BY <1>7, AdmitSomeIsAdmit, SMTT(30)
    <2>2. PICK expected, first : Admit(d, expected, first, batches)
      BY <2>1, SMTT(30)
    <2>3. /\ leases' = leases /\ now' = now /\ validate_writes(d, batches)
      BY <2>2, SMTT(30) DEF Admit, leaseVars
    <2>4. /\ LogOK'
          /\ Len(log) \in Nat /\ Len(batches) \in Nat
          /\ Len(log') = Len(log) + Len(batches)
          /\ \A t \in 1..Len(log) : log'[t] = log[t]
          /\ \A i \in 1..Len(batches) :
               /\ log'[Len(log) + i].device = d
               /\ log'[Len(log) + i].entries
                    = AdmittedEntries(d, batches[i], admission_high_water + i)
      BY <2>2, AdmitAppends, SMTT(30)
    <2>5. SUFFICES ASSUME NEW rec \in leases, is_live(rec) PROVE Reserved(rec)'
      BY <2>3, <2>4, SMTT(30) DEF ReservedSinceBarrier, Reserved, is_live
    <2>6. Reserved(rec) /\ rec.barrier \in Nat
      BY <2>5, SMTT(30) DEF ReservedSinceBarrier, Reserved, LeaseTypeOK, LeaseRecord
    <2>7. ASSUME NEW t \in (rec.barrier + 1)..Len(log'), log'[t].device # rec.device,
                 NEW j \in DOMAIN log'[t].entries
          PROVE  ~mutation_relevant(rec.prefix, log'[t].entries[j])
      <3>1. CASE t <= Len(log)
        BY <2>4, <2>6, <2>7, <3>1, SMTT(30) DEF Reserved
      <3>2. CASE t > Len(log)
        <4> DEFINE i == t - Len(log)
        <4>1. i \in 1..Len(batches) /\ t = Len(log) + i
          BY <2>4, <2>6, <2>7, <3>2, SMTT(30)
        <4> HIDE DEF i
        <4>2. /\ log'[t].device = d
              /\ log'[t].entries = AdmittedEntries(d, batches[i], admission_high_water + i)
          BY <2>4, <4>1, SMTT(30)
        <4>3. i \in DOMAIN batches
          BY <4>1, LenProperties, SMTT(30)
        <4>4. QED BY <2>3, <2>5, <2>7, <4>2, <4>3, WritesAvoidReservations, ZenonT(30)
      <3>3. t \in Nat
        BY <2>4, <2>6, <2>7, SMTT(30)
      <3>4. QED BY <2>4, <3>1, <3>2, <3>3, SMTT(30)
    <2>8. rec.barrier <= Len(log')
      BY <2>4, <2>6, SMTT(30) DEF Reserved
    <2>9. QED BY <2>7, <2>8, SMTT(30) DEF Reserved
  <1>8. CASE UNCHANGED vars
    BY <1>8, <1>b, <1>n, SMTT(30) DEF vars, dataVars, leaseVars
  <1>9. QED BY <1>1, <1>2, <1>3, <1>4, <1>5, <1>6, <1>7, <1>8, SMTT(30) DEF Next, LeaseNext

\* In every reachable state of a space, for every choice of devices, keys,
\* durations and batches: nobody but the holder has changed anything a live
\* lease reserves since the lease's barrier (acquire's barrier, renew, and
\* validate_writes in server/src/space).
THEOREM LeasesReserve == Spec => []ReservedSinceBarrier
  <1>1. Init => LeaseTypeOK /\ LogOK /\ ReservedSinceBarrier
    <2>1. <<>> \in Seq({}) /\ Len(<<>>) = 0
      BY EmptySeq
    <2>2. QED BY <2>1 DEF Init, LeaseInit, LeaseTypeOK, LogOK, ReservedSinceBarrier
  <1>2. LeaseTypeOK /\ LogOK /\ ReservedSinceBarrier /\ [Next]_vars
          => (LeaseTypeOK /\ LogOK /\ ReservedSinceBarrier)'
    BY TypeStep, ReservedStep, SMTT(30)
  <1>3. QED BY <1>1, <1>2, PTL DEF Spec

\* The types of the server's state, and that the counter is the length of the
\* log: admission sequences are dense (CountersRecord, admit_impl).
THEOREM SpaceTypes == Spec => []TypeOK
  <1>1. Init => LeaseTypeOK /\ LogOK /\ ReservedSinceBarrier /\ DOMAIN devices = Device
    <2>1. <<>> \in Seq({}) /\ Len(<<>>) = 0
      BY EmptySeq, Zenon
    <2>2. QED BY <2>1 DEF Init, LeaseInit, LeaseTypeOK, LogOK, ReservedSinceBarrier
  <1>2. DOMAIN devices = Device /\ [Next]_vars => (DOMAIN devices = Device)'
    <2>1. AdmitSome => DOMAIN devices' = DOMAIN devices
      BY AdmitSomeIsAdmit, ZenonT(30) DEF Admit
    <2>2. QED BY <2>1 DEF Next, vars, dataVars
  <1>3. LeaseTypeOK /\ LogOK /\ ReservedSinceBarrier /\ DOMAIN devices = Device /\ [Next]_vars
          => (LeaseTypeOK /\ LogOK /\ ReservedSinceBarrier /\ DOMAIN devices = Device)'
    BY <1>2, TypeStep, ReservedStep, Zenon
  <1>4. LeaseTypeOK /\ LogOK /\ DOMAIN devices = Device => TypeOK
    BY Zenon DEF TypeOK, LeaseTypeOK, LogOK
  <1>5. QED BY <1>1, <1>3, <1>4, PTL DEF Spec
=============================================================================
