---------------------------- MODULE ClientLeases ----------------------------
(***************************************************************************)
(* One device's lease workflows (client/src/space.rs: lease, unlease,      *)
(* repair_leases), its durable lease and clock records (client/src/meta.rs)*)
(* and the clocks that judge them (core/src/clock.rs), against the real    *)
(* lease verbs of the server (LeaseManager).                               *)
(*                                                                         *)
(* Time.  `now' is the server's clock and passes for everybody.  The       *)
(* client reads a wall clock and a monotonic one; a suspend stops the      *)
(* monotonic one, a step moves the wall.  Within one process WallClock     *)
(* never hands out a smaller reading, so a backward step shows only at the *)
(* next open.  `anchor' is the most the wall has been ahead of `now' since *)
(* a regression was last detected: the documented assumption is that an    *)
(* undetected error stays within the margin.                               *)
(*                                                                         *)
(* Workflows run one at a time (the space permit); every stored transition *)
(* is a step, and the process may die between any two.                     *)
(***************************************************************************)
EXTENDS LeaseManager, Integers

CONSTANTS Me,            \* the device
          Wanted,        \* the lease specs its application asks for
          None,
          Margin,        \* lease_margin, in ticks
          MaxWall,       \* bound: wall readings
          MaxLineage,    \* bound: process incarnations
          MaxHighWater,  \* bound: admissions
          MaxMailbox,    \* bound: requests in flight
          WallRegresses  \* may the wall step back between two incarnations?

ASSUME ClientAssumption ==
  /\ Me \in Device /\ Margin \in Nat /\ Wanted \subseteq LeaseSpec
  /\ WallRegresses \in BOOLEAN

VARIABLES held,        \* HeldLease per prefix, durable
          clock_high,  \* ClockRecord, durable
          tail, neck,  \* AdmitCursors, durable
          wall, mono, lineage, anchor,
          timeline,    \* history: the first lineage since a detected regression
          revived,     \* history: the leases repair has given a deadline from before it
          call,        \* the workflow holding the permit, or None
          mailbox      \* requests waiting at the server

records == <<held, revived>>
durable == <<records, clock_high, tail, neck>>
clocks == <<wall, mono, lineage, anchor, timeline>>
serverVars == <<leaseVars, admission_high_water>>
vars == <<now, serverVars, durable, clocks, call, mailbox>>

ZeroStamp == [wall |-> 0, mono |-> 0, lineage |-> 0]

stamp == [wall |-> wall, mono |-> mono, lineage |-> lineage]

\* HybridTimestamp::saturating_add
Plus(at, ttl) == [wall |-> at.wall + ttl, mono |-> at.mono + ttl, lineage |-> at.lineage]

\* HybridTimestamp::expired at the present reading.
expired(deadline) ==
  IF deadline.lineage = lineage THEN mono >= deadline.mono \/ wall >= deadline.wall
  ELSE wall + Margin >= deadline.wall

\* Space::lease_live, and the test every use of a lease makes first.
lease_live(h) == ~expired(h.deadline)

Active(h) == h # None /\ ~h.forgotten

\* covers / mode_covers
covers(h, spec) ==
  /\ starts_with(spec.prefix, h.lease.prefix)
  /\ h.lease.mode = "Write" \/ spec.mode = "Read"

HeldRecords == {held[p] : p \in LeasePrefix} \ {None}

\* available_covering
Available(spec) == {h \in HeldRecords : Active(h) /\ covers(h, spec) /\ lease_live(h)}

Revivable(spec) == {h \in HeldRecords : Active(h) /\ covers(h, spec) /\ ~lease_live(h)}

\* lease_usable: what the application may rely on.
lease_usable(h) == Active(h) /\ lease_live(h) /\ neck > h.lease.barrier

\* public_lease: the record the server returns.
Public(rec) ==
  [id |-> rec.id, prefix |-> rec.prefix, mode |-> rec.mode, ttl |-> rec.ttl,
   barrier |-> rec.barrier, requested_at |-> rec.requested_at]

HeldFrom(lease, send) ==
  [lease |-> lease, deadline |-> Plus(send, lease.ttl), forgotten |-> FALSE]

\* drop_leases
Drop(ids) == [p \in LeasePrefix |-> IF held[p] # None /\ held[p].lease.id \in ids THEN None ELSE held[p]]
-----------------------------------------------------------------------------
Stamps == [wall : Nat, mono : Nat, lineage : Nat]

Lease == [id : Nat, prefix : LeasePrefix, mode : Mode, ttl : Nat, barrier : Nat,
          requested_at : Stamps]

Held == [lease : Lease, deadline : Stamps, forgotten : BOOLEAN]

Verb == {"acquire", "renew", "release", "list"}

\* Where a workflow is: it awaits the reply to a verb, or is at a later step.
Stage == Verb \cup {"renew_store", "recheck", "acquire_store", "barrier", "open"}

Reply == [granted : SUBSET Lease]

Call == [stage : Stage, spec : LeaseSpec \cup {None}, ids : SUBSET Nat, send : Stamps,
         reply : Reply \cup {None}]

ASSUME CallAssumption == None \notin Call \cup Reply

Request(verb, spec, ids) ==
  [verb |-> verb, spec |-> spec, ids |-> ids, send |-> stamp, live |-> TRUE]

\* Issue a request and await its reply in `stage'.
Send(stage, spec, ids) ==
  /\ Len(mailbox) < MaxMailbox
  /\ mailbox' = Append(mailbox, Request(stage, spec, ids))
  /\ call' = [stage |-> stage, spec |-> spec, ids |-> ids, send |-> stamp, reply |-> None]

Goto(stage) == call' = [call EXCEPT !.stage = stage]

\* lease_inner's second half: what is still missing is acquired afresh.
AcquireMissing(spec) ==
  IF Available(spec) # {}
  THEN /\ call' = [stage |-> "barrier", spec |-> spec, ids |-> {}, send |-> stamp, reply |-> None]
       /\ UNCHANGED mailbox
  ELSE Send("acquire", spec, {})

\* lease: reuse what is live; otherwise first try to renew an expired record.
LeaseStart(spec) ==
  /\ call = None
  /\ \/ /\ Available(spec) = {}
        /\ \E h \in Revivable(spec) : Send("renew", spec, {h.lease.id})
     \/ /\ Available(spec) # {} \/ Revivable(spec) = {}
        /\ AcquireMissing(spec)
  /\ UNCHANGED <<now, serverVars, durable, clocks>>

Answered(stage) == call # None /\ call.stage = stage /\ call.reply # None

\* Mutant: the send stamp is not recorded.
record_clock_skipped == UNCHANGED clock_high

record_clock == clock_high' = call.send.wall

\* renew_ids: the clock record, then the lease record, in two transitions.
RenewRecordClock ==
  /\ Answered("renew") /\ call.reply.granted # {}
  /\ record_clock
  /\ Goto("renew_store")
  /\ UNCHANGED <<now, serverVars, records, tail, neck, clocks, mailbox>>

RenewStore ==
  /\ call # None /\ call.stage = "renew_store"
  /\ held' = [p \in LeasePrefix |->
       IF held[p] # None /\ held[p].lease.id \in call.ids
       THEN [held[p] EXCEPT !.deadline = Plus(call.send, held[p].lease.ttl),
                            !.lease.requested_at = call.send]
       ELSE held[p]]
  /\ revived' = revived \ call.ids
  /\ Goto("recheck")
  /\ UNCHANGED <<now, serverVars, clock_high, tail, neck, clocks, mailbox>>

RenewInvalid ==
  /\ Answered("renew") /\ call.reply.granted = {}
  /\ held' = Drop(call.ids)
  /\ Goto("recheck")
  /\ UNCHANGED <<now, serverVars, revived, clock_high, tail, neck, clocks, mailbox>>

LeaseRecheck ==
  /\ call # None /\ call.stage = "recheck"
  /\ AcquireMissing(call.spec)
  /\ UNCHANGED <<now, serverVars, durable, clocks>>

AcquireRecordClock ==
  /\ Answered("acquire") /\ call.reply.granted # {}
  /\ record_clock
  /\ Goto("acquire_store")
  /\ UNCHANGED <<now, serverVars, records, tail, neck, clocks, mailbox>>

AcquireStore ==
  /\ call # None /\ call.stage = "acquire_store"
  /\ held' = [p \in LeasePrefix |->
       IF p = call.spec.prefix
       THEN HeldFrom(CHOOSE lease \in call.reply.granted : TRUE, call.send) ELSE held[p]]
  /\ Goto("barrier")
  /\ UNCHANGED <<now, serverVars, revived, clock_high, tail, neck, clocks, mailbox>>

AcquireRefused ==
  /\ Answered("acquire") /\ call.reply.granted = {}
  /\ call' = None
  /\ UNCHANGED <<now, serverVars, durable, clocks, mailbox>>

\* The barrier pull that ends lease and repair_leases: the admit log is captured
\* at least up to the barriers of the leases now held.
BarrierPull ==
  /\ call # None /\ call.stage = "barrier"
  /\ tail' = IF \E h \in HeldRecords : Active(h) /\ lease_live(h) /\ tail <= h.lease.barrier
             THEN admission_high_water + 1 ELSE tail
  /\ call' = None
  /\ UNCHANGED <<now, serverVars, records, clock_high, neck, clocks, mailbox>>

\* unlease_inner: forget durably, release remotely, drop on acknowledgement.
UnleaseStart(ids) ==
  /\ call = None
  /\ held' = [p \in LeasePrefix |->
       IF held[p] # None /\ held[p].lease.id \in ids THEN [held[p] EXCEPT !.forgotten = TRUE]
       ELSE held[p]]
  /\ Send("release", None, ids)
  /\ UNCHANGED <<now, serverVars, revived, clock_high, tail, neck, clocks>>

UnleaseDrop ==
  /\ Answered("release")
  /\ held' = Drop(call.ids)
  /\ call' = None
  /\ UNCHANGED <<now, serverVars, revived, clock_high, tail, neck, clocks, mailbox>>

\* repair_leases: list what the server has, whenever the application asks.
RepairStart ==
  /\ call = None
  /\ Send("list", None, {})
  /\ UNCHANGED <<now, serverVars, durable, clocks>>

\* reconcile_leases: the server's view replaces the local one, one record per
\* prefix (the last listed wins), keeping the Forgotten mark of known ids.
Listed(p) == {lease \in call.reply.granted : lease.prefix = p}

LastListed(p) == CHOOSE l \in Listed(p) : \A m \in Listed(p) : m.id <= l.id

WasForgotten(lease) == \E h \in HeldRecords : h.lease.id = lease.id /\ h.forgotten

Reconciled(lease) ==
  [HeldFrom(lease, lease.requested_at) EXCEPT !.forgotten = WasForgotten(lease)]

RepairStore ==
  /\ Answered("list")
  /\ held' = [p \in LeasePrefix |-> IF Listed(p) = {} THEN None ELSE Reconciled(LastListed(p))]
  /\ revived' = {lease.id : lease \in {l \in call.reply.granted : l.requested_at.lineage < timeline}}
  /\ Goto("barrier")
  /\ UNCHANGED <<now, serverVars, clock_high, tail, neck, clocks, mailbox>>

Unanswered == [i \in DOMAIN mailbox |-> [mailbox[i] EXCEPT !.live = FALSE]]

\* A client whose open has stored what the reading voids, and not yet the clock.
Opening == call # None /\ call.stage = "open"

\* The transport failed or the caller dropped the future.
GiveUp ==
  /\ call # None /\ ~Opening
  /\ call' = None
  /\ mailbox' = Unanswered
  /\ UNCHANGED <<now, serverVars, durable, clocks>>

\* Admits::mark_applied: the application has applied captured batches.
MarkApplied ==
  /\ call = None
  /\ neck < tail
  /\ neck' = tail
  /\ UNCHANGED <<now, serverVars, records, clock_high, tail, clocks, call, mailbox>>
-----------------------------------------------------------------------------
\* certify's fourth invariant: no stored lease was sent past the clock record.
Certified == \A h \in HeldRecords : h.deadline.wall - h.lease.ttl <= clock_high

\* Mutant: a regressed wall is recorded but the stored deadlines are kept.
Judged_keeps_deadlines(reading) == held

\* Client::open: a wall behind the clock record voids every stored deadline.
Judged(reading) ==
  IF reading < clock_high
  THEN [p \in LeasePrefix |->
         IF held[p] = None THEN None ELSE [held[p] EXCEPT !.deadline = ZeroStamp]]
  ELSE held

\* The assumption about the wall clock across process death: it is at most
\* Margin behind, or so far back that the clock record shows it.
WallReading(reading) ==
  \/ reading - now >= anchor - Margin
  \/ WallRegresses /\ reading < clock_high

\* The process dies and the next one opens: certify must pass, or it panics.  A
\* regressed wall takes two transitions: the void deadlines, then the clock.  A
\* process that dies between them has stamped nothing, so its successor is counted
\* as the same.
Reopen(reading) ==
  /\ lineage < MaxLineage \/ Opening
  /\ Certified
  /\ WallReading(reading)
  /\ held' = Judged(reading)
  /\ revived' = IF reading < clock_high THEN {} ELSE revived
  /\ wall' = reading /\ mono' = 0
  /\ lineage' = IF Opening THEN lineage ELSE lineage + 1
  /\ anchor' = IF reading < clock_high \/ reading - now > anchor THEN reading - now ELSE anchor
  /\ timeline' = IF reading < clock_high THEN lineage' ELSE timeline
  /\ IF reading < clock_high
     THEN /\ call' = [stage |-> "open", spec |-> None, ids |-> {}, send |-> stamp', reply |-> None]
          /\ UNCHANGED clock_high
     ELSE call' = None /\ clock_high' = reading
  /\ mailbox' = Unanswered
  /\ UNCHANGED <<now, serverVars, tail, neck>>

\* Client::open, the second transition: the regressed reading is the clock record.
OpenRecord ==
  /\ Opening
  /\ record_clock
  /\ call' = None
  /\ UNCHANGED <<now, serverVars, records, tail, neck, clocks, mailbox>>

\* Time passes; a suspended process keeps its monotonic reading.
Pass(running) ==
  /\ now < MaxNow /\ wall < MaxWall
  /\ now' = now + 1 /\ wall' = wall + 1
  /\ mono' = IF running THEN mono + 1 ELSE mono
  /\ UNCHANGED <<serverVars, durable, lineage, anchor, timeline, call, mailbox>>
-----------------------------------------------------------------------------
\* The space actor executes the oldest request with the verbs of LeaseManager.
ServerStep ==
  /\ mailbox # <<>>
  /\ LET req == mailbox[1]
         reply(granted) ==
           call' = IF req.live THEN [call EXCEPT !.reply = [granted |-> granted]] ELSE call
         fresh == {rec \in leases' : rec.id >= next_lease_id}
         mine  == {rec \in leases' : rec.device = Me}
     IN  \/ /\ req.verb = "acquire"
            /\ Acquire(Me, <<req.spec>>, req.send)
            /\ reply({Public(rec) : rec \in fresh})
         \/ /\ req.verb = "renew"
            /\ Renew(Me, req.ids, req.send)
            /\ reply({Public(rec) : rec \in {r \in mine : r.id \in req.ids}})
         \/ /\ req.verb = "release"
            /\ Release(Me, req.ids)
            /\ reply({})
         \/ /\ req.verb = "list"
            /\ ListLeases
            /\ reply({Public(rec) : rec \in mine})
  /\ mailbox' = Tail(mailbox)
  /\ UNCHANGED <<durable, clocks>>

\* A new server process over the same store: its queue is gone.
ServerRestart ==
  /\ mailbox # <<>>
  /\ Restart
  /\ mailbox' = <<>>
  /\ call' = IF call # None /\ \E i \in DOMAIN mailbox : mailbox[i].live THEN None ELSE call
  /\ UNCHANGED <<durable, clocks>>

\* Some device has a batch admitted somewhere in the space.
SomeAdmission ==
  /\ admission_high_water < MaxHighWater
  /\ admission_high_water' = admission_high_water + 1
  /\ UNCHANGED <<now, leaseVars, durable, clocks, call, mailbox>>

Init ==
  /\ LeaseInit
  /\ held = [p \in LeasePrefix |-> None] /\ revived = {}
  /\ wall = 1 /\ mono = 0 /\ lineage = 1 /\ anchor = 1 /\ timeline = 1
  /\ clock_high = 1
  /\ tail = 1 /\ neck = 1
  /\ call = None /\ mailbox = <<>>

\* What an application may give up at a time.
HeldIds == (SUBSET {h.lease.id : h \in HeldRecords}) \ {{}}

\* Every step but giving leases up and what other devices do.
LeaseStep ==
  \/ \E spec \in Wanted : LeaseStart(spec)
  \/ RenewRecordClock \/ RenewStore \/ RenewInvalid \/ LeaseRecheck
  \/ AcquireRecordClock \/ AcquireStore \/ AcquireRefused
  \/ BarrierPull
  \/ UnleaseDrop
  \/ RepairStart \/ RepairStore
  \/ GiveUp \/ MarkApplied
  \/ (\E reading \in 1..MaxWall : Reopen(reading)) \/ OpenRecord
  \/ \E running \in BOOLEAN : Pass(running)
  \/ ServerStep \/ ServerRestart

Next == LeaseStep \/ (\E ids \in HeldIds : UnleaseStart(ids)) \/ SomeAdmission

Spec == Init /\ [][Next]_vars
-----------------------------------------------------------------------------
InFlight == [verb : Verb, spec : LeaseSpec \cup {None}, ids : SUBSET Nat, send : Stamps,
             live : BOOLEAN]

Record == [id : Nat, prefix : LeasePrefix, mode : Mode, device : {Me}, requested_at : Stamps,
           granted_at : Nat, barrier : Nat, deadline : Nat, ttl : Nat]

TypeOK ==
  /\ now \in Nat /\ wall \in Nat /\ mono \in Nat /\ lineage \in Nat /\ anchor \in Int
  /\ timeline \in 1..lineage /\ clock_high \in Nat
  /\ tail \in Nat /\ neck \in Nat /\ neck <= tail /\ tail <= admission_high_water + 1
  /\ next_lease_id \in Nat /\ admission_high_water \in Nat
  /\ leases \subseteq Record
  /\ mailbox \in Seq(InFlight)
  /\ held \in [LeasePrefix -> Held \cup {None}] /\ revived \in SUBSET Nat
  /\ call \in Call \cup {None}

\* The device takes the lease for live only while the server has it live, with the
\* same barrier.
Backing(h) ==
  Active(h) /\ lease_live(h) =>
    \E rec \in leases :
      rec.id = h.lease.id /\ rec.device = Me /\ is_live(rec) /\ rec.barrier = h.lease.barrier

\* Local authority is a subset of server authority (physics.md, "Clock domains"
\* and "Conservative local lease authority"), whatever was lost, delayed,
\* repaired or restarted, also after an open that found the wall behind the clock
\* record.
LocalAuthorityIsServerAuthority == \A h \in HeldRecords : Backing(h)

\* The same but for the leases to which repair_leases has given back a deadline
\* from before a detected regression of the wall: a lease the device takes to be
\* live, in whatever process, is live at the server.
LocalAuthorityUnlessRevived == \A h \in HeldRecords : h.lease.id \in revived \/ Backing(h)

\* certify passes at every open: "every lease's send stamp lies at or under"
\* the recorded clock high-water (meta.rs).
StampsUnderClockRecord == Certified

StampRecorded(p) == held[p] # None => held[p].deadline.wall - held[p].lease.ttl <= clock_high

\* What the step brings in at p is revived, or the device has no record of it: the
\* reply to its request never arrived.
Relearned(p) ==
  \/ held'[p].lease.id \in revived'
  \/ held[p] = None
  \/ held[p].lease.id # held'[p].lease.id
  \/ held[p].lease.requested_at # held'[p].lease.requested_at

\* No step takes a stored lease's send stamp above the clock record, wherever the
\* process dies between the two records, but repair_leases, and repair only for a
\* grant or renewal whose reply was lost or for a revived lease.
StampsRecordedFirst ==
  [][\A p \in LeasePrefix : StampRecorded(p) => StampRecorded(p)' \/ (RepairStore /\ Relearned(p))]_vars
=============================================================================
