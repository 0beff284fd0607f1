--------------------------- MODULE CheckedSubmits ---------------------------
(***************************************************************************)
(* Checked submissions (client/src/space.rs: submit_checked,               *)
(* unlease_checked) over the leases of ClientLeases.  A checked range      *)
(* assertion is substantiated by a usable lease when it is queued, and     *)
(* unlease_checked keeps a reservation over every assertion that is still  *)
(* waiting for its push.  The push itself is the subject of DevicePush:    *)
(* here the oldest submission is admitted or rolled back at once.          *)
(*                                                                         *)
(* An assertion is [prefix, upto, kept]: nobody else has written under     *)
(* prefix after the admission upto.  kept is a history variable: the       *)
(* reservation it was queued under has neither run out nor been given up   *)
(* by unlease_unchecked.                                                   *)
(***************************************************************************)
EXTENDS ClientLeases

CONSTANTS ForeignKeys,  \* keys other devices write
          Asserted,     \* prefixes the application asserts
          MaxQueue      \* bound: submissions waiting

VARIABLES queue,    \* the active checked assertions of the oplog, oldest first
          foreign   \* the last admission of another device at each key

assertVars == <<queue, foreign>>

\* A live held reservation over the prefix, usable or not yet.
Reserving(prefix, h) == Active(h) /\ lease_live(h) /\ starts_with(prefix, h.lease.prefix)

Reserved(prefix) == \E h \in HeldRecords : Reserving(prefix, h)

ReservedPrefixes == {prefix \in Asserted : Reserved(prefix)}

\* What a step that is not unlease_checked leaves of the reservations.
Lapse ==
  queue' = [i \in DOMAIN queue |->
    [queue[i] EXCEPT !.kept = @ /\ queue[i].prefix \notin ReservedPrefixes \ ReservedPrefixes']]

\* The server's answer to an assertion.
HoldsAtServer(a) == \A k \in ForeignKeys : starts_with(k, a.prefix) => foreign[k] <= a.upto
-----------------------------------------------------------------------------
\* check_range_asserts, for an assertion at the newest local cut.
Substantiated(prefix) ==
  \E h \in HeldRecords : starts_with(prefix, h.lease.prefix) /\ lease_usable(h)

\* submit_checked, up to the check.
SubmitStart(prefix) ==
  /\ call = None /\ Len(queue) < MaxQueue
  /\ Substantiated(prefix)
  /\ call' = [stage |-> "submit", spec |-> [prefix |-> prefix, upto |-> neck - 1],
              ids |-> {}, send |-> stamp, reply |-> None]
  /\ UNCHANGED <<now, serverVars, durable, clocks, mailbox, assertVars>>

\* persist_submission, after the awaits of preparing and sealing.
SubmitPersist ==
  /\ call # None /\ call.stage = "submit"
  /\ queue' = Append(queue, [prefix |-> call.spec.prefix, upto |-> call.spec.upto,
                             kept |-> Reserved(call.spec.prefix)])
  /\ call' = None
  /\ UNCHANGED <<now, serverVars, durable, clocks, mailbox, foreign>>

\* Mutant: a lease released by the same call counts as a replacement.
Replaced_by_released(ids, prefix) == \E h \in HeldRecords : Reserving(prefix, h)

Replaced(ids, prefix) ==
  \E h \in HeldRecords : h.lease.id \notin ids /\ Reserving(prefix, h)

\* reject_unlease_if_checked_assertions_lose_coverage
UnleaseBlocked(ids) ==
  \E i \in DOMAIN queue :
    /\ \E h \in HeldRecords : /\ h.lease.id \in ids /\ lease_usable(h)
                              /\ starts_with(queue[i].prefix, h.lease.prefix)
    /\ ~Replaced(ids, queue[i].prefix)

\* A reservation that is live and not usable yet is given up unchecked, although
\* "the replacement preserves exclusion; it need not yet be application-usable"
\* (space.rs, unlease_checked): an assertion it was the last to protect lapses.
GivenUpUnusable(ids, a) ==
  /\ Reserved(a.prefix) /\ ~Replaced(ids, a.prefix)
  /\ ~\E h \in HeldRecords :
        h.lease.id \in ids /\ lease_usable(h) /\ starts_with(a.prefix, h.lease.prefix)

UnleaseChecked(ids) ==
  /\ ~UnleaseBlocked(ids)
  /\ UnleaseStart(ids)
  /\ queue' = [i \in DOMAIN queue |->
                [queue[i] EXCEPT !.kept = @ /\ ~GivenUpUnusable(ids, queue[i])]]
  /\ UNCHANGED foreign

UnleaseUnchecked(ids) ==
  /\ UnleaseStart(ids)
  /\ Lapse
  /\ UNCHANGED foreign

\* The oldest submission is admitted, or the waiting ones are rolled back.
Settle ==
  /\ call = None /\ queue # <<>>
  /\ \/ /\ HoldsAtServer(queue[1])
        /\ admission_high_water < MaxHighWater
        /\ admission_high_water' = admission_high_water + 1
        /\ queue' = Tail(queue)
     \/ /\ ~HoldsAtServer(queue[1])
        /\ queue' = <<>>
        /\ UNCHANGED admission_high_water
  /\ UNCHANGED <<now, leaseVars, durable, clocks, call, mailbox, foreign>>

\* Another device writes a key no live lease covers.
ForeignWrite(key) ==
  /\ admission_high_water < MaxHighWater
  /\ covering(key) = {}
  /\ admission_high_water' = admission_high_water + 1
  /\ foreign' = [foreign EXCEPT ![key] = admission_high_water + 1]
  /\ UNCHANGED <<now, leaseVars, durable, clocks, call, mailbox, queue>>

AssertInit == queue = <<>> /\ foreign = [k \in ForeignKeys |-> 0]

AssertNext ==
  \/ LeaseStep /\ Lapse /\ UNCHANGED foreign
  \/ \E prefix \in Asserted : SubmitStart(prefix)
  \/ SubmitPersist
  \/ \E ids \in HeldIds : UnleaseChecked(ids) \/ UnleaseUnchecked(ids)
  \/ Settle
  \/ \E key \in ForeignKeys : ForeignWrite(key)
-----------------------------------------------------------------------------
\* A checked assertion holds at the server for as long as it waits, whatever is
\* leased, renewed, repaired or given up with unlease_checked meanwhile: it can
\* fail only once its reservation ran out or was given up unchecked (space.rs,
\* submit_checked and unlease_checked).
CheckedAssertsHold == \A i \in DOMAIN queue : queue[i].kept => HoldsAtServer(queue[i])
=============================================================================
