------------------------- MODULE ClientStepsProofs --------------------------
(***************************************************************************)
(* The inductive invariant of the lease workflows of a device, and the     *)
(* steps of the client that keep it: starting a workflow, sending its      *)
(* requests, storing what they brought, giving up.  ClientLeasesProofs     *)
(* has the steps of the clocks, of the processes and of the server, and    *)
(* the theorems.                                                           *)
(***************************************************************************)
EXTENDS ClientLeases, DataFacts

\* The wall of the running process is within the margin of the most it has been
\* ahead, and, once it is open, past the clock record.
ClocksOK ==
  (Opening \/ clock_high <= wall) /\ wall - now <= anchor /\ anchor - Margin <= wall - now

\* How far the wall of a process was ahead of the server, at most.
Ahead(l) == IF l = lineage THEN wall - now ELSE anchor

\* A wall reading of a process, as a server time it is not before.
OnServer(at) == at.wall - Ahead(at.lineage)

\* A stamp of the present time line was taken before a server time.
SentBy(send, time) ==
  send.lineage <= lineage /\ (send.lineage >= timeline => OnServer(send) <= time)

RecordsOK ==
  /\ \A rec \in leases :
       /\ rec.id < next_lease_id /\ rec.granted_at <= now /\ rec.deadline = rec.granted_at + rec.ttl
       /\ SentBy(rec.requested_at, rec.granted_at)
  /\ \A rec, other \in leases : rec.id = other.id => rec = other

\* A lease the client knows of is what the server has under that id, if anything.
Agrees(lease) ==
  /\ lease.id < next_lease_id
  /\ \A rec \in leases : rec.id = lease.id => rec.ttl = lease.ttl /\ rec.barrier = lease.barrier

\* Up to the deadline the server keeps the lease.
Backed(id, deadline) ==
  \/ OnServer(deadline) <= now
  \/ \E rec \in leases : rec.id = id /\ OnServer(deadline) <= rec.deadline

\* A stored lease: a deadline of the present time line is backed, one of an earlier
\* time line is void or was revived, and only a void deadline is not the lease's own.
StoredOK(h) ==
  /\ Agrees(h.lease)
  /\ h.deadline.lineage <= lineage
  /\ h.deadline.lineage < timeline => h.deadline.wall = 0 \/ h.lease.id \in revived
  /\ h.deadline.lineage >= timeline /\ ~h.forgotten => Backed(h.lease.id, h.deadline)
  /\ h.lease.requested_at.lineage <= lineage
  /\ h.lease.requested_at.lineage >= timeline => h.deadline = Plus(h.lease.requested_at, h.lease.ttl)

HeldOK == \A p \in LeasePrefix : held[p] # None => StoredOK(held[p])

Waiting == call # None /\ call.stage \in Verb /\ call.reply = None

\* Only the last request is waited for, and what a release names is forgotten.
MailOK ==
  \A i \in 1..Len(mailbox) :
    /\ SentBy(mailbox[i].send, now)
    /\ mailbox[i].verb = "acquire" => mailbox[i].spec \in LeaseSpec
    /\ mailbox[i].verb = "release" =>
         \A p \in LeasePrefix : held[p] # None /\ held[p].lease.id \in mailbox[i].ids => held[p].forgotten
    /\ mailbox[i].live =>
         /\ i = Len(mailbox) /\ Waiting /\ mailbox[i].verb = call.stage
         /\ mailbox[i].ids = call.ids /\ mailbox[i].spec = call.spec /\ mailbox[i].send = call.send

Replied(stages) == call # None /\ call.stage \in stages /\ call.reply # None /\ call.reply.granted # {}

\* While a regressed open has not recorded its clock, every deadline is void and no
\* stamp is of the new time line.
VoidOK ==
  /\ timeline = lineage
  /\ \A p \in LeasePrefix : held[p] # None =>
       held[p].deadline = ZeroStamp /\ held[p].lease.requested_at.lineage < timeline
  /\ \A rec \in leases : rec.requested_at.lineage < timeline
  /\ \A i \in 1..Len(mailbox) : mailbox[i].send.lineage < timeline

\* The workflow: its stamp is of this process and past the clock record, and
\* once it is answered nothing is in flight.
CallOK ==
  call # None =>
    /\ call.send.lineage = lineage /\ call.send.wall <= wall
    /\ IF call.stage = "open" THEN call.reply = None /\ VoidOK ELSE clock_high <= call.send.wall
    /\ call.reply # None => mailbox = <<>>
    /\ call.stage \in {"renew_store", "recheck", "acquire_store"} => call.reply # None
    /\ call.stage \in {"renew", "renew_store", "recheck", "acquire", "acquire_store"} => call.spec \in LeaseSpec
    /\ call.stage \in {"renew", "renew_store"} => \E id \in Nat : call.ids = {id}
    /\ call.stage \in {"renew_store", "acquire_store"} =>
         clock_high = call.send.wall /\ call.reply.granted # {}

RenewOK ==
  Replied({"renew", "renew_store"}) =>
    \A p \in LeasePrefix : held[p] # None /\ held[p].lease.id \in call.ids =>
      Backed(held[p].lease.id, Plus(call.send, held[p].lease.ttl))

AcquireOK ==
  Replied({"acquire", "acquire_store"}) =>
    \A lease \in call.reply.granted :
      /\ Agrees(lease) /\ lease.requested_at = call.send
      /\ Backed(lease.id, Plus(call.send, lease.ttl))

ListOK ==
  Replied({"list"}) =>
    \A lease \in call.reply.granted :
      /\ Agrees(lease) /\ lease.requested_at.lineage <= lineage
      /\ lease.requested_at.lineage >= timeline => Backed(lease.id, Plus(lease.requested_at, lease.ttl))

LeaseInv ==
  /\ TypeOK /\ ClocksOK /\ RecordsOK /\ HeldOK /\ MailOK
  /\ CallOK /\ RenewOK /\ AcquireOK /\ ListOK

\* The first process: no record, no request, the wall one tick ahead.
LEMMA LeaseInitInv == Init => LeaseInv
<1> SUFFICES ASSUME Init PROVE LeaseInv
  BY Zenon
<1>1. TypeOK /\ ClocksOK /\ RecordsOK /\ HeldOK
  BY ClientAssumption DEF Init, LeaseInit, TypeOK, ClocksOK, RecordsOK, HeldOK, Opening
<1>2. MailOK /\ CallOK /\ RenewOK /\ AcquireOK /\ ListOK
  BY DEF Init, MailOK, CallOK, RenewOK, AcquireOK, ListOK, Replied, Waiting
<1> QED BY <1>1, <1>2, Zenon DEF LeaseInv

\* What a client's own steps leave as it is: server times of stamps, the server's
\* records and what they say of a lease.
LEMMA Still ==
  ASSUME UNCHANGED <<now, wall, lineage, anchor, timeline, leases, next_lease_id>>
  PROVE  /\ \A at : OnServer(at)' = OnServer(at)
         /\ \A send, time : SentBy(send, time) => SentBy(send, time)'
         /\ \A lease : Agrees(lease) => Agrees(lease)'
         /\ \A id, deadline : Backed(id, deadline) => Backed(id, deadline)'
         /\ RecordsOK => RecordsOK'
<1>1. \A at : OnServer(at)' = OnServer(at)
  BY Zenon DEF OnServer, Ahead
<1>2. \A send, time : SentBy(send, time) => SentBy(send, time)'
  BY <1>1, Zenon DEF SentBy
<1>3. \A lease : Agrees(lease) => Agrees(lease)'
  BY Zenon DEF Agrees
<1>4. \A id, deadline : Backed(id, deadline) => Backed(id, deadline)'
  BY <1>1, Zenon DEF Backed
<1>5. RecordsOK => RecordsOK'
  BY <1>2, Zenon DEF RecordsOK
<1> QED BY <1>1, <1>2, <1>3, <1>4, <1>5, Zenon

\* A stamp taken now is of this process and not in the future.
LEMMA StampNow ==
  ASSUME TypeOK, ClocksOK
  PROVE  /\ stamp \in Stamps /\ stamp.lineage = lineage /\ stamp.wall = wall
         /\ SentBy(stamp, now)
<1>1. stamp \in Stamps /\ stamp.lineage = lineage /\ stamp.wall = wall
  BY Zenon DEF stamp, Stamps, TypeOK
<1> QED BY <1>1 DEF SentBy, OnServer, Ahead, TypeOK

\* The processes and the clock record are counted in naturals.
LEMMA ClockTypes ==
  ASSUME LeaseInv
  PROVE  lineage \in Nat /\ timeline \in Nat /\ clock_high \in Nat
  BY DEF LeaseInv, TypeOK

\* An idle client, or one whose request is answered, is past its opening.
LEMMA NotOpening ==
  ASSUME LeaseInv, call = None \/ call.reply # None \/ call.stage # "open"
  PROVE  ~Opening /\ clock_high <= wall
<1>1. ~Opening
  BY Zenon DEF LeaseInv, CallOK, Opening
<1> QED BY <1>1, Zenon DEF LeaseInv, ClocksOK

\* Issuing a request: it is the last of the mailbox and the only one waited for.
LEMMA SendKeeps ==
  ASSUME LeaseInv, UNCHANGED <<now, clocks, leases, next_lease_id, clock_high>>,
         call = None \/ call.reply # None,
         NEW stage \in Verb, NEW spec \in LeaseSpec \cup {None}, NEW ids \in SUBSET Nat,
         stage \in {"acquire", "renew"} => spec \in LeaseSpec,
         stage = "renew" => \E id \in Nat : ids = {id},
         \A i \in 1..Len(mailbox) : mailbox[i].verb = "release" =>
           \A p \in LeasePrefix :
             held'[p] # None /\ held'[p].lease.id \in mailbox[i].ids => held'[p].forgotten,
         stage = "release" =>
           \A p \in LeasePrefix : held'[p] # None /\ held'[p].lease.id \in ids => held'[p].forgotten,
         Send(stage, spec, ids)
  PROVE  /\ mailbox' \in Seq(InFlight) /\ call' \in Call
         /\ MailOK' /\ CallOK' /\ RenewOK' /\ AcquireOK' /\ ListOK'
<1> DEFINE req == Request(stage, spec, ids)
           n == Len(mailbox) + 1
<1>1. stamp \in Stamps /\ stamp.lineage = lineage /\ stamp.wall = wall /\ SentBy(stamp, now)
  BY StampNow, Zenon DEF LeaseInv
<1>2. /\ req \in InFlight /\ req.verb = stage /\ req.spec = spec /\ req.ids = ids /\ req.send = stamp
      /\ mailbox' = Append(mailbox, req) /\ mailbox \in Seq(InFlight)
  BY <1>1, Zenon DEF Request, InFlight, Send, LeaseInv, TypeOK
<1>3. /\ mailbox' \in Seq(InFlight) /\ n \in Nat /\ Len(mailbox') = n /\ mailbox'[n] = req
      /\ \A i \in 1..n : i = n \/ (i \in 1..Len(mailbox) /\ mailbox'[i] = mailbox[i])
  BY <1>2
<1>4. /\ call' = [stage |-> stage, spec |-> spec, ids |-> ids, send |-> stamp, reply |-> None]
      /\ call' \in Call
  BY <1>1, Zenon DEF Send, Call, Stage
<1>5. \A i \in 1..Len(mailbox) : ~mailbox[i].live
  BY Zenon DEF LeaseInv, MailOK, Waiting
<1>6. \A send, time : SentBy(send, time) => SentBy(send, time)'
  BY Still, Zenon DEF clocks
<1>7. now' = now /\ lineage' = lineage /\ wall' = wall /\ clock_high' = clock_high /\ timeline' = timeline
  BY Zenon DEF clocks
<1>8. Waiting'
  BY <1>4, CallAssumption, Zenon DEF Waiting
<1>9. MailOK'
  <2> SUFFICES ASSUME NEW i \in 1..n
               PROVE  /\ SentBy(mailbox[i].send, now)'
                      /\ mailbox'[i].verb = "acquire" => mailbox'[i].spec \in LeaseSpec
                      /\ mailbox'[i].verb = "release" =>
                           \A p \in LeasePrefix :
                             held'[p] # None /\ held'[p].lease.id \in mailbox'[i].ids => held'[p].forgotten
                      /\ mailbox'[i].live =>
                           /\ i = n /\ mailbox'[i].verb = call'.stage
                           /\ mailbox'[i].ids = call'.ids /\ mailbox'[i].spec = call'.spec
                           /\ mailbox'[i].send = call'.send
    BY <1>3, <1>8, Zenon DEF MailOK
  <2>1. CASE i = n
    <3>1. SentBy(mailbox[i].send, now)'
      BY <2>1, <1>1, <1>2, <1>3, <1>7, Zenon DEF SentBy, OnServer, Ahead, clocks
    <3> QED BY <3>1, <2>1, <1>2, <1>3, <1>4
  <2>2. CASE i \in 1..Len(mailbox) /\ mailbox'[i] = mailbox[i]
    <3>1. SentBy(mailbox[i].send, now)'
      BY <2>2, <1>7, Zenon DEF LeaseInv, MailOK, SentBy, OnServer, Ahead, clocks
    <3> QED BY <3>1, <2>2, <1>5, Zenon DEF LeaseInv, MailOK
  <2> QED BY <2>1, <2>2, <1>3, Zenon
<1>10. CallOK'
  <2>1. call'.stage = stage /\ call'.spec = spec /\ call'.ids = ids /\ call'.send = stamp /\ call'.reply = None
    BY <1>4, Zenon
  <2>2. call'.send.lineage = lineage' /\ call'.send.wall <= wall' /\ clock_high' <= call'.send.wall
    <3>1. clock_high <= wall /\ wall <= wall
      BY NotOpening DEF LeaseInv, TypeOK
    <3> QED BY <3>1, <2>1, <1>1, <1>7, Zenon
  <2>3. stage \notin {"open", "renew_store", "recheck", "acquire_store"}
    BY DEF Verb
  <2> QED BY <2>1, <2>2, <2>3, Zenon DEF CallOK
<1>11. RenewOK' /\ AcquireOK' /\ ListOK'
  BY <1>4, Zenon DEF RenewOK, AcquireOK, ListOK, Replied
<1> QED BY <1>3, <1>4, <1>9, <1>10, <1>11, Zenon

\* What the fields of requests in flight are.
LEMMA MailTypes ==
  ASSUME TypeOK
  PROVE  /\ Len(mailbox) \in Nat
         /\ \A i \in 1..Len(mailbox) :
              /\ mailbox[i] \in InFlight /\ mailbox[i].send \in Stamps
              /\ mailbox[i].ids \in SUBSET Nat /\ mailbox[i].verb \in Verb
<1>1. \A i \in 1..Len(mailbox) : mailbox[i] \in InFlight
  BY DEF TypeOK
<1>2. \A m \in InFlight : m.send \in Stamps /\ m.ids \in SUBSET Nat /\ m.verb \in Verb
  BY Zenon DEF InFlight
<1> QED BY <1>1, <1>2 DEF TypeOK

\* Requests nobody waits for any more.
LEMMA AbandonedMail ==
  ASSUME TypeOK
  PROVE  /\ Unanswered \in Seq(InFlight) /\ Len(Unanswered) = Len(mailbox)
         /\ \A i \in 1..Len(mailbox) :
              /\ Unanswered[i].verb = mailbox[i].verb /\ Unanswered[i].spec = mailbox[i].spec
              /\ Unanswered[i].ids = mailbox[i].ids /\ Unanswered[i].send = mailbox[i].send
              /\ ~Unanswered[i].live
<1>1. mailbox \in Seq(InFlight) /\ Len(mailbox) \in Nat /\ DOMAIN mailbox = 1..Len(mailbox)
  BY DEF TypeOK
<1>2. \A i \in 1..Len(mailbox) : mailbox[i] \in InFlight
  BY <1>1
<1>3. \A m \in InFlight :
        LET u == [m EXCEPT !.live = FALSE] IN
        /\ u \in InFlight /\ ~u.live
        /\ u.verb = m.verb /\ u.spec = m.spec /\ u.ids = m.ids /\ u.send = m.send
  BY Zenon DEF InFlight
<1>4. Unanswered = [i \in 1..Len(mailbox) |-> [mailbox[i] EXCEPT !.live = FALSE]]
  BY <1>1, Zenon DEF Unanswered
<1>5. Unanswered \in [1..Len(mailbox) -> InFlight]
  BY <1>2, <1>3, <1>4, Zenon
<1>6. Unanswered \in Seq(InFlight) /\ Len(Unanswered) = Len(mailbox)
  BY <1>1, <1>5
<1> QED BY <1>2, <1>3, <1>4, <1>6, Zenon

\* A step that leaves the lease records and the clocks alone keeps what is said of
\* them.
LEMMA StoresStay ==
  ASSUME LeaseInv, UNCHANGED <<now, clocks, leases, next_lease_id, clock_high, held, revived>>,
         Opening => Opening'
  PROVE  ClocksOK' /\ RecordsOK' /\ HeldOK'
<1>1. UNCHANGED <<now, wall, lineage, anchor, timeline, leases, next_lease_id, held, revived, clock_high>>
  BY Zenon DEF clocks
<1>2. ClocksOK'
  BY <1>1, Zenon DEF LeaseInv, ClocksOK
<1>3. RecordsOK'
  BY <1>1, Still, Zenon DEF LeaseInv
<1>4. HeldOK'
  <2> SUFFICES ASSUME NEW p \in LeasePrefix, held[p] # None PROVE StoredOK(held[p])'
    BY <1>1, Zenon DEF HeldOK
  <2>1. StoredOK(held[p])
    BY Zenon DEF LeaseInv, HeldOK
  <2> QED BY <2>1, <1>1, ZenonT(30) DEF StoredOK, Agrees, Backed, OnServer, Ahead, Plus
<1> QED BY <1>2, <1>3, <1>4, Zenon

\* A step that leaves every store alone has only the workflow and the mailbox to
\* answer for.
LEMMA OnlyCallMoves ==
  ASSUME LeaseInv, UNCHANGED <<now, serverVars, durable, clocks>>,
         mailbox' \in Seq(InFlight), call' \in Call \cup {None}, Opening => Opening',
         MailOK', CallOK', RenewOK', AcquireOK', ListOK'
  PROVE  LeaseInv'
<1>1. UNCHANGED <<now, clocks, leases, next_lease_id, clock_high, held, revived>>
  BY Zenon DEF serverVars, leaseVars, durable, records
<1>2. TypeOK'
  BY Zenon DEF LeaseInv, TypeOK, serverVars, leaseVars, durable, records, clocks
<1> QED BY <1>1, <1>2, StoresStay, Zenon DEF LeaseInv

\* A workflow that ends, or goes on without a reply, waits for nothing.
LEMMA NotWaiting ==
  ASSUME LeaseInv, UNCHANGED <<now, clocks, leases, next_lease_id, clock_high, held, revived>>,
         call = None \/ call.reply # None \/ call.stage = "barrier",
         mailbox' = mailbox,
         call' = None \/ \E spec \in LeaseSpec :
           call' = [stage |-> "barrier", spec |-> spec, ids |-> {}, send |-> stamp, reply |-> None]
  PROVE  /\ mailbox' \in Seq(InFlight) /\ call' \in Call \cup {None}
         /\ MailOK' /\ CallOK' /\ RenewOK' /\ AcquireOK' /\ ListOK'
<1>1. stamp \in Stamps /\ stamp.lineage = lineage /\ stamp.wall = wall
  BY StampNow, Zenon DEF LeaseInv
<1>2. mailbox' \in Seq(InFlight) /\ call' \in Call \cup {None}
  BY <1>1 DEF LeaseInv, TypeOK, Call, Stage
<1>3. \A i \in 1..Len(mailbox) : ~mailbox[i].live
  BY Zenon DEF LeaseInv, MailOK, Waiting, Verb
<1>4. MailOK'
  <2>1. \A i \in 1..Len(mailbox) : SentBy(mailbox[i].send, now)'
    BY Zenon DEF LeaseInv, MailOK, SentBy, OnServer, Ahead, clocks
  <2> QED BY <2>1, <1>3, Zenon DEF LeaseInv, MailOK
<1>5. CallOK'
  BY <1>1, NotOpening, SMTT(30) DEF CallOK, LeaseInv, TypeOK, clocks
<1>6. RenewOK' /\ AcquireOK' /\ ListOK'
  BY DEF RenewOK, AcquireOK, ListOK, Replied, Waiting, Verb
<1> QED BY <1>2, <1>4, <1>5, <1>6, Zenon

\* lease_inner's second half.
LEMMA AcquireMissingKeeps ==
  ASSUME LeaseInv, NEW spec \in LeaseSpec, call = None \/ call.reply # None,
         AcquireMissing(spec), UNCHANGED <<now, serverVars, durable, clocks>>
  PROVE  LeaseInv'
<1>1. UNCHANGED <<now, clocks, leases, next_lease_id, clock_high, held, revived>>
  BY Zenon DEF serverVars, leaseVars, durable, records
<1>2. \A i \in 1..Len(mailbox) : mailbox[i].verb = "release" =>
        \A p \in LeasePrefix : held'[p] # None /\ held'[p].lease.id \in mailbox[i].ids => held'[p].forgotten
  BY <1>1, Zenon DEF LeaseInv, MailOK
<1>3. CASE Available(spec) # {}
  <2>1. /\ mailbox' \in Seq(InFlight) /\ call' \in Call \cup {None}
        /\ MailOK' /\ CallOK' /\ RenewOK' /\ AcquireOK' /\ ListOK'
    BY <1>1, <1>3, NotWaiting, Zenon DEF AcquireMissing
  <2> QED BY <2>1, NotOpening, OnlyCallMoves, Zenon
<1>4. CASE Send("acquire", spec, {})
  <2>1. /\ mailbox' \in Seq(InFlight) /\ call' \in Call
        /\ MailOK' /\ CallOK' /\ RenewOK' /\ AcquireOK' /\ ListOK'
    <3> DEFINE ids == {}
    <3>1. ids \in SUBSET Nat /\ Send("acquire", spec, ids) /\ "acquire" \in Verb /\ spec \in LeaseSpec \cup {None}
      BY <1>4, Zenon DEF Verb
    <3> HIDE DEF ids
    <3> QED BY <3>1, <1>1, <1>2, SendKeeps, Zenon
  <2> QED BY <2>1, NotOpening, OnlyCallMoves, Zenon
<1> QED BY <1>3, <1>4, Zenon DEF AcquireMissing

\* lease.
LEMMA LeaseStartKeeps ==
  ASSUME LeaseInv, NEW spec \in Wanted, LeaseStart(spec)
  PROVE  LeaseInv'
<1>1. spec \in LeaseSpec /\ call = None /\ UNCHANGED <<now, serverVars, durable, clocks>>
  BY ClientAssumption, Zenon DEF LeaseStart
<1>2. UNCHANGED <<now, clocks, leases, next_lease_id, clock_high, held, revived>>
  BY <1>1, Zenon DEF serverVars, leaseVars, durable, records
<1>3. ASSUME NEW h \in Revivable(spec), Send("renew", spec, {h.lease.id}) PROVE LeaseInv'
  <2> DEFINE ids == {h.lease.id}
  <2>1. h.lease.id \in Nat
    BY Zenon DEF Revivable, HeldRecords, LeaseInv, TypeOK, Held, Lease
  <2>2. \A i \in 1..Len(mailbox) : mailbox[i].verb = "release" =>
          \A p \in LeasePrefix : held'[p] # None /\ held'[p].lease.id \in mailbox[i].ids => held'[p].forgotten
    BY <1>2, Zenon DEF LeaseInv, MailOK
  <2>3. /\ ids \in SUBSET Nat /\ (\E id \in Nat : ids = {id}) /\ Send("renew", spec, ids)
        /\ "renew" \in Verb /\ spec \in LeaseSpec \cup {None}
    BY <1>1, <1>3, <2>1, Zenon DEF Verb
  <2> HIDE DEF ids
  <2>4. /\ mailbox' \in Seq(InFlight) /\ call' \in Call
        /\ MailOK' /\ CallOK' /\ RenewOK' /\ AcquireOK' /\ ListOK'
    BY <1>1, <1>2, <2>2, <2>3, SendKeeps, Zenon
  <2> QED BY <2>4, <1>1, NotOpening, OnlyCallMoves, Zenon
<1>4. CASE AcquireMissing(spec)
  BY <1>1, <1>4, AcquireMissingKeeps, Zenon
<1> QED BY <1>3, <1>4, Zenon DEF LeaseStart

\* lease_inner after the renewal.
LEMMA LeaseRecheckKeeps ==
  ASSUME LeaseInv, LeaseRecheck
  PROVE  LeaseInv'
<1>1. call.spec \in LeaseSpec /\ call.reply # None
  BY Zenon DEF LeaseInv, CallOK, LeaseRecheck
<1> QED BY <1>1, AcquireMissingKeeps, Zenon DEF LeaseRecheck

\* repair_leases, up to its request.
LEMMA RepairStartKeeps ==
  ASSUME LeaseInv, RepairStart
  PROVE  LeaseInv'
<1>1. call = None /\ UNCHANGED <<now, serverVars, durable, clocks>>
  BY Zenon DEF RepairStart
<1>2. UNCHANGED <<now, clocks, leases, next_lease_id, clock_high, held, revived>>
  BY <1>1, Zenon DEF serverVars, leaseVars, durable, records
<1>3. \A i \in 1..Len(mailbox) : mailbox[i].verb = "release" =>
        \A p \in LeasePrefix : held'[p] # None /\ held'[p].lease.id \in mailbox[i].ids => held'[p].forgotten
  BY <1>2, Zenon DEF LeaseInv, MailOK
<1>4. /\ mailbox' \in Seq(InFlight) /\ call' \in Call
      /\ MailOK' /\ CallOK' /\ RenewOK' /\ AcquireOK' /\ ListOK'
  <2> DEFINE ids == {}
             spec == None
  <2>1. ids \in SUBSET Nat /\ Send("list", spec, ids) /\ "list" \in Verb /\ spec \in LeaseSpec \cup {None}
    BY Zenon DEF RepairStart, Verb
  <2> HIDE DEF ids, spec
  <2> QED BY <2>1, <1>1, <1>2, <1>3, SendKeeps, Zenon
<1> QED BY <1>4, <1>1, NotOpening, OnlyCallMoves, Zenon

\* Refused leases and abandoned workflows.
LEMMA EndKeeps ==
  ASSUME LeaseInv, AcquireRefused \/ GiveUp
  PROVE  LeaseInv'
<1>1. call' = None /\ UNCHANGED <<now, serverVars, durable, clocks>>
  BY Zenon DEF AcquireRefused, GiveUp
<1>2. UNCHANGED <<now, clocks, leases, next_lease_id, clock_high, held, revived>>
  BY <1>1, Zenon DEF serverVars, leaseVars, durable, records
<1>3. CASE AcquireRefused
  <2>1. /\ mailbox' \in Seq(InFlight) /\ call' \in Call \cup {None}
        /\ MailOK' /\ CallOK' /\ RenewOK' /\ AcquireOK' /\ ListOK'
    BY <1>1, <1>2, <1>3, NotWaiting, Zenon DEF AcquireRefused, Answered
  <2>2. ~Opening
    BY <1>3, NotOpening, Zenon DEF AcquireRefused, Answered
  <2> QED BY <2>1, <2>2, <1>1, OnlyCallMoves, Zenon
<1>4. CASE GiveUp
  <2>1. mailbox' = Unanswered /\ ~Opening
    BY <1>4, Zenon DEF GiveUp
  <2>2. /\ mailbox' \in Seq(InFlight) /\ Len(mailbox') = Len(mailbox)
        /\ \A i \in 1..Len(mailbox) :
             /\ mailbox'[i].verb = mailbox[i].verb /\ mailbox'[i].spec = mailbox[i].spec
             /\ mailbox'[i].ids = mailbox[i].ids /\ mailbox'[i].send = mailbox[i].send
             /\ ~mailbox'[i].live
    BY <2>1, AbandonedMail, Zenon DEF LeaseInv
  <2>3. MailOK'
    <3>1. \A i \in 1..Len(mailbox) : SentBy(mailbox[i].send, now)'
      BY <2>2, <1>2, Zenon DEF LeaseInv, MailOK, SentBy, OnServer, Ahead, clocks
    <3> QED BY <2>2, <3>1, <1>2 DEF LeaseInv, MailOK
  <2>4. CallOK' /\ RenewOK' /\ AcquireOK' /\ ListOK'
    BY <1>1, Zenon DEF CallOK, RenewOK, AcquireOK, ListOK, Replied, Waiting
  <2> QED BY <2>1, <2>2, <2>3, <2>4, <1>1, OnlyCallMoves, Zenon
<1> QED BY <1>3, <1>4, Zenon

\* Records the client keeps as they are.
LEMMA KeptRecord ==
  ASSUME LeaseInv, UNCHANGED <<now, clocks, leases, next_lease_id>>,
         NEW p \in LeasePrefix, held'[p] = held[p], held[p] # None,
         held[p].lease.id \in revived => held[p].lease.id \in revived'
  PROVE  StoredOK(held[p])'
<1>1. StoredOK(held[p])
  BY Zenon DEF LeaseInv, HeldOK
<1>2. Agrees(held[p].lease)'
  BY <1>1, Zenon DEF StoredOK, Agrees
<1>3. Backed(held[p].lease.id, held[p].deadline) => Backed(held[p].lease.id, held[p].deadline)'
  BY Zenon DEF Backed, OnServer, Ahead, clocks
<1> QED BY <1>1, <1>2, <1>3, Zenon DEF StoredOK, clocks, Plus

\* A step of the client that stores leases has the stored leases to answer for,
\* and its workflow.
LEMMA OnlyHeldMoves ==
  ASSUME LeaseInv, UNCHANGED <<now, serverVars, tail, neck, clocks, mailbox>>,
         clock_high' \in Nat, clock_high' <= wall, revived' \in SUBSET Nat,
         held' \in [LeasePrefix -> Held \cup {None}], HeldOK',
         mailbox = <<>>, call' \in Call \cup {None}, CallOK', RenewOK', AcquireOK', ListOK'
  PROVE  LeaseInv'
<1>1. UNCHANGED <<now, wall, lineage, anchor, timeline, leases, next_lease_id>>
  BY Zenon DEF serverVars, leaseVars, clocks
<1>2. TypeOK'
  BY Zenon DEF LeaseInv, TypeOK, serverVars, leaseVars, clocks
<1>3. ClocksOK' /\ MailOK'
  BY <1>1 DEF LeaseInv, ClocksOK, MailOK
<1>4. RecordsOK'
  BY <1>1, Still, Zenon DEF LeaseInv
<1> QED BY <1>2, <1>3, <1>4, Zenon DEF LeaseInv

\* record_clock: the stamp of the workflow is past the clock record, so what is
\* stored stays under it.
LEMMA RecordClockKeeps ==
  ASSUME LeaseInv, RenewRecordClock \/ AcquireRecordClock
  PROVE  LeaseInv'
<1>1. PICK s \in {"renew", "acquire"} :
        /\ Answered(s) /\ call.reply.granted # {} /\ clock_high' = call.send.wall
        /\ call' = [call EXCEPT !.stage = IF s = "renew" THEN "renew_store" ELSE "acquire_store"]
        /\ UNCHANGED <<now, serverVars, held, revived, tail, neck, clocks, mailbox>>
  BY Zenon DEF RenewRecordClock, AcquireRecordClock, record_clock, Goto, records
<1>2. call \in Call /\ call # None /\ call.stage = s /\ call.reply # None /\ mailbox = <<>>
  BY <1>1, Zenon DEF Answered, LeaseInv, TypeOK, CallOK
<1>3. call.send \in Stamps /\ call.send.wall \in Nat /\ call.send.wall <= wall
  BY <1>2, Zenon DEF LeaseInv, CallOK, Call, Stamps
<1>4. /\ call' \in Call /\ call'.send = call.send /\ call'.spec = call.spec /\ call'.ids = call.ids
      /\ call'.reply = call.reply
      /\ call'.stage = IF s = "renew" THEN "renew_store" ELSE "acquire_store"
  BY <1>1, <1>2, Zenon DEF Call, Stage
<1>5. UNCHANGED <<now, wall, lineage, anchor, timeline, leases, next_lease_id, held, revived, clocks>>
  BY <1>1, Zenon DEF serverVars, leaseVars, clocks
<1>6. HeldOK'
  <2>1. \A p \in LeasePrefix : held'[p] = held[p]
    BY <1>5, Zenon
  <2>2. UNCHANGED <<now, clocks, leases, next_lease_id>>
    BY <1>5, Zenon
  <2> QED BY <2>1, <2>2, <1>5, KeptRecord, Zenon DEF HeldOK
<1>7. CallOK'
  BY <1>1, <1>2, <1>3, <1>4, <1>5 DEF LeaseInv, CallOK
<1>8. RenewOK'
  <2> SUFFICES ASSUME s = "renew", NEW p \in LeasePrefix, held[p] # None, held[p].lease.id \in call.ids
               PROVE  Backed(held[p].lease.id, Plus(call.send, held[p].lease.ttl))'
    BY <1>4, <1>5, Zenon DEF RenewOK, Replied
  <2>1. Backed(held[p].lease.id, Plus(call.send, held[p].lease.ttl))
    BY <1>1, <1>2, Zenon DEF LeaseInv, RenewOK, Replied
  <2> QED BY <2>1, <1>4, <1>5, Zenon DEF Backed, OnServer, Ahead
<1>9. AcquireOK'
  <2> SUFFICES ASSUME s = "acquire", NEW lease \in call.reply.granted
               PROVE  /\ Agrees(lease)' /\ lease.requested_at = call.send
                      /\ \A c : c = call' => Backed(lease.id, Plus(c.send, lease.ttl))'
    BY <1>4, <1>5, Zenon DEF AcquireOK, Replied
  <2>1. Agrees(lease) /\ lease.requested_at = call.send /\ Backed(lease.id, Plus(call.send, lease.ttl))
    BY <1>1, <1>2, Zenon DEF LeaseInv, AcquireOK, Replied
  <2> QED BY <2>1, <1>4, <1>5, Zenon DEF Agrees, Backed, OnServer, Ahead
<1>10. ListOK'
  BY <1>4, Zenon DEF ListOK, Replied, Waiting, Verb
<1>11. clock_high' \in Nat /\ clock_high' <= wall
  BY <1>1, <1>3, Zenon
<1>12. held' \in [LeasePrefix -> Held \cup {None}] /\ revived' \in SUBSET Nat
  BY <1>5, Zenon DEF LeaseInv, TypeOK
<1> QED BY <1>1, <1>2, <1>4, <1>6, <1>7, <1>8, <1>9, <1>10, <1>11, <1>12, OnlyHeldMoves, Zenon

\* The answered workflow: what its actions start from.
LEMMA AnsweredCall ==
  ASSUME LeaseInv, call # None, call.reply # None
  PROVE  /\ call \in Call /\ mailbox = <<>>
         /\ call.send \in Stamps /\ call.send.wall \in Nat /\ call.send.mono \in Nat
         /\ call.send.lineage = lineage /\ clock_high <= call.send.wall /\ call.send.wall <= wall
         /\ call.reply.granted \in SUBSET Lease
  BY Zenon DEF LeaseInv, TypeOK, CallOK, Call, Reply, Stamps

\* A later step of the answered workflow that waits for nothing more.
LEMMA GoesOn ==
  ASSUME LeaseInv, call # None, call.reply # None,
         NEW s \in {"recheck", "barrier"}, s = "recheck" => call.spec \in LeaseSpec, Goto(s),
         UNCHANGED <<mailbox, clocks, clock_high>>
  PROVE  call' \in Call /\ CallOK' /\ RenewOK' /\ AcquireOK' /\ ListOK'
<1>1. /\ call \in Call /\ mailbox = <<>> /\ call.send.lineage = lineage
      /\ clock_high <= call.send.wall /\ call.send.wall <= wall
  BY AnsweredCall, Zenon
<1>2. /\ call' \in Call /\ call'.send = call.send /\ call'.spec = call.spec
      /\ call'.reply = call.reply /\ call'.stage = s
  BY <1>1, Zenon DEF Goto, Call, Stage
<1>3. CallOK'
  BY <1>1, <1>2, Zenon DEF CallOK, clocks
<1>4. RenewOK' /\ AcquireOK' /\ ListOK'
  BY <1>2, Zenon DEF RenewOK, AcquireOK, ListOK, Replied, Waiting, Verb
<1> QED BY <1>2, <1>3, <1>4, Zenon

\* A stamp of this process with a time to live added.
LEMMA PlusIsStamp ==
  ASSUME NEW at \in Stamps, NEW ttl \in Nat
  PROVE  /\ Plus(at, ttl) \in Stamps /\ Plus(at, ttl).lineage = at.lineage
         /\ Plus(at, ttl).wall = at.wall + ttl
<1>1. at.wall + ttl \in Nat /\ at.mono + ttl \in Nat /\ at.lineage \in Nat
  BY DEF Stamps
<1> QED BY <1>1, Zenon DEF Plus, Stamps

\* renew_ids stores the deadline the reply was checked against.
LEMMA RenewStoreKeeps ==
  ASSUME LeaseInv, RenewStore
  PROVE  LeaseInv'
<1>1. /\ call # None /\ call.stage = "renew_store" /\ Goto("recheck") /\ revived' = revived \ call.ids
      /\ UNCHANGED <<now, serverVars, clock_high, tail, neck, clocks, mailbox>>
  BY Zenon DEF RenewStore
<1>2. /\ call.reply # None /\ call.reply.granted # {} /\ clock_high = call.send.wall
      /\ call.spec \in LeaseSpec
  BY <1>1, Zenon DEF LeaseInv, CallOK
<1>3. /\ mailbox = <<>> /\ call.send \in Stamps /\ call.send.lineage = lineage
      /\ call.send.wall <= wall /\ call.send.wall \in Nat
  BY <1>1, <1>2, AnsweredCall, Zenon
<1>4. call' \in Call /\ CallOK' /\ RenewOK' /\ AcquireOK' /\ ListOK'
  BY <1>1, <1>2, GoesOn, Zenon
<1>5. UNCHANGED <<now, clocks, leases, next_lease_id>>
  BY <1>1, Zenon DEF serverVars, leaseVars
<1>6. \A p \in LeasePrefix :
        \/ held'[p] = held[p] /\ (held[p] # None => held[p].lease.id \notin call.ids)
        \/ /\ held[p] # None /\ held[p].lease.id \in call.ids
           /\ held'[p] = [held[p] EXCEPT !.deadline = Plus(call.send, held[p].lease.ttl),
                                         !.lease.requested_at = call.send]
  BY Zenon DEF RenewStore
<1>7. ASSUME NEW p \in LeasePrefix, held[p] # None, held[p].lease.id \in call.ids,
             held'[p] = [held[p] EXCEPT !.deadline = Plus(call.send, held[p].lease.ttl),
                                        !.lease.requested_at = call.send]
      PROVE  /\ held'[p] \in Held
             /\ held'[p].deadline = Plus(call.send, held[p].lease.ttl)
             /\ held'[p].lease.id = held[p].lease.id /\ held'[p].lease.ttl = held[p].lease.ttl
             /\ held'[p].lease.barrier = held[p].lease.barrier
             /\ held'[p].lease.requested_at = call.send
  <2>1. held[p] \in Held /\ held[p].lease \in Lease /\ held[p].lease.ttl \in Nat
    BY <1>7, Zenon DEF LeaseInv, TypeOK, Held, Lease
  <2>2. Plus(call.send, held[p].lease.ttl) \in Stamps
    BY <2>1, <1>3, PlusIsStamp, Zenon
  <2>3. PICK h, d, s, x : /\ h = held[p] /\ d = Plus(call.send, held[p].lease.ttl)
                          /\ s = call.send /\ x = held'[p]
    BY Zenon
  <2>4. h \in Held /\ d \in Stamps /\ s \in Stamps /\ x = [h EXCEPT !.deadline = d, !.lease.requested_at = s]
    BY <2>1, <2>2, <2>3, <1>3, <1>7, Zenon
  <2>5. /\ x \in Held /\ x.deadline = d /\ x.lease.requested_at = s
        /\ x.lease.id = h.lease.id /\ x.lease.ttl = h.lease.ttl /\ x.lease.barrier = h.lease.barrier
    <3>1. h.lease \in Lease /\ h.deadline \in Stamps
      BY <2>4, Zenon DEF Held
    <3>2. [h.lease EXCEPT !.requested_at = s] \in Lease
      BY <2>4, <3>1, Zenon DEF Lease
    <3>3. x = [h EXCEPT !.deadline = d, !.lease = [h.lease EXCEPT !.requested_at = s]]
      BY <2>4, Zenon DEF Held
    <3> QED BY <2>4, <3>1, <3>2, <3>3, ZenonT(30) DEF Held, Lease
  <2> QED BY <2>3, <2>5, Zenon
<1>8. held' \in [LeasePrefix -> Held \cup {None}]
  BY <1>6, <1>7, ZenonT(30) DEF LeaseInv, TypeOK, RenewStore
<1>9. HeldOK'
  <2> SUFFICES ASSUME NEW p \in LeasePrefix, held'[p] # None
               PROVE  StoredOK(held[p])'
    BY Zenon DEF HeldOK
  <2>1. CASE held'[p] = held[p] /\ (held[p] # None => held[p].lease.id \notin call.ids)
    <3>1. held[p] # None /\ (held[p].lease.id \in revived => held[p].lease.id \in revived')
      BY <2>1, <1>1, Zenon
    <3> QED BY <2>1, <3>1, <1>5, KeptRecord, Zenon
  <2>2. CASE /\ held[p] # None /\ held[p].lease.id \in call.ids
             /\ held'[p] = [held[p] EXCEPT !.deadline = Plus(call.send, held[p].lease.ttl),
                                           !.lease.requested_at = call.send]
    <3>1. /\ held'[p].deadline = Plus(call.send, held[p].lease.ttl)
          /\ held'[p].lease.id = held[p].lease.id /\ held'[p].lease.ttl = held[p].lease.ttl
          /\ held'[p].lease.barrier = held[p].lease.barrier /\ held'[p].lease.requested_at = call.send
      BY <2>2, <1>7, Zenon
    <3>2. Agrees(held[p].lease) /\ Backed(held[p].lease.id, Plus(call.send, held[p].lease.ttl))
      BY <2>2, <1>1, <1>2, Zenon DEF LeaseInv, HeldOK, StoredOK, RenewOK, Replied
    <3>3. Agrees(held[p].lease)'
      BY <3>1, <3>2, <1>5, Zenon DEF Agrees
    <3>4. Backed(held[p].lease.id, held[p].deadline)'
      BY <3>1, <3>2, <1>5, Zenon DEF Backed, OnServer, Ahead, clocks
    <3>5. /\ held[p].lease.ttl \in Nat
          /\ held'[p].deadline.lineage = lineage
      <4>1. held[p].lease.ttl \in Nat
        BY <2>2, Zenon DEF LeaseInv, TypeOK, Held, Lease
      <4> QED BY <4>1, <3>1, <1>3, PlusIsStamp, ZenonT(30)
    <3>6. lineage' = lineage /\ timeline' = timeline
      BY <1>1, Zenon DEF clocks
    <3>7. lineage \in Nat /\ timeline \in Nat /\ timeline <= lineage
      BY DEF LeaseInv, TypeOK
    <3>8. /\ held'[p].deadline.lineage <= lineage' /\ ~(held'[p].deadline.lineage < timeline')
          /\ held'[p].lease.requested_at.lineage <= lineage'
      BY <3>1, <3>5, <3>6, <3>7, <1>3
    <3>9. held'[p].deadline = Plus(held[p].lease.requested_at, held[p].lease.ttl)'
      BY <3>1, Zenon DEF Plus
    <3> QED BY <3>3, <3>4, <3>8, <3>9, Zenon DEF StoredOK
  <2> QED BY <2>1, <2>2, <1>6, Zenon
<1>10. clock_high' \in Nat /\ clock_high' <= wall /\ revived' \in SUBSET Nat
  BY <1>1, <1>2, NotOpening, SMTT(30) DEF LeaseInv, TypeOK
<1> QED BY <1>1, <1>3, <1>4, <1>8, <1>9, <1>10, OnlyHeldMoves, Zenon

\* Dropping records leaves fewer.
LEMMA DropKeeps ==
  ASSUME LeaseInv, NEW ids, held' = Drop(ids), UNCHANGED <<now, clocks, leases, next_lease_id, revived>>
  PROVE  held' \in [LeasePrefix -> Held \cup {None}] /\ HeldOK'
<1>1. \A p \in LeasePrefix : held'[p] \in {held[p], None}
  BY Zenon DEF Drop
<1>2. held' \in [LeasePrefix -> Held \cup {None}]
  BY <1>1, Zenon DEF Drop, LeaseInv, TypeOK
<1> QED BY <1>1, <1>2, KeptRecord, Zenon DEF HeldOK

\* A renewal the server refused, an acknowledged release.
LEMMA DroppedKeeps ==
  ASSUME LeaseInv, RenewInvalid \/ UnleaseDrop
  PROVE  LeaseInv'
<1>1. /\ held' = Drop(call.ids) /\ call # None /\ call.reply # None
      /\ UNCHANGED <<now, serverVars, revived, clock_high, tail, neck, clocks, mailbox>>
  BY Zenon DEF RenewInvalid, UnleaseDrop, Answered
<1>2. UNCHANGED <<now, clocks, leases, next_lease_id, revived>>
  BY <1>1, Zenon DEF serverVars, leaseVars
<1>3. held' \in [LeasePrefix -> Held \cup {None}] /\ HeldOK'
  BY <1>1, <1>2, DropKeeps, Zenon
<1>4. call' \in Call \cup {None} /\ CallOK' /\ RenewOK' /\ AcquireOK' /\ ListOK'
  <2>1. CASE RenewInvalid
    <3>1. call.spec \in LeaseSpec /\ Goto("recheck")
      BY <2>1, Zenon DEF RenewInvalid, Answered, LeaseInv, CallOK
    <3> QED BY <3>1, <1>1, GoesOn, Zenon
  <2>2. CASE UnleaseDrop
    BY <2>2, Zenon DEF UnleaseDrop, CallOK, RenewOK, AcquireOK, ListOK, Replied, Waiting
  <2> QED BY <2>1, <2>2, Zenon
<1>5. clock_high' \in Nat /\ clock_high' <= wall /\ revived' \in SUBSET Nat
  BY <1>1, NotOpening, Zenon DEF LeaseInv, TypeOK
<1>6. mailbox = <<>>
  BY <1>1, AnsweredCall, Zenon
<1> QED BY <1>1, <1>3, <1>4, <1>5, <1>6, OnlyHeldMoves, Zenon

\* A lease stored with the deadline its own stamp gives it: the server backs it, or
\* it is from an earlier time line and marked so.
LEMMA StoredLease ==
  ASSUME LeaseInv, UNCHANGED <<now, clocks, leases, next_lease_id>>,
         NEW p \in LeasePrefix, NEW lease \in Lease, NEW mark \in BOOLEAN,
         held'[p] = [lease |-> lease, deadline |-> Plus(lease.requested_at, lease.ttl), forgotten |-> mark],
         Agrees(lease), lease.requested_at.lineage <= lineage,
         lease.requested_at.lineage >= timeline => Backed(lease.id, Plus(lease.requested_at, lease.ttl)),
         lease.requested_at.lineage < timeline => lease.id \in revived'
  PROVE  held'[p] \in Held /\ StoredOK(held[p])'
<1> DEFINE d == Plus(lease.requested_at, lease.ttl)
<1>1. lease.ttl \in Nat /\ lease.requested_at \in Stamps
  BY Zenon DEF Lease
<1>2. d \in Stamps /\ d.lineage = lease.requested_at.lineage
  BY <1>1, PlusIsStamp, Zenon
<1>3. d = Plus(lease.requested_at, lease.ttl) /\ d' = d
  BY Zenon DEF Plus
<1> HIDE DEF d
<1>4. held'[p].lease = lease /\ held'[p].deadline = d /\ held'[p].forgotten = mark /\ held'[p] \in Held
  BY <1>2, <1>3 DEF Held
<1>5. Agrees(held[p].lease)'
  BY <1>4, Zenon DEF Agrees
<1>6. lease.requested_at.lineage >= timeline => Backed(held[p].lease.id, held[p].deadline)'
  <2>1. lease.requested_at.lineage >= timeline => Backed(lease.id, d)
    BY <1>3, Zenon
  <2> QED BY <2>1, <1>4, Zenon DEF Backed, OnServer, Ahead, clocks
<1>7. held'[p].deadline = Plus(held[p].lease.requested_at, held[p].lease.ttl)'
  BY <1>3, <1>4, Zenon DEF Plus
<1>8. lineage' = lineage /\ timeline' = timeline
  BY Zenon DEF clocks
<1> QED BY <1>2, <1>4, <1>5, <1>6, <1>7, <1>8, Zenon DEF StoredOK

\* acquire stores what was granted with the deadline of its request.
LEMMA AcquireStoreKeeps ==
  ASSUME LeaseInv, AcquireStore
  PROVE  LeaseInv'
<1> DEFINE lease == CHOOSE lease \in call.reply.granted : TRUE
<1>1. /\ call # None /\ call.stage = "acquire_store" /\ Goto("barrier")
      /\ UNCHANGED <<now, serverVars, revived, clock_high, tail, neck, clocks, mailbox>>
  BY Zenon DEF AcquireStore
<1>2. call.reply # None /\ call.reply.granted # {} /\ clock_high = call.send.wall
  BY <1>1, Zenon DEF LeaseInv, CallOK
<1>3. /\ mailbox = <<>> /\ call.send \in Stamps /\ call.send.lineage = lineage
      /\ call.reply.granted \in SUBSET Lease /\ lease \in call.reply.granted
  BY <1>1, <1>2, AnsweredCall, Zenon
<1>4. call' \in Call /\ CallOK' /\ RenewOK' /\ AcquireOK' /\ ListOK'
  BY <1>1, <1>2, GoesOn, Zenon
<1>5. UNCHANGED <<now, clocks, leases, next_lease_id, revived>>
  BY <1>1, Zenon DEF serverVars, leaseVars
<1>6. /\ Agrees(lease) /\ Backed(lease.id, Plus(call.send, lease.ttl)) /\ lease \in Lease
      /\ lease.requested_at = call.send
  BY <1>1, <1>2, <1>3, Zenon DEF LeaseInv, AcquireOK, Replied
<1>7. \A p \in LeasePrefix :
        \/ held'[p] = held[p]
        \/ held'[p] = [lease |-> lease, deadline |-> Plus(lease.requested_at, lease.ttl), forgotten |-> FALSE]
  BY <1>6, Zenon DEF AcquireStore, HeldFrom
<1>8. /\ lease.requested_at.lineage <= lineage /\ ~(lease.requested_at.lineage < timeline)
      /\ Backed(lease.id, Plus(lease.requested_at, lease.ttl))
  <2>1. lineage <= lineage /\ ~(lineage < timeline)
    BY DEF LeaseInv, TypeOK
  <2> QED BY <2>1, <1>3, <1>6, Zenon
<1> HIDE DEF lease
<1>9. held' \in [LeasePrefix -> Held \cup {None}] /\ HeldOK'
  <2>1. \A p \in LeasePrefix : held'[p] \in Held \cup {None}
    BY <1>5, <1>6, <1>7, <1>8, StoredLease, ZenonT(30) DEF LeaseInv, TypeOK
  <2>2. held' = [p \in LeasePrefix |-> held'[p]]
    BY DEF AcquireStore
  <2> SUFFICES ASSUME NEW p \in LeasePrefix, held'[p] # None
               PROVE  StoredOK(held[p])'
    BY <2>1, <2>2, Zenon DEF HeldOK
  <2>4. CASE held'[p] = held[p]
    BY <2>4, <1>5, KeptRecord, Zenon
  <2>5. CASE held'[p] = [lease |-> lease, deadline |-> Plus(lease.requested_at, lease.ttl), forgotten |-> FALSE]
    BY <2>5, <1>5, <1>6, <1>8, StoredLease, Zenon
  <2> QED BY <2>4, <2>5, <1>7, ZenonT(30)
<1>10. clock_high' \in Nat /\ clock_high' <= wall /\ revived' \in SUBSET Nat
  BY <1>1, <1>2, NotOpening, Zenon DEF LeaseInv, TypeOK
<1> QED BY <1>1, <1>3, <1>4, <1>9, <1>10, OnlyHeldMoves, Zenon

\* There is a last listed lease: ids are naturals under the next one.
LEMMA LastIsListed ==
  ASSUME LeaseInv, call # None, call.stage = "list", call.reply # None, NEW p \in LeasePrefix, Listed(p) # {}
  PROVE  LastListed(p) \in call.reply.granted
<1>1. \A lease \in Listed(p) : lease \in call.reply.granted /\ lease.id \in Nat /\ lease.id < next_lease_id
  <2>1. \A lease \in call.reply.granted : lease \in Lease /\ lease.id < next_lease_id
    BY AnsweredCall, Zenon DEF LeaseInv, ListOK, Replied, Agrees
  <2> QED BY <2>1, Zenon DEF Listed, Lease
<1> DEFINE T == {l.id : l \in Listed(p)}
<1>2. T \in SUBSET Nat /\ T # {} /\ next_lease_id \in Nat /\ \A y \in T : y <= next_lease_id
  BY <1>1 DEF LeaseInv, TypeOK
<1> HIDE DEF T
<1>3. PICK x \in T : \A y \in T : y <= x
  BY <1>2, GreatestNat, Zenon
<1>4. \E l \in Listed(p) : \A m \in Listed(p) : m.id <= l.id
  BY <1>3, Zenon DEF T
<1> QED BY <1>1, <1>4, Zenon DEF LastListed

\* reconcile_leases: what was listed is backed, or from an earlier time line and then
\* revived.
LEMMA RepairStoreKeeps ==
  ASSUME LeaseInv, RepairStore
  PROVE  LeaseInv'
<1>1. /\ call # None /\ call.stage = "list" /\ call.reply # None /\ Goto("barrier")
      /\ UNCHANGED <<now, serverVars, clock_high, tail, neck, clocks, mailbox>>
  BY Zenon DEF RepairStore, Answered
<1>2. mailbox = <<>> /\ call.reply.granted \in SUBSET Lease
  BY <1>1, AnsweredCall, Zenon
<1>3. call' \in Call /\ CallOK' /\ RenewOK' /\ AcquireOK' /\ ListOK'
  BY <1>1, GoesOn, Zenon
<1>4. UNCHANGED <<now, clocks, leases, next_lease_id>>
  BY <1>1, Zenon DEF serverVars, leaseVars
<1>5. \A lease \in call.reply.granted :
        /\ lease \in Lease /\ lease.id \in Nat /\ lease.id < next_lease_id
        /\ Agrees(lease) /\ lease.requested_at.lineage <= lineage
        /\ lease.requested_at.lineage >= timeline => Backed(lease.id, Plus(lease.requested_at, lease.ttl))
        /\ lease.requested_at.lineage < timeline => lease.id \in revived'
  <2>1. \A lease \in call.reply.granted :
          /\ Agrees(lease) /\ lease.requested_at.lineage <= lineage
          /\ lease.requested_at.lineage >= timeline => Backed(lease.id, Plus(lease.requested_at, lease.ttl))
    BY <1>1, Zenon DEF LeaseInv, ListOK, Replied
  <2>2. \A lease \in Lease : lease.id \in Nat
    BY Zenon DEF Lease
  <2>3. \A lease \in call.reply.granted : lease.id < next_lease_id
    BY <2>1, Zenon DEF Agrees
  <2>4. \A lease \in call.reply.granted : lease.requested_at.lineage < timeline => lease.id \in revived'
    BY Zenon DEF RepairStore
  <2> QED BY <2>1, <2>2, <2>3, <2>4, <1>2, Zenon
<1>6. \A p \in LeasePrefix : Listed(p) # {} => LastListed(p) \in call.reply.granted
  BY <1>1, LastIsListed, Zenon
<1>7. \A p \in LeasePrefix :
        held'[p] = IF Listed(p) = {} THEN None ELSE Reconciled(LastListed(p))
  BY Zenon DEF RepairStore
<1>8. \A lease :
        /\ WasForgotten(lease) \in BOOLEAN
        /\ Reconciled(lease) = [lease |-> lease, deadline |-> Plus(lease.requested_at, lease.ttl),
                                forgotten |-> WasForgotten(lease)]
  <2>1. \A lease : WasForgotten(lease) \in BOOLEAN
    BY Zenon DEF WasForgotten
  <2> QED BY <2>1 DEF Reconciled, HeldFrom
<1>9. ASSUME NEW p \in LeasePrefix, Listed(p) # {}
      PROVE  held'[p] \in Held /\ StoredOK(held[p])'
  <2>1. PICK lease : lease = LastListed(p)
    BY Zenon
  <2>2. PICK mark \in BOOLEAN : mark = WasForgotten(lease)
    BY <1>8, Zenon
  <2>3. held'[p] = [lease |-> lease, deadline |-> Plus(lease.requested_at, lease.ttl), forgotten |-> mark]
    BY <2>1, <2>2, <1>7, <1>8, <1>9, Zenon
  <2>4. lease \in call.reply.granted
    BY <2>1, <1>6, <1>9, Zenon
  <2> QED BY <2>3, <2>4, <1>4, <1>5, StoredLease, ZenonT(30)
<1>10. held' \in [LeasePrefix -> Held \cup {None}]
  BY <1>7, <1>9, Zenon DEF RepairStore
<1>11. HeldOK'
  BY <1>7, <1>9, Zenon DEF HeldOK
<1>12. clock_high' \in Nat /\ clock_high' <= wall
  BY <1>1, NotOpening, Zenon DEF LeaseInv, TypeOK
<1>13. revived' \in SUBSET Nat
  BY <1>5, Zenon DEF RepairStore
<1> QED BY <1>1, <1>2, <1>3, <1>10, <1>11, <1>12, <1>13, OnlyHeldMoves, Zenon

\* unlease_inner: what is forgotten needs no backing, and the release may come late.
LEMMA UnleaseStartKeeps ==
  ASSUME LeaseInv, NEW ids \in HeldIds, UnleaseStart(ids)
  PROVE  LeaseInv'
<1>1. /\ call = None /\ Send("release", None, ids)
      /\ UNCHANGED <<now, serverVars, revived, clock_high, tail, neck, clocks>>
  BY Zenon DEF UnleaseStart
<1>2. UNCHANGED <<now, clocks, leases, next_lease_id, revived, clock_high>>
  BY <1>1, Zenon DEF serverVars, leaseVars
<1>3. ids \in SUBSET Nat
  BY DEF HeldIds, HeldRecords, LeaseInv, TypeOK, Held, Lease
<1>4. \A p \in LeasePrefix :
        held'[p] = IF held[p] # None /\ held[p].lease.id \in ids THEN [held[p] EXCEPT !.forgotten = TRUE]
                   ELSE held[p]
  BY Zenon DEF UnleaseStart
<1>5. ASSUME NEW p \in LeasePrefix, held[p] # None, held[p].lease.id \in ids
      PROVE  /\ held'[p] \in Held /\ held'[p].forgotten
             /\ held'[p].lease = held[p].lease /\ held'[p].deadline = held[p].deadline
  BY <1>4, <1>5, Zenon DEF LeaseInv, TypeOK, Held
<1>6. held' \in [LeasePrefix -> Held \cup {None}]
  <2>1. held' = [p \in LeasePrefix |-> held'[p]]
    BY Zenon DEF UnleaseStart
  <2> QED BY <2>1, <1>4, <1>5, Zenon DEF LeaseInv, TypeOK
<1>7. HeldOK'
  <2> SUFFICES ASSUME NEW p \in LeasePrefix, held'[p] # None
               PROVE  StoredOK(held[p])'
    BY Zenon DEF HeldOK
  <2>1. CASE held[p] # None /\ held[p].lease.id \in ids
    <3>1. held'[p].deadline = held[p].deadline /\ held'[p].lease = held[p].lease /\ held'[p].forgotten
      BY <2>1, <1>5, Zenon
    <3>2. lineage' = lineage /\ timeline' = timeline /\ revived' = revived
      BY <1>2, Zenon DEF clocks
    <3>3. StoredOK(held[p])
      BY <2>1, Zenon DEF LeaseInv, HeldOK
    <3>4. Agrees(held[p].lease)'
      BY <3>1, <3>3, <1>2, Zenon DEF StoredOK, Agrees
    <3> QED BY <3>1, <3>2, <3>3, <3>4, Zenon DEF StoredOK, Plus
  <2>2. CASE ~(held[p] # None /\ held[p].lease.id \in ids)
    <3>1. held'[p] = held[p]
      BY <2>2, <1>4, Zenon
    <3> QED BY <3>1, <1>2, KeptRecord, Zenon
  <2> QED BY <2>1, <2>2, Zenon
<1>8. /\ \A i \in 1..Len(mailbox) : mailbox[i].verb = "release" =>
           \A p \in LeasePrefix :
             held'[p] # None /\ held'[p].lease.id \in mailbox[i].ids => held'[p].forgotten
      /\ \A p \in LeasePrefix : held'[p] # None /\ held'[p].lease.id \in ids => held'[p].forgotten
  BY <1>4, <1>5, ZenonT(30) DEF LeaseInv, MailOK
<1>9. /\ mailbox' \in Seq(InFlight) /\ call' \in Call
      /\ MailOK' /\ CallOK' /\ RenewOK' /\ AcquireOK' /\ ListOK'
  <2> DEFINE spec == None
  <2>1. "release" \in Verb /\ spec \in LeaseSpec \cup {None} /\ Send("release", spec, ids)
    BY <1>1, Zenon DEF Verb
  <2> HIDE DEF spec
  <2> QED BY <2>1, <1>1, <1>2, <1>3, <1>8, SendKeeps, Zenon
<1>10. TypeOK'
  BY <1>1, <1>6, <1>9, Zenon DEF LeaseInv, TypeOK, serverVars, leaseVars, clocks
<1>11. ClocksOK' /\ RecordsOK'
  <2>1. UNCHANGED <<now, wall, lineage, anchor, timeline, leases, next_lease_id>>
    BY <1>2, Zenon DEF clocks
  <2>2. RecordsOK'
    BY <2>1, Still, Zenon DEF LeaseInv
  <2> QED BY <2>1, <2>2, <1>1, <1>2, NotOpening, Zenon DEF LeaseInv, ClocksOK
<1> QED BY <1>7, <1>9, <1>10, <1>11, Zenon DEF LeaseInv

\* The barrier pull captures the admit log; it touches no lease.
LEMMA BarrierPullKeeps ==
  ASSUME LeaseInv, BarrierPull
  PROVE  LeaseInv'
<1>1. /\ call # None /\ call.stage = "barrier" /\ call' = None
      /\ UNCHANGED <<now, serverVars, held, revived, clock_high, neck, clocks, mailbox>>
  BY Zenon DEF BarrierPull, records
<1>2. UNCHANGED <<now, clocks, leases, next_lease_id, clock_high, held, revived>>
  BY <1>1, Zenon DEF serverVars, leaseVars
<1>3. /\ mailbox' \in Seq(InFlight) /\ call' \in Call \cup {None}
      /\ MailOK' /\ CallOK' /\ RenewOK' /\ AcquireOK' /\ ListOK'
  BY <1>1, <1>2, NotWaiting, Zenon
<1>4. tail' \in {admission_high_water + 1, tail} /\ UNCHANGED <<neck, admission_high_water>>
  BY Zenon DEF BarrierPull, serverVars
<1>5. tail' \in Nat /\ neck' <= tail' /\ tail' <= admission_high_water' + 1
  BY <1>4 DEF LeaseInv, TypeOK
<1>6. TypeOK'
  BY <1>1, <1>3, <1>5, Zenon DEF LeaseInv, TypeOK, serverVars, leaseVars, clocks
<1>7. ~Opening
  BY <1>1, Zenon DEF Opening
<1> QED BY <1>2, <1>3, <1>6, <1>7, StoresStay, Zenon DEF LeaseInv

\* Applying batches and admissions touch no lease and no request.
LEMMA ElsewhereKeeps ==
  ASSUME LeaseInv, MarkApplied \/ SomeAdmission
  PROVE  LeaseInv'
<1>1. UNCHANGED <<now, leaseVars, held, revived, clock_high, tail, clocks, call, mailbox>>
  BY Zenon DEF MarkApplied, SomeAdmission, serverVars, durable, records
<1>2. UNCHANGED <<now, clocks, leases, next_lease_id, clock_high, held, revived>>
  BY <1>1, Zenon DEF leaseVars
<1>3. neck' \in Nat /\ neck' <= tail /\ admission_high_water' \in Nat /\ tail <= admission_high_water' + 1
  BY DEF LeaseInv, TypeOK, MarkApplied, SomeAdmission, serverVars, durable, records
<1>4. TypeOK'
  BY <1>1, <1>3, Zenon DEF LeaseInv, TypeOK, leaseVars, clocks
<1>5. MailOK'
  <2>1. \A i \in 1..Len(mailbox) : SentBy(mailbox[i].send, now)'
    BY <1>1, Zenon DEF LeaseInv, MailOK, SentBy, OnServer, Ahead, clocks
  <2> QED BY <2>1, <1>1, ZenonT(30) DEF LeaseInv, MailOK, Waiting
<1>6. CallOK'
  BY <1>1, Zenon DEF LeaseInv, CallOK, VoidOK, clocks, leaseVars
<1>7. RenewOK'
  BY <1>1, Zenon DEF LeaseInv, RenewOK, Replied, Backed, OnServer, Ahead, clocks, leaseVars
<1>8. AcquireOK'
  BY <1>1, Zenon DEF LeaseInv, AcquireOK, Replied, Agrees, Backed, OnServer, Ahead, clocks, leaseVars
<1>9. ListOK'
  BY <1>1, Zenon DEF LeaseInv, ListOK, Replied, Agrees, Backed, OnServer, Ahead, clocks, leaseVars
<1>10. Opening => Opening'
  BY <1>1, Zenon DEF Opening
<1> QED BY <1>2, <1>4, <1>5, <1>6, <1>7, <1>8, <1>9, <1>10, StoresStay, Zenon DEF LeaseInv
=============================================================================
