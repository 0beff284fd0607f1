------------------------- MODULE ClientLeasesProofs -------------------------
(***************************************************************************)
(* The lease workflows of a device, for every set of prefixes and times to *)
(* live, every margin and any number of processes: what the device takes   *)
(* for a live lease is one at the server, unless repair revived it, and a  *)
(* stored lease's stamp is recorded first, unless repair brings it in.     *)
(* Callers give up, processes die, the server restarts, requests are       *)
(* executed long after they were sent and leases are repaired, at any      *)
(* point.                                                                  *)
(*                                                                         *)
(* The argument is about how far the wall was ahead of the server's clock  *)
(* when a stamp was taken.  For the running process that is known and does *)
(* not change; for an earlier one of the present time line it is at most   *)
(* `anchor'.  So a stamp tells a server time at or after which it was      *)
(* sent, every lease is granted after its request was sent, and the        *)
(* deadline the client keeps is, on the server's clock, no later than the  *)
(* server's own.  Deadlines of an earlier time line are void or revived.   *)
(* The clock record is only ever moved to the stamp of the present         *)
(* workflow, which is no older than any it brought, or, at a regressed     *)
(* open, to the new reading once every deadline is void.                   *)
(***************************************************************************)
EXTENDS ClientStepsProofs

\* A restarted server has lost its queue; a caller in it fails.
LEMMA ServerRestartKeeps ==
  ASSUME LeaseInv, ServerRestart
  PROVE  LeaseInv'
<1>1. /\ mailbox # <<>> /\ mailbox' = <<>>
      /\ UNCHANGED <<now, leases, next_lease_id, admission_high_water, durable, clocks>>
      /\ call' \in {None, call}
  BY Zenon DEF ServerRestart, Restart
<1>2. UNCHANGED <<now, clocks, leases, next_lease_id, clock_high, held, revived>>
  BY <1>1, Zenon DEF durable, records
<1>3. call # None => call.reply = None
  BY <1>1, Zenon DEF LeaseInv, CallOK
<1>4. TypeOK'
  BY <1>1 DEF LeaseInv, TypeOK, durable, records, clocks
<1>5. MailOK'
  BY <1>1 DEF MailOK
<1>6. CallOK'
  <2>1. VoidOK => VoidOK'
    BY <1>1, <1>2 DEF VoidOK, clocks
  <2> QED BY <2>1, <1>1, <1>2, <1>3, Zenon DEF LeaseInv, CallOK, clocks
<1>7. RenewOK' /\ AcquireOK'
  BY <1>1, <1>3, Zenon DEF RenewOK, AcquireOK, Replied
<1>8. ListOK'
  BY <1>1, <1>3, Zenon DEF ListOK, Replied
<1>9. Opening => Opening'
  <2>1. DOMAIN mailbox = 1..Len(mailbox)
    BY DEF LeaseInv, TypeOK
  <2>2. Opening => ~Waiting
    BY DEF Opening, Waiting, Verb
  <2>3. Opening => call' = call
    BY <2>1, <2>2, Zenon DEF LeaseInv, MailOK, ServerRestart
  <2> QED BY <2>3, Zenon DEF Opening
<1> QED BY <1>2, <1>4, <1>5, <1>6, <1>7, <1>8, <1>9, StoresStay, Zenon DEF LeaseInv

\* Time passes for the server and the wall alike: server times of stamps stay.
LEMMA PassKeeps ==
  ASSUME LeaseInv, NEW running \in BOOLEAN, Pass(running)
  PROVE  LeaseInv'
<1>1. /\ now' = now + 1 /\ wall' = wall + 1 /\ mono' \in {mono, mono + 1}
      /\ UNCHANGED <<leases, next_lease_id, admission_high_water, held, revived, clock_high, tail, neck,
                     lineage, anchor, timeline, call, mailbox>>
  BY Zenon DEF Pass, serverVars, leaseVars, durable, records
<1>2. /\ now \in Nat /\ wall \in Nat /\ lineage \in Nat /\ anchor \in Int /\ timeline \in Nat
      /\ timeline <= lineage /\ clock_high \in Nat
  BY DEF LeaseInv, TypeOK
<1>3. TypeOK'
  BY <1>1 DEF LeaseInv, TypeOK
<1>4. ClocksOK'
  BY <1>1, <1>2 DEF LeaseInv, ClocksOK, Opening
<1>5. \A at \in Stamps : OnServer(at) \in Int /\ OnServer(at)' = OnServer(at)
  BY <1>1, <1>2 DEF OnServer, Ahead, Stamps
<1>6. \A id : \A deadline \in Stamps : Backed(id, deadline) => Backed(id, deadline)'
  <2> SUFFICES ASSUME NEW id, NEW deadline \in Stamps, Backed(id, deadline)
               PROVE  OnServer(deadline)' <= now' \/ \E rec \in leases' : rec.id = id /\ OnServer(deadline)' <= rec.deadline
    BY Zenon DEF Backed
  <2>1. OnServer(deadline) \in Int /\ OnServer(deadline)' = OnServer(deadline)
    BY <1>5, Zenon
  <2> QED BY <2>1, <1>1, <1>2 DEF Backed
<1>7. \A send \in Stamps : \A time : SentBy(send, time) => SentBy(send, time)'
  BY <1>1, <1>5, Zenon DEF SentBy
<1>8. RecordsOK'
  <2>1. \A rec \in leases : rec.requested_at \in Stamps /\ rec.granted_at \in Nat
    BY Zenon DEF LeaseInv, TypeOK, Record
  <2> QED BY <2>1, <1>1, <1>2, <1>7 DEF LeaseInv, RecordsOK
<1>9. \A lease : Agrees(lease) => Agrees(lease)'
  BY <1>1, Zenon DEF Agrees
<1>10. HeldOK'
  <2> SUFFICES ASSUME NEW p \in LeasePrefix, held[p] # None PROVE StoredOK(held[p])'
    BY <1>1, Zenon DEF HeldOK
  <2> DEFINE h == held[p]
  <2>1. h.deadline \in Stamps /\ held'[p] = h /\ StoredOK(h)
    BY <1>1, Zenon DEF LeaseInv, TypeOK, HeldOK, Held
  <2> HIDE DEF h
  <2>2. Agrees(held[p].lease)'
    BY <2>1, <1>1, Zenon DEF StoredOK, Agrees
  <2>3. Backed(h.lease.id, h.deadline) => Backed(held[p].lease.id, held[p].deadline)'
    BY <2>1, <1>1, <1>2 DEF Backed, OnServer, Ahead, Stamps
  <2> QED BY <2>1, <2>2, <2>3, <1>1, Zenon DEF StoredOK, Plus
<1>11. MailOK'
  <2> SUFFICES ASSUME NEW i \in 1..Len(mailbox) PROVE SentBy(mailbox[i].send, now)'
    BY <1>1, ZenonT(30) DEF LeaseInv, MailOK, Waiting
  <2> DEFINE send == mailbox[i].send
  <2>1. send \in Stamps /\ mailbox'[i].send = send
    BY <1>1, MailTypes, ZenonT(30) DEF LeaseInv
  <2>2. send.lineage <= lineage /\ (send.lineage >= timeline => OnServer(send) <= now)
    BY ZenonT(30) DEF LeaseInv, MailOK, SentBy
  <2> HIDE DEF send
  <2>3. send.lineage >= timeline => send.wall - (IF send.lineage = lineage THEN wall' - now' ELSE anchor) <= now'
    BY <2>1, <2>2, <1>1, <1>2, SMTT(30) DEF OnServer, Ahead, Stamps
  <2> QED BY <2>1, <2>2, <2>3, <1>1, Zenon DEF SentBy, OnServer, Ahead
<1>12. CallOK'
  <2>1. call # None => call.send.wall \in Nat
    BY Zenon DEF LeaseInv, TypeOK, Call, Stamps
  <2>2. VoidOK => VoidOK'
    BY <1>1, Zenon DEF VoidOK
  <2> QED BY <2>1, <2>2, <1>1, <1>2 DEF LeaseInv, CallOK
<1>13. RenewOK'
  <2> SUFFICES ASSUME Replied({"renew", "renew_store"}), NEW p \in LeasePrefix, held[p] # None,
                      held[p].lease.id \in call.ids
               PROVE  Backed(held[p].lease.id, Plus(call.send, held[p].lease.ttl))'
    BY <1>1, Zenon DEF RenewOK, Replied
  <2> DEFINE d == Plus(call.send, held[p].lease.ttl)
  <2>1. Backed(held[p].lease.id, d)
    BY Zenon DEF LeaseInv, RenewOK
  <2>2. call.send \in Stamps /\ held[p].lease.ttl \in Nat
    BY Zenon DEF LeaseInv, TypeOK, Replied, Call, Reply, Held, Lease
  <2>3. d \in Stamps
    BY <2>2, PlusIsStamp, Zenon
  <2>4. d' = d
    BY <1>1, ZenonT(30) DEF Plus
  <2> HIDE DEF d
  <2>5. Backed(held[p].lease.id, d)'
    BY <2>1, <2>3, <2>4, <1>1, <1>2 DEF Backed, OnServer, Ahead, Stamps
  <2> QED BY <2>5, ZenonT(30) DEF d
<1>14. AcquireOK'
  <2> SUFFICES ASSUME Replied({"acquire", "acquire_store"}), NEW lease \in call.reply.granted
               PROVE  /\ Agrees(lease)' /\ lease.requested_at = call.send
                      /\ Backed(lease.id, Plus(call.send, lease.ttl))'
    BY <1>1, Zenon DEF AcquireOK, Replied
  <2> DEFINE d == Plus(call.send, lease.ttl)
  <2>1. Agrees(lease) /\ lease.requested_at = call.send /\ Backed(lease.id, d)
    BY Zenon DEF LeaseInv, AcquireOK
  <2>2. call.send \in Stamps /\ lease.ttl \in Nat
    BY Zenon DEF LeaseInv, TypeOK, Replied, Call, Reply, Lease
  <2>3. d \in Stamps /\ d' = d
    BY <2>2, <1>1, PlusIsStamp, Zenon DEF Plus
  <2> HIDE DEF d
  <2>4. Backed(lease.id, d)'
    BY <2>1, <2>3, <1>1, <1>2 DEF Backed, OnServer, Ahead, Stamps
  <2> QED BY <2>1, <2>4, <1>9, Zenon DEF d
<1>15. ListOK'
  <2> SUFFICES ASSUME Replied({"list"}), NEW lease \in call.reply.granted
               PROVE  /\ Agrees(lease)' /\ lease.requested_at.lineage <= lineage'
                      /\ lease.requested_at.lineage >= timeline' =>
                           Backed(lease.id, Plus(lease.requested_at, lease.ttl))'
    BY <1>1, Zenon DEF ListOK, Replied
  <2>1. lease.requested_at \in Stamps /\ lease.ttl \in Nat
    BY Zenon DEF LeaseInv, TypeOK, Replied, Call, Reply, Lease
  <2>2. Plus(lease.requested_at, lease.ttl) \in Stamps
    BY <2>1, PlusIsStamp, Zenon
  <2>3. /\ Agrees(lease) /\ lease.requested_at.lineage <= lineage
        /\ lease.requested_at.lineage >= timeline => Backed(lease.id, Plus(lease.requested_at, lease.ttl))
    BY ZenonT(30) DEF LeaseInv, ListOK
  <2> QED BY <2>2, <2>3, <1>1, <1>6, <1>9, Zenon DEF Plus
<1> QED BY <1>3, <1>4, <1>8, <1>10, <1>11, <1>12, <1>13, <1>14, <1>15, Zenon DEF LeaseInv

\* The next process opens.  On the same time line the wall is ahead of the server by
\* no more than the new anchor, for every stamp there is; on a new one no stamp and
\* no deadline of the old one counts.
LEMMA ReopenKeeps ==
  ASSUME LeaseInv, NEW reading \in 1..MaxWall, Reopen(reading)
  PROVE  LeaseInv'
<1>1. /\ WallReading(reading) /\ held' = Judged(reading)
      /\ revived' = IF reading < clock_high THEN {} ELSE revived
      /\ clock_high' = IF reading < clock_high THEN clock_high ELSE reading
      /\ wall' = reading /\ mono' = 0 /\ lineage' = IF Opening THEN lineage ELSE lineage + 1
      /\ anchor' = IF reading < clock_high \/ reading - now > anchor THEN reading - now ELSE anchor
      /\ timeline' = IF reading < clock_high THEN lineage' ELSE timeline
      /\ call' = IF reading < clock_high
                 THEN [stage |-> "open", spec |-> None, ids |-> {}, send |-> stamp', reply |-> None] ELSE None
      /\ mailbox' = Unanswered
      /\ UNCHANGED <<now, leases, next_lease_id, admission_high_water, tail, neck>>
  BY Zenon DEF Reopen, serverVars, leaseVars
<1>2. /\ now \in Nat /\ wall \in Nat /\ lineage \in Nat /\ anchor \in Int /\ timeline \in Nat
      /\ 1 <= timeline /\ timeline <= lineage /\ clock_high \in Nat /\ Margin \in Nat /\ reading \in Nat
      /\ wall - now <= anchor /\ anchor - Margin <= wall - now /\ revived \in SUBSET Nat
  BY ClientAssumption DEF LeaseInv, TypeOK, ClocksOK
<1>3. /\ mailbox' \in Seq(InFlight) /\ Len(mailbox') = Len(mailbox) /\ Len(mailbox) \in Nat
      /\ \A i \in 1..Len(mailbox) :
           /\ mailbox'[i].verb = mailbox[i].verb /\ mailbox'[i].spec = mailbox[i].spec
           /\ mailbox'[i].ids = mailbox[i].ids /\ mailbox'[i].send = mailbox[i].send
           /\ ~mailbox'[i].live
  BY <1>1, AbandonedMail, MailTypes, Zenon DEF LeaseInv
<1>4. ClocksOK'
  <2>1. reading < clock_high \/ reading - now >= anchor - Margin
    BY <1>1, Zenon DEF WallReading
  <2>2. wall' - now' <= anchor' /\ anchor' - Margin <= wall' - now'
    BY <2>1, <1>1, <1>2
  <2>3. reading < clock_high => Opening'
    <3> SUFFICES ASSUME reading < clock_high PROVE Opening'
      BY Zenon
    <3> DEFINE c == [stage |-> "open", spec |-> None, ids |-> {}, send |-> stamp', reply |-> None]
    <3>1. stamp' \in Stamps
      BY <1>1, <1>2 DEF stamp, Stamps
    <3>2. c \in Call /\ c.stage = "open"
      BY <3>1, Zenon DEF Call, Stage
    <3> QED BY <3>2, <1>1, CallAssumption, Zenon DEF Opening
  <2>4. ~(reading < clock_high) => clock_high' <= wall'
    BY <1>1, <1>2
  <2> QED BY <2>2, <2>3, <2>4, Zenon DEF ClocksOK
<1>5. RenewOK' /\ AcquireOK' /\ ListOK'
  BY <1>1, Zenon DEF RenewOK, AcquireOK, ListOK, Replied
<1>6. \A lease : Agrees(lease) => Agrees(lease)'
  BY <1>1, Zenon DEF Agrees
<1>7. \A p \in LeasePrefix : held[p] # None =>
        /\ held[p] \in Held /\ held[p].deadline \in Stamps /\ held[p].lease.ttl \in Nat
        /\ held[p].deadline.wall \in Nat /\ held[p].deadline.lineage \in Nat
        /\ held[p].lease.requested_at.lineage \in Nat
  BY Zenon DEF LeaseInv, TypeOK, Held, Lease, Stamps
<1>8. ASSUME NEW p \in LeasePrefix
      PROVE  held'[p] = IF reading < clock_high /\ held[p] # None
                        THEN [held[p] EXCEPT !.deadline = ZeroStamp] ELSE held[p]
  BY <1>1, Zenon DEF Judged
<1>9. held' \in [LeasePrefix -> Held \cup {None}]
  <2>1. held' = [p \in LeasePrefix |-> held'[p]]
    BY <1>1, Zenon DEF Judged, LeaseInv, TypeOK
  <2>2. ZeroStamp \in Stamps
    BY Zenon DEF ZeroStamp, Stamps
  <2>3. \A h \in Held : [h EXCEPT !.deadline = ZeroStamp] \in Held
    BY <2>2, Zenon DEF Held
  <2> QED BY <2>1, <2>3, <1>7, <1>8, Zenon
<1>10. TypeOK'
  <2>1. /\ anchor' \in Int /\ timeline' \in 1..lineage' /\ lineage' \in Nat /\ clock_high' \in Nat
        /\ revived' \in SUBSET Nat
    BY <1>1, <1>2
  <2>2. stamp' \in Stamps
    BY <2>1, <1>1, <1>2, Zenon DEF stamp, Stamps
  <2>3. call' \in Call \cup {None}
    BY <2>2, <1>1, Zenon DEF Call, Stage
  <2> QED BY <2>1, <2>3, <1>1, <1>2, <1>3, <1>9, Zenon DEF LeaseInv, TypeOK
\* The new process has stamped nothing.
<1>11. /\ \A rec \in leases : rec.requested_at.lineage < lineage'
       /\ \A i \in 1..Len(mailbox) : mailbox[i].send.lineage < lineage'
       /\ \A p \in LeasePrefix : held[p] # None =>
            held[p].deadline.lineage < lineage' /\ held[p].lease.requested_at.lineage < lineage'
  <2>1. CASE Opening
    <3>1. VoidOK /\ lineage' = timeline /\ 0 < timeline
      BY <2>1, <1>1, <1>2 DEF LeaseInv, CallOK, Opening, VoidOK
    <3>2. ZeroStamp.lineage = 0
      BY Zenon DEF ZeroStamp
    <3> QED BY <3>1, <3>2, Zenon DEF VoidOK
  <2>2. CASE ~Opening
    <3>1. \A l \in Nat : l <= lineage => l < lineage'
      BY <2>2, <1>1, <1>2
    <3>2. /\ \A rec \in leases : rec.requested_at.lineage \in Nat
          /\ \A i \in 1..Len(mailbox) : mailbox[i].send.lineage \in Nat
      BY MailTypes, Zenon DEF LeaseInv, TypeOK, Record, Stamps
    <3> QED BY <3>1, <3>2, <1>7, ZenonT(30) DEF LeaseInv, RecordsOK, MailOK, HeldOK, StoredOK, SentBy
  <2> QED BY <2>1, <2>2, Zenon
\* Server times of stamps only move back.
<1>12. ASSUME NEW at \in Stamps, at.lineage <= lineage, at.lineage < lineage'
       PROVE  /\ OnServer(at) \in Int /\ OnServer(at)' = at.wall - anchor' /\ at.lineage <= lineage'
              /\ at.lineage >= timeline' =>
                   ~(reading < clock_high) /\ at.lineage >= timeline /\ OnServer(at)' <= OnServer(at)
  <2>1. at.wall \in Nat /\ at.lineage \in Nat /\ lineage' \in Nat
    BY <1>1, <1>2 DEF Stamps
  <2>2. at.lineage # lineage' /\ at.lineage <= lineage'
    BY <2>1, <1>12
  <2>3. OnServer(at)' = at.wall - anchor'
    BY <2>2, Zenon DEF OnServer, Ahead
  <2>4. at.lineage >= timeline' => ~(reading < clock_high) /\ timeline' = timeline
    BY <2>1, <1>1, <1>12
  <2> QED BY <2>1, <2>2, <2>3, <2>4, <1>1, <1>2, <1>12, SMTT(30) DEF OnServer, Ahead
<1>13. ASSUME NEW send \in Stamps, NEW time \in Int, SentBy(send, time), send.lineage < lineage'
       PROVE  SentBy(send, time)'
  <2>1. send.lineage <= lineage /\ (send.lineage >= timeline => OnServer(send) <= time)
    BY <1>13, Zenon DEF SentBy
  <2>2. /\ OnServer(send) \in Int /\ OnServer(send)' = send.wall - anchor' /\ send.lineage <= lineage'
        /\ send.lineage >= timeline' => send.lineage >= timeline /\ OnServer(send)' <= OnServer(send)
    BY <2>1, <1>12, <1>13, Zenon
  <2>3. OnServer(send)' \in Int
    BY <2>2, <1>1, <1>2 DEF Stamps
  <2>4. send.lineage >= timeline' => OnServer(send)' <= time
    BY <2>1, <2>2, <2>3
  <2> QED BY <2>2, <2>4, Zenon DEF SentBy
<1>14. RecordsOK'
  <2>1. \A rec \in leases : rec.requested_at \in Stamps /\ rec.granted_at \in Int
    BY DEF LeaseInv, TypeOK, Record
  <2>2. \A rec \in leases : SentBy(rec.requested_at, rec.granted_at)'
    BY <2>1, <1>11, <1>13, Zenon DEF LeaseInv, RecordsOK
  <2> QED BY <2>2, <1>1, Zenon DEF LeaseInv, RecordsOK
<1>15. MailOK'
  <2> SUFFICES ASSUME NEW i \in 1..Len(mailbox)
               PROVE  /\ SentBy(mailbox[i].send, now)'
                      /\ mailbox'[i].verb = "release" =>
                           \A p \in LeasePrefix :
                             held'[p] # None /\ held'[p].lease.id \in mailbox'[i].ids => held'[p].forgotten
    BY <1>3, ZenonT(30) DEF LeaseInv, MailOK
  <2>1. SentBy(mailbox[i].send, now)'
    <3>1. PICK send, time : send = mailbox[i].send /\ time = now
      BY Zenon
    <3>2. send \in Stamps /\ mailbox'[i].send = send /\ SentBy(send, time) /\ send.lineage < lineage'
      BY <3>1, <1>3, <1>11, MailTypes, Zenon DEF LeaseInv, MailOK
    <3>3. time \in Int /\ now' = time
      BY <3>1, <1>1, <1>2
    <3>4. SentBy(send, time)'
      BY <3>2, <3>3, <1>13, Zenon
    <3> QED BY <3>2, <3>3, <3>4, Zenon DEF SentBy, OnServer, Ahead
  <2>2. ASSUME NEW p \in LeasePrefix, held'[p] # None, mailbox[i].verb = "release",
               held'[p].lease.id \in mailbox[i].ids
        PROVE  held'[p].forgotten
    <3>1. held[p] # None
      BY <2>2, <1>8, Zenon
    <3>2. held'[p].lease = held[p].lease /\ held'[p].forgotten = held[p].forgotten
      BY <3>1, <1>7, <1>8, ZenonT(30) DEF Held
    <3> QED BY <2>2, <3>1, <3>2, Zenon DEF LeaseInv, MailOK
  <2> QED BY <2>1, <2>2, <1>3, Zenon
<1>16. HeldOK'
  <2> SUFFICES ASSUME NEW p \in LeasePrefix, held'[p] # None
               PROVE  StoredOK(held[p])'
    BY Zenon DEF HeldOK
  <2>1. PICK h : h = held[p] /\ h # None
    BY <1>8, Zenon
  <2>2. /\ StoredOK(h) /\ h \in Held /\ h.deadline \in Stamps /\ h.lease.ttl \in Nat
        /\ h.deadline.wall \in Nat /\ h.deadline.lineage \in Nat /\ h.lease.requested_at.lineage \in Nat
        /\ h.deadline.lineage < lineage' /\ h.lease.requested_at.lineage < lineage'
    BY <2>1, <1>7, <1>11, Zenon DEF LeaseInv, HeldOK
  <2>3. held'[p] = IF reading < clock_high THEN [h EXCEPT !.deadline = ZeroStamp] ELSE h
    BY <2>1, <1>8, Zenon
  <2>4. Agrees(h.lease) /\ Agrees(h.lease)'
    BY <2>2, <1>1, Zenon DEF StoredOK, Agrees
  <2>5. CASE reading < clock_high
    <3>1. held'[p].lease = h.lease /\ held'[p].deadline = ZeroStamp
      BY <2>2, <2>3, <2>5, Zenon DEF Held
    <3>2. Agrees(held[p].lease)'
      BY <2>4, <3>1, <1>1, Zenon DEF Agrees
    <3>3. timeline' = lineage' /\ lineage' \in Nat /\ 0 < lineage'
      BY <2>5, <1>1, <1>2
    <3>4. ZeroStamp.lineage = 0 /\ ZeroStamp.wall = 0
      BY Zenon DEF ZeroStamp
    <3>5. /\ ZeroStamp.lineage <= lineage' /\ ~(ZeroStamp.lineage >= timeline')
          /\ h.lease.requested_at.lineage <= lineage' /\ ~(h.lease.requested_at.lineage >= timeline')
      BY <2>2, <3>3, <3>4
    <3> QED BY <3>1, <3>2, <3>4, <3>5, Zenon DEF StoredOK
  <2>6. CASE ~(reading < clock_high)
    <3>1. held'[p] = h /\ timeline' = timeline /\ revived' = revived
      BY <2>3, <2>6, <1>1, Zenon
    <3>2. Agrees(held[p].lease)'
      BY <2>4, <3>1, <1>1, Zenon DEF Agrees
    <3>3. h.deadline.lineage <= lineage
      BY <2>2, Zenon DEF StoredOK
    <3>4. /\ OnServer(h.deadline) \in Int /\ OnServer(h.deadline)' = h.deadline.wall - anchor'
          /\ h.deadline.lineage <= lineage'
          /\ h.deadline.lineage >= timeline => h.deadline.wall - anchor' <= OnServer(h.deadline)
      BY <2>2, <3>1, <3>3, <1>12, Zenon
    <3>5. h.deadline.lineage >= timeline /\ Backed(h.lease.id, h.deadline) =>
            \/ h.deadline.wall - anchor' <= now
            \/ \E rec \in leases : rec.id = h.lease.id /\ h.deadline.wall - anchor' <= rec.deadline
      <4>1. \A rec \in leases : rec.deadline \in Nat
        BY Zenon DEF LeaseInv, TypeOK, Record
      <4>2. h.deadline.wall - anchor' \in Int
        BY <2>2, <1>1, <1>2
      <4> QED BY <3>4, <4>1, <4>2, <1>2 DEF Backed
    <3>6. h.deadline.lineage >= timeline /\ ~h.forgotten => Backed(held[p].lease.id, held[p].deadline)'
      <4>1. h.deadline.lineage # lineage'
        BY <2>2, <1>1, <1>2
      <4> QED BY <2>2, <3>1, <3>5, <4>1, <1>1, ZenonT(30) DEF StoredOK, Backed, OnServer, Ahead
    <3>7. h.lease.requested_at.lineage <= lineage'
      BY <2>2, <1>1, <1>2
    <3> QED BY <2>2, <3>1, <3>2, <3>4, <3>6, <3>7, ZenonT(30) DEF StoredOK, Plus
  <2> QED BY <2>5, <2>6, ZenonT(30)
<1>17. CallOK'
  <2> SUFFICES ASSUME reading < clock_high PROVE CallOK'
    BY <1>1, Zenon DEF CallOK
  <2>1. /\ call'.stage = "open" /\ call'.reply = None /\ call'.send = stamp'
        /\ call'.send.lineage = lineage' /\ call'.send.wall <= wall'
    <3>1. call' = [stage |-> "open", spec |-> None, ids |-> {}, send |-> stamp', reply |-> None]
      BY <1>1, Zenon
    <3>2. stamp'.lineage = lineage' /\ stamp'.wall = wall' /\ wall' <= wall'
      BY <1>1, <1>2 DEF stamp
    <3> QED BY <3>1, <3>2, Zenon
  <2>2. VoidOK'
    <3>1. timeline' = lineage'
      BY <1>1, Zenon
    <3>2. ASSUME NEW p \in LeasePrefix, held'[p] # None
          PROVE  held'[p].deadline = ZeroStamp /\ held'[p].lease.requested_at.lineage < lineage'
      <4>1. held[p] # None /\ held'[p] = [held[p] EXCEPT !.deadline = ZeroStamp]
        BY <3>2, <1>8, Zenon
      <4>2. held'[p].deadline = ZeroStamp /\ held'[p].lease = held[p].lease
        BY <4>1, <1>7, Zenon DEF Held
      <4> QED BY <4>1, <4>2, <1>11, Zenon
    <3> QED BY <3>1, <3>2, <1>1, <1>3, <1>11, Zenon DEF VoidOK
  <2> QED BY <2>1, <2>2, Zenon DEF CallOK
<1> QED BY <1>4, <1>5, <1>10, <1>14, <1>15, <1>16, <1>17, Zenon DEF LeaseInv

\* A regressed open ends with the reading it was opened at as the clock record.
LEMMA OpenRecordKeeps ==
  ASSUME LeaseInv, OpenRecord
  PROVE  LeaseInv'
<1>1. /\ call # None /\ call.stage = "open" /\ clock_high' = call.send.wall /\ call' = None
      /\ UNCHANGED <<now, serverVars, held, revived, tail, neck, clocks, mailbox>>
  BY Zenon DEF OpenRecord, Opening, record_clock, records
<1>2. UNCHANGED <<now, wall, lineage, anchor, timeline, clocks, leases, next_lease_id, held, revived>>
  BY <1>1, Zenon DEF serverVars, leaseVars, clocks
<1>3. call.send.wall \in Nat /\ call.send.wall <= wall
  BY <1>1, Zenon DEF LeaseInv, TypeOK, CallOK, Call, Stamps
<1>4. TypeOK'
  BY <1>1, <1>3, Zenon DEF LeaseInv, TypeOK, serverVars, leaseVars, clocks
<1>5. ClocksOK'
  BY <1>1, <1>2, <1>3, Zenon DEF LeaseInv, ClocksOK
<1>6. RecordsOK'
  BY <1>2, Still, Zenon DEF LeaseInv
<1>7. HeldOK'
  <2>1. \A p \in LeasePrefix : held'[p] = held[p]
    BY <1>2, Zenon
  <2> QED BY <2>1, <1>2, KeptRecord, Zenon DEF HeldOK
<1>8. MailOK'
  <2>1. ~Waiting
    BY <1>1 DEF Waiting, Verb
  <2>2. \A i \in 1..Len(mailbox) : SentBy(mailbox[i].send, now)'
    BY <1>1, <1>2, Zenon DEF LeaseInv, MailOK, SentBy, OnServer, Ahead
  <2> QED BY <2>1, <2>2, <1>1, ZenonT(30) DEF LeaseInv, MailOK
<1>9. CallOK' /\ RenewOK' /\ AcquireOK' /\ ListOK'
  BY <1>1, Zenon DEF CallOK, RenewOK, AcquireOK, ListOK, Replied
<1> QED BY <1>4, <1>5, <1>6, <1>7, <1>8, <1>9, Zenon DEF LeaseInv

\* What executing a request does to the stored leases, whichever verb it is: ids are
\* fresh, a lease keeps its ttl and barrier, its stamp is the one it had or the
\* request's, and nothing live goes away unless it is released.
ServerMove(req) ==
  /\ leases' \subseteq Record /\ next_lease_id' \in Nat /\ next_lease_id <= next_lease_id'
  /\ RecordsOK'
  /\ \A new \in leases' :
       /\ \/ \E rec \in leases : rec.id = new.id /\ rec.ttl = new.ttl /\ rec.barrier = new.barrier
          \/ new.id >= next_lease_id /\ req.verb = "acquire"
       /\ new.id >= next_lease_id => new.requested_at = req.send
       /\ \/ \E rec \in leases : rec.requested_at = new.requested_at
          \/ new.requested_at = req.send /\ req.verb \in {"acquire", "renew"}
       /\ req.verb = "renew" /\ new.id \in req.ids => new.requested_at = req.send
  /\ \A rec \in leases : is_live(rec) /\ ~(req.verb = "release" /\ rec.id \in req.ids) =>
       \E new \in leases' : new.id = rec.id /\ rec.deadline <= new.deadline

\* Records are only dropped: expired ones, and those a release names.
LEMMA PurgeMoves ==
  ASSUME LeaseInv, UNCHANGED <<now, clocks, next_lease_id>>, NEW req, req.verb # "renew",
         leases' \subseteq leases,
         \A rec \in leases : is_live(rec) /\ ~(req.verb = "release" /\ rec.id \in req.ids) => rec \in leases'
  PROVE  ServerMove(req)
<1>1. next_lease_id \in Nat /\ leases \subseteq Record
  BY Zenon DEF LeaseInv, TypeOK
<1>2. \A rec \in leases : rec.id \in Nat /\ rec.id < next_lease_id /\ rec.deadline \in Nat
  BY <1>1, Zenon DEF LeaseInv, RecordsOK, Record
<1>3. RecordsOK'
  <2>1. \A rec \in leases : SentBy(rec.requested_at, rec.granted_at)'
    BY Zenon DEF LeaseInv, RecordsOK, SentBy, OnServer, Ahead, clocks
  <2> QED BY <2>1, Zenon DEF LeaseInv, RecordsOK
<1>4. \A rec \in leases : ~(rec.id >= next_lease_id)
  BY <1>1, <1>2
<1>5. \A rec \in leases : rec.deadline <= rec.deadline
  BY <1>2
<1> QED BY <1>1, <1>3, <1>4, <1>5 DEF ServerMove

\* renew: the named live leases are the device's own, and get the request's stamp.
LEMMA RenewMoves ==
  ASSUME LeaseInv, UNCHANGED clocks, NEW req \in InFlight, req.verb = "renew", SentBy(req.send, now),
         Renew(Me, req.ids, req.send)
  PROVE  ServerMove(req)
<1> DEFINE granted == {rec \in leases : rec.id \in req.ids /\ is_live(rec)}
           New(rec) == Renewed(rec, req.send)
<1>1. UNCHANGED <<now, next_lease_id>>
  BY Zenon DEF Renew
<1>2. /\ now \in Nat /\ next_lease_id \in Nat /\ leases \subseteq Record /\ req.send \in Stamps
      /\ \A rec \in leases : rec.device = Me
  BY Zenon DEF LeaseInv, TypeOK, Record, InFlight
<1>3. \A rec \in leases : /\ rec.id \in Nat /\ rec.deadline \in Nat /\ rec.granted_at \in Nat /\ rec.ttl \in Nat
                          /\ rec.id < next_lease_id /\ rec.granted_at <= now
                          /\ rec.deadline = rec.granted_at + rec.ttl
  BY <1>2, Zenon DEF LeaseInv, RecordsOK, Record
<1>4. leases' = {rec \in leases : rec.id \notin req.ids} \cup {New(rec) : rec \in granted}
  <2>1. leases' = (leases \ {rec \in leases : rec.id \in req.ids}) \cup {New(rec) : rec \in granted}
    BY <1>2, Zenon DEF Renew
  <2> QED BY <2>1, ZenonT(30)
<1>5. ASSUME NEW rec \in leases
      PROVE  /\ New(rec) \in Record /\ New(rec).id = rec.id /\ New(rec).ttl = rec.ttl
             /\ New(rec).barrier = rec.barrier /\ New(rec).requested_at = req.send
             /\ New(rec).granted_at = now /\ New(rec).deadline = now + rec.ttl
  <2>1. rec \in Record /\ now + rec.ttl \in Nat
    BY <1>2, <1>3
  <2> QED BY <2>1, <1>2, ZenonT(30) DEF Renewed, Record
<1> HIDE DEF New
<1>6. ASSUME NEW new \in leases'
      PROVE  \E rec \in leases : \/ new = rec /\ rec.id \notin req.ids
                                 \/ new = New(rec) /\ rec.id \in req.ids
  BY <1>4, <1>6, Zenon
<1>7. leases' \subseteq Record
  BY <1>2, <1>5, <1>6, ZenonT(30)
<1>8. SentBy(req.send, now)' /\ \A rec \in leases : SentBy(rec.requested_at, rec.granted_at)'
  BY <1>1, Zenon DEF LeaseInv, RecordsOK, SentBy, OnServer, Ahead, clocks
<1>9. RecordsOK'
  <2>1. ASSUME NEW new \in leases'
        PROVE  /\ new.id < next_lease_id' /\ new.granted_at <= now' /\ new.deadline = new.granted_at + new.ttl
               /\ SentBy(new.requested_at, new.granted_at)'
    <3>1. PICK rec \in leases : \/ new = rec /\ rec.id \notin req.ids
                                \/ new = New(rec) /\ rec.id \in req.ids
      BY <1>6, <2>1, Zenon
    <3>2. CASE new = rec
      BY <3>2, <1>1, <1>3, <1>8, Zenon
    <3>3. CASE new = New(rec)
      <4>1. /\ new.id = rec.id /\ new.requested_at = req.send /\ new.granted_at = now
            /\ new.deadline = now + rec.ttl /\ new.ttl = rec.ttl
        BY <3>3, <1>5, ZenonT(30)
      <4>2. SentBy(new.requested_at, new.granted_at)'
        BY <4>1, <1>1, <1>8, Zenon
      <4> QED BY <4>1, <4>2, <1>1, <1>2, <1>3
    <3> QED BY <3>1, <3>2, <3>3, Zenon
  <2>2. ASSUME NEW new \in leases', NEW other \in leases', new.id = other.id PROVE new = other
    <3>1. PICK rec \in leases : \/ new = rec /\ rec.id \notin req.ids
                                \/ new = New(rec) /\ rec.id \in req.ids
      BY <1>6, <2>2, Zenon
    <3>2. PICK old \in leases : \/ other = old /\ old.id \notin req.ids
                                \/ other = New(old) /\ old.id \in req.ids
      BY <1>6, <2>2, Zenon
    <3>3. new.id = rec.id /\ other.id = old.id
      BY <3>1, <3>2, <1>5, ZenonT(30)
    <3>4. rec = old
      BY <2>2, <3>3, ZenonT(30) DEF LeaseInv, RecordsOK
    <3> QED BY <3>1, <3>2, <3>4, Zenon
  <2> QED BY <2>1, <2>2, Zenon DEF RecordsOK
<1>10. ASSUME NEW new \in leases'
       PROVE  /\ \E rec \in leases : rec.id = new.id /\ rec.ttl = new.ttl /\ rec.barrier = new.barrier
              /\ ~(new.id >= next_lease_id)
              /\ \/ \E rec \in leases : rec.requested_at = new.requested_at
                 \/ new.requested_at = req.send
              /\ new.id \in req.ids => new.requested_at = req.send
  <2>1. PICK rec \in leases : \/ new = rec /\ rec.id \notin req.ids
                              \/ new = New(rec) /\ rec.id \in req.ids
    BY <1>6, <1>10, Zenon
  <2>2. new.id = rec.id /\ rec.ttl = new.ttl /\ rec.barrier = new.barrier
    BY <2>1, <1>5, ZenonT(30)
  <2>3. ~(new.id >= next_lease_id)
    BY <2>2, <1>2, <1>3
  <2> QED BY <2>1, <2>2, <2>3, <1>5, ZenonT(30)
<1>11. ASSUME NEW rec \in leases, is_live(rec)
       PROVE  \E new \in leases' : new.id = rec.id /\ rec.deadline <= new.deadline
  <2>1. CASE rec.id \in req.ids
    <3>1. New(rec) \in leases'
      BY <1>11, <2>1, <1>4, Zenon
    <3>2. New(rec).id = rec.id /\ rec.deadline <= New(rec).deadline
      <4>1. New(rec).id = rec.id /\ New(rec).deadline = now + rec.ttl
        BY <1>5, Zenon
      <4> QED BY <4>1, <1>2, <1>3
    <3> QED BY <3>1, <3>2, Zenon
  <2>2. CASE rec.id \notin req.ids
    BY <2>2, <1>3, <1>4
  <2> QED BY <2>1, <2>2, Zenon
<1> QED BY <1>1, <1>2, <1>7, <1>9, <1>10, <1>11 DEF ServerMove

\* acquire of one spec: a grant adds one lease under the next id; without a grant
\* only expired records go.
LEMMA AcquireMoves ==
  ASSUME LeaseInv, UNCHANGED clocks, NEW req \in InFlight, req.verb = "acquire", req.spec \in LeaseSpec,
         SentBy(req.send, now), Acquire(Me, <<req.spec>>, req.send)
  PROVE  ServerMove(req)
<1>1. UNCHANGED now
  BY Zenon DEF Acquire
<1>2. /\ DOMAIN <<req.spec>> = {1} /\ Len(<<req.spec>>) = 1 /\ <<req.spec>>[1] = req.spec
  OBVIOUS
<1>3. \A spec : \A rec \in DeadOverlapping(spec) : rec \in leases /\ ~is_live(rec)
  BY Zenon DEF DeadOverlapping
<1>4. CASE \/ AcquireContended(<<req.spec>>)
           \/ AcquireSelfOverlap(<<req.spec>>)
  <2>1. UNCHANGED next_lease_id
    BY <1>4, Zenon DEF AcquireContended, AcquireSelfOverlap
  <2>2. leases' \subseteq leases /\ \A rec \in leases : is_live(rec) => rec \in leases'
    <3>1. CASE AcquireContended(<<req.spec>>)
      BY <3>1, <1>3 DEF AcquireContended
    <3>2. CASE AcquireSelfOverlap(<<req.spec>>)
      BY <3>2, <1>3, Zenon DEF AcquireSelfOverlap
    <3> QED BY <1>4, <3>1, <3>2, Zenon
  <2> QED BY <2>1, <2>2, <1>1, PurgeMoves, Zenon
<1>5. CASE AcquireGrant(Me, <<req.spec>>, req.send)
  <2> PICK rec : rec = FreshLease(Me, req.spec, req.send, 1)
    BY Zenon
  <2> DEFINE kept == leases \ UNION {DeadOverlapping(<<req.spec>>[i].prefix) : i \in {1}}
  <2>1. /\ leases' = kept \cup {rec} /\ next_lease_id' = next_lease_id + 1
    <3>1. Granted(Me, <<req.spec>>, req.send) = {rec}
      BY <1>2, Zenon DEF Granted
    <3> QED BY <3>1, <1>2, <1>5, Zenon DEF AcquireGrant
  <2>2. /\ now \in Nat /\ next_lease_id \in Nat /\ leases \subseteq Record /\ req.send \in Stamps
        /\ admission_high_water \in Nat
    BY Zenon DEF LeaseInv, TypeOK, InFlight
  <2>3. req.spec.prefix \in LeasePrefix /\ req.spec.mode \in Mode /\ req.spec.ttl \in Nat
    BY LeaseAssumption, ZenonT(30) DEF LeaseSpec
  <2>4. /\ rec \in Record /\ rec.id = next_lease_id /\ rec.requested_at = req.send
        /\ rec.granted_at = now /\ rec.ttl = req.spec.ttl /\ rec.deadline = now + req.spec.ttl
    <3>1. next_lease_id + 1 - 1 = next_lease_id /\ now + req.spec.ttl \in Nat
      BY <2>2, <2>3
    <3> QED BY <2>2, <2>3, <3>1, Zenon DEF FreshLease, Record
  <2>5. kept \subseteq leases /\ \A old \in leases : is_live(old) => old \in kept
    BY <1>3, Zenon
  <2> HIDE DEF kept
  <2>6. \A old \in leases : old.id \in Nat /\ old.id < next_lease_id /\ old.deadline \in Nat
    BY <2>2, Zenon DEF LeaseInv, RecordsOK, Record
  <2>7. SentBy(req.send, now)' /\ \A old \in leases : SentBy(old.requested_at, old.granted_at)'
    BY <1>1, ZenonT(30) DEF LeaseInv, RecordsOK, SentBy, OnServer, Ahead, clocks
  <2>8. SentBy(rec.requested_at, rec.granted_at)'
    BY <2>4, <2>7, <1>1, Zenon
  <2>9. RecordsOK'
    <3>1. \A old \in leases : old.id # rec.id /\ old.id < next_lease_id'
      BY <2>1, <2>2, <2>4, <2>6
    <3>2. rec.id < next_lease_id' /\ rec.granted_at <= now' /\ rec.deadline = rec.granted_at + rec.ttl
      BY <2>1, <2>2, <2>3, <2>4, <1>1
    <3>3. \A new \in leases' : new = rec \/ new \in leases
      BY <2>1, <2>5, Zenon
    <3>4. \A new \in leases' : /\ new.id < next_lease_id' /\ new.granted_at <= now'
                               /\ new.deadline = new.granted_at + new.ttl
      BY <3>1, <3>2, <3>3, <1>1, Zenon DEF LeaseInv, RecordsOK
    <3>5. \A new \in leases' : SentBy(new.requested_at, new.granted_at)'
      BY <2>7, <2>8, <3>3, ZenonT(30)
    <3>6. \A new, other \in leases' : new.id = other.id => new = other
      BY <3>1, <3>3, Zenon DEF LeaseInv, RecordsOK
    <3> QED BY <3>4, <3>5, <3>6, Zenon DEF RecordsOK
  <2>10. \A old \in leases : ~(old.id >= next_lease_id) /\ old.deadline <= old.deadline
    BY <2>2, <2>6
  <2>11. next_lease_id' \in Nat /\ next_lease_id <= next_lease_id' /\ rec.id >= next_lease_id
    BY <2>1, <2>2, <2>4
  <2>12. leases' \subseteq Record
    BY <2>1, <2>2, <2>4, <2>5, ZenonT(30)
  <2>13. \A new \in leases' :
           /\ \/ \E old \in leases : old.id = new.id /\ old.ttl = new.ttl /\ old.barrier = new.barrier
              \/ new.id >= next_lease_id
           /\ new.id >= next_lease_id => new.requested_at = req.send
           /\ \/ \E old \in leases : old.requested_at = new.requested_at
              \/ new.requested_at = req.send
    BY <2>1, <2>4, <2>5, <2>10, <2>11, Zenon
  <2>14. \A old \in leases : is_live(old) =>
           \E new \in leases' : new.id = old.id /\ old.deadline <= new.deadline
    BY <2>1, <2>5, <2>10, Zenon
  <2> QED BY <2>9, <2>11, <2>12, <2>13, <2>14, Zenon DEF ServerMove
<1> QED BY <1>4, <1>5, Zenon DEF Acquire

\* A lease the server has on record, as the client would store it: it is backed up
\* to its send stamp plus its ttl.
LEMMA GrantBacked ==
  ASSUME TypeOK', RecordsOK', NEW rec \in leases', rec.requested_at.lineage >= timeline'
  PROVE  Backed(rec.id, Plus(rec.requested_at, rec.ttl))'
<1> DEFINE at == Plus(rec.requested_at, rec.ttl)
<1>1. /\ rec.requested_at \in Stamps /\ rec.ttl \in Nat /\ rec.granted_at \in Nat
      /\ wall' \in Nat /\ now' \in Nat /\ anchor' \in Int
  BY Zenon DEF TypeOK, Record
<1>2. at.wall = rec.requested_at.wall + rec.ttl /\ at.lineage = rec.requested_at.lineage
  BY Zenon DEF Plus
<1>3. rec.deadline = rec.granted_at + rec.ttl /\ SentBy(rec.requested_at, rec.granted_at)'
  BY Zenon DEF RecordsOK
<1>4. OnServer(rec.requested_at)' <= rec.granted_at
  BY <1>3, Zenon DEF SentBy
<1>5. OnServer(at)' <= rec.deadline
  <2> HIDE DEF at
  <2>1. /\ OnServer(at)' = at.wall - Ahead(at.lineage)'
        /\ OnServer(rec.requested_at)' = rec.requested_at.wall - Ahead(at.lineage)'
    BY <1>2, Zenon DEF OnServer
  <2>2. Ahead(at.lineage)' \in Int /\ rec.requested_at.wall \in Nat
    BY <1>1 DEF Ahead, Stamps
  <2> QED BY <1>1, <1>2, <1>3, <1>4, <2>1, <2>2
<1> QED BY <1>5, Zenon DEF Backed

\* And it is public as a lease that agrees with the record.
LEMMA GrantAgrees ==
  ASSUME leases' \subseteq Record, RecordsOK', NEW rec \in leases'
  PROVE  /\ Public(rec) \in Lease /\ Agrees(Public(rec))'
         /\ Public(rec).id = rec.id /\ Public(rec).ttl = rec.ttl /\ Public(rec).requested_at = rec.requested_at
<1>1. /\ Public(rec).id = rec.id /\ Public(rec).ttl = rec.ttl /\ Public(rec).barrier = rec.barrier
      /\ Public(rec).requested_at = rec.requested_at
  BY Zenon DEF Public
<1>2. Public(rec) \in Lease
  BY Zenon DEF Public, Lease, Record
<1>3. Agrees(Public(rec))'
  BY <1>1, Zenon DEF Agrees, RecordsOK
<1> QED BY <1>1, <1>2, <1>3, Zenon

\* What was known of a lease before the request stays known.
LEMMA MovedOn ==
  ASSUME LeaseInv, UNCHANGED <<now, clocks>>, NEW req, ServerMove(req)
  PROVE  /\ \A send, time : SentBy(send, time) => SentBy(send, time)'
         /\ \A lease : lease.id \in Nat /\ Agrees(lease) => Agrees(lease)'
         /\ \A id : \A deadline \in Stamps :
              Backed(id, deadline) /\ ~(req.verb = "release" /\ id \in req.ids) => Backed(id, deadline)'
<1>1. \A at : OnServer(at)' = OnServer(at)
  BY Zenon DEF OnServer, Ahead, clocks
<1>2. \A send, time : SentBy(send, time) => SentBy(send, time)'
  BY <1>1, Zenon DEF SentBy, clocks
<1>3. /\ next_lease_id \in Nat /\ next_lease_id' \in Nat /\ next_lease_id <= next_lease_id'
      /\ now \in Nat /\ wall \in Nat /\ anchor \in Int /\ leases \subseteq Record /\ leases' \subseteq Record
  BY Zenon DEF LeaseInv, TypeOK, ServerMove
<1>4. ASSUME NEW lease, lease.id \in Nat, Agrees(lease) PROVE Agrees(lease)'
  <2>1. lease.id < next_lease_id /\ lease.id < next_lease_id'
    BY <1>3, <1>4 DEF Agrees
  <2>2. ASSUME NEW new \in leases', new.id = lease.id
        PROVE  new.ttl = lease.ttl /\ new.barrier = lease.barrier
    <3>1. ~(new.id >= next_lease_id)
      BY <2>1, <2>2, <1>3, <1>4
    <3>2. PICK rec \in leases : rec.id = new.id /\ rec.ttl = new.ttl /\ rec.barrier = new.barrier
      BY <2>2, <3>1, Zenon DEF ServerMove
    <3> QED BY <2>2, <3>2, <1>4, Zenon DEF Agrees
  <2> QED BY <2>1, <2>2, Zenon DEF Agrees
<1>5. ASSUME NEW id, NEW deadline \in Stamps, Backed(id, deadline),
             ~(req.verb = "release" /\ id \in req.ids)
      PROVE  Backed(id, deadline)'
  <2>1. OnServer(deadline) \in Int
    BY <1>3 DEF OnServer, Ahead, Stamps
  <2>2. CASE OnServer(deadline) <= now
    BY <2>2, <1>1, Zenon DEF Backed
  <2>3. CASE \E rec \in leases : rec.id = id /\ OnServer(deadline) <= rec.deadline
    <3>1. PICK rec \in leases : rec.id = id /\ OnServer(deadline) <= rec.deadline
      BY <2>3, Zenon
    <3>2. rec.deadline \in Nat
      BY <1>3, Zenon DEF Record
    <3>3. CASE is_live(rec)
      <4>1. PICK new \in leases' : new.id = rec.id /\ rec.deadline <= new.deadline
        BY <3>1, <3>3, <1>5, Zenon DEF ServerMove
      <4>2. new.deadline \in Nat
        BY <1>3, Zenon DEF Record
      <4>3. OnServer(deadline) <= new.deadline
        BY <2>1, <3>1, <3>2, <4>1, <4>2
      <4> QED BY <3>1, <4>1, <4>3, <1>1, Zenon DEF Backed
    <3>4. CASE ~is_live(rec)
      <4>1. OnServer(deadline) <= now
        BY <2>1, <3>1, <3>2, <3>4, <1>3 DEF is_live
      <4> QED BY <4>1, <1>1, Zenon DEF Backed
    <3> QED BY <3>3, <3>4, Zenon
  <2> QED BY <1>5, <2>2, <2>3, Zenon DEF Backed
<1>6. \A lease : lease.id \in Nat /\ Agrees(lease) => Agrees(lease)'
  BY <1>4, Zenon
<1>7. \A id : \A deadline \in Stamps :
        Backed(id, deadline) /\ ~(req.verb = "release" /\ id \in req.ids) => Backed(id, deadline)'
  BY <1>5, Zenon
<1> QED BY <1>2, <1>6, <1>7, Zenon

\* The server executes the oldest request and answers with leases it has on
\* record: new ones for an acquire, those named for a renew.
LEMMA ServerReplies ==
  ASSUME LeaseInv, ServerStep
  PROVE  /\ ServerMove(mailbox[1]) /\ UNCHANGED <<now, admission_high_water>>
         /\ \E granted :
              /\ call' = IF mailbox[1].live THEN [call EXCEPT !.reply = [granted |-> granted]] ELSE call
              /\ \A lease \in granted : \E rec \in leases' :
                   /\ lease = Public(rec)
                   /\ mailbox[1].verb = "acquire" => rec.id >= next_lease_id
                   /\ mailbox[1].verb = "renew" => rec.id \in mailbox[1].ids
<1> DEFINE req == mailbox[1]
           Replies(granted) ==
             /\ call' = IF req.live THEN [call EXCEPT !.reply = [granted |-> granted]] ELSE call
             /\ \A lease \in granted : \E rec \in leases' :
                  /\ lease = Public(rec)
                  /\ req.verb = "acquire" => rec.id >= next_lease_id
                  /\ req.verb = "renew" => rec.id \in req.ids
<1>1. UNCHANGED clocks /\ mailbox # <<>> /\ 1 \in 1..Len(mailbox)
  BY DEF ServerStep, LeaseInv, TypeOK
<1>2. /\ req \in InFlight /\ SentBy(req.send, now)
      /\ req.verb = "acquire" => req.spec \in LeaseSpec
  BY <1>1, MailTypes, Zenon DEF LeaseInv, MailOK
<1>3. CASE req.verb = "acquire"
  <2>1. Acquire(Me, <<req.spec>>, req.send)
    BY <1>3, Zenon DEF ServerStep
  <2>2. ServerMove(req)
    BY <2>1, <1>1, <1>2, <1>3, AcquireMoves, Zenon
  <2>3. Replies({Public(rec) : rec \in {r \in leases' : r.id >= next_lease_id}})
    BY <1>3, Zenon DEF ServerStep
  <2> HIDE DEF Replies
  <2>4. \E granted : Replies(granted)
    BY <2>3, Zenon
  <2>5. UNCHANGED <<now, admission_high_water>>
    BY <2>1, Zenon DEF Acquire
  <2> QED BY <2>2, <2>4, <2>5, Zenon DEF Replies
<1>4. CASE req.verb = "renew"
  <2>1. Renew(Me, req.ids, req.send)
    BY <1>4, Zenon DEF ServerStep
  <2>2. ServerMove(req)
    BY <2>1, <1>1, <1>2, <1>4, RenewMoves, Zenon
  <2>3. Replies({Public(rec) : rec \in {r \in {q \in leases' : q.device = Me} : r.id \in req.ids}})
    BY <1>4, Zenon DEF ServerStep
  <2> HIDE DEF Replies
  <2>4. \E granted : Replies(granted)
    BY <2>3, Zenon
  <2>5. UNCHANGED <<now, admission_high_water>>
    BY <2>1, Zenon DEF Renew
  <2> QED BY <2>2, <2>4, <2>5, Zenon DEF Replies
<1>5. CASE req.verb = "release"
  <2>1. Release(Me, req.ids)
    BY <1>5, Zenon DEF ServerStep
  <2>2. UNCHANGED <<now, admission_high_water, next_lease_id>>
    BY <2>1, Zenon DEF Release
  <2>3. /\ leases' \subseteq leases
        /\ \A rec \in leases : is_live(rec) /\ ~(rec.id \in req.ids) => rec \in leases'
    BY <2>1, Zenon DEF Release
  <2>4. ServerMove(req)
    BY <2>2, <2>3, <1>1, <1>5, PurgeMoves, Zenon
  <2>5. Replies({})
    BY <1>5, Zenon DEF ServerStep
  <2> HIDE DEF Replies
  <2>6. \E granted : Replies(granted)
    BY <2>5, Zenon
  <2> QED BY <2>2, <2>4, <2>6, Zenon DEF Replies
<1>6. CASE req.verb = "list"
  <2>1. ListLeases
    BY <1>6, Zenon DEF ServerStep
  <2>2. UNCHANGED <<now, admission_high_water, next_lease_id>>
    BY <2>1, Zenon DEF ListLeases
  <2>3. leases' \subseteq leases /\ \A rec \in leases : is_live(rec) => rec \in leases'
    BY <2>1, Zenon DEF ListLeases
  <2>4. ServerMove(req)
    BY <2>2, <2>3, <1>1, <1>6, PurgeMoves, Zenon
  <2>5. Replies({Public(rec) : rec \in {r \in leases' : r.device = Me}})
    BY <1>6, Zenon DEF ServerStep
  <2> HIDE DEF Replies
  <2>6. \E granted : Replies(granted)
    BY <2>5, Zenon
  <2> QED BY <2>2, <2>4, <2>6, Zenon DEF Replies
<1>7. req.verb \in Verb
  BY <1>2, Zenon DEF InFlight
<1> QED BY <1>3, <1>4, <1>5, <1>6, <1>7, Zenon DEF Verb

\* A request is executed, however long after it was sent.
LEMMA ServerStepKeeps ==
  ASSUME LeaseInv, ServerStep
  PROVE  LeaseInv'
<1> DEFINE req == mailbox[1]
<1>1. /\ mailbox # <<>> /\ mailbox' = Tail(mailbox)
      /\ UNCHANGED <<held, revived, clock_high, tail, neck, wall, mono, lineage, anchor, timeline>>
  BY Zenon DEF ServerStep, durable, records, clocks
<1>2. ServerMove(req) /\ now' = now /\ admission_high_water' = admission_high_water
  BY ServerReplies, Zenon
<1>3. PICK granted :
        /\ call' = IF req.live THEN [call EXCEPT !.reply = [granted |-> granted]] ELSE call
        /\ \A lease \in granted : \E rec \in leases' :
             /\ lease = Public(rec)
             /\ req.verb = "acquire" => rec.id >= next_lease_id
             /\ req.verb = "renew" => rec.id \in req.ids
  BY ServerReplies, Zenon
<1>4. /\ \A send, time : SentBy(send, time) => SentBy(send, time)'
      /\ \A lease : lease.id \in Nat /\ Agrees(lease) => Agrees(lease)'
      /\ \A id : \A deadline \in Stamps :
           Backed(id, deadline) /\ ~(req.verb = "release" /\ id \in req.ids) => Backed(id, deadline)'
  BY <1>1, <1>2, MovedOn, Zenon DEF clocks
<1>5. /\ mailbox \in Seq(InFlight) /\ Len(mailbox) \in Nat /\ 1 \in 1..Len(mailbox)
      /\ mailbox' \in Seq(InFlight) /\ Len(mailbox') = Len(mailbox) - 1
      /\ \A i \in 1..Len(mailbox') : i + 1 \in 1..Len(mailbox) /\ mailbox'[i] = mailbox[i + 1]
  BY <1>1 DEF LeaseInv, TypeOK
<1>6. req.live => /\ Len(mailbox) = 1 /\ Waiting /\ req.verb = call.stage
                  /\ req.ids = call.ids /\ req.send = call.send
  BY <1>5, ZenonT(30) DEF LeaseInv, MailOK
<1>7. call # None => call.reply = None
  BY <1>1, Zenon DEF LeaseInv, CallOK
<1>8. leases' \subseteq Record /\ RecordsOK' /\ next_lease_id' \in Nat
  BY <1>2, Zenon DEF ServerMove
<1>9. granted \subseteq Lease /\ \A lease \in granted : Agrees(lease)'
  BY <1>3, <1>8, GrantAgrees, Zenon
<1>11. req.live => /\ call \in Call /\ call # None /\ call.stage \in Verb /\ mailbox' = <<>>
                   /\ call' \in Call /\ call' # None /\ call'.reply # None /\ call'.reply.granted = granted
                   /\ call'.stage = call.stage /\ call'.spec = call.spec
                   /\ call'.ids = call.ids /\ call'.send = call.send
  <2> SUFFICES ASSUME req.live
               PROVE  /\ call \in Call /\ call # None /\ call.stage \in Verb /\ mailbox' = <<>>
                      /\ call' \in Call /\ call' # None /\ call'.reply # None /\ call'.reply.granted = granted
                      /\ call'.stage = call.stage /\ call'.spec = call.spec
                      /\ call'.ids = call.ids /\ call'.send = call.send
    BY Zenon
  <2>1. call \in Call /\ call # None /\ call.stage \in Verb
    BY <1>6, Zenon DEF Waiting, LeaseInv, TypeOK
  <2>2. mailbox' = <<>>
    BY <1>5, <1>6
  <2>3. call' = [call EXCEPT !.reply = [granted |-> granted]] /\ [granted |-> granted] \in Reply
    BY <1>3, <1>9, Zenon DEF Reply
  <2>4. call' \in Call /\ call'.reply = [granted |-> granted]
    BY <2>1, <2>3, Zenon DEF Call
  <2>5. [granted |-> granted] # None
    BY <2>3, CallAssumption, Zenon
  <2> QED BY <2>1, <2>2, <2>3, <2>4, <2>5, CallAssumption, Zenon DEF Call
<1>10. ClocksOK'
  <2>1. Opening => ~req.live
    BY <1>6 DEF Opening, Waiting, Verb
  <2>2. Opening => Opening'
    BY <2>1, <1>3, Zenon DEF Opening
  <2> QED BY <2>2, <1>1, <1>2, Zenon DEF LeaseInv, ClocksOK
<1>12. TypeOK'
  <2>1. call' \in Call \cup {None}
    BY <1>3, <1>11, Zenon DEF LeaseInv, TypeOK
  <2> QED BY <2>1, <1>1, <1>2, <1>5, <1>8, Zenon DEF LeaseInv, TypeOK
<1>13. HeldOK'
  <2> SUFFICES ASSUME NEW p \in LeasePrefix, held[p] # None
               PROVE  ( /\ Agrees(held[p].lease)
                        /\ held[p].deadline.lineage >= timeline /\ ~held[p].forgotten =>
                             Backed(held[p].lease.id, held[p].deadline) )'
    BY <1>1, Zenon DEF LeaseInv, HeldOK, StoredOK, Plus
  <2>1. PICK h : h = held[p]
    BY Zenon
  <2>2. /\ h.lease.id \in Nat /\ h.deadline \in Stamps /\ Agrees(h.lease)
        /\ h.deadline.lineage >= timeline /\ ~h.forgotten => Backed(h.lease.id, h.deadline)
    <3>1. h \in Held
      BY <2>1, Zenon DEF LeaseInv, TypeOK
    <3> QED BY <2>1, <3>1, Zenon DEF LeaseInv, HeldOK, StoredOK, Held, Lease
  <2>3. ~h.forgotten => ~(req.verb = "release" /\ h.lease.id \in req.ids)
    BY <2>1, <1>5, Zenon DEF LeaseInv, MailOK
  <2>4. Agrees(h.lease)' /\ (h.deadline.lineage >= timeline /\ ~h.forgotten => Backed(h.lease.id, h.deadline)')
    BY <2>2, <2>3, <1>4, Zenon
  <2> QED BY <2>1, <2>4, <1>1, ZenonT(30) DEF Agrees, Backed, OnServer, Ahead
<1>14. MailOK'
  <2> SUFFICES ASSUME NEW i \in 1..Len(mailbox')
               PROVE  /\ SentBy(mailbox[i].send, now)'
                      /\ mailbox'[i].verb = "acquire" => mailbox'[i].spec \in LeaseSpec
                      /\ mailbox'[i].verb = "release" =>
                           \A p \in LeasePrefix :
                             held'[p] # None /\ held'[p].lease.id \in mailbox'[i].ids => held'[p].forgotten
                      /\ mailbox'[i].live =>
                           /\ i = Len(mailbox') /\ Waiting' /\ mailbox'[i].verb = call'.stage
                           /\ mailbox'[i].ids = call'.ids /\ mailbox'[i].spec = call'.spec
                           /\ mailbox'[i].send = call'.send
    BY Zenon DEF MailOK
  <2>1. PICK m : m = mailbox[i + 1]
    BY Zenon
  <2>2. i + 1 \in 1..Len(mailbox) /\ mailbox'[i] = m /\ Len(mailbox) > 1
    BY <2>1, <1>5
  <2>3. /\ SentBy(m.send, now)
        /\ m.verb = "acquire" => m.spec \in LeaseSpec
        /\ m.verb = "release" =>
             \A p \in LeasePrefix : held[p] # None /\ held[p].lease.id \in m.ids => held[p].forgotten
        /\ m.live => /\ i + 1 = Len(mailbox) /\ Waiting /\ m.verb = call.stage
                     /\ m.ids = call.ids /\ m.spec = call.spec /\ m.send = call.send
    BY <2>1, <2>2, Zenon DEF LeaseInv, MailOK
  <2>4. call' = call
    BY <2>2, <1>3, <1>5, <1>6
  <2>5. SentBy(mailbox[i].send, now)'
    <3>1. SentBy(m.send, now)'
      BY <2>3, <1>2, <1>4, Zenon
    <3> QED BY <3>1, <2>2, Zenon DEF SentBy, OnServer, Ahead
  <2>6. Waiting => Waiting'
    BY <2>4, Zenon DEF Waiting
  <2>7. m.live => i = Len(mailbox')
    <3>1. m.live => i + 1 = Len(mailbox)
      BY <2>3, Zenon
    <3> QED BY <3>1, <1>5
  <2> QED BY <2>2, <2>3, <2>4, <2>5, <2>6, <2>7, <1>1, ZenonT(30)
<1>15. CallOK'
  <2>1. CASE ~req.live
    <3>1. VoidOK => VoidOK'
      <4>1. \A new \in leases' : new.requested_at = req.send \/ \E rec \in leases : rec.requested_at = new.requested_at
        BY <1>2, Zenon DEF ServerMove
      <4> QED BY <4>1, <1>1, <1>5, Zenon DEF VoidOK
    <3> QED BY <2>1, <3>1, <1>1, <1>3, <1>7, Zenon DEF LeaseInv, CallOK
  <2>2. CASE req.live
    <3>1. /\ call # None /\ call.stage \notin {"renew_store", "recheck", "acquire_store", "open"}
      BY <2>2, <1>11, Zenon DEF Verb
    <3>2. /\ call'.send.lineage = lineage' /\ clock_high' <= call'.send.wall /\ call'.send.wall <= wall'
          /\ call'.stage \in {"renew", "acquire"} => call'.spec \in LeaseSpec
          /\ call'.stage = "renew" => \E id \in Nat : call'.ids = {id}
      BY <2>2, <3>1, <1>1, <1>11, Zenon DEF LeaseInv, CallOK
    <3>3. mailbox' = <<>> /\ call'.stage = call.stage
      BY <2>2, <1>11, Zenon
    <3> QED BY <3>1, <3>2, <3>3, Zenon DEF CallOK
  <2> QED BY <2>1, <2>2, Zenon
<1>16. RenewOK'
  <2> SUFFICES ASSUME Replied({"renew", "renew_store"})', NEW p \in LeasePrefix,
                      held[p] # None, held[p].lease.id \in call'.ids
               PROVE  Backed(held[p].lease.id, Plus(call.send, held[p].lease.ttl))'
    BY <1>1, Zenon DEF RenewOK
  <2>1. req.live
    BY <1>3, <1>7, Zenon DEF Replied
  <2>2. req.verb = "renew" /\ granted # {} /\ call'.send = req.send /\ call'.ids = req.ids /\ call.stage = "renew"
    BY <2>1, <1>6, <1>11, Zenon DEF Replied, Verb
  <2>3. PICK rec \in leases' : rec.id \in req.ids
    BY <2>2, <1>3, Zenon
  <2>4. rec.requested_at = call'.send
    BY <2>2, <2>3, <1>2, Zenon DEF ServerMove
  <2>5. rec.requested_at.lineage >= timeline'
    BY <2>1, <2>4, <1>1, <1>11, <1>12, <1>15 DEF TypeOK, CallOK
  <2>6. Backed(rec.id, Plus(rec.requested_at, rec.ttl))'
    BY <2>5, <1>8, <1>12, GrantBacked, Zenon
  <2>7. rec.id = held[p].lease.id
    <3>1. \E id \in Nat : call.ids = {id}
      BY <2>1, <2>2, <1>11, Zenon DEF LeaseInv, CallOK
    <3> QED BY <3>1, <2>1, <2>2, <2>3, <1>11
  <2>8. rec.ttl = held[p].lease.ttl
    <3>1. Agrees(held[p].lease)'
      BY <1>1, <1>13, Zenon DEF HeldOK, StoredOK
    <3> QED BY <3>1, <2>7, <1>1, ZenonT(30) DEF Agrees
  <2> QED BY <2>4, <2>6, <2>7, <2>8, <1>1, ZenonT(30) DEF Backed, OnServer, Ahead
<1>17. AcquireOK'
  <2> SUFFICES ASSUME Replied({"acquire", "acquire_store"})', NEW lease \in granted
               PROVE  /\ Agrees(lease)' /\ lease.requested_at = call'.send
                      /\ Backed(lease.id, Plus(call.send, lease.ttl))'
    <3>1. Replied({"acquire", "acquire_store"})' => call'.reply.granted = granted
      BY <1>3, <1>7, <1>11, Zenon DEF Replied
    <3> QED BY <3>1, Zenon DEF AcquireOK
  <2>1. req.live
    BY <1>3, <1>7, Zenon DEF Replied
  <2>2. req.verb = "acquire" /\ call'.send = req.send
    BY <2>1, <1>6, <1>11, Zenon DEF Replied, Verb
  <2>3. PICK rec \in leases' : lease = Public(rec) /\ rec.id >= next_lease_id
    BY <2>2, <1>3, Zenon
  <2>4. rec.requested_at = call'.send
    BY <2>2, <2>3, <1>2, Zenon DEF ServerMove
  <2>5. rec.requested_at.lineage >= timeline'
    BY <2>1, <2>4, <1>1, <1>11, <1>12, <1>15, SMTT(30) DEF TypeOK, CallOK
  <2>6. Backed(rec.id, Plus(rec.requested_at, rec.ttl))'
    BY <2>5, <1>8, <1>12, GrantBacked, Zenon
  <2>7. lease.id = rec.id /\ lease.ttl = rec.ttl /\ lease.requested_at = rec.requested_at
    BY <2>3, <1>8, GrantAgrees, Zenon
  <2> QED BY <2>4, <2>6, <2>7, <1>9, Zenon DEF Backed, OnServer, Ahead
<1>18. ListOK'
  <2>1. ASSUME Replied({"list"})', NEW lease \in granted
        PROVE  /\ Agrees(lease)' /\ lease.requested_at.lineage <= lineage'
               /\ lease.requested_at.lineage >= timeline' =>
                    Backed(lease.id, Plus(lease.requested_at, lease.ttl))'
    <3>1. PICK rec \in leases' : lease = Public(rec)
      BY <1>3, Zenon
    <3>2. lease.id = rec.id /\ lease.ttl = rec.ttl /\ lease.requested_at = rec.requested_at
      BY <3>1, <1>8, GrantAgrees, Zenon
    <3>3. rec.requested_at.lineage >= timeline' => Backed(rec.id, Plus(rec.requested_at, rec.ttl))'
      BY <1>8, <1>12, GrantBacked, Zenon
    <3>4. rec.requested_at.lineage <= lineage'
      BY <1>8, Zenon DEF RecordsOK, SentBy
    <3>5. Agrees(lease)'
      BY <1>9, Zenon
    <3> QED BY <3>2, <3>3, <3>4, <3>5, Zenon DEF Backed, OnServer, Ahead
  <2>2. Replied({"list"})' => call'.reply.granted = granted
    BY <1>3, <1>7, <1>11, Zenon DEF Replied
  <2> QED BY <2>1, <2>2, Zenon DEF ListOK
<1> QED BY <1>8, <1>10, <1>12, <1>13, <1>14, <1>15, <1>16, <1>17, <1>18, SMTT(30) DEF LeaseInv

\* No step of the device, of the server or of the clocks breaks the invariant.
LEMMA LeaseNextInv ==
  ASSUME LeaseInv, [Next]_vars
  PROVE  LeaseInv'
<1>1. ASSUME NEW spec \in Wanted, LeaseStart(spec) PROVE LeaseInv'
  BY <1>1, LeaseStartKeeps, Zenon
<1>2. CASE RenewRecordClock \/ AcquireRecordClock
  BY <1>2, RecordClockKeeps, Zenon
<1>3. CASE RenewStore
  BY <1>3, RenewStoreKeeps, Zenon
<1>4. CASE RenewInvalid \/ UnleaseDrop
  BY <1>4, DroppedKeeps, Zenon
<1>5. CASE LeaseRecheck
  BY <1>5, LeaseRecheckKeeps, SMTT(30)
<1>6. CASE AcquireStore
  BY <1>6, AcquireStoreKeeps, Zenon
<1>7. CASE AcquireRefused \/ GiveUp
  BY <1>7, EndKeeps, Zenon
<1>8. CASE BarrierPull
  BY <1>8, BarrierPullKeeps, Zenon
<1>9. CASE RepairStart
  BY <1>9, RepairStartKeeps, Zenon
<1>10. CASE RepairStore
  BY <1>10, RepairStoreKeeps, Zenon
<1>11. CASE MarkApplied \/ SomeAdmission
  BY <1>11, ElsewhereKeeps, Zenon
<1>12. ASSUME NEW reading \in 1..MaxWall, Reopen(reading) PROVE LeaseInv'
  BY <1>12, ReopenKeeps, Zenon
<1>13. ASSUME NEW running \in BOOLEAN, Pass(running) PROVE LeaseInv'
  BY <1>13, PassKeeps
<1>14. CASE ServerStep
  BY <1>14, ServerStepKeeps, Zenon
<1>15. CASE ServerRestart
  BY <1>15, ServerRestartKeeps, Zenon
<1>16. ASSUME NEW ids \in HeldIds, UnleaseStart(ids) PROVE LeaseInv'
  BY <1>16, UnleaseStartKeeps, Zenon
<1>17. CASE UNCHANGED vars
  <2>1. UNCHANGED <<now, serverVars, durable, clocks>> /\ UNCHANGED <<call, mailbox>>
    BY <1>17, Zenon DEF vars
  <2>2. MailOK' /\ CallOK'
    BY <2>1, ZenonT(30) DEF LeaseInv, MailOK, CallOK, VoidOK, Waiting, SentBy, OnServer, Ahead,
                serverVars, leaseVars, durable, records, clocks
  <2>3. RenewOK'
    BY <2>1, Zenon DEF LeaseInv, RenewOK, Replied, Backed, OnServer, Ahead,
                serverVars, leaseVars, durable, records, clocks
  <2>7. AcquireOK'
    BY <2>1, Zenon DEF LeaseInv, AcquireOK, Replied, Agrees, Backed, OnServer, Ahead,
                serverVars, leaseVars, durable, records, clocks
  <2>4. ListOK'
    BY <2>1, Zenon DEF LeaseInv, ListOK, Replied, Agrees, Backed, OnServer, Ahead,
                serverVars, leaseVars, durable, records, clocks
  <2>5. mailbox' \in Seq(InFlight) /\ call' \in Call \cup {None}
    BY <2>1, Zenon DEF LeaseInv, TypeOK
  <2>6. Opening => Opening'
    BY <2>1, Zenon DEF Opening
  <2> QED BY <2>1, <2>2, <2>3, <2>4, <2>5, <2>6, <2>7, OnlyCallMoves, Zenon
<1>18. CASE OpenRecord
  BY <1>18, OpenRecordKeeps, Zenon
<1>19. CASE LeaseStep
  BY <1>19, <1>1, <1>2, <1>3, <1>4, <1>5, <1>6, <1>7, <1>8, <1>9, <1>10, <1>11, <1>12, <1>13,
     <1>14, <1>15, <1>18, SMTT(30) DEF LeaseStep
<1> QED BY <1>11, <1>16, <1>17, <1>19, Zenon DEF Next

\* A lease the device takes for live, and that was not revived, is, on the server's
\* clock, before a deadline the server keeps it to.
LEMMA LiveIsBacked ==
  ASSUME LeaseInv
  PROVE  LocalAuthorityUnlessRevived
<1> SUFFICES ASSUME NEW h \in HeldRecords, h.lease.id \notin revived, Active(h), lease_live(h)
             PROVE  \E rec \in leases :
                      rec.id = h.lease.id /\ rec.device = Me /\ is_live(rec) /\ rec.barrier = h.lease.barrier
  BY Zenon DEF LocalAuthorityUnlessRevived, Backing
<1>1. PICK p \in LeasePrefix : h = held[p] /\ h # None
  BY Zenon DEF HeldRecords
<1>2. /\ h.deadline.wall \in Nat /\ h.deadline.lineage \in Nat /\ Margin \in Nat
      /\ now \in Nat /\ wall \in Nat /\ lineage \in Nat /\ anchor \in Int /\ timeline \in Nat
      /\ timeline <= lineage /\ leases \subseteq Record
  <2>1. h \in Held
    BY <1>1, Zenon DEF LeaseInv, TypeOK
  <2> QED BY <2>1, ClientAssumption DEF Held, Stamps, LeaseInv, TypeOK
<1>3. /\ Agrees(h.lease)
      /\ h.deadline.lineage < timeline => h.deadline.wall = 0
      /\ h.deadline.lineage >= timeline => Backed(h.lease.id, h.deadline)
  BY <1>1, Zenon DEF LeaseInv, HeldOK, StoredOK, Active
<1>4. /\ h.deadline.lineage = lineage => wall < h.deadline.wall
      /\ h.deadline.lineage # lineage => wall + Margin < h.deadline.wall
  BY <1>2 DEF lease_live, expired
<1>5. anchor - Margin <= wall - now
  BY Zenon DEF LeaseInv, ClocksOK
<1>6. h.deadline.lineage >= timeline
  BY <1>2, <1>3, <1>4
<1>7. OnServer(h.deadline) \in Int /\ now < OnServer(h.deadline)
  BY <1>2, <1>4, <1>5 DEF OnServer, Ahead
<1>8. PICK rec \in leases : rec.id = h.lease.id /\ OnServer(h.deadline) <= rec.deadline
  BY <1>2, <1>3, <1>6, <1>7 DEF Backed
<1>9. rec.deadline \in Nat /\ rec.device = Me
  BY <1>2, Zenon DEF Record
<1>10. is_live(rec)
  BY <1>2, <1>7, <1>8, <1>9, SMTT(30) DEF is_live
<1> QED BY <1>3, <1>8, <1>9, <1>10, ZenonT(30) DEF Agrees

\* A stamp under the clock record stays under it when the record does not go back.
LEMMA RecordedStays ==
  ASSUME LeaseInv, NEW p \in LeasePrefix, StampRecorded(p), clock_high <= clock_high', clock_high' \in Nat,
         \/ held'[p] \in {held[p], None}
         \/ held[p] # None /\ held'[p].deadline = held[p].deadline /\ held'[p].lease.ttl = held[p].lease.ttl
  PROVE  StampRecorded(p)'
<1>1. held[p] # None => held[p].deadline.wall \in Nat /\ held[p].lease.ttl \in Nat
  BY Zenon DEF LeaseInv, TypeOK, Held, Lease, Stamps
<1>2. clock_high \in Nat
  BY ClockTypes, Zenon
<1> SUFFICES ASSUME held'[p] # None PROVE held'[p].deadline.wall - held'[p].lease.ttl <= clock_high'
  BY Zenon DEF StampRecorded
<1>3. /\ held[p] # None /\ held'[p].deadline.wall = held[p].deadline.wall
      /\ held'[p].lease.ttl = held[p].lease.ttl
  BY Zenon
<1>4. held[p].deadline.wall - held[p].lease.ttl <= clock_high
  BY <1>3, Zenon DEF StampRecorded
<1> QED BY <1>1, <1>2, <1>3, <1>4

\* A deadline that is a stamp and a time to live is recorded when the stamp is.
LEMMA RecordedFresh ==
  ASSUME NEW p \in LeasePrefix, NEW at \in Stamps, clock_high' \in Nat, at.wall <= clock_high',
         held'[p].lease.ttl \in Nat, held'[p].deadline.wall = at.wall + held'[p].lease.ttl
  PROVE  StampRecorded(p)'
<1>1. at.wall \in Nat
  BY Zenon DEF Stamps
<1>2. held'[p].deadline.wall - held'[p].lease.ttl <= clock_high'
  BY <1>1
<1> QED BY <1>2, Zenon DEF StampRecorded

\* The two transitions of a renewal or an acquisition: first the clock.
LEMMA StoresRecorded ==
  ASSUME LeaseInv, RenewStore \/ AcquireStore, NEW p \in LeasePrefix, StampRecorded(p)
  PROVE  StampRecorded(p)'
<1>1. /\ call # None /\ call.reply # None /\ call.reply.granted # {}
      /\ clock_high = call.send.wall /\ clock_high' = clock_high
  BY Zenon DEF LeaseInv, CallOK, RenewStore, AcquireStore
<1>2. /\ call.send \in Stamps /\ call.send.wall \in Nat /\ call.reply.granted \in SUBSET Lease
  BY <1>1, AnsweredCall, Zenon
<1>3. clock_high \in Nat /\ clock_high' \in Nat /\ clock_high <= clock_high' /\ call.send.wall <= clock_high'
  BY <1>1, <1>2
<1>4. CASE held'[p] = held[p]
  BY <1>3, <1>4, RecordedStays, Zenon
<1>5. CASE RenewStore /\ held[p] # None /\ held[p].lease.id \in call.ids
  <2>1. PICK h, d, s, x : /\ h = held[p] /\ d = Plus(call.send, held[p].lease.ttl)
                          /\ s = call.send /\ x = held'[p]
    BY Zenon
  <2>2. h \in Held /\ x = [h EXCEPT !.deadline = d, !.lease.requested_at = s]
    BY <2>1, <1>5, Zenon DEF RenewStore, LeaseInv, TypeOK
  <2>3. h.lease \in Lease
    BY <2>2, Zenon DEF Held
  <2>4. x = [h EXCEPT !.deadline = d, !.lease = [h.lease EXCEPT !.requested_at = s]]
    BY <2>2, Zenon DEF Held
  <2>5. x.deadline = d /\ x.lease.ttl = h.lease.ttl /\ h.lease.ttl \in Nat
    BY <2>2, <2>3, <2>4, ZenonT(30) DEF Held, Lease
  <2>6. d.wall = call.send.wall + h.lease.ttl
    BY <2>1, <2>5, <1>2, PlusIsStamp, Zenon
  <2> QED BY <2>1, <2>5, <2>6, <1>2, <1>3, RecordedFresh, Zenon
<1>6. CASE AcquireStore /\ p = call.spec.prefix
  <2>1. PICK lease \in call.reply.granted : held'[p] = HeldFrom(lease, call.send)
    BY <1>1, <1>6, Zenon DEF AcquireStore
  <2>2. lease.ttl \in Nat
    BY <1>2, Zenon DEF Lease
  <2>3. held'[p].lease = lease /\ held'[p].deadline = Plus(call.send, lease.ttl)
    BY <2>1 DEF HeldFrom
  <2>4. Plus(call.send, lease.ttl).wall = call.send.wall + lease.ttl
    BY <2>2, <1>2, PlusIsStamp, Zenon
  <2> QED BY <2>2, <2>3, <2>4, <1>2, <1>3, RecordedFresh, Zenon
<1> QED BY <1>4, <1>5, <1>6, Zenon DEF RenewStore, AcquireStore

\* What repair stores of a lease it already knows, with the stamp it knows, is what
\* was stored, unless it is revived.
LEMMA RepairRecorded ==
  ASSUME LeaseInv, RepairStore, NEW p \in LeasePrefix, StampRecorded(p), ~Relearned(p)
  PROVE  StampRecorded(p)'
<1> SUFFICES ASSUME held'[p] # None PROVE StampRecorded(p)'
  BY Zenon DEF StampRecorded
<1>1. call # None /\ call.stage = "list" /\ call.reply # None /\ clock_high' = clock_high
  BY Zenon DEF RepairStore, Answered
<1>2. Listed(p) # {} /\ held'[p] = Reconciled(LastListed(p))
  BY Zenon DEF RepairStore
<1>3. PICK lease : lease = LastListed(p)
  BY Zenon
<1>4. held'[p].lease = lease /\ held'[p].deadline = Plus(lease.requested_at, lease.ttl)
  BY <1>2, <1>3 DEF Reconciled, HeldFrom
<1>5. /\ lease.id \notin revived' /\ held[p] # None
      /\ held[p].lease.id = lease.id /\ held[p].lease.requested_at = lease.requested_at
  BY <1>4, Zenon DEF Relearned
<1>6. lease \in call.reply.granted
  BY <1>1, <1>2, <1>3, LastIsListed, Zenon
<1>7. lease \in Lease /\ lease.requested_at \in Stamps /\ lease.ttl \in Nat /\ lease.requested_at.wall \in Nat
  <2>1. lease \in Lease
    BY <1>1, <1>6, AnsweredCall, Zenon
  <2> QED BY <2>1, Zenon DEF Lease, Stamps
<1>8. ~(lease.requested_at.lineage < timeline)
  BY <1>5, <1>6, Zenon DEF RepairStore
<1>9. held[p].deadline = Plus(held[p].lease.requested_at, held[p].lease.ttl)
  <2>1. lease.requested_at.lineage >= timeline
    BY <1>7, <1>8, ClockTypes DEF Stamps
  <2> QED BY <2>1, <1>5, Zenon DEF LeaseInv, HeldOK, StoredOK
<1>10. held[p].lease.ttl \in Nat /\ clock_high \in Nat
  BY <1>5, ClockTypes, Zenon DEF LeaseInv, TypeOK, Held, Lease
<1>11. held[p].deadline.wall = lease.requested_at.wall + held[p].lease.ttl
  <2>1. Plus(lease.requested_at, held[p].lease.ttl).wall = lease.requested_at.wall + held[p].lease.ttl
    BY <1>7, <1>10, PlusIsStamp, Zenon
  <2> QED BY <2>1, <1>5, <1>9, Zenon
<1>12. held[p].deadline.wall - held[p].lease.ttl <= clock_high
  BY <1>5, Zenon DEF StampRecorded
<1>13. lease.requested_at.wall <= clock_high'
  BY <1>1, <1>7, <1>10, <1>11, <1>12
<1>14. held'[p].lease.ttl = lease.ttl /\ held'[p].deadline.wall = lease.requested_at.wall + lease.ttl
  <2>1. Plus(lease.requested_at, lease.ttl).wall = lease.requested_at.wall + lease.ttl
    BY <1>7, PlusIsStamp, Zenon
  <2> QED BY <2>1, <1>4, Zenon
<1> QED BY <1>1, <1>7, <1>10, <1>13, <1>14, RecordedFresh, Zenon

\* Opening: the clock record goes back only after every deadline was made void.
LEMMA OpenRecorded ==
  ASSUME LeaseInv, NEW p \in LeasePrefix, StampRecorded(p),
         (\E reading \in 1..MaxWall : Reopen(reading)) \/ OpenRecord
  PROVE  StampRecorded(p)'
<1>1. ASSUME held'[p].deadline = ZeroStamp, held'[p].lease.ttl \in Nat, clock_high' \in Nat
      PROVE  StampRecorded(p)'
  <2>1. held'[p].deadline.wall = 0
    BY <1>1 DEF ZeroStamp
  <2>2. held'[p].deadline.wall - held'[p].lease.ttl <= clock_high'
    BY <2>1, <1>1
  <2> QED BY <2>2, Zenon DEF StampRecorded
<1>2. clock_high \in Nat /\ (held[p] # None => held[p] \in Held /\ held[p].lease.ttl \in Nat)
  BY ClockTypes, Zenon DEF LeaseInv, TypeOK, Held, Lease
<1>3. CASE OpenRecord
  <2>1. Opening /\ held' = held /\ clock_high' = call.send.wall
    BY <1>3, Zenon DEF OpenRecord, record_clock, records
  <2>2. call.send.wall \in Nat /\ VoidOK
    BY <2>1, Zenon DEF Opening, LeaseInv, TypeOK, CallOK, Call, Stamps
  <2>3. CASE held[p] = None
    BY <2>1, <2>3, Zenon DEF StampRecorded
  <2>4. CASE held[p] # None
    BY <2>1, <2>2, <2>4, <1>1, <1>2, Zenon DEF VoidOK
  <2> QED BY <2>3, <2>4, Zenon
<1>4. ASSUME NEW reading \in 1..MaxWall, Reopen(reading) PROVE StampRecorded(p)'
  <2>1. /\ held' = Judged(reading)
        /\ clock_high' = IF reading < clock_high THEN clock_high ELSE reading
    BY <1>4, Zenon DEF Reopen
  <2>2. clock_high' \in Nat /\ clock_high <= clock_high'
    BY <2>1, <1>2, <1>4
  <2>3. CASE reading < clock_high /\ held[p] # None
    <3>1. held'[p] = [held[p] EXCEPT !.deadline = ZeroStamp]
      BY <2>1, <2>3, Zenon DEF Judged
    <3>2. held'[p].deadline = ZeroStamp /\ held'[p].lease = held[p].lease
      BY <3>1, <2>3, <1>2, Zenon DEF Held
    <3> QED BY <3>2, <2>2, <2>3, <1>1, <1>2, Zenon
  <2>4. CASE ~(reading < clock_high /\ held[p] # None)
    <3>1. held'[p] \in {held[p], None}
      BY <2>1, <2>4, Zenon DEF Judged
    <3> QED BY <3>1, <2>2, RecordedStays, Zenon
  <2> QED BY <2>3, <2>4, Zenon
<1> QED BY <1>3, <1>4, Zenon

\* Every other step keeps the stored deadlines or drops them, and records no earlier
\* clock.
LEMMA OthersRecorded ==
  ASSUME LeaseInv, NEW p \in LeasePrefix, StampRecorded(p),
         \/ UNCHANGED durable \/ BarrierPull \/ MarkApplied
         \/ RenewRecordClock \/ AcquireRecordClock \/ RenewInvalid \/ UnleaseDrop
         \/ \E ids \in HeldIds : UnleaseStart(ids)
  PROVE  StampRecorded(p)'
<1>1. clock_high \in Nat /\ clock_high <= clock_high
  BY ClockTypes
<1>2. CASE UNCHANGED durable \/ BarrierPull \/ MarkApplied
  <2>1. held' = held /\ clock_high' = clock_high
    BY <1>2, Zenon DEF durable, records, BarrierPull, MarkApplied
  <2> QED BY <2>1, <1>1, RecordedStays, Zenon
<1>3. CASE RenewRecordClock \/ AcquireRecordClock
  <2>1. held' = held /\ clock_high' = call.send.wall /\ call # None /\ call.reply # None
    BY <1>3, Zenon DEF RenewRecordClock, AcquireRecordClock, record_clock, records, Answered
  <2>2. call.send.wall \in Nat /\ clock_high <= call.send.wall
    BY <2>1, AnsweredCall, Zenon
  <2> QED BY <2>1, <2>2, RecordedStays, Zenon
<1>4. CASE RenewInvalid \/ UnleaseDrop
  <2>1. held'[p] \in {held[p], None} /\ clock_high' = clock_high
    BY <1>4, Zenon DEF RenewInvalid, UnleaseDrop, Drop
  <2> QED BY <2>1, <1>1, RecordedStays, Zenon
<1>5. ASSUME NEW ids \in HeldIds, UnleaseStart(ids) PROVE StampRecorded(p)'
  <2>1. /\ clock_high' = clock_high
        /\ held'[p] = IF held[p] # None /\ held[p].lease.id \in ids THEN [held[p] EXCEPT !.forgotten = TRUE]
                      ELSE held[p]
    BY <1>5, Zenon DEF UnleaseStart
  <2>2. held[p] # None => held[p] \in Held
    BY Zenon DEF LeaseInv, TypeOK
  <2>3. \/ held'[p] = held[p]
        \/ held[p] # None /\ held'[p].deadline = held[p].deadline /\ held'[p].lease.ttl = held[p].lease.ttl
    BY <2>1, <2>2, Zenon DEF Held
  <2> QED BY <2>1, <2>3, <1>1, RecordedStays, Zenon
<1> QED BY <1>2, <1>3, <1>4, <1>5, Zenon

\* The invariant holds in every reachable state.
THEOREM LeaseInvariance == Spec => []LeaseInv
<1>1. LeaseInv /\ [Next]_vars => LeaseInv'
  BY LeaseNextInv, Zenon
<1> QED BY <1>1, LeaseInitInv, PTL DEF Spec

\* Local authority is a subset of server authority (physics.md, "Clock domains")
\* but for revived leases: whatever else a device takes for a live lease is one at
\* the server, with the barrier it knows, over any number of processes, suspends and
\* wall steps, lost and late requests, repairs and server restarts
\* (client/src/space.rs lease, unlease, repair_leases; core/src/clock.rs expired).
THEOREM LocalAuthority == Spec => []LocalAuthorityUnlessRevived
<1> QED BY LeaseInvariance, LiveIsBacked, PTL

\* No step but repair, of a lease whose reply was lost or that it revives, takes a
\* stored lease past the durable clock record (client/src/meta.rs certify), although
\* clock and lease are two transitions and the process may die between them.
THEOREM StampsUnderRecord == Spec => StampsRecordedFirst
<1> DEFINE Step == \A p \in LeasePrefix : StampRecorded(p) => StampRecorded(p)' \/ (RepairStore /\ Relearned(p))
<1>1. LeaseInv /\ [Next]_vars => [Step]_vars
  <2> SUFFICES ASSUME LeaseInv, Next, NEW p \in LeasePrefix, StampRecorded(p), ~(RepairStore /\ Relearned(p))
               PROVE  StampRecorded(p)'
    BY Zenon
  <2>1. CASE RenewStore \/ AcquireStore
    BY <2>1, StoresRecorded, Zenon
  <2>2. CASE RepairStore
    BY <2>2, RepairRecorded, Zenon
  <2>3. CASE (\E reading \in 1..MaxWall : Reopen(reading)) \/ OpenRecord
    BY <2>3, OpenRecorded, Zenon
  <2>4. CASE \/ BarrierPull \/ MarkApplied \/ RenewRecordClock \/ AcquireRecordClock
             \/ RenewInvalid \/ UnleaseDrop \/ \E ids \in HeldIds : UnleaseStart(ids)
    BY <2>4, OthersRecorded, Zenon
  <2>5. CASE \/ \E spec \in Wanted : LeaseStart(spec)
             \/ LeaseRecheck \/ AcquireRefused \/ RepairStart \/ GiveUp
             \/ \E running \in BOOLEAN : Pass(running)
             \/ ServerStep \/ ServerRestart \/ SomeAdmission
    <3>1. UNCHANGED durable
      BY <2>5, Zenon DEF LeaseStart, LeaseRecheck, AcquireRefused, RepairStart, GiveUp, Pass, ServerStep,
                  ServerRestart, SomeAdmission
    <3> QED BY <3>1, OthersRecorded, Zenon
  <2> QED BY <2>1, <2>2, <2>3, <2>4, <2>5, Zenon DEF Next, LeaseStep
<1> QED BY <1>1, LeaseInvariance, PTL DEF Spec, StampsRecordedFirst
=============================================================================
