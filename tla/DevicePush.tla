----------------------------- MODULE DevicePush -----------------------------
(***************************************************************************)
(* One device's submit log and the push protocol that drains it into a     *)
(* space: client/src/client.rs (push_space, rollback_if_unchanged), the    *)
(* durable transitions of client/src/meta.rs, and the part of the server's *)
(* admit that keeps the device's history (server/src/space/data.rs).       *)
(*                                                                         *)
(* Requests reach the space actor through a FIFO mailbox.  A caller may    *)
(* give up at any time, leaving its request in the mailbox; a server       *)
(* restart empties it; a client crash forgets everything not durable.      *)
(* Whether the server refuses a batch (leases, asserts, versions) is the   *)
(* environment's choice, fixed per payload by `refused'.                   *)
(***************************************************************************)
EXTENDS Sequences, Functions, Naturals

CONSTANTS Payload,   \* contents of a submission
          Size,      \* Size[p]: how many entries payload p has
          PushCap,   \* entries (and sequence numbers) per wire request
          MaxSeq,    \* bound: device sequence numbers
          MaxVer,    \* bound: versions
          MaxMailbox,\* bound: requests in flight
          None

ASSUME PushAssumption ==
  /\ Size \in [Payload -> Nat \ {0}]
  /\ PushCap \in Nat \ {0} /\ MaxSeq \in Nat /\ MaxVer \in Nat /\ MaxMailbox \in Nat
  /\ None \notin Nat

VARIABLES
  head, neck, tail,  \* OplogCursors, durable
  ops,               \* ops[s]: the record written at sequence s
  rows,              \* sequences whose record is still stored
  ver_high,          \* VerHighRecord, durable
  confirmed,         \* ChecksumRecord: the checksum of the acknowledged prefix
  reserved,          \* reservations handed out by reserve_commit, in memory
  push,              \* the push_space call: idle, at the top of its loop, or sent
  rejection,         \* a definitive rejection the caller may act on, or None
  mailbox,           \* requests waiting at the space actor
  history,           \* the server's record of this device: admitted batches
  refused,           \* payloads the server refuses at present
  retired,           \* history: sequences given up by rollback
  forked             \* history: some push_space returned SpaceDriverError::Fork

clientVars == <<head, neck, tail, ops, rows, ver_high, confirmed>>
vars == <<clientVars, reserved, push, rejection, mailbox, history, refused,
          retired, forked>>

Cursors == [head |-> head, neck |-> neck, tail |-> tail]

IsCommit(op) == op.kind = "Commit"

\* DeviceOp::entries().len(): a rollback marker ships as an empty batch.
EntryCount(op) == IF IsCommit(op) THEN Size[op.payload] ELSE 0

\* AdmissionBatch::checksum over a run of retained records, as a collision-free
\* hash: the checksum of a prefix is that prefix.
Batches(from, through) ==
  [i \in 1..(through - from + 1) |-> [seq |-> from + i - 1, op |-> ops[from + i - 1]]]

LastSeq(chain) == IF chain = <<>> THEN 0 ELSE chain[Len(chain)].seq
-----------------------------------------------------------------------------
(* Durable transitions of the client.                                      *)

\* reserve_commit: the next sequence and the next Size[p] versions, of which the
\* reservation keeps the highest; the counters are not consumed.
Reserve(p) ==
  /\ tail <= MaxSeq /\ ver_high + Size[p] <= MaxVer
  /\ reserved' = reserved \cup {[seq |-> tail, ver |-> ver_high + Size[p], payload |-> p]}
  /\ UNCHANGED <<clientVars, push, rejection, mailbox, history, refused, retired, forked>>

\* A record at the tail of the submit log.
AppendRecord(op) ==
  ops' = Append(ops, op) /\ rows' = rows \cup {tail} /\ tail' = tail + 1

Idle == [stage |-> "idle"]

\* The space permit is free: no push is running.
SpacePermit == push.stage = "idle"

CommitRecord(r) == [kind |-> "Commit", payload |-> r.payload, ver |-> r.ver]

\* Mutant: only the sequence is checked again, so versions a pull overtook in
\* the meantime are written back.
Commit_rechecks_tail_only(r) ==
  /\ reserved' = reserved \ {r}
  /\ IF tail = r.seq
     THEN AppendRecord(CommitRecord(r)) /\ ver_high' = r.ver
     ELSE UNCHANGED <<ops, rows, tail, ver_high>>
  /\ UNCHANGED <<head, neck, confirmed, push, rejection, mailbox, history, refused,
                 retired, forked>>

\* commit: refuses a reservation whose counters moved on while it was sealed.
Commit(r) ==
  /\ reserved' = reserved \ {r}
  /\ IF tail = r.seq /\ ver_high = r.ver - Size[r.payload]
     THEN AppendRecord(CommitRecord(r)) /\ ver_high' = r.ver
     ELSE UNCHANGED <<ops, rows, tail, ver_high>>
  /\ UNCHANGED <<head, neck, confirmed, push, rejection, mailbox, history, refused,
                 retired, forked>>

\* append_admits, as far as the submit log sees it: a pulled batch raises the
\* version high-water.  A pull holds the space permit, as a push does.
PullRaisesVer(v) ==
  /\ SpacePermit
  /\ v \in (ver_high + 1)..MaxVer
  /\ ver_high' = v
  /\ UNCHANGED <<head, neck, tail, ops, rows, confirmed, reserved, push, rejection, mailbox,
                 history, refused, retired, forked>>

\* Mutant: the record after the acknowledged ones goes with them.
Retained_drops_next(through) == {s \in rows : s > through + 1}

Retained(through) == {s \in rows : s > through}

\* trim_oplog: one transition for the rows, both cursors and the checksum.  Its
\* refusal of a re-acknowledgement (through < neck) is out of reach of push_space,
\* which holds the permit from reading the cursors to trimming.
TrimOplog(through, checksum) ==
  LET advanced == IF through + 1 < tail THEN through + 1 ELSE tail
      raised(c) == IF advanced > c THEN advanced ELSE c
  IN  /\ rows' = Retained(through)
      /\ head' = raised(head)
      /\ neck' = raised(neck)
      /\ confirmed' = checksum
      /\ UNCHANGED <<tail, ops, ver_high>>

\* Mutant: the marker forgets to advance the neck past the retired window.
RollbackTo_keeps_neck(to) ==
  /\ to \in neck..(tail - 1) /\ tail <= MaxSeq
  /\ AppendRecord([kind |-> "Rollback", payload |-> to, ver |-> 0])
  /\ retired' = retired \cup (neck..(tail - 1))
  /\ UNCHANGED <<head, neck, ver_high, confirmed>>

\* MetaStore::rollback: the whole active window retires behind a marker at the
\* old tail.  Targets outside the window are errors that change nothing.
RollbackTo(to) ==
  /\ to \in neck..(tail - 1) /\ tail <= MaxSeq
  /\ AppendRecord([kind |-> "Rollback", payload |-> to, ver |-> 0])
  /\ neck' = tail
  /\ retired' = retired \cup (neck..(tail - 1))
  /\ UNCHANGED <<head, ver_high, confirmed>>

\* Client::rollback, whose documented precondition is a definitive rejection; it
\* runs under the space permit, so never during a push.
Rollback ==
  /\ SpacePermit
  /\ rejection # None
  /\ RollbackTo(rejection.at)
  /\ UNCHANGED <<reserved, push, rejection, mailbox, history, refused, forked>>

\* Client::rollback_if_unchanged also demands the cursors the caller observed.
\* A repeat after success finds the completed cursors and changes nothing.
RollbackIfUnchanged == rejection # None /\ rejection.cursors = Cursors /\ Rollback
-----------------------------------------------------------------------------
(* push_space.                                                             *)

\* A new push voids the caller's knowledge of an earlier rejection: rollback's
\* documented precondition is a definitive answer to the last attempt.
StartPush(through) ==
  /\ SpacePermit
  /\ push' = [stage |-> "loop", through |-> through, probe |-> FALSE]
  /\ rejection' = None
  /\ UNCHANGED <<clientVars, reserved, mailbox, history, refused, retired, forked>>

Finish == push' = Idle

\* The top of the loop when there is nothing to send.  A target below the head
\* counts as drained; a retired or unknown one is an error.
PushEnds ==
  /\ push.stage = "loop"
  /\ IF push.through = None THEN neck >= tail
                            ELSE push.through < neck \/ push.through >= tail
  /\ Finish
  /\ UNCHANGED <<clientVars, reserved, rejection, mailbox, history, refused, retired, forked>>

Entries(n) == FoldFunction(+, 0, [s \in neck..n |-> EntryCount(ops[s])])

\* The last sequence of the group starting at neck: consecutive records of the
\* window while their entries fit in PushCap (the first always goes); a probe
\* sends the first alone.
GroupEnd(until) ==
  LET fits == {n \in neck..until : \A m \in (neck + 1)..n : Entries(m) <= PushCap}
  IN  IF push.probe THEN neck ELSE CHOOSE n \in fits : \A m \in fits : m <= n

\* One request: everything it carries is read from the durable state now.
PushSend ==
  /\ push.stage = "loop"
  /\ push.through # None => push.through >= neck /\ push.through < tail
  /\ neck < tail
  /\ Len(mailbox) < MaxMailbox
  /\ LET streamEnd == IF push.through # None THEN push.through ELSE tail - 1
         until     == IF neck + PushCap - 1 < streamEnd THEN neck + PushCap - 1 ELSE streamEnd
         last      == GroupEnd(until)
         request   == [expected |-> confirmed, batches |-> Batches(neck, last), live |-> TRUE]
     IN  /\ mailbox' = Append(mailbox, request)
         /\ push' = [stage |-> "sent", through |-> push.through, probe |-> push.probe,
                     first |-> neck, last |-> last, tail |-> tail, confirmed |-> confirmed,
                     reply |-> None]
  /\ UNCHANGED <<clientVars, reserved, rejection, history, refused, retired, forked>>

\* Mutant: the retry of a refused group is grouped again.
Again_grouped(probe) == push' = [stage |-> "loop", through |-> push.through, probe |-> FALSE]

\* Back to the top of the loop, for a single record or for the next group.
Again(probe) == push' = [stage |-> "loop", through |-> push.through, probe |-> probe]

\* Continue the loop, or return when the target has been acknowledged.
ContinueAfterAck(acked) ==
  IF push.through # None /\ acked >= push.through
  THEN Finish
  ELSE Again(FALSE)

Arrived(kind) ==
  /\ push.stage = "sent"
  /\ push.reply # None /\ push.reply.kind = kind

PushApplied ==
  /\ Arrived("Applied")
  /\ TrimOplog(push.last, push.reply.checksum)
  /\ ContinueAfterAck(push.last)
  /\ UNCHANGED <<reserved, rejection, mailbox, history, refused, retired, forked>>

\* A refused group is retried one record at a time; a refused single record
\* stalls the push, which tells the caller the exact rejected sequence.
PushRefused ==
  /\ Arrived("Refused")
  /\ IF push.last > push.first
     THEN Again(TRUE) /\ UNCHANGED rejection
     ELSE Finish /\ rejection' = [at |-> push.first, cursors |-> Cursors]
  /\ UNCHANGED <<clientVars, reserved, mailbox, history, refused, retired, forked>>

\* Mutant: only the records of the present request are looked at.
Reproduces_in_request(current_seq, current) ==
  /\ current_seq \in push.first..push.last
  /\ push.confirmed \o Batches(push.first, current_seq) = current

\* The retained records up to the server's position hash to its checksum.
Reproduces(current_seq, current) ==
  /\ current_seq >= push.first /\ current_seq < push.tail
  /\ current_seq \in rows
  /\ push.confirmed \o Batches(push.first, current_seq) = current

\* The server is not where the client believes it to be.  If a checksum mismatch
\* is explained by the retained records, an earlier reply was lost: they are
\* trimmed and the loop goes on.  Anything else is a fork.
PushMismatch ==
  /\ Arrived("Mismatch") \/ Arrived("Regression")
  /\ IF push.reply.kind = "Mismatch" /\ Reproduces(push.reply.seq, push.reply.checksum)
     THEN /\ TrimOplog(push.reply.seq, push.reply.checksum)
          /\ ContinueAfterAck(push.reply.seq)
          /\ UNCHANGED forked
     ELSE /\ Finish
          /\ forked' = TRUE
          /\ UNCHANGED clientVars
  /\ UNCHANGED <<reserved, rejection, mailbox, history, refused, retired>>

\* Unavailable, or the caller dropped the future: nobody awaits the replies.
GiveUp ==
  /\ push.stage = "sent"
  /\ Finish
  /\ mailbox' = [i \in DOMAIN mailbox |-> [mailbox[i] EXCEPT !.live = FALSE]]
  /\ UNCHANGED <<clientVars, reserved, rejection, history, refused, retired, forked>>

\* A client crash and restart: reservations, the running call and the caller's
\* knowledge of a rejection are gone.
ClientCrash ==
  /\ Finish
  /\ reserved' = {}
  /\ rejection' = None
  /\ mailbox' = [i \in DOMAIN mailbox |-> [mailbox[i] EXCEPT !.live = FALSE]]
  /\ UNCHANGED <<clientVars, history, refused, retired, forked>>
-----------------------------------------------------------------------------
(* The server's side of one device.                                        *)

Refuses(batches) ==
  \E i \in DOMAIN batches : IsCommit(batches[i].op) /\ batches[i].op.payload \in refused

Consecutive(batches) ==
  /\ batches[1].seq > LastSeq(history)
  /\ \A i \in 2..Len(batches) : batches[i].seq = batches[i - 1].seq + 1

\* admit_impl, as far as the device's history goes: checksum, then sequences,
\* then everything that depends on leases and data.
Verdict(request) ==
  IF request.expected # history
  THEN [kind |-> "Mismatch", seq |-> LastSeq(history), checksum |-> history]
  ELSE IF ~Consecutive(request.batches)
  THEN [kind |-> "Regression"]
  ELSE IF Refuses(request.batches)
  THEN [kind |-> "Refused"]
  ELSE [kind |-> "Applied", checksum |-> history \o request.batches]

\* The actor executes the oldest command; its batches are admitted all or none.
ServerAdmit ==
  /\ mailbox # <<>>
  /\ LET verdict == Verdict(mailbox[1])
     IN  /\ history' = IF verdict.kind = "Applied" THEN verdict.checksum ELSE history
         /\ push' = IF mailbox[1].live THEN [push EXCEPT !.reply = verdict] ELSE push
  /\ mailbox' = Tail(mailbox)
  /\ UNCHANGED <<clientVars, reserved, rejection, refused, retired, forked>>

\* The actor dies with its mailbox; a waiting caller sees Unavailable.
ServerRestart ==
  /\ mailbox # <<>>
  /\ mailbox' = <<>>
  /\ push' = IF push.stage = "sent" /\ push.reply = None THEN Idle ELSE push
  /\ UNCHANGED <<clientVars, reserved, rejection, history, refused, retired, forked>>

RefusalsChange ==
  /\ refused' \in (SUBSET Payload) \ {refused}
  /\ UNCHANGED <<clientVars, reserved, push, rejection, mailbox, history, retired, forked>>
-----------------------------------------------------------------------------
Init ==
  /\ head = 1 /\ neck = 1 /\ tail = 1
  /\ ops = <<>> /\ rows = {} /\ ver_high = 0 /\ confirmed = <<>>
  /\ reserved = {} /\ push = Idle /\ rejection = None
  /\ mailbox = <<>> /\ history = <<>>
  /\ refused \in SUBSET Payload
  /\ retired = {} /\ forked = FALSE

PushStep == PushEnds \/ PushSend \/ PushApplied \/ PushRefused \/ PushMismatch

Next ==
  \/ \E p \in Payload : Reserve(p)
  \/ \E r \in reserved : Commit(r)
  \/ \E v \in 1..MaxVer : PullRaisesVer(v)
  \/ Rollback
  \/ RollbackIfUnchanged
  \/ \E through \in {None} \cup 1..MaxSeq : StartPush(through)
  \/ PushStep
  \/ GiveUp
  \/ ClientCrash
  \/ ServerAdmit
  \/ ServerRestart
  \/ RefusalsChange

Spec == Init /\ [][Next]_vars

\* The executor keeps polling a running push and the actor drains its mailbox.
PushFairness == WF_vars(PushStep) /\ WF_vars(ServerAdmit)
-----------------------------------------------------------------------------
TypeOK ==
  /\ head \in Nat /\ neck \in Nat /\ tail \in Nat /\ ver_high \in Nat
  /\ rows \subseteq Nat /\ retired \subseteq Nat
  /\ Len(ops) = tail - 1
  /\ forked \in BOOLEAN

\* certify's submit-log invariants (meta.rs), which Client::open asserts after
\* every crash: ordered cursors, every retained record inside them, markers that
\* point back, and versions that grow along the active window below ver_high.
Certified ==
  /\ head <= neck /\ neck <= tail
  /\ rows = head..(tail - 1)
  /\ \A s \in rows : ops[s].kind = "Rollback" => ops[s].payload < s
  /\ \A s, t \in neck..(tail - 1) :
       IsCommit(ops[s]) =>
         /\ ops[s].ver <= ver_high
         /\ s < t /\ IsCommit(ops[t]) => ops[s].ver <= ops[t].ver - Size[ops[t].payload]

\* What the server has of the device beyond the acknowledged prefix is still
\* retained: the client can re-derive the server's position from its own records
\* after any lost reply, which is what push_space's mismatch branch relies on.
UnacknowledgedIsRetained ==
  /\ Len(confirmed) <= Len(history) /\ SubSeq(history, 1, Len(confirmed)) = confirmed
  /\ \A i \in (Len(confirmed) + 1)..Len(history) : history[i].seq \in rows

\* A version, once assigned or seen, is never assigned again: the high-water
\* record only grows, although reservations outlive the state they were made in
\* (commit re-checks them).
VersionsOnlyGrow == [][ver_high' >= ver_high]_ver_high

\* The server's history of the device lists each of its records at most once, in
\* sequence order, with the contents the client committed, and nothing the client
\* had given up.
AtMostOnceInOrder ==
  \A i \in DOMAIN history :
    /\ i > 1 => history[i - 1].seq < history[i].seq
    /\ history[i].seq < tail
    /\ history[i].op = ops[history[i].seq]
    /\ IsCommit(history[i].op) => history[i].seq \notin retired

\* Nothing is lost: a record that left the submit log without being given up
\* was admitted.
TrimmedIsAdmitted ==
  \A s \in 1..(head - 1) : s \in retired \/ \E i \in DOMAIN history : history[i].seq = s

\* Exactly once, in order, as written: what the server has of the device are its
\* records in their order, and what left the submit log is there or was given up
\* (push_space, trim_oplog, rollback).
ExactlyOnceInOrder == AtMostOnceInOrder /\ TrimmedIsAdmitted

\* A caller that only rolls back on a definitive rejection never meets Fork
\* (physics.md section 6): the client can always explain the server's position,
\* because it still has what the server has beyond the acknowledged prefix.
NeverForks == ~forked /\ UnacknowledgedIsRetained

\* A push that is not abandoned returns: probing, trimming and retrying always
\* end in Drained, Stalled or an error.
PushReturns == ~SpacePermit ~> SpacePermit
=============================================================================
