------------------------------ MODULE Replica -------------------------------
(***************************************************************************)
(* One Multilite database: concurrent updates on private branches, the     *)
(* committer that serializes canonical transitions, the authority driver   *)
(* that pushes, pulls, rebases and rolls back, and the server's log        *)
(* (multilite/src/commit, multilite/src/database).                         *)
(*                                                                         *)
(* `db' is the SQLite file, changed only by the committer and in one       *)
(* transaction per group; all else but the server is in memory.  Other     *)
(* devices are the environment: they may admit any batch between two steps *)
(* of ours.  The push protocol is DevicePush's; here a request admits a    *)
(* run of the submit window, and its reply may be lost.                    *)
(***************************************************************************)
EXTENDS Footprint, SequencesExt, FiniteSetsExt, Naturals

CONSTANTS Row,           \* row keys
          Writer,        \* callers of update
          Update,        \* what closures do: [isolation, footprint, writes]
          ForeignWrites, \* the write sets of other devices' batches
          Remote,        \* SyncPolicy::Remote rather than LocalOnly or LocalFirst
          GroupCapacity, \* proposals per commit group
          PullCap,       \* batches per pulled page
          MaxUpdates,    \* bound: updates of this database
          MaxForeign,    \* bound: batches of other devices
          MaxIdlePull,   \* bound: the commit sequence up to which empty pages are pulled
          None

ASSUME ReplicaAssumption ==
  /\ GroupCapacity \in Nat \ {0} /\ PullCap \in Nat \ {0}
  /\ MaxUpdates \in Nat /\ MaxForeign \in Nat /\ MaxIdlePull \in Nat
  /\ Remote \in BOOLEAN
  /\ None \notin Writer \cup Nat

VARIABLES
  db,         \* the canonical SQLite file
  writer,     \* writer[w]: where w's update call stands
  inbox,      \* proposals waiting at the committer
  sync,       \* the running authority workflow; PolicyActor admits one at a time
  rejection,  \* the cursors of the latest PushRejection handed to a caller, or None
  log,        \* the server's admitted batches
  returned    \* history: submissions whose update returned Ok under Remote

vars == <<db, writer, inbox, sync, rejection, log, returned>>

SubmitTail(d) == Len(d.oplog) + 1
SubmitCursors(d) == [head |-> d.head, neck |-> d.neck, tail |-> SubmitTail(d)]
AdmitCursors(d) == [neck |-> d.admit_neck, tail |-> d.admit_tail]

\* The sequences of the active submit window that are commits, not markers.
ActiveCommits(d) == {s \in d.neck..Len(d.oplog) : d.oplog[s].kind = "Commit"}

\* A row's value is the identity of the transaction that wrote it last.
Own(s) == <<"own", s>>
Foreign(i) == <<"foreign", i>>

Overwrite(image, writes, value) ==
  [r \in Row |-> IF \E region \in writes : Touches(region, r) THEN value ELSE image[r]]

\* The effect of one admitted batch on an image: a rollback marker ships empty.
Applied(image, batch) ==
  IF batch.writes = {} THEN image ELSE Overwrite(image, batch.writes, batch.value)

Empty == [r \in Row |-> <<"none", 0>>]
-----------------------------------------------------------------------------
(* Preparing one proposal inside a commit group, on the file d as the      *)
(* earlier members left it: [ok, db, writes].                              *)

Refuse(d) == [ok |-> FALSE, db |-> d, writes |-> {}]
Prepared(d, writes) == [ok |-> TRUE, db |-> d, writes |-> writes]

\* A locally submitted batch: what it writes and asserts, and the image its
\* closure ran on, from which the manifest's before-images are taken.
CommitRecord(p) ==
  [kind |-> "Commit", writes |-> p.update.writes, base |-> p.snapshot.image, update |-> p.update,
   asserts |-> plan(p.update.footprint, p.update.isolation, p.snapshot.applied)]

\* history_after: retained evidence strictly newer than the snapshot.
WritesAfter(d, seq) == UNION {c.writes : c \in {c \in d.commits : c.seq > seq}}

Submit(d, p) ==
  LET s == SubmitTail(d)
  IN  Prepared([d EXCEPT !.image = Overwrite(@, p.update.writes, Own(s)),
                         !.oplog = Append(@, CommitRecord(p)),
                         !.pending = @ \cup {s}],
               p.update.writes)

\* proposal::prepare, then the submission and its pending row.  The snapshot is
\* validated against retained history and the earlier members of the group.
Transaction(d, accepted, p) ==
  IF conflicts_with_writes(p.update.footprint, p.update.isolation,
                           WritesAfter(d, p.snapshot.seq) \cup accepted)
  THEN Refuse(d)
  ELSE Submit(d, p)

\* Applying an admission interval needs the cursors it was built from and a
\* drained submit log; batches of this device are in the image already.
ApplyAdmissions(d, p) ==
  LET foreign == SelectSeq(p.batches, LAMBDA b : b.device = "other")
  IN  IF SubmitCursors(d) # p.submit \/ AdmitCursors(d) # p.admits \/ d.neck # SubmitTail(d)
      THEN Refuse(d)
      ELSE Prepared([d EXCEPT !.image = FoldLeft(Applied, @, foreign),
                              !.admit_neck = p.admits.tail],
                    UNION {b.writes : b \in ToSet(foreign)})

\* RejectionRepair: the before-images of the window, newest first.
Unwind(d, image, s) ==
  [r \in Row |-> IF \E region \in d.oplog[s].writes : Touches(region, r)
                 THEN d.oplog[s].base[r] ELSE image[r]]

\* Mutant: the inverse is not published, so branches that saw the retired
\* window pass validation.
RejectSubmissions_unrecorded(d, p) ==
  IF SubmitCursors(d) # p.submit \/ d.pending # ActiveCommits(d) \/ d.pending = {}
  THEN Refuse(d)
  ELSE Prepared([d EXCEPT !.image = FoldLeft(LAMBDA image, s : Unwind(d, image, s), @,
                                             Reverse(SetToSortSeq(d.pending, <))),
                          !.pending = {}, !.neck = SubmitTail(d),
                          !.oplog = Append(@, [kind |-> "Rollback", writes |-> {}, asserts |-> {}])],
                {})

\* A rejected window is undone, newest transaction first, and retired behind a
\* marker, if the cursors are still those of the rejection.
RejectSubmissions(d, p) ==
  IF SubmitCursors(d) # p.submit \/ d.pending # ActiveCommits(d) \/ d.pending = {}
  THEN Refuse(d)
  ELSE Prepared([d EXCEPT !.image = FoldLeft(LAMBDA image, s : Unwind(d, image, s), @,
                                             Reverse(SetToSortSeq(d.pending, <))),
                          !.pending = {}, !.neck = SubmitTail(d),
                          !.oplog = Append(@, [kind |-> "Rollback", writes |-> {}, asserts |-> {}])],
                UNION {d.oplog[s].writes : s \in d.pending})

\* An acknowledged prefix leaves the submit log and the pending journal; the
\* tail may have grown since the acknowledgement was asked for.
AcceptSubmissions(d, p) ==
  IF d.head # p.submit.head \/ d.neck # p.submit.neck \/ SubmitTail(d) < p.submit.tail
  THEN Refuse(d)
  ELSE Prepared([d EXCEPT !.head = p.through + 1, !.neck = p.through + 1,
                          !.pending = {s \in @ : s > p.through}], {})

\* A pulled page is captured behind the admit tail it was asked from.
AppendAdmissions(d, p) ==
  IF AdmitCursors(d) # p.admits THEN Refuse(d)
                                ELSE Prepared([d EXCEPT !.admit_tail = @ + p.page], {})

\* prepare_commit_proposal.
Prepare(d, accepted, p) ==
  CASE p.kind = "Transaction"       -> Transaction(d, accepted, p)
    [] p.kind = "ApplyAdmissions"   -> ApplyAdmissions(d, p)
    [] p.kind = "RejectSubmissions" -> RejectSubmissions(d, p)
    [] p.kind = "AcceptSubmissions" -> AcceptSubmissions(d, p)
    [] p.kind = "AppendAdmissions"  -> AppendAdmissions(d, p)
-----------------------------------------------------------------------------
(* The committer thread.                                                   *)

Idle == [pc |-> "idle"]

\* HistoryPins: held from the capture of a writable snapshot until its caller
\* has the disposition of its proposal, or drops it.
Pins == {writer[w].snapshot.seq : w \in {w \in Writer : writer[w].pc \in {"running", "proposed"}}}

\* Mutant: evidence is pruned although a branch may still need it.
Retained_without_pins(commits, current) == {c \in commits : c.seq >= current}

\* CommitHistory::prune: what survives, the newest sequence always does.
Retained(commits, current) ==
  {c \in commits : c.seq >= current \/ \E pin \in Pins : pin < c.seq}

\* One member of a group.  Transitions have deterministic identities: one that is
\* still recorded is answered from its receipt.
Member(s, request) ==
  LET p       == request.proposal
      known   == p.id # None /\ \E c \in s.db.commits : c.id = p.id
      outcome == IF known THEN Prepared(s.db, {}) ELSE Prepare(s.db, s.accepted, p)
  IN  [db       |-> outcome.db,
       accepted |-> s.accepted \cup outcome.writes,
       records  |-> IF known \/ ~outcome.ok THEN s.records
                    ELSE s.records \cup {[id |-> p.id, writes |-> outcome.writes]},
       results  |-> Append(s.results, [ok |-> outcome.ok, submitted |-> Len(outcome.db.oplog)])]

\* How the authority workflow goes on after the answer to its proposal: the push
\* loop continues after an acknowledgement, a settled rejection is followed by a
\* push of the marker, a full page by the next one.
Answered(ok) ==
  CASE sync.pc = "accepting" /\ ok -> [sync EXCEPT !.pc = "push"]
    [] sync.pc = "rejecting" /\ ok -> [sync EXCEPT !.pc = "push", !.kind = "Drain"]
    [] sync.pc = "appending" /\ ok /\ sync.page = PullCap -> [pc |-> "pull"]
    [] sync.pc \in {"accepting", "rejecting"} /\ ~ok -> [sync EXCEPT !.pc = "failed"]
    [] OTHER -> Idle

\* Every member of the group inbox[1..k] gets its result.
Reply(k, results) ==
  /\ writer' = [w \in Writer |->
       IF \E i \in 1..k : inbox[i].from = w
       THEN LET r == results[CHOOSE i \in 1..k : inbox[i].from = w]
            IN  IF r.ok /\ Remote THEN [pc |-> "committed", submitted |-> r.submitted] ELSE Idle
       ELSE writer[w]]
  /\ sync' = IF \E i \in 1..k : inbox[i].from = "sync"
             THEN Answered(results[CHOOSE i \in 1..k : inbox[i].from = "sync"].ok)
             ELSE sync
  /\ inbox' = SubSeq(inbox, k + 1, Len(inbox))

\* The proposals one group takes: however many of them the committer finds before
\* the queue is empty, a capture is next, or the group is full.
Group(k) == k <= Len(inbox) /\ k <= GroupCapacity

\* commit_proposal_group: one transaction, one commit sequence for all records.
CommitGroup(k) ==
  /\ Group(k)
  /\ LET start == [db |-> db, accepted |-> {}, records |-> {}, results |-> <<>>]
         final == FoldLeft(Member, start, SubSeq(inbox, 1, k))
         seq   == IF final.records = {} THEN db.commit_seq ELSE db.commit_seq + 1
         added == {[seq |-> seq, id |-> r.id, writes |-> r.writes] : r \in final.records}
     IN  /\ db' = [final.db EXCEPT !.commit_seq = seq, !.commits = Retained(@ \cup added, seq)]
         /\ Reply(k, final.results)
  /\ UNCHANGED <<rejection, log, returned>>

\* The group's transaction fails (an I/O error): nothing is durable and
\* every member is told.
FailGroup(k) ==
  /\ Group(k)
  /\ Reply(k, [i \in 1..k |-> [ok |-> FALSE]])
  /\ UNCHANGED <<db, rejection, log, returned>>

-----------------------------------------------------------------------------
(* update: capture, run the closure on the branch, propose.                *)

Commits == {s \in DOMAIN db.oplog : db.oplog[s].kind = "Commit"}
Running == {w \in Writer : writer[w].pc = "running"}
Queued == {i \in DOMAIN inbox : inbox[i].from # "sync"}
Cancelled == {i \in DOMAIN inbox : inbox[i].from = None}

\* capture_snapshot(writable): the image and the coordinates of one position of
\* the committer's queue, ahead of whatever was sent later.
Begin(w) ==
  /\ writer[w].pc = "idle" /\ Cancelled = {}
  /\ Cardinality(Commits) + Cardinality(Running) + Cardinality(Queued) < MaxUpdates
  /\ writer' = [writer EXCEPT ![w] =
       [pc |-> "running",
        snapshot |-> [seq |-> db.commit_seq, applied |-> db.admit_neck - 1, image |-> db.image]]]
  /\ UNCHANGED <<db, inbox, sync, rejection, log, returned>>

Send(from, proposal) == inbox' = Append(inbox, [from |-> from, proposal |-> proposal])

Propose(w, u) ==
  /\ writer[w].pc = "running"
  /\ writer' = [writer EXCEPT ![w].pc = "proposed"]
  /\ Send(w, [kind |-> "Transaction", id |-> None, update |-> u, snapshot |-> writer[w].snapshot])
  /\ UNCHANGED <<db, sync, rejection, log, returned>>

\* The closure fails, changes nothing, or its caller goes away: the branch and
\* its pin are dropped.
Abandon(w) ==
  /\ writer[w].pc = "running"
  /\ writer' = [writer EXCEPT ![w] = Idle]
  /\ UNCHANGED <<db, inbox, sync, rejection, log, returned>>

\* The caller drops the future of a proposal it has queued: the pin goes with the
\* future, the proposal stays.
Cancel(w) ==
  /\ writer[w].pc = "proposed"
  /\ writer' = [writer EXCEPT ![w] = Idle]
  /\ inbox' = [i \in DOMAIN inbox |-> IF inbox[i].from = w THEN [inbox[i] EXCEPT !.from = None]
                                                           ELSE inbox[i]]
  /\ UNCHANGED <<db, sync, rejection, log, returned>>
-----------------------------------------------------------------------------
(* The authority workflow: push, pull, rebase, rollback.                   *)

\* A "Settle" push undoes a rejected window itself and then drains the marker; a
\* "Push" hands the rejection to its caller.  The owner is the remote writer that
\* awaits the push up to its own submission.
StartPush(kind, through, owner) ==
  /\ sync = Idle
  /\ sync' = [pc |-> "push", kind |-> kind, through |-> through, owner |-> owner]
  /\ UNCHANGED <<db, writer, inbox, rejection, log, returned>>

\* push_async, and the push of a refresh.
PushCall == StartPush("Push", None, None)

\* run_scheduled_push, under LocalFirst.
ScheduledPush == ~Remote /\ StartPush("Settle", None, None)

\* finish_branch_write_async under Remote.
RemoteWrite(w) == writer[w].pc = "committed" /\ StartPush("Settle", writer[w].submitted, w)

\* The workflow ends; an owner returns, with Ok if its own push drained.
Finish(drained) ==
  /\ sync' = Idle
  /\ writer' = IF sync.owner = None THEN writer ELSE [writer EXCEPT ![sync.owner] = Idle]
  /\ returned' = IF drained /\ sync.kind = "Settle" /\ sync.owner # None
                 THEN returned \cup {sync.through} ELSE returned

\* The last record this push is to send.
Target == IF sync.through = None \/ sync.kind = "Drain" THEN Len(db.oplog) ELSE sync.through

\* The top of push_space when nothing is to be sent: a target below the head
\* counts as drained, one the rollback of another window retired as an error.
PushEnds ==
  /\ sync.pc = "push"
  /\ Target < db.neck
  /\ Finish(sync.through = None \/ Target < db.head)
  /\ UNCHANGED <<db, inbox, rejection, log>>

\* An error reached the workflow.
PushFails ==
  /\ sync.pc = "failed"
  /\ Finish(FALSE)
  /\ UNCHANGED <<db, inbox, rejection, log>>

\* The last device sequence the server has.
Position == Max({0} \cup {log[i].seq : i \in {i \in DOMAIN log : log[i].device = "self"}})

\* range_assert_failures: no other device wrote below the prefix after `upto'.
Admissible(s) ==
  \A a \in db.oplog[s].asserts : \A i \in (a.upto + 1)..Len(log) :
    log[i].device = "other" => \A region \in log[i].writes : ~overlaps_prefix(region, a.prefix)

\* The server admits the records from the neck through k; what a lost reply left
\* there is not admitted again (the checksum mismatch names the position).
ServerAdmits(k) ==
  LET first == Max({db.neck, Position + 1})
  IN  /\ \A s \in first..k : Admissible(s)
      /\ log' = log \o [i \in 1..(k - first + 1) |->
                          [device |-> "self", seq |-> first + i - 1,
                           writes |-> db.oplog[first + i - 1].writes, value |-> Own(first + i - 1)]]

\* One request and its acknowledgement, which trim_oplog turns into a proposal
\* against the present window.
PushAdmits(k) ==
  /\ sync.pc = "push"
  /\ k \in db.neck..Target /\ k >= Position
  /\ ServerAdmits(k)
  /\ Send("sync", [kind |-> "AcceptSubmissions", submit |-> SubmitCursors(db), through |-> k,
                   id |-> <<"accept", SubmitCursors(db), k>>])
  /\ sync' = [sync EXCEPT !.pc = "accepting"]
  /\ UNCHANGED <<db, writer, rejection, returned>>

\* One request whose outcome the client does not learn.
PushLost(k) ==
  /\ sync.pc = "push"
  /\ k \in (db.neck - 1)..Target /\ k >= Position
  /\ ServerAdmits(k)
  /\ Finish(FALSE)
  /\ UNCHANGED <<db, inbox, rejection>>

Reject(submit) ==
  Send("sync", [kind |-> "RejectSubmissions", submit |-> submit, id |-> <<"reject", submit>>])

\* The first record of the window is refused; the PushRejection carries the
\* cursors as push_via_authority finds them afterwards.
PushStalls ==
  /\ sync.pc = "push"
  /\ db.neck <= Target /\ Position < db.neck /\ ~Admissible(db.neck)
  /\ \/ /\ sync.kind = "Settle"
        /\ Reject(SubmitCursors(db))
        /\ sync' = [sync EXCEPT !.pc = "rejecting"]
        /\ UNCHANGED <<writer, rejection, returned>>
     \/ /\ sync.kind = "Push"
        /\ rejection' = SubmitCursors(db)
        /\ Finish(FALSE)
        /\ UNCHANGED inbox
     \/ /\ sync.kind = "Drain"
        /\ Finish(FALSE)
        /\ UNCHANGED <<inbox, rejection>>
  /\ UNCHANGED <<db, log>>

\* rollback_async with a rejection some push returned, however long ago.
RollbackCall ==
  /\ sync = Idle /\ rejection # None
  /\ Reject(rejection)
  /\ sync' = [pc |-> "undoing"]
  /\ UNCHANGED <<db, writer, rejection, log, returned>>

\* pull: one page after the admit tail.
PullPage ==
  /\ sync = Idle \/ sync = [pc |-> "pull"]
  /\ LET page == Min({PullCap, Len(log) + 1 - db.admit_tail})
     IN  /\ page > 0 \/ db.commit_seq < MaxIdlePull
         /\ Send("sync", [kind |-> "AppendAdmissions", admits |-> AdmitCursors(db), page |-> page,
                          id |-> <<"append", AdmitCursors(db), page>>])
         /\ sync' = [pc |-> "appending", page |-> page]
  /\ UNCHANGED <<db, writer, rejection, log, returned>>

PullLost ==
  /\ sync = [pc |-> "pull"]
  /\ sync' = Idle
  /\ UNCHANGED <<db, writer, inbox, rejection, log, returned>>

\* rebase_locked_async, when it has something to do.
Rebase ==
  /\ sync = Idle
  /\ db.neck = SubmitTail(db) /\ db.admit_neck < db.admit_tail
  /\ Send("sync", [kind |-> "ApplyAdmissions", submit |-> SubmitCursors(db), admits |-> AdmitCursors(db),
                   batches |-> SubSeq(log, db.admit_neck, db.admit_tail - 1),
                   id |-> <<"apply", SubmitCursors(db), AdmitCursors(db)>>])
  /\ sync' = [pc |-> "applying"]
  /\ UNCHANGED <<db, writer, rejection, log, returned>>
-----------------------------------------------------------------------------
\* Another device's batch is admitted.
ForeignAdmits(writes) ==
  /\ Cardinality({i \in DOMAIN log : log[i].device = "other"}) < MaxForeign
  /\ log' = Append(log, [device |-> "other", seq |-> 0, writes |-> writes,
                         value |-> Foreign(Len(log) + 1)])
  /\ UNCHANGED <<db, writer, inbox, sync, rejection, returned>>

\* The process dies and reopens the file.
Crash ==
  /\ inbox' = <<>> /\ sync' = Idle /\ rejection' = None
  /\ writer' = [w \in Writer |-> Idle]
  /\ UNCHANGED <<db, log, returned>>

Init ==
  /\ db = [image |-> Empty, commit_seq |-> 0, commits |-> {}, oplog |-> <<>>, pending |-> {},
           head |-> 1, neck |-> 1, admit_neck |-> 1, admit_tail |-> 1]
  /\ writer = [w \in Writer |-> Idle]
  /\ inbox = <<>> /\ sync = Idle /\ rejection = None
  /\ log = <<>> /\ returned = {}

Next ==
  \/ \E k \in 1..GroupCapacity : CommitGroup(k) \/ FailGroup(k)
  \/ \E w \in Writer : Begin(w) \/ Abandon(w)
  \/ \E w \in Writer, u \in Update : Propose(w, u)
  \/ PushCall \/ ScheduledPush
  \/ PushEnds \/ PushFails \/ PushStalls
  \/ \E k \in 0..Len(db.oplog) : PushAdmits(k) \/ PushLost(k)
  \/ RollbackCall \/ PullPage \/ PullLost \/ Rebase
  \/ \E writes \in ForeignWrites : ForeignAdmits(writes)
  \/ Crash

Spec == Init /\ [][Next]_vars

\* The same database under SyncPolicy::Remote.
RemoteSpec == Init /\ [][Next \/ \E w \in Writer : RemoteWrite(w)]_vars

\* The same database when callers drop the futures of queued proposals.
CancelSpec == Init /\ [][Next \/ \E w \in Writer : Cancel(w)]_vars
-----------------------------------------------------------------------------
\* The image after a prefix of the server's log, in admission order.
Replay(batches) == FoldLeft(Applied, Empty, batches)

\* Convergence: the SQLite image is the server's log, as far as it was applied
\* here or came from here, in the server's order, followed by the transactions
\* that are still pending.  Own transactions were executed before anyone knew
\* their place in that order, and batches of others are applied after them.
ImageIsLog ==
  LET known   == {i \in DOMAIN log : log[i].device = "self" \/ i < db.admit_neck}
      order   == SetToSortSeq(known, <)
      waiting == SetToSortSeq({s \in db.pending : s > Position}, <)
  IN  db.image = FoldLeft(LAMBDA image, s : Overwrite(image, db.oplog[s].writes, Own(s)),
                          Replay([j \in DOMAIN order |-> log[order[j]]]), waiting)

\* What a transaction's outcome depends on: its writes and constraints, and its
\* reads under serializable isolation.
Depends(u) ==
  u.footprint.writes \cup u.footprint.constraints
    \cup (IF u.isolation = "Serializable" THEN u.footprint.reads ELSE {})

\* Isolation at the authority: whatever an admitted transaction depends on, its
\* closure saw exactly as it stands at the transaction's own place in the
\* server's log, although it ran earlier, on a private branch, beside others.
AdmittedSawItsPlace ==
  \A i \in {i \in DOMAIN log : log[i].device = "self" /\ log[i].writes # {}} :
    LET record == db.oplog[log[i].seq]
        before == Replay(SubSeq(log, 1, i - 1))
    IN  \A r \in Row : (\E prefix \in Depends(record.update) : starts_with(r, prefix))
                       => record.base[r] = before[r]

\* The pending journal holds the commits of the active window and nothing else,
\* which is what a rejection relies on to find the inverse of the whole window.
JournalMatchesWindow == db.pending = ActiveCommits(db)

\* Under Remote an update that returned Ok was admitted.
RemoteOkIsAdmitted == \A s \in returned : \E i \in DOMAIN log : log[i].seq = s

\* The file and its journal agree with the server: the image is the applied log
\* followed by the pending transactions, and those are the active window's.
ImageAndJournal == ImageIsLog /\ JournalMatchesWindow
=============================================================================
