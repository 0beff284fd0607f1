---------------------------- MODULE PolicyActor -----------------------------
(***************************************************************************)
(* Synchronization policy of one database: the policy actor's mailbox      *)
(* machine (multilite/src/database/policy.rs), the push worker, the        *)
(* authority driver (authority.rs) and the client workflows that use them  *)
(* (async_api.rs).                                                         *)
(*                                                                         *)
(*   policy     the SyncPolicy the database was opened with                *)
(*   now        Instant::now(), in ticks                                   *)
(*   mail       the actor's mailbox                                        *)
(*   actor      PolicyMachine                                              *)
(*   calls      the public calls in progress                               *)
(*   worker     the push worker: what it does, and the tail it rolls back  *)
(*   authority  the authority driver's inbox                               *)
(*   store      counts of local writes committed and settled at the        *)
(*              authority, and of remote batches pulled and applied        *)
(*   remote     remote batches admitted at the authority so far            *)
(*   faults     authority requests failed and calls cancelled so far       *)
(*                                                                         *)
(* A write settles when it is admitted, or rejected and rolled back: the   *)
(* effects of a push on the log are the subject of Replica.  A stamp is    *)
(* [at, seen]: the instant a pull returned and, as a history variable, the *)
(* remote batches it brought.                                              *)
(***************************************************************************)
EXTENDS Integers, Sequences, SequencesExt, FiniteSets

CONSTANTS Calls,             \* concurrent public calls
          CallOps,           \* the operations each call may be
          Policies,          \* the policies the database may be opened with
          MaxNow,            \* time passes this bound only to reach a deadline
          MaxRemote, MaxWrites, MaxFaults,
          InitialRetry, MaxRetry

VARIABLES policy, now, mail, actor, calls, worker, authority, store, remote,
          faults

policyVars == <<policy, now, mail, actor, calls, worker, authority, store,
                remote, faults>>

Never == -1

NoStamp == [at |-> Never, seen |-> 0]

Unchanged == [kind |-> "unchanged", stamp |-> NoStamp]
Pulled(stamp) == [kind |-> "pulled", stamp |-> stamp]
Rebased(stamp) == [kind |-> "rebased", stamp |-> stamp]

\* A call: its operation and position, lease token, commit receipt (group and
\* seq), the submit tail and the admit cursors (neck, tail) its proposal was
\* built for, the authority's reply and the stamp of its pull.  need, saw and
\* raced are history: the remote batches admitted when it was made, those its
\* snapshot held, and whether a pull evaluated before the call may be stamped
\* at or after it.
IdleCall == [op |-> "none", pc |-> "idle", at |-> 0, token |-> 0, group |-> 0,
             seq |-> 0, tail |-> 0, admits |-> <<0, 0>>, stamp |-> NoStamp,
             reply |-> "none", need |-> 0, saw |-> 0, raced |-> FALSE]

IdleWorker == [pc |-> "idle", tail |-> 0]

\* PolicyMachine::new
NewMachine == [refresh |-> NoStamp, unapplied |-> NoStamp, active |-> 0, next |-> 1,
               waiters |-> <<>>, deadline |-> Never, retry |-> InitialRetry,
               group |-> 0, pending |-> FALSE, inflight |-> FALSE]

\* Opening: start_policy_actor schedules an immediate push when submissions
\* are left over from an earlier run.
PolicyInit ==
    /\ policy \in Policies
    /\ now = 0
    /\ actor = NewMachine
    /\ calls = [c \in Calls |-> IdleCall]
    /\ worker = IdleWorker
    /\ authority = <<>>
    /\ remote = 0
    /\ faults = 0
    /\ \E leftover \in {0, 1} :
          /\ store = [committed |-> leftover, settled |-> 0, group |-> 0,
                      scheduled |-> leftover, pulled |-> 0, applied |-> 0]
          /\ mail = IF policy.name = "LocalFirst" /\ leftover = 1
                      THEN <<[kind |-> "schedule", deadline |-> 0]>> ELSE <<>>

(***************************************************************************)
(* PolicyMachine.  Each operator gives the machine after the step.         *)
(***************************************************************************)

\* PolicyMachine::complete ignores the completion of a lease that is over.
complete_unchanged_keeps_lease(m, token, t) ==
    IF m.active # token \/ t.kind = "unchanged" THEN m
    ELSE IF t.kind = "pulled"
           THEN [m EXCEPT !.active = 0, !.refresh = NoStamp, !.unapplied = t.stamp]
           ELSE [m EXCEPT !.active = 0, !.refresh = t.stamp, !.unapplied = NoStamp]

complete_keeps_unapplied(m, token, t) ==
    IF m.active # token THEN m
    ELSE CASE t.kind = "unchanged" -> [m EXCEPT !.active = 0]
           [] t.kind = "pulled" -> [m EXCEPT !.active = 0, !.refresh = t.stamp]
           [] t.kind = "rebased" ->
                [m EXCEPT !.active = 0,
                          !.refresh = IF t.stamp # NoStamp THEN t.stamp ELSE @]

complete(m, token, t) ==
    IF m.active # token THEN m
    ELSE CASE t.kind = "unchanged" -> [m EXCEPT !.active = 0]
           [] t.kind = "pulled" ->
                [m EXCEPT !.active = 0, !.refresh = NoStamp, !.unapplied = t.stamp]
           [] t.kind = "rebased" ->
                [m EXCEPT !.active = 0,
                          !.refresh = IF t.stamp # NoStamp THEN t.stamp
                                      ELSE IF m.unapplied # NoStamp THEN m.unapplied
                                      ELSE @,
                          !.unapplied = NoStamp]

requires_refresh(m, requested) ==
    CASE policy.name = "LocalOnly" -> FALSE
      [] policy.name = "Remote" \/ policy.staleness = 0 ->
            m.refresh = NoStamp \/ m.refresh.at < requested
      [] OTHER -> m.refresh = NoStamp \/ now - m.refresh.at > policy.staleness

MinDeadline(a, b) == IF a = Never THEN b ELSE IF a < b THEN a ELSE b

schedule(m, deadline) ==
    [m EXCEPT !.deadline = MinDeadline(@, deadline), !.retry = InitialRetry]

schedule_group(m, group, deadline) ==
    IF m.group >= group THEN m ELSE schedule([m EXCEPT !.group = group], deadline)

push_failed(m) ==
    [m EXCEPT !.deadline = now + m.retry,
              !.retry = IF 2 * @ < MaxRetry THEN 2 * @ ELSE MaxRetry]

mark_push_due(m) == [m EXCEPT !.deadline = Never, !.pending = TRUE]

CanTakePush(m) == m.pending /\ ~m.inflight /\ m.active = 0

complete_push_drops_pending(m, ok) ==
    IF ~m.inflight THEN m
    ELSE IF ok THEN [m EXCEPT !.inflight = FALSE, !.pending = FALSE, !.retry = InitialRetry]
    ELSE push_failed([m EXCEPT !.inflight = FALSE, !.pending = FALSE])

complete_push(m, ok) ==
    IF ~m.inflight THEN m
    ELSE IF ok THEN [m EXCEPT !.inflight = FALSE, !.retry = InitialRetry]
    ELSE push_failed([m EXCEPT !.inflight = FALSE, !.pending = FALSE])

(***************************************************************************)
(* grant_next and drive.  A waiter whose caller is gone is skipped; the    *)
(* lease it was sent is dropped, which posts a completion nobody needs.    *)
(***************************************************************************)

Waiting(c) == calls[c].pc = "asked"

\* Waiters answered at the front of the queue before a lease is handed out.
AnsweredFresh(m, w) == w.mode = "IfStale" /\ ~requires_refresh(m, w.at)

CanGrant(m) == m.active = 0 /\ ~m.pending /\ ~m.inflight

\* The position of the waiter that gets the lease, or one past the end.
GrantAt(m) ==
    LET takes(i) == Waiting(m.waiters[i].call) /\ ~AnsweredFresh(m, m.waiters[i])
    IN  CHOOSE i \in 1..Len(m.waiters) + 1 :
            /\ i <= Len(m.waiters) => takes(i)
            /\ \A j \in 1..i - 1 : ~takes(j)

Dropped(m, i) == {j \in 1..i - 1 : ~Waiting(m.waiters[j].call) /\ ~AnsweredFresh(m, m.waiters[j])}

grant_next(m) ==
    LET i == GrantAt(m)
        gone == Cardinality(Dropped(m, i))
        token == m.next + gone
        given == i <= Len(m.waiters)
    IN  IF ~CanGrant(m) THEN [m |-> m, fresh |-> {}, lease |-> 0, posts |-> <<>>]
        ELSE [m |-> [m EXCEPT !.waiters = SubSeq(@, i + 1, Len(@)),
                              !.next = IF given THEN token + 1 ELSE token,
                              !.active = IF given THEN token ELSE 0],
              fresh |-> {m.waiters[j].call : j \in {k \in 1..i - 1 : AnsweredFresh(m, m.waiters[k])}},
              lease |-> IF given THEN i ELSE 0,
              posts |-> [k \in 1..gone |-> [kind |-> "complete", token |-> m.next + k - 1,
                                            transition |-> Unchanged]]]

\* Deliver the replies of a grant to the calls that still wait for them.
\* g was computed from the queue of machine m.
Delivered(m, g) ==
    [c \in Calls |->
        IF c \in g.fresh /\ Waiting(c)
          THEN [calls[c] EXCEPT !.pc = "fresh"]
        ELSE IF g.lease > 0 /\ m.waiters[g.lease].call = c /\ Waiting(c)
          THEN [calls[c] EXCEPT !.pc = "leased", !.token = g.m.active]
        ELSE calls[c]]

Grant(m, rest) ==
    LET g == grant_next(m)
    IN  /\ actor' = g.m
        /\ calls' = Delivered(m, g)
        /\ mail' = rest \o g.posts
        /\ UNCHANGED worker

\* drive: a due push goes first.
drive(m, rest) ==
    IF CanTakePush(m)
      THEN /\ actor' = [m EXCEPT !.pending = FALSE, !.inflight = TRUE]
           /\ worker' = [worker EXCEPT !.pc = "queued"]
           /\ mail' = rest
           /\ UNCHANGED calls
      ELSE Grant(m, rest)

\* run_actor: an expired deadline is served before the mailbox is read.
ActorTimeout ==
    /\ actor.deadline # Never /\ actor.deadline <= now
    /\ drive(mark_push_due(actor), mail)
    /\ UNCHANGED <<policy, now, authority, store, remote, faults>>

ActorReceive ==
    /\ mail # <<>>
    /\ actor.deadline = Never \/ actor.deadline > now
    /\ LET msg == Head(mail)
           rest == Tail(mail)
       IN  CASE msg.kind = "acquire" ->
                  Grant([actor EXCEPT !.waiters = Append(@, msg.waiter)], rest)
             [] msg.kind = "complete" ->
                  drive(complete(actor, msg.token, msg.transition), rest)
             [] msg.kind = "schedule" ->
                  /\ actor' = schedule(actor, msg.deadline)
                  /\ mail' = rest /\ UNCHANGED <<calls, worker>>
             [] msg.kind = "schedule_group" ->
                  /\ actor' = schedule_group(actor, msg.group, msg.deadline)
                  /\ mail' = rest /\ UNCHANGED <<calls, worker>>
             [] msg.kind = "push_complete" ->
                  drive(complete_push(actor, msg.ok), rest)
    /\ UNCHANGED <<policy, now, authority, store, remote, faults>>

(***************************************************************************)
(* Public calls (async_api.rs).                                            *)
(***************************************************************************)

Post(m) == mail' = Append(mail, m)

Release(c, transition) ==
    Post([kind |-> "complete", token |-> calls[c].token, transition |-> transition])

Step(c, fields) == calls' = [calls EXCEPT ![c] = fields]

\* The call returned; only the instant of its pull still matters.
Ended(c) == [IdleCall EXCEPT !.pc = "done", !.stamp = calls[c].stamp]

\* A push is asked through a sequence number, or through the tail (0).
Request(c, kind, through) ==
    authority' = Append(authority, [call |-> c, kind |-> kind, through |-> through])

\* A pull has been evaluated at the authority and has not been stamped yet, or
\* was stamped at this very instant.
PullReturning ==
    \E c \in Calls : \/ calls[c].pc = "pulling" /\ calls[c].reply # "none"
                     \/ calls[c].stamp.at = now

\* A call enters the mailbox: refresh_read for reads and writes, enter_workflow
\* for the explicit operations.  Under LocalOnly nothing is asked for a read.
Ask(c, op) ==
    /\ calls[c] = IdleCall
    /\ op = "write" => store.committed + Cardinality({d \in Calls : calls[d].op = "write"})
                         < MaxWrites
    /\ LET mode == IF op \in {"read", "write"} THEN "IfStale" ELSE "Exclusive"
           local == policy.name = "LocalOnly" /\ mode = "IfStale"
       IN  /\ Step(c, [IdleCall EXCEPT !.op = op, !.at = now, !.need = remote,
                                       !.raced = PullReturning,
                                       !.pc = IF local THEN "fresh" ELSE "asked"])
           /\ IF local THEN UNCHANGED mail
              ELSE Post([kind |-> "acquire",
                         waiter |-> [call |-> c, mode |-> mode, at |-> now]])
    /\ UNCHANGED <<policy, now, actor, worker, authority, store, remote, faults>>

\* The holder of a lease starts its workflow.  A refresh pushes only when
\* there are submissions to push.
Start(c) ==
    /\ calls[c].pc = "leased"
    /\ LET C == calls[c]
           next == CASE C.op \in {"read", "write"} ->
                            IF store.settled < store.committed THEN "pushing" ELSE "pulling"
                     [] C.op = "pull" -> "pulling"
                     [] C.op \in {"push", "admit"} -> "pushing"
                     [] C.op = "rebase" -> "rebasing"
       IN  /\ Step(c, [C EXCEPT !.pc = next, !.reply = "none"])
           /\ CASE next = "rebasing" -> UNCHANGED authority
                [] next = "pushing" -> Request(c, "push", C.seq)
                [] next = "pulling" -> Request(c, "pull", 0)
    /\ UNCHANGED <<policy, now, mail, actor, worker, store, remote, faults>>

\* push_via_authority returned.  A rejected write of the Remote policy is
\* rolled back: the cursors are read first and the proposal is built for them.
AfterPush(c) ==
    /\ calls[c].pc \in {"pushing", "repushing"} /\ calls[c].reply # "none"
    /\ LET C == calls[c]
       IN  CASE C.op \in {"read", "write"} /\ C.reply = "ok" ->
                  /\ Step(c, [C EXCEPT !.pc = "pulling", !.reply = "none"])
                  /\ Request(c, "pull", 0)
                  /\ UNCHANGED mail
             [] C.op = "admit" /\ C.pc = "pushing" /\ C.reply = "rejected" ->
                  /\ Step(c, [C EXCEPT !.pc = "rolling", !.tail = store.committed])
                  /\ UNCHANGED <<mail, authority>>
             [] OTHER ->
                  /\ Step(c, Ended(c))
                  /\ Release(c, Unchanged)
                  /\ UNCHANGED authority
    /\ UNCHANGED <<policy, now, actor, worker, store, remote, faults>>

\* rollback_locked: refused when a write was committed after the cursors were
\* read.  What is left is pushed, whatever becomes of it.
Rollback(c) ==
    /\ calls[c].pc = "rolling"
    /\ LET C == calls[c]
       IN  IF C.tail # store.committed
             THEN /\ Step(c, Ended(c))
                  /\ Release(c, Unchanged)
                  /\ UNCHANGED <<store, authority>>
             ELSE /\ store' = [store EXCEPT !.settled = store.committed]
                  /\ Step(c, [C EXCEPT !.pc = "repushing", !.reply = "none"])
                  /\ Request(c, "push", 0)
                  /\ UNCHANGED mail
    /\ UNCHANGED <<policy, now, actor, worker, remote, faults>>

\* The pull returned: the instant it returned is its stamp.
AfterPull(c) ==
    /\ calls[c].pc = "pulling" /\ calls[c].reply # "none"
    /\ LET C == calls[c]
           stamp == [at |-> now, seen |-> C.stamp.seen]
       IN  IF C.reply # "ok"
             THEN Step(c, Ended(c)) /\ Release(c, Unchanged)
           ELSE IF C.op = "pull"
             THEN Step(c, [Ended(c) EXCEPT !.stamp = stamp]) /\ Release(c, Pulled(stamp))
           ELSE Step(c, [C EXCEPT !.pc = "rebasing", !.stamp = stamp]) /\ UNCHANGED mail
    /\ UNCHANGED <<policy, now, actor, worker, authority, store, remote, faults>>

\* rebase_locked: refused over pending submissions, and when the proposal is.
Rebase(c, refused) ==
    /\ calls[c].pc = "rebasing"
    /\ LET C == calls[c]
           ok == store.settled = store.committed /\ ~refused
           refresh == C.op \in {"read", "write"}
       IN  /\ store' = IF ok THEN [store EXCEPT !.applied = store.pulled] ELSE store
           /\ Step(c, IF ok /\ refresh THEN [C EXCEPT !.pc = "fresh"] ELSE Ended(c))
           /\ Release(c, IF ok THEN Rebased(C.stamp)
                         ELSE IF refresh THEN Pulled(C.stamp) ELSE Unchanged)
    /\ UNCHANGED <<policy, now, actor, worker, authority, remote, faults>>

\* view: the snapshot is captured after the refresh.
Read(c) ==
    /\ calls[c].pc = "fresh" /\ calls[c].op = "read"
    /\ Step(c, [calls[c] EXCEPT !.pc = "served", !.saw = store.applied, !.reply = "none"])
    /\ UNCHANGED <<policy, now, mail, actor, worker, authority, store, remote, faults>>

\* The committer admits the proposals of one or more updates as a group.
CommitGroup(batch) ==
    /\ batch # {}
    /\ \A c \in batch : calls[c].pc = "fresh" /\ calls[c].op = "write"
    /\ LET tail == store.committed + Cardinality(batch)
       IN  /\ store' = [store EXCEPT !.committed = tail, !.group = @ + 1]
           /\ calls' = [c \in Calls |->
                IF c \in batch
                  THEN [calls[c] EXCEPT !.pc = "committed", !.group = store.group + 1,
                                        !.seq = tail, !.saw = store.applied]
                  ELSE calls[c]]
    /\ UNCHANGED <<policy, now, mail, actor, worker, authority, remote, faults>>

\* finish_branch_write.
FinishWrite(c) ==
    /\ calls[c].pc = "committed"
    /\ CASE policy.name = "LocalOnly" ->
              /\ Step(c, Ended(c))
              /\ UNCHANGED <<mail, store>>
         [] policy.name = "LocalFirst" ->
              /\ Step(c, Ended(c))
              /\ Post([kind |-> "schedule_group", group |-> calls[c].group,
                       deadline |-> now + policy.delay])
              /\ store' = [store EXCEPT !.scheduled =
                             IF @ < calls[c].seq THEN calls[c].seq ELSE @]
         [] policy.name = "Remote" ->
              /\ Step(c, [calls[c] EXCEPT !.pc = "asked", !.op = "admit"])
              /\ Post([kind |-> "acquire",
                       waiter |-> [call |-> c, mode |-> "Exclusive", at |-> now]])
              /\ UNCHANGED store
    /\ UNCHANGED <<policy, now, actor, worker, authority, remote, faults>>

\* The admit cursors: batches applied and batches pulled.
AdmitCursors == <<store.applied, store.pulled>>

\* A rebase that has sent its proposal: nothing pending, and batches to apply.
MayHaveProposed(c) ==
    calls[c].pc = "rebasing" /\ store.settled = store.committed /\ store.applied < store.pulled

\* The caller drops its future.  A held lease is released by its Drop; what
\* was sent to the authority or to the committer still happens.
Cancel(c) ==
    /\ faults < MaxFaults
    /\ calls[c].pc \notin {"idle", "served", "done", "cancelled", "orphan"}
    /\ faults' = faults + 1
    /\ \/ Step(c, [Ended(c) EXCEPT !.pc = "cancelled"])
       \/ /\ MayHaveProposed(c)
          /\ Step(c, [Ended(c) EXCEPT !.pc = "orphan", !.tail = store.committed, !.admits = AdmitCursors])
    /\ IF calls[c].pc \in {"leased", "pushing", "pulling", "rebasing", "rolling",
                            "repushing"}
         THEN Release(c, Unchanged) ELSE UNCHANGED mail
    /\ UNCHANGED <<policy, now, actor, worker, authority, store, remote>>

\* A rebase proposal whose caller is gone: the committer refuses it when the
\* cursors it was built for have moved (RebaseStateChanged), and applies
\* otherwise the batches up to the tail it was built for.
OrphanRebase(c) ==
    /\ calls[c].pc = "orphan"
    /\ Step(c, [Ended(c) EXCEPT !.pc = "cancelled"])
    /\ store' = IF calls[c].tail = store.committed /\ calls[c].admits = AdmitCursors
                  THEN [store EXCEPT !.applied = calls[c].admits[2]] ELSE store
    /\ UNCHANGED <<policy, now, mail, actor, worker, authority, remote, faults>>

(***************************************************************************)
(* The push worker and the authority driver.                               *)
(***************************************************************************)

\* run_scheduled_push: a rejection is rolled back, for the cursors read after
\* it, and the push tried again.
WorkerStep ==
    LET to(pc) == worker' = [worker EXCEPT !.pc = pc]
        push(pc) == to(pc) /\ Request("worker", "push", 0)
    IN  /\ \/ /\ worker.pc = "queued" /\ push("pushing")
              /\ UNCHANGED <<mail, store>>
           \/ /\ worker.pc = "rejected"
              /\ worker' = [pc |-> "rolling", tail |-> store.committed]
              /\ UNCHANGED <<mail, authority, store>>
           \/ /\ worker.pc = "rolling" /\ worker.tail = store.committed
              /\ store' = [store EXCEPT !.settled = store.committed]
              /\ push("repushing") /\ UNCHANGED mail
           \/ /\ worker.pc = "rolling" /\ worker.tail # store.committed
              /\ to("error") /\ UNCHANGED <<mail, authority, store>>
           \/ /\ worker.pc \in {"ok", "error"}
              /\ worker' = IdleWorker
              /\ Post([kind |-> "push_complete", ok |-> worker.pc = "ok"])
              /\ UNCHANGED <<authority, store>>
        /\ UNCHANGED <<policy, now, actor, calls, remote, faults>>

\* One request of the authority driver, answered ok, with an error, or for a
\* push with a rejection.  What failed may have got part of the way.
AuthorityStep(outcome, part) ==
    /\ authority # <<>>
    /\ outcome # "ok" => faults < MaxFaults
    /\ LET r == Head(authority)
           through == IF r.kind = "pull" THEN remote
                      ELSE IF r.through = 0 THEN store.committed ELSE r.through
           start == IF r.kind = "pull" THEN store.pulled ELSE store.settled
           end == IF through < start THEN start ELSE through
           answered == r.call \in Calls /\ calls[r.call].pc \in {"pushing", "pulling", "repushing"}
       IN  /\ part \in start..end
           /\ outcome = "ok" => part = end
           /\ outcome = "rejected" => r.kind = "push" /\ part < end
           /\ store' = IF r.kind = "push" THEN [store EXCEPT !.settled = part]
                       ELSE [store EXCEPT !.pulled = part]
           /\ calls' = IF ~answered THEN calls
                       ELSE [calls EXCEPT ![r.call].reply = outcome,
                                          ![r.call].stamp = IF r.kind = "pull"
                                             THEN [NoStamp EXCEPT !.seen = part] ELSE @]
           /\ worker' = IF r.call # "worker" THEN worker
                        ELSE [worker EXCEPT !.pc = IF @ = "repushing" /\ outcome = "rejected"
                                                     THEN "error" ELSE outcome]
    /\ authority' = Tail(authority)
    /\ faults' = IF outcome = "ok" THEN faults ELSE faults + 1
    /\ UNCHANGED <<policy, now, mail, actor, remote>>

RemoteAdmission ==
    /\ remote < MaxRemote
    /\ remote' = remote + 1
    /\ UNCHANGED <<policy, now, mail, actor, calls, worker, authority, store, faults>>

Tick ==
    /\ now < MaxNow \/ actor.deadline > now
    /\ now' = now + 1
    /\ UNCHANGED <<policy, mail, actor, calls, worker, authority, store, remote, faults>>

Outcomes == {"ok", "error", "rejected"}

CallStep(c) == \/ Start(c) \/ AfterPush(c) \/ Rollback(c) \/ AfterPull(c)
               \/ \E refused \in BOOLEAN : Rebase(c, refused)
               \/ Read(c) \/ FinishWrite(c) \/ OrphanRebase(c)

AuthorityAnswers ==
    \E o \in Outcomes, part \in 0..MaxWrites + MaxRemote : AuthorityStep(o, part)

\* What the threads of an open database do by themselves.
SystemStep == \/ ActorTimeout \/ ActorReceive \/ WorkerStep \/ AuthorityAnswers \/ Tick
              \/ \E batch \in SUBSET Calls : CommitGroup(batch)
              \/ \E c \in Calls : CallStep(c)

PolicyNext ==
    \/ SystemStep
    \/ RemoteAdmission
    \/ \E c \in Calls : Cancel(c) \/ \E op \in CallOps[c] : Ask(c, op)

(***************************************************************************)
(* The threads of the database run and time passes; nobody is obliged to   *)
(* call, to cancel or to admit remote batches, and the authority may       *)
(* answer with an error as long as the bound lasts.  One weak fairness     *)
(* condition is enough: the system steps end when nobody calls.            *)
(***************************************************************************)
PolicyFairness == WF_policyVars(SystemStep)

PolicySpec == PolicyInit /\ [][PolicyNext]_policyVars /\ PolicyFairness

(***************************************************************************)
(* Properties                                                              *)
(***************************************************************************)

\* The instant the machine measures staleness from is that of a pull whose
\* batches have been applied: neither a pull without its rebase nor a lease
\* dropped half way makes reads fresh.
FreshnessIsApplied == actor.refresh # NoStamp => actor.refresh.seen <= store.applied

\* A write whose push was scheduled is settled, or something still running
\* will push it: a schedule in the mailbox, a deadline, a due push, or a push
\* that has not succeeded yet.  In particular the retry of a failed push
\* stands for the writes scheduled while it was in flight.
PushCovered ==
    policy.name = "LocalFirst" /\ store.scheduled > store.settled =>
        \/ actor.deadline # Never \/ actor.pending
        \/ worker.pc \notin {"idle", "ok"}
        \/ \E i \in 1..Len(mail) : \/ mail[i].kind \in {"schedule", "schedule_group"}
                                   \/ mail[i].kind = "push_complete" /\ ~mail[i].ok

AlwaysFresh == policy.name = "Remote" \/ (policy.name = "LocalFirst" /\ policy.staleness = 0)

\* A read that asks for no staleness sees every remote batch admitted before
\* it was made, unless a pull that was already evaluated is stamped after it.
ReadsAreFresh ==
    \A c \in Calls : calls[c].pc = "served" /\ calls[c].saw < calls[c].need
                        => ~AlwaysFresh \/ calls[c].raced

\* At most one call holds the workflow, and none while a push is running.
WorkflowExclusive ==
    LET holders == {c \in Calls : calls[c].pc \in {"leased", "pushing", "pulling", "rebasing",
                                                     "rolling", "repushing"}}
    IN  /\ Cardinality(holders) <= 1
        /\ holders # {} => worker.pc = "idle" /\ ~actor.inflight

\* Whatever is called, cancelled or fails, the database comes to rest: every
\* call that asked for the workflow has been answered and has returned, and
\* every scheduled write is settled, admitted or rejected and rolled back.
ComesToRest ==
    []<>(/\ \A c \in Calls : calls[c].pc \in {"idle", "served", "done", "cancelled"}
         /\ policy.name = "LocalFirst" => store.scheduled <= store.settled)

\* Reads are as fresh as their policy promises, and freshness is measured from what
\* was applied.
FreshReads == ReadsAreFresh /\ FreshnessIsApplied

\* Pushes and other workflows take turns, and no scheduled push is forgotten.
PushDiscipline == PushCovered /\ WorkflowExclusive
=============================================================================
