---------------------------- MODULE Coordinator -----------------------------
(***************************************************************************)
(* The client's coordination loop (client/src/coordination.rs): one thread *)
(* that grants, per space, the right to run one workflow at a time.        *)
(*                                                                         *)
(* Callers and the loop share only the command channel and one-shot reply  *)
(* channels.  A caller is an async task and may be dropped at any await:   *)
(* while it waits, after its grant was sent but before it was polled, or   *)
(* while it holds the permit.                                              *)
(***************************************************************************)
EXTENDS Sequences, FiniteSets, Naturals

CONSTANTS SpaceId,  \* space ids
          Caller    \* tasks

ASSUME CoordAssumption == SpaceId # {}

VARIABLES inbox,   \* mpsc command channel
          active,  \* granted spaces and, for each, the queue of waiters
          task,    \* where each task is: idle, waiting, granted, holding, gone,
                   \* or lost: dropped with the grant in its hands
          wants    \* the space each task is after

coordVars == <<inbox, active, task, wants>>

\* What an idle task is after: of no consequence.
AnySpace == CHOOSE s \in SpaceId : TRUE

Command == [verb : {"Enter", "Leave"}, space : SpaceId, caller : Caller]

\* enter: the Enter command and its reply channel.
Enter(c, s) ==
  /\ task[c] = "idle"
  /\ task' = [task EXCEPT ![c] = "waiting"]
  /\ wants' = [wants EXCEPT ![c] = s]
  /\ inbox' = Append(inbox, [verb |-> "Enter", space |-> s, caller |-> c])
  /\ UNCHANGED active

\* enter resumes with the permit.
Poll(c) ==
  /\ task[c] = "granted"
  /\ task' = [task EXCEPT ![c] = "holding"]
  /\ UNCHANGED <<inbox, active, wants>>

\* SpacePermit::drop: the workflow ended, failed or was cancelled.
DropPermit(c) ==
  /\ task[c] = "holding"
  /\ task' = [task EXCEPT ![c] = "idle"]
  /\ inbox' = Append(inbox, [verb |-> "Leave", space |-> wants[c], caller |-> c])
  /\ wants' = [wants EXCEPT ![c] = AnySpace]
  /\ UNCHANGED active

\* The enter future is dropped before it returned a permit: only its reply
\* channel closes.
Cancel(c) ==
  /\ task[c] \in {"waiting", "granted"}
  /\ task' = [task EXCEPT ![c] = IF @ = "waiting" THEN "gone" ELSE "lost"]
  /\ UNCHANGED <<inbox, active, wants>>

\* oneshot::Sender::send succeeds while the receiver is still there.
Listening(c) == task[c] = "waiting"

\* The position of the first waiter that can still be granted.
FirstListening(waiters) ==
  {i \in DOMAIN waiters : Listening(waiters[i]) /\ \A j \in 1..(i - 1) : ~Listening(waiters[j])}

\* Mutant: Enter grants without looking whether the space is taken.
RunEnter_ignores_active(s, c) ==
  IF Listening(c)
  THEN /\ task' = [task EXCEPT ![c] = "granted"]
       /\ active' = [x \in DOMAIN active \cup {s} |-> IF x = s THEN <<>> ELSE active[x]]
  ELSE UNCHANGED <<task, active>>

\* run, Enter: queue behind the active workflow, or grant at once.
RunEnter(s, c) ==
  IF s \in DOMAIN active
  THEN active' = [active EXCEPT ![s] = Append(@, c)] /\ UNCHANGED task
  ELSE IF Listening(c)
  THEN /\ task' = [task EXCEPT ![c] = "granted"]
       /\ active' = [x \in DOMAIN active \cup {s} |-> IF x = s THEN <<>> ELSE active[x]]
  ELSE UNCHANGED <<task, active>>

\* Mutant: a waiter that went away ends the search for the next one.
GrantNext_stops_at_cancelled(s) ==
  IF s \notin DOMAIN active THEN UNCHANGED <<task, active>>
  ELSE IF active[s] = <<>>
  THEN active' = [x \in DOMAIN active \ {s} |-> active[x]] /\ UNCHANGED task
  ELSE /\ active' = [active EXCEPT ![s] = Tail(@)]
       /\ task' = [task EXCEPT ![active[s][1]] = IF Listening(active[s][1]) THEN "granted" ELSE @]

\* grant_next: waiters that went away are skipped; with none left the space is free.
GrantNext(s) ==
  IF s \notin DOMAIN active THEN UNCHANGED <<task, active>>
  ELSE LET first == FirstListening(active[s]) IN
       IF first = {}
       THEN /\ active' = [x \in DOMAIN active \ {s} |-> active[x]]
            /\ UNCHANGED task
       ELSE \E i \in first :
              /\ task' = [task EXCEPT ![active[s][i]] = "granted"]
              /\ active' = [active EXCEPT ![s] = SubSeq(@, i + 1, Len(@))]

\* One turn of the loop.
Loop ==
  /\ inbox # <<>>
  /\ inbox' = Tail(inbox)
  /\ IF inbox[1].verb = "Enter" THEN RunEnter(inbox[1].space, inbox[1].caller)
     ELSE GrantNext(inbox[1].space)
  /\ UNCHANGED wants

CoordInit ==
  /\ inbox = <<>> /\ active = <<>>
  /\ task = [c \in Caller |-> "idle"]
  /\ wants = [c \in Caller |-> AnySpace]

CoordNext ==
  \/ \E c \in Caller, s \in SpaceId : Enter(c, s)
  \/ \E c \in Caller : Poll(c) \/ DropPermit(c) \/ Cancel(c)
  \/ Loop

CoordSpec == CoordInit /\ [][CoordNext]_coordVars

\* The loop thread runs, executors poll granted tasks, workflows end.
CoordFairness ==
  /\ WF_coordVars(Loop)
  /\ \A c \in Caller : WF_coordVars(Poll(c) \/ DropPermit(c))
-----------------------------------------------------------------------------
CoordTypeOK ==
  /\ inbox \in Seq(Command)
  /\ DOMAIN active \subseteq SpaceId
  /\ \A s \in DOMAIN active : \A i \in DOMAIN active[s] :
       wants[active[s][i]] = s /\ task[active[s][i]] \in {"waiting", "gone"}
  /\ task \in [Caller -> {"idle", "waiting", "granted", "holding", "gone", "lost"}]
  /\ wants \in [Caller -> SpaceId]

Owns(c) == task[c] \in {"granted", "holding"}

Leaves(m) == m.verb = "Leave"

\* One workflow per space: at most one task holds a space's permit or has been
\* granted it, whatever the others do, and a Leave on its way is the last trace
\* of an earlier holder (run and grant_next keep `active' until then).
OneWorkflowPerSpace ==
  /\ \A c, d \in Caller : Owns(c) /\ Owns(d) /\ wants[c] = wants[d] => c = d
  /\ \A i, j \in DOMAIN inbox :
       Leaves(inbox[i]) /\ Leaves(inbox[j]) /\ inbox[i].space = inbox[j].space => i = j
  /\ \A i \in DOMAIN inbox, c \in Caller : Leaves(inbox[i]) /\ Owns(c) => inbox[i].space # wants[c]

\* No waiter is stranded: a task that waits for a space is granted it, or is
\* dropped; cancelled tasks in front of it do not matter (the test
\* cancelled_waiter_does_not_strand_the_space).  The exception is a task dropped
\* after its grant was sent and before it was polled: the permit it never made
\* sends no Leave, and the space stays taken (coordination.rs enter).  Tasks are
\* interchangeable here: what holds of one holds of all.
WaitersAreServed ==
  LET c == CHOOSE d \in Caller : TRUE
  IN task[c] = "waiting" ~>
       \/ task[c] # "waiting"
       \/ \E d \in Caller : task[d] = "lost" /\ wants[d] = wants[c]
=============================================================================
