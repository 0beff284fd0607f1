-------------------------- MODULE ComponentProofs ---------------------------
(***************************************************************************)
(* Two self-contained components.                                          *)
(*                                                                         *)
(* HistoricalHeads: two heads suffice, for every set of devices and every  *)
(* bound: the summary stored for a prefix answers "the greatest admission  *)
(* by another device" exactly, after any sequence of observes and merges.  *)
(*                                                                         *)
(* Coordinator: one workflow per space, for every number of callers and    *)
(* spaces.                                                                 *)
(*                                                                         *)
(* OneWorkflowPerSpace is not inductive: that a grant meets no owner       *)
(* follows from `active' listing every space with a trace of a workflow    *)
(* (an owner, a task lost with its grant, or a Leave on its way), and that *)
(* a queued task is granted the space it waits for follows from each task  *)
(* being queued at most once, in the channel or behind one space.          *)
(***************************************************************************)
EXTENDS HeadsMachine, Coordinator, TLAPS

\* Recording one admission keeps the summary faithful to the per-device table
\* (HistoricalHeads::observe).
LEMMA ObserveRepresents ==
  ASSUME NEW h \in Heads, NEW m \in [Device -> Nat],
         NEW d \in Device, NEW s \in Nat \ {0}, Represents(h, m)
  PROVE  /\ observe(h, d, s) \in Heads
         /\ Represents(observe(h, d, s), [m EXCEPT ![d] = MaxOf(@, s)])
<1> DEFINE n == [m EXCEPT ![d] = MaxOf(@, s)]
           seen == [device |-> d, seq |-> s]
<1>0. /\ n \in [Device -> Nat] /\ n[d] = MaxOf(m[d], s) /\ \A e \in Device : e # d => n[e] = m[e]
      /\ n[d] >= s /\ n[d] >= m[d] /\ seen \in DeviceAdmission
  BY DEF MaxOf, Heads, DeviceAdmission
<1>1. CASE h.first.seq = 0
  <2>1. observe(h, d, s) = [first |-> seen, second |-> h.second]
    BY <1>1 DEF observe, Ordered, Represents, Heads, DeviceAdmission
  <2>2. \A e \in Device : m[e] = 0
    BY <1>1 DEF Represents, Heads, DeviceAdmission
  <2> QED BY <1>0, <1>1, <2>1, <2>2 DEF Represents, Heads, DeviceAdmission, MaxOf
<1>2. CASE h.first.seq # 0 /\ h.first.device = d
  <2>1. observe(h, d, s) = [first |-> [device |-> d, seq |-> MaxOf(h.first.seq, s)],
                            second |-> h.second]
    BY <1>2 DEF observe, Ordered, Represents, Heads, DeviceAdmission, MaxOf
  <2> QED BY <1>0, <1>2, <2>1 DEF Represents, Heads, DeviceAdmission, MaxOf
<1>3. CASE h.first.seq # 0 /\ h.first.device # d
  <2> DEFINE g == IF h.second.seq = 0 THEN [h EXCEPT !.second = seen]
                  ELSE IF h.second.device = d THEN [h EXCEPT !.second.seq = MaxOf(@, s)]
                  ELSE IF s > h.second.seq THEN [h EXCEPT !.second = seen] ELSE h
  <2>1. observe(h, d, s) = Ordered(g)
    BY <1>3, Zenon DEF observe
  <2>2. g.first = h.first /\ g \in Heads
    BY <1>0, Zenon DEF Heads, DeviceAdmission, MaxOf
  <2>3. CASE s <= h.second.seq /\ h.second.device # d /\ h.second.seq # 0
    <3>1. g = h /\ Ordered(g) = h
      BY <2>3 DEF Ordered, Represents, Heads, DeviceAdmission
    <3>2. m[d] <= h.second.seq
      BY <1>3, Zenon DEF Represents, Heads, DeviceAdmission
    <3> QED BY <1>0, <1>3, <2>1, <2>3, <3>1, <3>2 DEF Represents, Heads, DeviceAdmission, MaxOf
  <2>4. CASE ~(s <= h.second.seq /\ h.second.device # d /\ h.second.seq # 0)
    <3>1. g.second = [device |-> d, seq |-> n[d]]
      <4>1. m[d] <= h.second.seq
        BY <1>3, Zenon DEF Represents, Heads, DeviceAdmission
      <4>2. CASE h.second.seq = 0
        BY <1>0, <4>1, <4>2 DEF Heads, DeviceAdmission, MaxOf
      <4>3. CASE h.second.seq # 0 /\ h.second.device = d
        BY <1>0, <4>1, <4>3, Zenon DEF Heads, DeviceAdmission, MaxOf, Represents
      <4>4. CASE h.second.seq # 0 /\ h.second.device # d
        BY <1>0, <2>4, <4>1, <4>4 DEF Heads, DeviceAdmission, MaxOf, Represents
      <4> QED BY <4>2, <4>3, <4>4, Zenon
    <3>2. n[d] >= h.second.seq
      BY <1>0, <1>3, <2>4 DEF Represents, Heads, DeviceAdmission, MaxOf
    <3>3. \A e \in Device : e # h.first.device => m[e] <= h.second.seq
      BY Zenon DEF Represents
    <3>4. CASE n[d] > h.first.seq
      <4>1. Ordered(g) = [first |-> g.second, second |-> h.first]
        BY <2>2, <3>1, <3>4 DEF Ordered
      <4> DEFINE result == [first |-> [device |-> d, seq |-> n[d]], second |-> h.first]
      <4>2. observe(h, d, s) = result
        BY <2>1, <3>1, <4>1, Zenon
      <4> HIDE DEF n, g
      <4>3. result \in Heads
        BY <1>0, Zenon DEF Heads, DeviceAdmission
      <4>4. Represents(result, n)
        BY <1>0, <1>3, <3>3, <3>4 DEF Represents, Heads, DeviceAdmission
      <4> HIDE DEF result
      <4>5. observe(h, d, s) \in Heads /\ Represents(observe(h, d, s), n)
        BY <4>2, <4>3, <4>4, Zenon
      <4> QED BY <4>5, Zenon DEF n
    <3>5. CASE ~(n[d] > h.first.seq)
      <4>1. Ordered(g) = g
        BY <2>2, <3>1, <3>5 DEF Ordered
      <4> DEFINE result == [first |-> h.first, second |-> [device |-> d, seq |-> n[d]]]
      <4>2. g = result
        BY <2>2, <3>1, Zenon DEF Heads
      <4>3. observe(h, d, s) = result
        BY <2>1, <4>1, <4>2, Zenon
      <4> HIDE DEF n, g
      <4>4. result \in Heads
        BY <1>0, Zenon DEF Heads, DeviceAdmission
      <4>5. Represents(result, n)
        BY <1>0, <1>3, <3>2, <3>3, <3>5 DEF Represents, Heads, DeviceAdmission
      <4> HIDE DEF result
      <4>6. observe(h, d, s) \in Heads /\ Represents(observe(h, d, s), n)
        BY <4>3, <4>4, <4>5, Zenon
      <4> QED BY <4>6, Zenon DEF n
    <3> QED BY <3>4, <3>5, Zenon
  <2> QED BY <2>3, <2>4, Zenon
<1> QED BY <1>1, <1>2, <1>3, Zenon

\* Folding one summary into another keeps it faithful to the pointwise maximum
\* of the two tables (HistoricalHeads::merge, used by effective_history): the
\* third and later devices of the other table never matter.
LEMMA MergeRepresents ==
  ASSUME NEW h \in Heads, NEW m \in [Device -> Nat],
         NEW o \in Heads, NEW k \in [Device -> Nat],
         Represents(h, m), Represents(o, k)
  PROVE  /\ merge(h, o) \in Heads
         /\ Represents(merge(h, o), [d \in Device |-> MaxOf(m[d], k[d])])
<1> DEFINE both == [d \in Device |-> MaxOf(m[d], k[d])]
<1>1. CASE o.first.seq = 0
  <2>1. o.second.seq = 0 /\ \A d \in Device : k[d] = 0
    BY <1>1 DEF Represents, Heads, DeviceAdmission
  <2>2. merge(h, o) = h
    BY <1>1, <2>1, Zenon DEF merge
  <2>3. both = m
    BY <2>1 DEF MaxOf
  <2> QED BY <2>2, <2>3, Zenon
<1>2. CASE o.first.seq # 0
  <2> DEFINE d1 == o.first.device
             s1 == o.first.seq
             h1 == observe(h, d1, s1)
             m1 == [m EXCEPT ![d1] = MaxOf(@, s1)]
  <2>1. d1 \in Device /\ s1 \in Nat \ {0} /\ k[d1] = s1
    BY <1>2, Zenon DEF Represents, Heads, DeviceAdmission
  <2>2. h1 \in Heads /\ Represents(h1, m1)
    BY <2>1, ObserveRepresents, Zenon
  <2>3. m1 \in [Device -> Nat]
    BY <2>1, Zenon DEF MaxOf
  <2>4. CASE o.second.seq = 0
    <3>1. merge(h, o) = h1
      BY <1>2, <2>4, Zenon DEF merge
    <3>2. \A d \in Device : d # d1 => k[d] = 0
      BY <2>4 DEF Represents
    <3>3. both = m1
      <4>1. \A d \in Device : both[d] = m1[d]
        <5> TAKE d \in Device
        <5>1. CASE d = d1
          BY <2>1, <5>1, Zenon DEF MaxOf
        <5>2. CASE d # d1
          <6>1. k[d] = 0 /\ m[d] >= 0
            BY <3>2, <5>2
          <6> QED BY <2>1, <5>2, <6>1, Zenon DEF MaxOf
        <5> QED BY <5>1, <5>2, Zenon
      <4> QED BY <2>3, <4>1, Zenon
    <3> QED BY <2>2, <3>1, <3>3, Zenon
  <2>5. CASE o.second.seq # 0
    <3> DEFINE d2 == o.second.device
               s2 == o.second.seq
               h2 == observe(h1, d2, s2)
               m2 == [m1 EXCEPT ![d2] = MaxOf(@, s2)]
    <3>1. d2 \in Device /\ d2 # d1 /\ s2 \in Nat \ {0} /\ k[d2] = s2 /\ s2 <= s1
      BY <2>5, Zenon DEF Represents, Heads, DeviceAdmission
    <3>2. h2 \in Heads /\ Represents(h2, m2)
      <4> HIDE DEF h1, m1, d2, s2
      <4> QED BY <2>2, <2>3, <3>1, ObserveRepresents, Zenon
    <3>3. merge(h, o) = h2
      BY <1>2, <2>5, Zenon DEF merge
    <3>4. /\ m2 \in [Device -> Nat]
          /\ m2[d1] = MaxOf(m[d1], s1) /\ m2[d2] = MaxOf(m[d2], s2)
          /\ \A d \in Device : d # d1 /\ d # d2 => m2[d] = m[d]
      BY <2>1, <3>1, Zenon DEF MaxOf
    <3>5. \A d \in Device : k[d] <= s1 /\ (d # d1 => k[d] <= s2)
      BY Zenon DEF Represents
    <3>max. both \in [Device -> Nat] /\ \A d \in Device : both[d] = MaxOf(m[d], k[d])
      BY Zenon DEF MaxOf
    <3>types. \A d \in Device : m[d] \in Nat /\ k[d] \in Nat
      BY Zenon
    <3> HIDE DEF h1, m1, h2, m2, d1, s1, d2, s2, both
    <3>6. /\ both \in [Device -> Nat]
          /\ both[d1] = m2[d1] /\ both[d2] = m2[d2]
          /\ \A d \in Device : d # d1 /\ d # d2 =>
               both[d] >= m2[d] /\ (both[d] = m2[d] \/ both[d] <= s2)
      <4>1. both[d1] = m2[d1] /\ both[d2] = m2[d2]
        BY <2>1, <3>1, <3>4, <3>max, Zenon
      <4>2. ASSUME NEW d \in Device, d # d1, d # d2
            PROVE  both[d] >= m2[d] /\ (both[d] = m2[d] \/ both[d] <= s2)
        <5>1. m2[d] = m[d] /\ k[d] <= s2 /\ both[d] = MaxOf(m[d], k[d])
          BY <3>4, <3>5, <3>max, <4>2, Zenon
        <5> QED BY <3>1, <3>types, <5>1 DEF MaxOf
      <4> QED BY <3>max, <4>1, <4>2, Zenon
    <3>7. m2[d1] >= s2 /\ m2[d2] >= s2
      <4>1. m[d1] \in Nat /\ m[d2] \in Nat
        BY <2>1, <3>1, <3>types, Zenon
      <4>2. m2[d1] = MaxOf(m[d1], s1) /\ m2[d2] = MaxOf(m[d2], s2)
        BY <3>4, Zenon
      <4> QED BY <2>1, <3>1, <4>1, <4>2 DEF MaxOf
    <3>8. s2 <= h2.second.seq /\ s2 <= h2.first.seq /\ h2.second.seq # 0
      BY <2>1, <3>1, <3>2, <3>4, <3>7 DEF Represents, Heads, DeviceAdmission
    <3>9. \A d \in Device : both[d] <= h2.first.seq
      <4>1. h2.first.seq \in Nat /\ s2 \in Nat /\ \A d \in Device : m2[d] <= h2.first.seq
        BY <3>1, <3>2, Zenon DEF Represents, Heads, DeviceAdmission
      <4>2. \A d \in Device : both[d] = m2[d] \/ both[d] <= s2
        BY <3>6, Zenon
      <4>3. \A d \in Device : both[d] \in Nat /\ m2[d] \in Nat
        BY <3>4, <3>6, Zenon
      <4> TAKE d \in Device
      <4>4. CASE both[d] = m2[d]
        BY <4>1, <4>4, Zenon
      <4>5. CASE both[d] <= s2
        BY <3>8, <4>1, <4>3, <4>5
      <4> QED BY <4>2, <4>4, <4>5, Zenon
    <3>10. \A d \in Device : d # h2.first.device => both[d] <= h2.second.seq
      BY <2>1, <3>1, <3>2, <3>4, <3>6, <3>8 DEF Represents, Heads, DeviceAdmission
    <3>11. both[h2.first.device] = h2.first.seq
      BY <2>1, <3>1, <3>2, <3>4, <3>6, <3>8, <3>9 DEF Represents, Heads, DeviceAdmission
    <3>12. both[h2.second.device] = h2.second.seq
      BY <2>1, <3>1, <3>2, <3>4, <3>6, <3>8, <3>10, SMTT(30) DEF Represents, Heads, DeviceAdmission
    <3>13. Represents(h2, both)
      BY <3>2, <3>8, <3>9, <3>10, <3>11, <3>12, Zenon DEF Represents, Heads, DeviceAdmission
    <3> QED BY <3>2, <3>3, <3>13, Zenon DEF both
  <2> QED BY <2>4, <2>5, Zenon
<1> QED BY <1>1, <1>2, Zenon

\* A faithful summary answers max_excluding exactly.
LEMMA RepresentsExact ==
  ASSUME NEW h \in Heads, NEW m \in [Device -> Nat],
         NEW d \in Device, Represents(h, m)
  PROVE  GreatestExcluding(m, d, max_excluding(h, d))
BY DeviceAssumption, Zenon DEF Represents, GreatestExcluding, max_excluding, Heads, DeviceAdmission

\* HeadsInv is inductive.
THEOREM HeadsInvariance == HeadsSpec => []HeadsInv
<1>1. HeadsInit => HeadsInv
  BY DEF HeadsInit, HeadsInv, HeadsTypeOK, Heads, DeviceAdmission, EmptyHeads, EmptyHead, Represents
<1>2. HeadsInv /\ [HeadsNext]_headsVars => HeadsInv'
  <2> SUFFICES ASSUME HeadsInv, [HeadsNext]_headsVars PROVE HeadsInv'
    BY Zenon
  <2> USE DEF HeadsInv
  <2>1. ASSUME NEW r \in Register, NEW d \in Device, NEW s \in 1..MaxObserved, Observe(r, d, s)
        PROVE  HeadsInv'
    <3>1. s \in Nat \ {0}
      BY HeadsAssumption
    <3>2. heads[r] \in Heads /\ admitted[r] \in [Device -> Nat]
      BY Zenon DEF HeadsTypeOK
    <3>3. /\ observe(heads[r], d, s) \in Heads
          /\ Represents(observe(heads[r], d, s), [admitted[r] EXCEPT ![d] = MaxOf(@, s)])
      BY <3>1, <3>2, ObserveRepresents, Zenon
    <3>4. heads' = [heads EXCEPT ![r] = observe(heads[r], d, s)]
          /\ admitted' = [admitted EXCEPT ![r] = [admitted[r] EXCEPT ![d] = MaxOf(@, s)]]
      BY <2>1, Zenon DEF Observe, HeadsTypeOK
    <3>5. [admitted[r] EXCEPT ![d] = MaxOf(@, s)] \in [Device -> Nat]
      BY <3>1, <3>2, Zenon DEF MaxOf
    <3> QED BY <3>3, <3>4, <3>5, Zenon DEF HeadsTypeOK
  <2>2. ASSUME NEW r \in Register, NEW o \in Register, Merge(r, o)
        PROVE  HeadsInv'
    <3> DEFINE both == [d \in Device |-> MaxOf(admitted[r][d], admitted[o][d])]
    <3>1. /\ heads[r] \in Heads /\ admitted[r] \in [Device -> Nat]
          /\ heads[o] \in Heads /\ admitted[o] \in [Device -> Nat]
      BY Zenon DEF HeadsTypeOK
    <3>2. /\ merge(heads[r], heads[o]) \in Heads
          /\ Represents(merge(heads[r], heads[o]), both)
      BY <3>1, MergeRepresents, Zenon
    <3>3. both \in [Device -> Nat]
      BY <3>1, Zenon DEF MaxOf
    <3>4. heads' = [heads EXCEPT ![r] = merge(heads[r], heads[o])]
          /\ admitted' = [admitted EXCEPT ![r] = both]
      BY <2>2, Zenon DEF Merge, HeadsTypeOK
    <3> QED BY <3>2, <3>3, <3>4, Zenon DEF HeadsTypeOK
  <2>3. CASE UNCHANGED headsVars
    BY <2>3, Zenon DEF headsVars, HeadsTypeOK
  <2> QED BY <2>1, <2>2, <2>3, Zenon DEF HeadsNext
<1> QED BY <1>1, <1>2, PTL DEF HeadsSpec

\* The summary is exact in every reachable state, whatever the devices.
THEOREM HeadsExactness == HeadsSpec => []HeadsExact
<1>1. HeadsInv => HeadsExact
  BY RepresentsExact, Zenon DEF HeadsInv, HeadsExact, HeadsTypeOK
<1> QED BY <1>1, HeadsInvariance, PTL
-----------------------------------------------------------------------------
State == {"idle", "waiting", "granted", "holding", "gone", "lost"}

CoordTypes ==
  /\ inbox \in Seq(Command)
  /\ DOMAIN active \subseteq SpaceId
  /\ \A s \in DOMAIN active : active[s] \in Seq(Caller)
  /\ task \in [Caller -> State]
  /\ wants \in [Caller -> SpaceId]

\* A task in a queue is after that space and has not been granted it.
Queued(c, s) == wants[c] = s /\ task[c] \in {"waiting", "gone"}

QueuesOK ==
  /\ \A i \in 1..Len(inbox) : ~Leaves(inbox[i]) => Queued(inbox[i].caller, inbox[i].space)
  /\ \A s \in DOMAIN active : \A i \in 1..Len(active[s]) : Queued(active[s][i], s)

QueuedOnce ==
  /\ \A i, j \in 1..Len(inbox) :
       ~Leaves(inbox[i]) /\ ~Leaves(inbox[j]) /\ inbox[i].caller = inbox[j].caller => i = j
  /\ \A i \in 1..Len(inbox) : \A s \in DOMAIN active : \A j \in 1..Len(active[s]) :
       ~Leaves(inbox[i]) => active[s][j] # inbox[i].caller
  /\ \A s \in DOMAIN active : \A i, j \in 1..Len(active[s]) : active[s][i] = active[s][j] => i = j

\* The grant of a lost task is still out.
Taken(c) == Owns(c) \/ task[c] = "lost"

OneTrace ==
  /\ \A c \in Caller : Taken(c) => wants[c] \in DOMAIN active
  /\ \A i \in 1..Len(inbox) : Leaves(inbox[i]) => inbox[i].space \in DOMAIN active
  /\ \A c, d \in Caller : Taken(c) /\ Taken(d) /\ wants[c] = wants[d] => c = d
  /\ \A i, j \in 1..Len(inbox) :
       Leaves(inbox[i]) /\ Leaves(inbox[j]) /\ inbox[i].space = inbox[j].space => i = j
  /\ \A i \in 1..Len(inbox) : \A c \in Caller :
       Leaves(inbox[i]) /\ Taken(c) => inbox[i].space # wants[c]

CoordInv == CoordTypes /\ QueuesOK /\ QueuedOnce /\ OneTrace

\* No command, no grant.
LEMMA CoordInitInv == CoordInit => CoordInv
<1> SUFFICES ASSUME CoordInit PROVE CoordInv
  BY Zenon
<1>1. AnySpace \in SpaceId
  BY CoordAssumption, Zenon DEF AnySpace
<1> QED
  BY <1>1 DEF CoordInit, CoordInv, CoordTypes, State, QueuesOK, QueuedOnce, OneTrace, Taken, Owns

\* A command behind the others: what a channel that grew looks like.
LEMMA Sent ==
  ASSUME inbox \in Seq(Command), NEW m \in Command, inbox' = Append(inbox, m)
  PROVE  /\ inbox' \in Seq(Command) /\ Len(inbox') = Len(inbox) + 1 /\ Len(inbox) \in Nat
         /\ \A i \in 1..Len(inbox) : inbox'[i] = inbox[i]
         /\ inbox'[Len(inbox) + 1] = m
OBVIOUS

\* The waiters behind a position.
LEMMA After ==
  ASSUME NEW q \in Seq(Caller), NEW k \in 1..Len(q)
  PROVE  LET r == SubSeq(q, k + 1, Len(q)) IN
         /\ r \in Seq(Caller) /\ Len(r) = Len(q) - k /\ Len(q) \in Nat
         /\ \A i \in 1..Len(r) : i + k \in 1..Len(q) /\ i + k # k /\ r[i] = q[i + k]
<1> DEFINE r == SubSeq(q, k + 1, Len(q))
<1>1. Len(q) \in Nat /\ k \in Nat /\ k <= Len(q)
  OBVIOUS
<1>2. r \in Seq(Caller) /\ Len(r) = Len(q) - k
  BY <1>1
<1>3. ASSUME NEW i \in 1..Len(r)
      PROVE  i + k \in 1..Len(q) /\ i + k # k /\ r[i] = q[i + k]
  <2>1. i \in 1..(Len(q) - k)
    BY <1>2, <1>3, Zenon
  <2>2. i + k \in 1..Len(q) /\ i + k # k
    BY <1>1, <2>1
  <2>3. r[i] = q[i + k]
    BY <1>1, <2>1
  <2> QED BY <2>2, <2>3, Zenon
<1> QED BY <1>1, <1>2, <1>3, Zenon

\* What a channel holds is commands.
LEMMA Commands ==
  ASSUME inbox \in Seq(Command)
  PROVE  /\ Len(inbox) \in Nat
         /\ \A i \in 1..Len(inbox) : /\ inbox[i] \in Command
                                     /\ inbox[i].caller \in Caller /\ inbox[i].space \in SpaceId
<1>1. \A i \in 1..Len(inbox) : inbox[i] \in Command
  OBVIOUS
<1>2. \A m \in Command : m.caller \in Caller /\ m.space \in SpaceId
  BY Zenon DEF Command
<1> QED BY <1>1, <1>2

\* The channel after the loop took a command off it.
LEMMA Taken1 ==
  ASSUME inbox \in Seq(Command), inbox # <<>>, inbox' = Tail(inbox)
  PROVE  /\ inbox' \in Seq(Command) /\ Len(inbox) \in Nat \ {0} /\ Len(inbox') = Len(inbox) - 1
         /\ \A i \in 1..Len(inbox') : i + 1 \in 1..Len(inbox) /\ i + 1 # 1 /\ inbox'[i] = inbox[i + 1]
OBVIOUS

\* enter: the task was idle, so it is in no queue.
LEMMA EnterKeeps ==
  ASSUME CoordInv, NEW c \in Caller, NEW s \in SpaceId, Enter(c, s)
  PROVE  CoordInv'
<1> DEFINE m == [verb |-> "Enter", space |-> s, caller |-> c]
           n == Len(inbox) + 1
<1>1. /\ task[c] = "idle" /\ active' = active /\ m \in Command
      /\ task' = [task EXCEPT ![c] = "waiting"] /\ wants' = [wants EXCEPT ![c] = s]
      /\ inbox' = Append(inbox, m) /\ inbox \in Seq(Command)
      /\ task \in [Caller -> State] /\ wants \in [Caller -> SpaceId]
  BY Zenon DEF Enter, CoordInv, CoordTypes, Command
<1>2. /\ inbox' \in Seq(Command) /\ Len(inbox') = n /\ n \in Nat
      /\ \A i \in 1..Len(inbox) : inbox'[i] = inbox[i]
      /\ inbox'[n] = m
  BY <1>1, Sent
<1>3. \A i \in 1..n : i = n \/ i \in 1..Len(inbox)
  BY <1>2
<1>4. /\ task'[c] = "waiting" /\ wants'[c] = s
      /\ \A d \in Caller \ {c} : task'[d] = task[d] /\ wants'[d] = wants[d]
  BY <1>1, Zenon
<1>5. /\ \A i \in 1..Len(inbox) : ~Leaves(inbox[i]) => inbox[i].caller # c
      /\ \A x \in DOMAIN active : \A i \in 1..Len(active[x]) : active[x][i] # c
  BY <1>1, Zenon DEF CoordInv, QueuesOK, Queued
<1>6. \A i \in 1..Len(inbox) : inbox[i].caller \in Caller
  BY <1>1, Commands, Zenon
<1>7. \A x \in DOMAIN active : \A i \in 1..Len(active[x]) : active[x][i] \in Caller
  BY DEF CoordInv, CoordTypes
<1>8. ~Leaves(m) /\ m.caller = c /\ m.space = s
  BY Zenon DEF Leaves
<1> HIDE DEF n, m
<1>9. CoordTypes'
  BY <1>1, <1>2, Zenon DEF CoordInv, CoordTypes, State
<1>10. QueuesOK'
  BY <1>1, <1>2, <1>3, <1>4, <1>5, <1>6, <1>7, <1>8 DEF CoordInv, QueuesOK, Queued
<1>11. QueuedOnce'
  BY <1>1, <1>2, <1>3, <1>5, <1>8 DEF CoordInv, QueuedOnce
<1>12. \A d \in Caller : Taken(d)' <=> d # c /\ Taken(d)
  BY <1>1, <1>4, Zenon DEF Taken, Owns
<1>13. OneTrace'
  <2>1. \A i \in 1..Len(inbox') : Leaves(inbox'[i]) => i \in 1..Len(inbox) /\ inbox'[i] = inbox[i]
    BY <1>2, <1>3, <1>8, Zenon
  <2>2. \A d \in Caller : Taken(d)' => Taken(d) /\ wants'[d] = wants[d]
    BY <1>4, <1>12, Zenon
  <2>3. \A d \in Caller : Taken(d)' => wants'[d] \in DOMAIN active'
    BY <1>1, <2>2, Zenon DEF CoordInv, OneTrace
  <2>4. \A i \in 1..Len(inbox') : Leaves(inbox'[i]) => inbox'[i].space \in DOMAIN active'
    BY <1>1, <2>1, Zenon DEF CoordInv, OneTrace
  <2>5. \A d, e \in Caller : Taken(d)' /\ Taken(e)' /\ wants'[d] = wants'[e] => d = e
    BY <2>2, Zenon DEF CoordInv, OneTrace
  <2>6. \A i, j \in 1..Len(inbox') :
          Leaves(inbox'[i]) /\ Leaves(inbox'[j]) /\ inbox'[i].space = inbox'[j].space => i = j
    BY <2>1, Zenon DEF CoordInv, OneTrace
  <2>7. \A i \in 1..Len(inbox') : \A d \in Caller :
          Leaves(inbox'[i]) /\ Taken(d)' => inbox'[i].space # wants'[d]
    BY <2>1, <2>2, Zenon DEF CoordInv, OneTrace
  <2> QED BY <2>3, <2>4, <2>5, <2>6, <2>7, Zenon DEF OneTrace, Leaves
<1> QED BY <1>9, <1>10, <1>11, <1>13, Zenon DEF CoordInv

\* A step of one task that neither queues nor grants anything keeps all of it.
LEMMA TaskKeeps ==
  ASSUME CoordInv, NEW c \in Caller, NEW v \in State,
         task' = [task EXCEPT ![c] = v], UNCHANGED <<inbox, active, wants>>,
         task[c] \in {"waiting", "gone"} => v \in {"waiting", "gone"},
         v \in {"granted", "holding", "lost"} => Taken(c)
  PROVE  CoordInv'
<1>1. /\ task \in [Caller -> State] /\ task' \in [Caller -> State]
      /\ inbox' = inbox /\ active' = active /\ wants' = wants
  BY Zenon DEF CoordInv, CoordTypes
<1>2. \A d \in Caller : Taken(d)' => Taken(d)
  BY <1>1, Zenon DEF Taken, Owns
<1>3. \A d \in Caller, s \in SpaceId : Queued(d, s) => Queued(d, s)'
  BY <1>1, Zenon DEF Queued
<1>4. \A i \in 1..Len(inbox) : inbox[i].caller \in Caller /\ inbox[i].space \in SpaceId
  BY Commands, Zenon DEF CoordInv, CoordTypes
<1>5. \A x \in DOMAIN active : x \in SpaceId /\ \A i \in 1..Len(active[x]) : active[x][i] \in Caller
  BY DEF CoordInv, CoordTypes
<1>6. CoordTypes'
  BY <1>1, Zenon DEF CoordInv, CoordTypes
<1>7. QueuesOK'
  BY <1>1, <1>3, <1>4, <1>5, Zenon DEF CoordInv, QueuesOK
<1>8. QueuedOnce'
  BY <1>1, Zenon DEF CoordInv, QueuedOnce
<1>9. OneTrace'
  BY <1>1, <1>2, Zenon DEF CoordInv, OneTrace
<1> QED BY <1>6, <1>7, <1>8, <1>9, Zenon DEF CoordInv

\* SpacePermit::drop: the trace of the workflow is now the Leave.
LEMMA DropPermitKeeps ==
  ASSUME CoordInv, NEW c \in Caller, DropPermit(c)
  PROVE  CoordInv'
<1> DEFINE m == [verb |-> "Leave", space |-> wants[c], caller |-> c]
           n == Len(inbox) + 1
<1>1. /\ task[c] = "holding" /\ active' = active
      /\ task' = [task EXCEPT ![c] = "idle"] /\ wants' = [wants EXCEPT ![c] = AnySpace]
      /\ inbox' = Append(inbox, m) /\ inbox \in Seq(Command)
      /\ task \in [Caller -> State] /\ wants \in [Caller -> SpaceId] /\ AnySpace \in SpaceId
  BY CoordAssumption, Zenon DEF DropPermit, CoordInv, CoordTypes, AnySpace
<1>2. m \in Command
  BY <1>1, Zenon DEF Command
<1>3. /\ inbox' \in Seq(Command) /\ Len(inbox') = n /\ n \in Nat
      /\ \A i \in 1..Len(inbox) : inbox'[i] = inbox[i]
      /\ inbox'[n] = m
  BY <1>1, <1>2, Sent
<1>4. \A i \in 1..n : i = n \/ i \in 1..Len(inbox)
  BY <1>3
<1>5. \A d \in Caller \ {c} : task'[d] = task[d] /\ wants'[d] = wants[d]
  BY <1>1, Zenon
<1>6. /\ \A i \in 1..Len(inbox) : ~Leaves(inbox[i]) => inbox[i].caller # c
      /\ \A x \in DOMAIN active : \A i \in 1..Len(active[x]) : active[x][i] # c
  BY <1>1, Zenon DEF CoordInv, QueuesOK, Queued
<1>7. \A i \in 1..Len(inbox) : inbox[i].caller \in Caller
  BY <1>1, Commands, Zenon
<1>8. \A x \in DOMAIN active : \A i \in 1..Len(active[x]) : active[x][i] \in Caller
  BY DEF CoordInv, CoordTypes
<1>9. Leaves(m) /\ m.space = wants[c]
  BY Zenon DEF Leaves
<1>10. Taken(c) /\ \A d \in Caller : Taken(d)' <=> d # c /\ Taken(d)
  BY <1>1, <1>5, Zenon DEF Taken, Owns
<1> HIDE DEF n, m
<1>11. CoordTypes'
  BY <1>1, <1>3, Zenon DEF CoordInv, CoordTypes, State
<1>12. QueuesOK'
  BY <1>1, <1>3, <1>4, <1>5, <1>6, <1>7, <1>8, <1>9 DEF CoordInv, QueuesOK, Queued
<1>13. QueuedOnce'
  BY <1>1, <1>3, <1>4, <1>9 DEF CoordInv, QueuedOnce
<1>14. OneTrace'
  <2>1. \A i \in 1..Len(inbox') : \/ i = n /\ inbox'[i].space = wants[c]
                                  \/ i \in 1..Len(inbox) /\ inbox'[i] = inbox[i]
    BY <1>3, <1>4, <1>9, Zenon
  <2>2. \A d \in Caller : Taken(d)' => d # c /\ Taken(d) /\ wants'[d] = wants[d]
    BY <1>5, <1>10, Zenon
  <2>3. \A d \in Caller : Taken(d)' => wants'[d] \in DOMAIN active'
    BY <1>1, <2>2, Zenon DEF CoordInv, OneTrace
  <2>4. \A i \in 1..Len(inbox') : Leaves(inbox'[i]) => inbox'[i].space \in DOMAIN active'
    BY <1>1, <1>10, <2>1, Zenon DEF CoordInv, OneTrace
  <2>5. \A d, e \in Caller : Taken(d)' /\ Taken(e)' /\ wants'[d] = wants'[e] => d = e
    BY <2>2, Zenon DEF CoordInv, OneTrace
  <2>6. \A i, j \in 1..Len(inbox') :
          Leaves(inbox'[i]) /\ Leaves(inbox'[j]) /\ inbox'[i].space = inbox'[j].space => i = j
    BY <1>10, <2>1, Zenon DEF CoordInv, OneTrace
  <2>7. \A i \in 1..Len(inbox') : \A d \in Caller :
          Leaves(inbox'[i]) /\ Taken(d)' => inbox'[i].space # wants'[d]
    BY <1>10, <2>1, <2>2, Zenon DEF CoordInv, OneTrace
  <2> QED BY <2>3, <2>4, <2>5, <2>6, <2>7, Zenon DEF OneTrace, Leaves
<1> QED BY <1>11, <1>12, <1>13, <1>14, Zenon DEF CoordInv

\* Two commands behind the first that tell the same are one, if they were before
\* the first was taken off the channel.
LEMMA ChannelApart ==
  ASSUME Len(inbox) \in Nat, Len(inbox') = Len(inbox) - 1,
         \A i \in 1..Len(inbox') : i + 1 \in 1..Len(inbox) /\ inbox'[i] = inbox[i + 1]
  PROVE  /\ QueuedOnce =>
              \A i, j \in 1..Len(inbox') :
                ~Leaves(inbox'[i]) /\ ~Leaves(inbox'[j]) /\ inbox'[i].caller = inbox'[j].caller => i = j
         /\ OneTrace =>
              \A i, j \in 1..Len(inbox') :
                Leaves(inbox'[i]) /\ Leaves(inbox'[j]) /\ inbox'[i].space = inbox'[j].space => i = j
<1>1. \A i, j \in 1..Len(inbox') : i + 1 = j + 1 => i = j
  OBVIOUS
<1>2. ASSUME QueuedOnce, NEW i \in 1..Len(inbox'), NEW j \in 1..Len(inbox'),
             ~Leaves(inbox'[i]), ~Leaves(inbox'[j]), inbox'[i].caller = inbox'[j].caller
      PROVE  i = j
  <2>1. /\ i + 1 \in 1..Len(inbox) /\ inbox'[i] = inbox[i + 1]
        /\ j + 1 \in 1..Len(inbox) /\ inbox'[j] = inbox[j + 1]
    BY Zenon
  <2>2. i + 1 = j + 1
    BY <1>2, <2>1, ZenonT(30) DEF QueuedOnce
  <2> QED BY <1>1, <2>2, Zenon
<1>3. ASSUME OneTrace, NEW i \in 1..Len(inbox'), NEW j \in 1..Len(inbox'),
             Leaves(inbox'[i]), Leaves(inbox'[j]), inbox'[i].space = inbox'[j].space
      PROVE  i = j
  <2>1. /\ i + 1 \in 1..Len(inbox) /\ inbox'[i] = inbox[i + 1]
        /\ j + 1 \in 1..Len(inbox) /\ inbox'[j] = inbox[j + 1]
    BY Zenon
  <2>2. i + 1 = j + 1
    BY <1>3, <2>1, Zenon DEF OneTrace
  <2> QED BY <1>1, <2>2, Zenon
<1> QED BY <1>2, <1>3, Zenon

\* A turn of the loop that grants nothing leaves the traces as they were.
LEMMA TraceStays ==
  ASSUME OneTrace, inbox # <<>>, wants' = wants,
         \A c \in Caller : Taken(c)' => wants'[c] \in DOMAIN active',
         \A i \in 1..Len(inbox') : Leaves(inbox'[i]) => inbox'[i].space \in DOMAIN active',
         \A d \in Caller : Taken(d)' <=> Taken(d),
         Len(inbox) \in Nat, Len(inbox') = Len(inbox) - 1,
         \A i \in 1..Len(inbox') : i + 1 \in 1..Len(inbox) /\ inbox'[i] = inbox[i + 1]
  PROVE  OneTrace'
<1>3. \A c, d \in Caller : Taken(c)' /\ Taken(d)' /\ wants'[c] = wants'[d] => c = d
  BY Zenon DEF OneTrace
<1>4. \A i, j \in 1..Len(inbox') :
        Leaves(inbox'[i]) /\ Leaves(inbox'[j]) /\ inbox'[i].space = inbox'[j].space => i = j
  BY ChannelApart, Zenon
<1>5. \A i \in 1..Len(inbox') : \A c \in Caller :
        Leaves(inbox'[i]) /\ Taken(c)' => inbox'[i].space # wants'[c]
  <2> SUFFICES ASSUME NEW i \in 1..Len(inbox'), NEW c \in Caller, Leaves(inbox'[i]), Taken(c)'
               PROVE  inbox'[i].space # wants'[c]
    BY Zenon
  <2>1. i + 1 \in 1..Len(inbox) /\ inbox'[i] = inbox[i + 1] /\ Taken(c)
    BY Zenon
  <2>2. Leaves(inbox[i + 1]) /\ Taken(c) => inbox[i + 1].space # wants[c]
    BY <2>1, Zenon DEF OneTrace
  <2> QED BY <2>1, <2>2, Zenon
<1> QED BY <1>3, <1>4, <1>5, Zenon DEF OneTrace, Leaves

\* A turn of the loop that queues nothing leaves every task queued at most once.
LEMMA OnceStays ==
  ASSUME QueuedOnce, Len(inbox) \in Nat, Len(inbox') = Len(inbox) - 1,
         \A i \in 1..Len(inbox') : i + 1 \in 1..Len(inbox) /\ inbox'[i] = inbox[i + 1],
         \A x \in DOMAIN active' : x \in DOMAIN active /\ active'[x] = active[x]
  PROVE  QueuedOnce'
<1>1. \A i, j \in 1..Len(inbox') :
        ~Leaves(inbox'[i]) /\ ~Leaves(inbox'[j]) /\ inbox'[i].caller = inbox'[j].caller => i = j
  BY ChannelApart, Zenon
<1>2. \A i \in 1..Len(inbox') : \A x \in DOMAIN active' : \A j \in 1..Len(active'[x]) :
        ~Leaves(inbox'[i]) => active'[x][j] # inbox'[i].caller
  <2> SUFFICES ASSUME NEW i \in 1..Len(inbox'), NEW x \in DOMAIN active', NEW j \in 1..Len(active'[x]),
                      ~Leaves(inbox'[i])
               PROVE  active'[x][j] # inbox'[i].caller
    BY Zenon
  <2>1. i + 1 \in 1..Len(inbox) /\ inbox'[i] = inbox[i + 1]
    BY Zenon
  <2>2. x \in DOMAIN active /\ j \in 1..Len(active[x]) /\ active'[x][j] = active[x][j]
    BY Zenon
  <2>3. ~Leaves(inbox[i + 1]) => active[x][j] # inbox[i + 1].caller
    BY <2>1, <2>2, Zenon DEF QueuedOnce
  <2> QED BY <2>1, <2>2, <2>3, Zenon
<1>3. \A x \in DOMAIN active' : \A i, j \in 1..Len(active'[x]) : active'[x][i] = active'[x][j] => i = j
  BY Zenon DEF QueuedOnce
<1> QED BY <1>1, <1>2, <1>3, Zenon DEF QueuedOnce, Leaves

\* The loop takes an Enter: its task is in no other queue, and is granted a
\* space only if the space is not in `active'.
LEMMA RunEnterKeeps ==
  ASSUME CoordInv, Loop, inbox[1].verb = "Enter"
  PROVE  CoordInv'
<1> DEFINE s == inbox[1].space
           c == inbox[1].caller
<1>1. /\ inbox \in Seq(Command) /\ inbox # <<>> /\ inbox' = Tail(inbox) /\ wants' = wants
      /\ RunEnter(s, c)
      /\ task \in [Caller -> State] /\ wants \in [Caller -> SpaceId]
  BY Zenon DEF Loop, CoordInv, CoordTypes
<1>2. /\ inbox' \in Seq(Command) /\ Len(inbox) \in Nat \ {0} /\ Len(inbox') = Len(inbox) - 1
      /\ \A i \in 1..Len(inbox') : i + 1 \in 1..Len(inbox) /\ i + 1 # 1 /\ inbox'[i] = inbox[i + 1]
  BY <1>1, Taken1, Zenon
<1>3. \A i, j \in 1..Len(inbox') : i + 1 = j + 1 => i = j
  BY <1>2
<1>4. 1 \in 1..Len(inbox) /\ ~Leaves(inbox[1])
  BY <1>2 DEF Leaves
<1>5. \A i \in 1..Len(inbox) : inbox[i].caller \in Caller /\ inbox[i].space \in SpaceId
  BY <1>1, Commands, Zenon
<1>6. /\ DOMAIN active \subseteq SpaceId
      /\ \A x \in DOMAIN active : active[x] \in Seq(Caller) /\ \A i \in 1..Len(active[x]) : active[x][i] \in Caller
  BY DEF CoordInv, CoordTypes
<1>7. c \in Caller /\ s \in SpaceId /\ Queued(c, s)
  BY <1>4, <1>5, Zenon DEF CoordInv, QueuesOK
<1>8. /\ \A i \in 1..Len(inbox) : i # 1 /\ ~Leaves(inbox[i]) => inbox[i].caller # c
      /\ \A x \in DOMAIN active : \A i \in 1..Len(active[x]) : active[x][i] # c
  BY <1>4, Zenon DEF CoordInv, QueuedOnce
<1> HIDE DEF s, c
<1>10. CASE s \in DOMAIN active
  <2>1. /\ task' = task /\ DOMAIN active' = DOMAIN active
        /\ active'[s] = Append(active[s], c)
        /\ \A x \in DOMAIN active : x # s => active'[x] = active[x]
    BY <1>1, <1>10, Zenon DEF RunEnter
  <2>2. /\ active'[s] \in Seq(Caller) /\ Len(active'[s]) = Len(active[s]) + 1 /\ Len(active[s]) \in Nat
        /\ \A i \in 1..Len(active'[s]) : \/ i \in 1..Len(active[s]) /\ active'[s][i] = active[s][i]
                                         \/ i = Len(active'[s]) /\ active'[s][i] = c
    <3>1. active[s] \in Seq(Caller)
      BY <1>6, <1>10, Zenon
    <3> DEFINE q == active[s]
               r == active'[s]
    <3>2. q \in Seq(Caller) /\ c \in Caller /\ r = Append(q, c)
      BY <1>7, <2>1, <3>1, Zenon
    <3> HIDE DEF q, r
    <3>3. r \in Seq(Caller) /\ Len(r) = Len(q) + 1 /\ Len(q) \in Nat
      BY <3>2
    <3>4. \A i \in 1..Len(r) : \/ i \in 1..Len(q) /\ r[i] = q[i]
                               \/ i = Len(r) /\ r[i] = c
      BY <3>2
    <3> QED BY <3>3, <3>4, Zenon DEF q, r
  <2>3. CoordTypes'
    <3>1. DOMAIN active' \subseteq SpaceId
      BY <1>6, <2>1, Zenon
    <3>2. \A x \in DOMAIN active' : active'[x] \in Seq(Caller)
      BY <1>6, <2>1, <2>2, Zenon
    <3> QED BY <1>1, <1>2, <2>1, <3>1, <3>2, Zenon DEF CoordTypes
  <2>4. QueuesOK'
    <3>1. (\A i \in 1..Len(inbox) : ~Leaves(inbox[i]) => Queued(inbox[i].caller, inbox[i].space))'
      BY <1>1, <1>2, <2>1 DEF CoordInv, QueuesOK, Queued
    <3>2. (\A x \in DOMAIN active : \A i \in 1..Len(active[x]) : Queued(active[x][i], x))'
      <4> SUFFICES ASSUME NEW x \in DOMAIN active', NEW i \in 1..Len(active'[x])
                   PROVE  Queued(active[x][i], x)'
        BY Zenon
      <4>1. CASE x = s
        <5>1. CASE i \in 1..Len(active[s]) /\ active'[s][i] = active[s][i]
          BY <4>1, <5>1, <1>1, <1>10, <2>1 DEF CoordInv, QueuesOK, Queued
        <5>2. CASE active'[s][i] = c
          BY <4>1, <5>2, <1>1, <1>7, <2>1, Zenon DEF Queued
        <5> QED BY <4>1, <5>1, <5>2, <2>2, Zenon
      <4>2. CASE x # s
        BY <4>2, <1>1, <2>1 DEF CoordInv, QueuesOK, Queued
      <4> QED BY <4>1, <4>2, Zenon
    <3> QED BY <3>1, <3>2, <2>1, Zenon DEF QueuesOK, Leaves
  <2>5. QueuedOnce'
    <3>1. \A i, j \in 1..Len(inbox') :
            ~Leaves(inbox'[i]) /\ ~Leaves(inbox'[j]) /\ inbox'[i].caller = inbox'[j].caller => i = j
      BY <1>2, ChannelApart, Zenon DEF CoordInv
    <3>2. \A i \in 1..Len(inbox') : \A x \in DOMAIN active : \A j \in 1..Len(active'[x]) :
            ~Leaves(inbox'[i]) => active'[x][j] # inbox'[i].caller
      <4> SUFFICES ASSUME NEW i \in 1..Len(inbox'), NEW x \in DOMAIN active, NEW j \in 1..Len(active'[x]),
                          ~Leaves(inbox'[i])
                   PROVE  active'[x][j] # inbox'[i].caller
        BY Zenon
      <4>1. i + 1 \in 1..Len(inbox) /\ i + 1 # 1 /\ inbox'[i] = inbox[i + 1]
        BY <1>2, Zenon
      <4>2. \/ j \in 1..Len(active[x]) /\ active'[x][j] = active[x][j]
            \/ active'[x][j] = c
        BY <2>1, <2>2, Zenon
      <4> QED BY <4>1, <4>2, <1>8 DEF CoordInv, QueuedOnce
    <3>3. \A x \in DOMAIN active : \A i, j \in 1..Len(active'[x]) : active'[x][i] = active'[x][j] => i = j
      <4>1. \A i, j \in 1..Len(active'[s]) : active'[s][i] = active'[s][j] => i = j
        BY <1>8, <1>10, <2>2 DEF CoordInv, QueuedOnce
      <4> QED BY <4>1, <2>1, Zenon DEF CoordInv, QueuedOnce
    <3> QED BY <3>1, <3>2, <3>3, <2>1, Zenon DEF QueuedOnce, Leaves
  <2>6. \A d \in Caller : Taken(d)' <=> Taken(d)
    BY <2>1, Zenon DEF Taken, Owns
  <2>7. OneTrace'
    <3>1. \A d \in Caller : Taken(d)' => wants'[d] \in DOMAIN active'
      BY <1>1, <2>1, <2>6, Zenon DEF CoordInv, OneTrace
    <3>2. \A i \in 1..Len(inbox') : Leaves(inbox'[i]) => inbox'[i].space \in DOMAIN active'
      BY <1>2, <2>1, Zenon DEF CoordInv, OneTrace
    <3> QED BY <1>1, <1>2, <2>6, <3>1, <3>2, TraceStays, Zenon DEF CoordInv
  <2> QED BY <2>3, <2>4, <2>5, <2>7, Zenon DEF CoordInv
<1>11. CASE s \notin DOMAIN active /\ Listening(c)
  <2>1. /\ task' = [task EXCEPT ![c] = "granted"]
        /\ active' = [x \in DOMAIN active \cup {s} |-> IF x = s THEN <<>> ELSE active[x]]
    BY <1>1, <1>11, Zenon DEF RunEnter
  <2>2. /\ DOMAIN active' = DOMAIN active \cup {s} /\ active'[s] = <<>> /\ Len(active'[s]) = 0
        /\ \A x \in DOMAIN active : active'[x] = active[x]
    BY <2>1, <1>11, Zenon
  <2>3. /\ task' \in [Caller -> State] /\ task'[c] = "granted"
        /\ \A d \in Caller : d # c => task'[d] = task[d]
    BY <1>1, <1>7, <2>1, Zenon DEF State
  <2>9. CoordTypes'
    <3>1. DOMAIN active' \subseteq SpaceId
      BY <1>6, <1>7, <2>2, Zenon
    <3>2. active'[s] \in Seq(Caller) /\ \A x \in DOMAIN active : active'[x] \in Seq(Caller)
      BY <1>6, <2>2
    <3> QED BY <1>1, <1>2, <2>2, <2>3, <3>1, <3>2, Zenon DEF CoordTypes
  <2>4. QueuesOK'
    <3>1. (\A i \in 1..Len(inbox) : ~Leaves(inbox[i]) => Queued(inbox[i].caller, inbox[i].space))'
      BY <1>1, <1>2, <1>5, <1>8, <2>3, SMTT(30) DEF CoordInv, QueuesOK, Queued
    <3>2. (\A x \in DOMAIN active : \A i \in 1..Len(active[x]) : Queued(active[x][i], x))'
      <4> SUFFICES ASSUME NEW x \in DOMAIN active', NEW i \in 1..Len(active'[x])
                   PROVE  Queued(active[x][i], x)'
        BY Zenon
      <4>1. x \in DOMAIN active /\ active'[x] = active[x]
        BY <2>2
      <4>2. Queued(active[x][i], x) /\ active[x][i] \in Caller /\ active[x][i] # c
        BY <4>1, <1>6, <1>8, Zenon DEF CoordInv, QueuesOK
      <4> QED BY <4>1, <4>2, <1>1, <2>3, Zenon DEF Queued
    <3> QED BY <3>1, <3>2, <2>2, Zenon DEF QueuesOK, Leaves
  <2>5. QueuedOnce'
    <3>1. \A i, j \in 1..Len(inbox') :
            ~Leaves(inbox'[i]) /\ ~Leaves(inbox'[j]) /\ inbox'[i].caller = inbox'[j].caller => i = j
      BY <1>2, ChannelApart, Zenon DEF CoordInv
    <3>2. \A i \in 1..Len(inbox') : \A x \in DOMAIN active' : \A j \in 1..Len(active'[x]) :
            ~Leaves(inbox'[i]) => active'[x][j] # inbox'[i].caller
      <4> SUFFICES ASSUME NEW i \in 1..Len(inbox'), NEW x \in DOMAIN active', NEW j \in 1..Len(active'[x]),
                          ~Leaves(inbox'[i])
                   PROVE  active'[x][j] # inbox'[i].caller
        BY Zenon
      <4>1. x \in DOMAIN active /\ active'[x] = active[x]
        BY <2>2
      <4>2. i + 1 \in 1..Len(inbox) /\ inbox'[i] = inbox[i + 1]
        BY <1>2, Zenon
      <4> QED BY <4>1, <4>2 DEF CoordInv, QueuedOnce
    <3>3. \A x \in DOMAIN active' : \A i, j \in 1..Len(active'[x]) : active'[x][i] = active'[x][j] => i = j
      BY <2>2 DEF CoordInv, QueuedOnce
    <3> QED BY <3>1, <3>2, <3>3, Zenon DEF QueuedOnce, Leaves
  <2>6. \A d \in Caller : Taken(d)' <=> d = c \/ Taken(d)
    BY <1>7, <2>3, Zenon DEF Taken, Owns
  <2>7. wants[c] = s
    BY <1>7, Zenon DEF Queued
  <2>8. OneTrace'
    BY <1>1, <1>2, <1>3, <1>7, <1>11, <2>2, <2>6, <2>7 DEF CoordInv, OneTrace, Leaves
  <2> QED BY <2>9, <2>4, <2>5, <2>8, Zenon DEF CoordInv
<1>12. CASE s \notin DOMAIN active /\ ~Listening(c)
  <2>1. task' = task /\ active' = active
    BY <1>1, <1>12, Zenon DEF RunEnter
  <2>2. CoordTypes' /\ QueuesOK' /\ QueuedOnce'
    BY <1>1, <1>2, <1>3, <2>1 DEF CoordInv, CoordTypes, QueuesOK, QueuedOnce, Queued, Leaves
  <2>3. OneTrace'
    <3>1. \A d \in Caller : Taken(d)' <=> Taken(d)
      BY <2>1, Zenon DEF Taken, Owns
    <3>2. \A d \in Caller : Taken(d)' => wants'[d] \in DOMAIN active'
      BY <1>1, <2>1, <3>1, Zenon DEF CoordInv, OneTrace
    <3>3. \A i \in 1..Len(inbox') : Leaves(inbox'[i]) => inbox'[i].space \in DOMAIN active'
      BY <1>2, <2>1, Zenon DEF CoordInv, OneTrace
    <3> QED BY <1>1, <1>2, <3>1, <3>2, <3>3, TraceStays, Zenon DEF CoordInv
  <2> QED BY <2>2, <2>3, Zenon DEF CoordInv
<1> QED BY <1>10, <1>11, <1>12, Zenon

\* The loop takes a Leave: it was the last trace of its space, so the space is
\* free, and goes to one waiter of its queue or leaves `active'.
LEMMA GrantNextKeeps ==
  ASSUME CoordInv, Loop, inbox[1].verb # "Enter"
  PROVE  CoordInv'
<1> DEFINE s == inbox[1].space
           q == active[s]
<1>1. /\ inbox \in Seq(Command) /\ inbox # <<>> /\ inbox' = Tail(inbox) /\ wants' = wants
      /\ GrantNext(s)
      /\ task \in [Caller -> State] /\ wants \in [Caller -> SpaceId]
  BY Zenon DEF Loop, CoordInv, CoordTypes
<1>2. /\ inbox' \in Seq(Command) /\ Len(inbox) \in Nat \ {0} /\ Len(inbox') = Len(inbox) - 1
      /\ \A i \in 1..Len(inbox') : i + 1 \in 1..Len(inbox) /\ i + 1 # 1 /\ inbox'[i] = inbox[i + 1]
  BY <1>1, Taken1, Zenon
<1>3. \A i, j \in 1..Len(inbox') : i + 1 = j + 1 => i = j
  BY <1>2
<1>4. 1 \in 1..Len(inbox) /\ Leaves(inbox[1]) /\ s \in SpaceId
  BY <1>1, <1>2, Commands DEF Leaves, Command
<1>5. \A i \in 1..Len(inbox) : inbox[i].caller \in Caller /\ inbox[i].space \in SpaceId
  BY <1>1, Commands, Zenon
<1>6. /\ DOMAIN active \subseteq SpaceId
      /\ \A x \in DOMAIN active : active[x] \in Seq(Caller) /\ \A i \in 1..Len(active[x]) : active[x][i] \in Caller
  BY DEF CoordInv, CoordTypes
<1>7. /\ s \in DOMAIN active
      /\ \A d \in Caller : Taken(d) => wants[d] # s
      /\ \A i \in 1..Len(inbox) : i # 1 /\ Leaves(inbox[i]) => inbox[i].space # s
  BY <1>4, Zenon DEF CoordInv, OneTrace
<1>8. q \in Seq(Caller) /\ Len(q) \in Nat /\ DOMAIN q = 1..Len(q)
  BY <1>6, <1>7
<1> HIDE DEF s, q
<1>10. CASE FirstListening(q) = {}
  <2>1. task' = task /\ active' = [x \in DOMAIN active \ {s} |-> active[x]]
    BY <1>1, <1>7, <1>10, Zenon DEF GrantNext, q
  <2>2. /\ DOMAIN active' = DOMAIN active \ {s}
        /\ \A x \in DOMAIN active' : active'[x] = active[x]
    BY <2>1, Zenon
  <2>3. CoordTypes'
    BY <1>1, <1>2, <1>6, <2>1, <2>2, Zenon DEF CoordTypes
  <2>4. QueuesOK'
    <3>1. (\A i \in 1..Len(inbox) : ~Leaves(inbox[i]) => Queued(inbox[i].caller, inbox[i].space))'
      BY <1>1, <1>2, <2>1 DEF CoordInv, QueuesOK, Queued, Leaves
    <3>2. (\A x \in DOMAIN active : \A i \in 1..Len(active[x]) : Queued(active[x][i], x))'
      BY <1>1, <2>1, <2>2 DEF CoordInv, QueuesOK, Queued
    <3> QED BY <3>1, <3>2, Zenon DEF QueuesOK
  <2>5. QueuedOnce'
    BY <1>2, <2>2, OnceStays, Zenon DEF CoordInv
  <2>6. \A d \in Caller : Taken(d)' <=> Taken(d)
    BY <2>1, Zenon DEF Taken, Owns
  <2>7. OneTrace'
    <3>1. \A c \in Caller : Taken(c)' => wants'[c] \in DOMAIN active'
      BY <1>1, <1>7, <2>2, <2>6, Zenon DEF CoordInv, OneTrace
    <3>2. \A i \in 1..Len(inbox') : Leaves(inbox'[i]) => inbox'[i].space \in DOMAIN active'
      BY <1>2, <1>7, <2>2 DEF CoordInv, OneTrace
    <3> QED BY <1>1, <1>2, <2>6, <3>1, <3>2, TraceStays, Zenon DEF CoordInv
  <2> QED BY <2>3, <2>4, <2>5, <2>7, Zenon DEF CoordInv
<1>11. CASE FirstListening(q) # {}
  <2>1. PICK k \in FirstListening(q) : /\ task' = [task EXCEPT ![q[k]] = "granted"]
                                       /\ active' = [active EXCEPT ![s] = SubSeq(@, k + 1, Len(@))]
    BY <1>1, <1>7, <1>11, Zenon DEF GrantNext, q
  <2> DEFINE c == q[k]
             r == SubSeq(q, k + 1, Len(q))
  <2>2. k \in 1..Len(q) /\ c \in Caller /\ Queued(c, s)
    BY <1>6, <1>7, <1>8, <2>1, Zenon DEF FirstListening, CoordInv, QueuesOK, q
  <2>3. /\ r \in Seq(Caller) /\ Len(r) = Len(q) - k
        /\ \A i \in 1..Len(r) : i + k \in 1..Len(q) /\ i + k # k /\ r[i] = q[i + k]
    BY <1>8, <2>2, After, Zenon
  <2>4. /\ DOMAIN active' = DOMAIN active /\ active'[s] = r
        /\ \A x \in DOMAIN active : x # s => active'[x] = active[x]
    BY <1>7, <2>1, Zenon DEF q
  <2>5. /\ task' \in [Caller -> State] /\ task'[c] = "granted"
        /\ \A d \in Caller : d # c => task'[d] = task[d]
    BY <1>1, <2>1, <2>2, Zenon DEF State
  <2>6. /\ \A i \in 1..Len(inbox) : ~Leaves(inbox[i]) => inbox[i].caller # c
        /\ \A i \in 1..Len(q) : q[i] = c => i = k
        /\ \A x \in DOMAIN active : x # s => \A i \in 1..Len(active[x]) : active[x][i] # c
    <3>1. \A i \in 1..Len(inbox) : ~Leaves(inbox[i]) => inbox[i].caller # c
      BY <1>7, <2>2, Zenon DEF CoordInv, QueuedOnce, q
    <3>2. \A i \in 1..Len(q) : q[i] = c => i = k
      BY <1>7, <2>2, Zenon DEF CoordInv, QueuedOnce, q
    <3>3. \A x \in DOMAIN active : x # s => \A i \in 1..Len(active[x]) : active[x][i] # c
      BY <2>2 DEF CoordInv, QueuesOK, Queued
    <3> QED BY <3>1, <3>2, <3>3, Zenon
  <2> HIDE DEF c, r
  <2>7. CoordTypes'
    <3>1. \A x \in DOMAIN active' : active'[x] \in Seq(Caller)
      BY <1>6, <2>3, <2>4, Zenon
    <3> QED BY <1>1, <1>2, <1>6, <2>4, <2>5, <3>1, Zenon DEF CoordTypes
  <2>8. QueuesOK'
    <3>1. (\A i \in 1..Len(inbox) : ~Leaves(inbox[i]) => Queued(inbox[i].caller, inbox[i].space))'
      BY <1>1, <1>2, <1>5, <2>5, <2>6 DEF CoordInv, QueuesOK, Queued, Leaves
    <3>2. (\A x \in DOMAIN active : \A i \in 1..Len(active[x]) : Queued(active[x][i], x))'
      <4> SUFFICES ASSUME NEW x \in DOMAIN active', NEW i \in 1..Len(active'[x])
                   PROVE  Queued(active[x][i], x)'
        BY Zenon
      <4>1. CASE x = s
        <5>1. /\ i + k \in 1..Len(q) /\ active'[x][i] = q[i + k] /\ q[i + k] # c /\ q[i + k] \in Caller
          BY <4>1, <1>6, <1>7, <2>3, <2>4, <2>6, Zenon DEF q
        <5>2. Queued(q[i + k], s)
          BY <5>1, <1>7, Zenon DEF CoordInv, QueuesOK, q
        <5> QED BY <4>1, <5>1, <5>2, <1>1, <2>5, Zenon DEF Queued
      <4>2. CASE x # s
        <5>1. x \in DOMAIN active /\ active'[x] = active[x] /\ active[x][i] # c /\ active[x][i] \in Caller
          BY <4>2, <1>6, <2>4, <2>6, Zenon
        <5>2. Queued(active[x][i], x)
          BY <5>1, Zenon DEF CoordInv, QueuesOK
        <5> QED BY <5>1, <5>2, <1>1, <2>5, Zenon DEF Queued
      <4> QED BY <4>1, <4>2, Zenon
    <3> QED BY <3>1, <3>2, Zenon DEF QueuesOK
  <2>9. QueuedOnce'
    <3>1. \A i \in 1..Len(inbox') : \A x \in DOMAIN active' : \A j \in 1..Len(active'[x]) :
            ~Leaves(inbox'[i]) => active'[x][j] # inbox'[i].caller
      <4> SUFFICES ASSUME NEW i \in 1..Len(inbox'), NEW x \in DOMAIN active', NEW j \in 1..Len(active'[x]),
                          ~Leaves(inbox'[i])
                   PROVE  active'[x][j] # inbox'[i].caller
        BY Zenon
      <4>1. i + 1 \in 1..Len(inbox) /\ inbox'[i] = inbox[i + 1]
        BY <1>2, Zenon
      <4>2. CASE x = s
        <5>1. j + k \in 1..Len(active[s]) /\ active'[x][j] = active[s][j + k]
          BY <4>2, <2>3, <2>4, Zenon DEF q
        <5>2. ~Leaves(inbox[i + 1]) => active[s][j + k] # inbox[i + 1].caller
          BY <4>1, <5>1, <1>7, Zenon DEF CoordInv, QueuedOnce
        <5> QED BY <4>1, <5>1, <5>2, Zenon
      <4>3. CASE x # s
        BY <4>1, <4>3, <2>4 DEF CoordInv, QueuedOnce
      <4> QED BY <4>2, <4>3, Zenon
    <3>2. \A x \in DOMAIN active' : \A i, j \in 1..Len(active'[x]) : active'[x][i] = active'[x][j] => i = j
      <4> SUFFICES ASSUME NEW x \in DOMAIN active', NEW i \in 1..Len(active'[x]), NEW j \in 1..Len(active'[x]),
                          active'[x][i] = active'[x][j]
                   PROVE  i = j
        BY Zenon
      <4>1. CASE x = s
        <5>1. /\ i + k \in 1..Len(active[s]) /\ active'[x][i] = active[s][i + k]
              /\ j + k \in 1..Len(active[s]) /\ active'[x][j] = active[s][j + k]
          BY <4>1, <2>3, <2>4, Zenon DEF q
        <5>2. i + k = j + k
          BY <5>1, <1>7, Zenon DEF CoordInv, QueuedOnce
        <5> QED BY <5>2, <2>2, <1>8, <2>3, <2>4, <4>1
      <4>2. CASE x # s
        BY <4>2, <2>4, Zenon DEF CoordInv, QueuedOnce
      <4> QED BY <4>1, <4>2, Zenon
    <3>3. \A i, j \in 1..Len(inbox') :
            ~Leaves(inbox'[i]) /\ ~Leaves(inbox'[j]) /\ inbox'[i].caller = inbox'[j].caller => i = j
      BY <1>2, ChannelApart, Zenon DEF CoordInv
    <3> QED BY <3>1, <3>2, <3>3, Zenon DEF QueuedOnce, Leaves
  <2>10. wants[c] = s /\ \A d \in Caller : Taken(d)' <=> d = c \/ Taken(d)
    BY <2>2, <2>5, Zenon DEF Taken, Owns, Queued
  <2>11. OneTrace'
    <3>1. \A d \in Caller : Taken(d)' => wants'[d] \in DOMAIN active'
      BY <1>1, <1>7, <2>4, <2>10, Zenon DEF CoordInv, OneTrace
    <3>2. \A i \in 1..Len(inbox') : Leaves(inbox'[i]) => inbox'[i].space \in DOMAIN active'
      BY <1>2, <2>4, Zenon DEF CoordInv, OneTrace
    <3>3. \A d, e \in Caller : Taken(d)' /\ Taken(e)' /\ wants'[d] = wants'[e] => d = e
      BY <1>1, <1>7, <2>10, Zenon DEF CoordInv, OneTrace
    <3>4. \A i, j \in 1..Len(inbox') :
            Leaves(inbox'[i]) /\ Leaves(inbox'[j]) /\ inbox'[i].space = inbox'[j].space => i = j
      BY <1>2, ChannelApart, Zenon DEF CoordInv
    <3>5. \A i \in 1..Len(inbox') : \A d \in Caller :
            Leaves(inbox'[i]) /\ Taken(d)' => inbox'[i].space # wants'[d]
      BY <1>1, <1>2, <1>7, <2>10 DEF CoordInv, OneTrace
    <3> QED BY <3>1, <3>2, <3>3, <3>4, <3>5, Zenon DEF OneTrace, Leaves
  <2> QED BY <2>7, <2>8, <2>9, <2>11, Zenon DEF CoordInv
<1> QED BY <1>10, <1>11, Zenon

\* Every step keeps the invariant.
LEMMA CoordNextInv == CoordInv /\ [CoordNext]_coordVars => CoordInv'
<1> SUFFICES ASSUME CoordInv, [CoordNext]_coordVars PROVE CoordInv'
  BY Zenon
<1>1. ASSUME NEW c \in Caller, NEW s \in SpaceId, Enter(c, s) PROVE CoordInv'
  BY <1>1, EnterKeeps, Zenon
<1>2. ASSUME NEW c \in Caller, Poll(c) PROVE CoordInv'
  <2>1. /\ task[c] = "granted" /\ task' = [task EXCEPT ![c] = "holding"]
        /\ UNCHANGED <<inbox, active, wants>>
    BY <1>2, Zenon DEF Poll
  <2> QED BY <2>1, TaskKeeps, Zenon DEF State, Taken, Owns
<1>3. ASSUME NEW c \in Caller, DropPermit(c) PROVE CoordInv'
  BY <1>3, DropPermitKeeps, Zenon
<1>4. ASSUME NEW c \in Caller, Cancel(c) PROVE CoordInv'
  <2>1. task[c] \in {"waiting", "granted"} /\ UNCHANGED <<inbox, active, wants>>
    BY <1>4, Zenon DEF Cancel
  <2>2. CASE task[c] = "waiting"
    <3>1. task' = [task EXCEPT ![c] = "gone"]
      BY <1>4, <2>2, Zenon DEF Cancel
    <3> QED BY <2>1, <2>2, <3>1, TaskKeeps, Zenon DEF State
  <2>3. CASE task[c] = "granted"
    <3>1. task' = [task EXCEPT ![c] = "lost"]
      BY <1>4, <2>3, Zenon DEF Cancel
    <3> QED BY <2>1, <2>3, <3>1, TaskKeeps, Zenon DEF State, Taken, Owns
  <2> QED BY <2>1, <2>2, <2>3, Zenon
<1>5. CASE Loop
  BY <1>5, RunEnterKeeps, GrantNextKeeps, Zenon
<1>6. CASE UNCHANGED coordVars
  <2>1. inbox' = inbox /\ active' = active /\ task' = task /\ wants' = wants
    BY <1>6, Zenon DEF coordVars
  <2>2. CoordTypes' /\ QueuesOK'
    BY <2>1, Zenon DEF CoordInv, CoordTypes, QueuesOK, Queued
  <2>3. QueuedOnce'
    <3>0. QueuedOnce
      BY Zenon DEF CoordInv
    <3>1. \A i, j \in 1..Len(inbox') :
            ~Leaves(inbox'[i]) /\ ~Leaves(inbox'[j]) /\ inbox'[i].caller = inbox'[j].caller => i = j
      BY <2>1, <3>0, Zenon DEF QueuedOnce
    <3>2. \A i \in 1..Len(inbox') : \A s \in DOMAIN active' : \A j \in 1..Len(active'[s]) :
            ~Leaves(inbox'[i]) => active'[s][j] # inbox'[i].caller
      BY <2>1, <3>0, SMTT(30) DEF QueuedOnce
    <3>3. \A s \in DOMAIN active' : \A i, j \in 1..Len(active'[s]) :
            active'[s][i] = active'[s][j] => i = j
      BY <2>1, <3>0, SMTT(30) DEF QueuedOnce
    <3> QED BY <3>1, <3>2, <3>3, Zenon DEF QueuedOnce
  <2>4. \A c \in Caller : Taken(c)' <=> Taken(c)
    BY <2>1, Zenon DEF Taken, Owns
  <2>5. OneTrace'
    BY <2>1, <2>4, Zenon DEF CoordInv, OneTrace
  <2> QED BY <2>2, <2>3, <2>5, Zenon DEF CoordInv
<1> QED BY <1>1, <1>2, <1>3, <1>4, <1>5, <1>6, Zenon DEF CoordNext

\* The coordination loop keeps its invariant: every command and waiter is
\* queued once, and `active' lists every space with a trace of a workflow.
THEOREM CoordInvariance == CoordSpec => []CoordInv
<1>1. CoordInit => CoordInv
  BY CoordInitInv, Zenon
<1>2. CoordInv /\ [CoordNext]_coordVars => CoordInv'
  BY CoordNextInv, Zenon
<1> QED BY <1>1, <1>2, PTL DEF CoordSpec

\* For any number of tasks and spaces, whatever tasks are dropped and when: at
\* most one task holds, or has been granted, the permit of a space, and a Leave
\* on its way is the last trace of an earlier holder (run, grant_next,
\* SpacePermit::drop).
THEOREM OneWorkflow == CoordSpec => []OneWorkflowPerSpace
<1>1. CoordInv => OneWorkflowPerSpace
  <2> SUFFICES ASSUME CoordInv PROVE OneWorkflowPerSpace
    BY Zenon
  <2>1. DOMAIN inbox = 1..Len(inbox)
    BY DEF CoordInv, CoordTypes
  <2>2. \A c \in Caller : Owns(c) => Taken(c)
    BY Zenon DEF Taken
  <2> QED BY <2>1, <2>2, Zenon DEF CoordInv, OneTrace, OneWorkflowPerSpace
<1> QED BY <1>1, CoordInvariance, PTL
=============================================================================
