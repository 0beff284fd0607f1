--------------------------- MODULE AdmitLogProofs ---------------------------
(***************************************************************************)
(* The admit log is the dense slice of the server's log it claims to be,   *)
(* the application's state a prefix of that log, and a pull that returns   *)
(* has captured what was admitted before it started: for every page size   *)
(* and every length of the log.                                            *)
(*                                                                         *)
(* Neither invariant is inductive.  PageOK adds what a page under way      *)
(* stands for: it is the run of the log right behind the tail, as it was   *)
(* when the server answered, and a short one reaches at least what the log *)
(* had when the pull started.                                              *)
(***************************************************************************)
EXTENDS AdmitLog, DataFacts

Vers == 0..MaxPulledVer

CallType == [stage : {"loop", "page"}, from : Nat, page : Seq(Vers), after : Nat]

PullTypes ==
  /\ log \in Seq(Vers) /\ applied \in Seq(Vers) /\ ver_high \in Vers
  /\ admit_head \in Nat /\ admit_neck \in Nat /\ admit_tail \in Nat
  /\ pull # NoPull => pull \in CallType
  /\ pulled \in [start : Nat, end : Nat]

\* The cursors are ordered, with the application's own position in between.
CursorsOK ==
  /\ 1 <= admit_head /\ admit_head <= admit_neck /\ admit_neck <= Len(applied) + 1
  /\ Len(applied) < admit_tail /\ admit_tail <= Len(log) + 1

AppliedOK == \A i \in 1..Len(applied) : applied[i] = log[i]

\* The page under way.
PageOK ==
  pull # NoPull =>
    /\ pull.from <= Len(log)
    /\ pull.stage = "page" =>
         /\ pull.after = admit_tail - 1
         /\ pull.after + Len(pull.page) <= Len(log)
         /\ \A i \in 1..Len(pull.page) : pull.page[i] = log[pull.after + i]
         /\ Len(pull.page) < PullCap => pull.from <= pull.after + Len(pull.page)

PullInv ==
  /\ PullTypes
  /\ CursorsOK
  /\ AdmitsAreServerSlice
  /\ VerHighCoversCaptured
  /\ AppliedOK
  /\ PageOK
  /\ PullReachesItsStart

\* The page a server answers is the run of the log above the cursor, as long as
\* the log and the cap allow.
LEMMA PageIsRun ==
  ASSUME log \in Seq(Vers), NEW after \in Nat, after <= Len(log), PullCap \in Nat
  PROVE  /\ ServerPage(after) \in Seq(Vers)
         /\ after + Len(ServerPage(after)) <= Len(log)
         /\ \A i \in 1..Len(ServerPage(after)) : ServerPage(after)[i] = log[after + i]
         /\ Len(ServerPage(after)) < PullCap => after + Len(ServerPage(after)) = Len(log)
<1> DEFINE n == Smaller(Len(log) - after, PullCap)
<1>1. n \in Nat /\ n <= Len(log) - after /\ (n < PullCap => n = Len(log) - after)
  BY DEF Smaller
<1> HIDE DEF n
<1>2. ServerPage(after) = SubSeq(log, after + 1, after + n)
  BY Zenon DEF ServerPage, n
<1>3. \A i \in (after + 1)..(after + n) : log[i] \in Vers
  BY <1>1
<1>4. Len(ServerPage(after)) = n
  BY <1>1, <1>2
<1> QED BY <1>1, <1>2, <1>3, <1>4

\* Max of such a set is its greatest element.
LEMMA MaxNat ==
  ASSUME NEW T \in SUBSET Nat, T # {}, NEW bound \in Nat, \A y \in T : y <= bound
  PROVE  Max(T) \in T /\ \A y \in T : y <= Max(T)
<1>1. \E x \in T : \A y \in T : x >= y
  BY GreatestNat, Zenon
<1> QED BY <1>1, Zenon DEF Max

\* The version high-water is raised to the highest version of the page and
\* never lowered.
LEMMA RaisedCovers ==
  ASSUME NEW page \in Seq(Vers), ver_high \in Vers, MaxPulledVer \in Nat
  PROVE  /\ RaisedVer(page) \in Vers
         /\ ver_high <= RaisedVer(page)
         /\ \A i \in 1..Len(page) : page[i] <= RaisedVer(page)
<1> DEFINE T == {ver_high} \cup Range(page)
<1>1. \A i \in 1..Len(page) : page[i] \in Range(page)
  BY DEF Range
<1>2. T \in SUBSET Nat /\ T # {} /\ (\A y \in T : y <= MaxPulledVer)
  BY DEF Range, Vers
<1>3. Max(T) \in T /\ \A y \in T : y <= Max(T)
  BY <1>2, MaxNat, Zenon
<1>4. RaisedVer(page) = Max(T)
  BY Zenon DEF RaisedVer
<1> HIDE DEF T
<1>5. RaisedVer(page) \in T /\ \A y \in T : y <= RaisedVer(page)
  BY <1>3, <1>4, Zenon
<1>6. \A y \in T : y \in Vers
  BY <1>2 DEF Vers
<1>7. ver_high \in T /\ \A i \in 1..Len(page) : page[i] \in T
  BY <1>1, Zenon DEF T
<1> QED BY <1>5, <1>6, <1>7

\* The initial state: nothing admitted, nothing pulled.
LEMMA PullInitInv == PullInit => PullInv
<1> SUFFICES ASSUME PullInit PROVE PullInv
  BY Zenon
<1> QED
  BY PullAssumption
  DEF PullInit, PullInv, PullTypes, CursorsOK, AdmitsAreServerSlice, VerHighCoversCaptured,
      AppliedOK, PageOK, PullReachesItsStart, Vers

\* append_admits keeps the invariant: the page lands right behind the tail.
LEMMA AppendKeeps == PullInv /\ AppendAdmits => PullInv'
<1> SUFFICES ASSUME PullInv, AppendAdmits PROVE PullInv'
  BY Zenon
<1> DEFINE page == pull.page
           after == pull.after
           end == after + Len(page)
<1>1. /\ pull # NoPull /\ pull \in CallType /\ page \in Seq(Vers) /\ after \in Nat /\ pull.from \in Nat
      /\ after = admit_tail - 1 /\ end <= Len(log) /\ end \in Nat
      /\ \A i \in 1..Len(page) : page[i] = log[after + i]
      /\ Len(page) < PullCap => pull.from <= end
  BY SMTT(30) DEF PullInv, PullTypes, PageOK, AppendAdmits, CallType
<1>2. /\ admit_tail' = end + 1 /\ UNCHANGED <<log, admit_head, admit_neck, applied>>
      /\ log \in Seq(Vers) /\ admit_tail' \in Nat
  <2>1. /\ admit_tail' = end + 1 /\ UNCHANGED <<log, admit_head, admit_neck, applied>>
        /\ log \in Seq(Vers)
    BY Zenon DEF AppendAdmits, PullInv, PullTypes
  <2> QED BY <2>1, <1>1
<1>3. /\ ver_high' \in Vers /\ ver_high <= ver_high'
      /\ \A i \in 1..Len(page) : page[i] <= ver_high'
  <2>1. ver_high \in Vers /\ MaxPulledVer \in Nat
    BY PullAssumption, Zenon DEF PullInv, PullTypes
  <2>2. CASE page = <<>>
    BY <2>1, <2>2 DEF AppendAdmits, Vers
  <2>3. CASE page # <<>>
    BY <2>1, <2>3, <1>1, RaisedCovers, Zenon DEF AppendAdmits
  <2> QED BY <2>2, <2>3, Zenon
<1>4. \/ pull' = NoPull /\ pulled' = [start |-> pull.from, end |-> end] /\ Len(page) < PullCap
      \/ pull' = [pull EXCEPT !.stage = "loop"] /\ pulled' = pulled
  BY Zenon DEF AppendAdmits, LastPage
<1>5. pull' = NoPull \/ (pull' \in CallType /\ pull'.stage = "loop" /\ pull'.from = pull.from)
  BY <1>1, <1>4, Zenon DEF CallType
<1>6. pulled' \in [start : Nat, end : Nat]
  BY <1>1, <1>4 DEF PullInv, PullTypes
<1>7. PullTypes'
  BY <1>2, <1>3, <1>5, <1>6, Zenon DEF PullInv, PullTypes
<1>8. CursorsOK'
  BY <1>1, <1>2 DEF PullInv, PullTypes, CursorsOK
<1>9. AdmitsAreServerSlice' /\ VerHighCoversCaptured'
  <2>1. /\ DOMAIN admits = admit_head..(admit_tail - 1)
        /\ \A s \in DOMAIN admits : admits[s] = log[s] /\ admits[s] <= ver_high
        /\ admit_head \in Nat /\ admit_tail \in Nat /\ admit_head <= admit_tail
    BY DEF PullInv, AdmitsAreServerSlice, VerHighCoversCaptured, PullTypes, CursorsOK
  <2>2. admits' = [s \in DOMAIN admits \cup (admit_tail..end) |->
                    IF s \in DOMAIN admits THEN admits[s] ELSE page[s - after]]
    BY Zenon DEF AppendAdmits
  <2>3. DOMAIN admits' = admit_head..end
    BY <2>1, <2>2, <1>1
  <2>4. ASSUME NEW s \in admit_head..end PROVE admits'[s] = log[s] /\ admits'[s] <= ver_high'
    <3>1. CASE s \in DOMAIN admits
      <4>1. admits'[s] = admits[s]
        BY <3>1, <2>2, Zenon
      <4>2. s \in 1..Len(log) /\ ver_high \in Vers
        BY <1>1, <1>2, <2>1, SMTT(30) DEF PullInv, PullTypes, CursorsOK
      <4>3. log[s] \in Vers
        BY <4>2, <1>2
      <4> QED BY <3>1, <4>1, <4>2, <4>3, <2>1, <1>3, SMTT(30) DEF Vers
    <3>2. CASE s \notin DOMAIN admits
      <4>1. s - after \in 1..Len(page) /\ after + (s - after) = s
        BY <3>2, <2>1, <1>1, SMTT(30)
      <4>2. admits'[s] = page[s - after]
        BY <3>2, <2>1, <2>2, <1>1, SMTT(30)
      <4> QED BY <4>1, <4>2, <1>1, <1>3, Zenon
    <3> QED BY <3>1, <3>2, Zenon
  <2>5. admit_tail' <= Len(log') + 1 /\ admit_head' = admit_head /\ admit_tail' - 1 = end
    BY <1>1, <1>2
  <2> QED BY <2>3, <2>4, <2>5, <1>2, Zenon DEF AdmitsAreServerSlice, VerHighCoversCaptured
<1>10. AppliedOK'
  BY <1>2, Zenon DEF PullInv, AppliedOK
<1>11. PageOK'
  BY <1>1, <1>2, <1>5 DEF PullInv, PageOK
<1>12. PullReachesItsStart'
  BY <1>1, <1>4 DEF PullInv, PullReachesItsStart
<1> QED BY <1>7, <1>8, <1>9, <1>10, <1>11, <1>12, SMTT(30) DEF PullInv

\* Every step keeps the invariant.
LEMMA PullNextInv == PullInv /\ [PullNext]_pullVars => PullInv'
<1> SUFFICES ASSUME PullInv, [PullNext]_pullVars PROVE PullInv'
  BY Zenon
<1> USE PullAssumption
<1>1. ASSUME NEW v \in Vers, ServerAdmits(v) PROVE PullInv'
  <2>1. /\ log' = Append(log, v) /\ log \in Seq(Vers)
        /\ UNCHANGED <<admits, cursors, ver_high, pull, applied, pulled>>
    BY <1>1, Zenon DEF ServerAdmits, PullInv, PullTypes
  <2>2. /\ log' \in Seq(Vers) /\ Len(log') = Len(log) + 1
        /\ \A i \in 1..Len(log) : log'[i] = log[i]
    BY <2>1
  <2>3. PullTypes' /\ CursorsOK'
    BY <2>1, <2>2 DEF PullInv, PullTypes, CursorsOK, cursors
  <2>4. AdmitsAreServerSlice' /\ VerHighCoversCaptured'
    BY <2>1, <2>2 DEF PullInv, PullTypes, CursorsOK, AdmitsAreServerSlice,
                      VerHighCoversCaptured, cursors
  <2>5. AppliedOK'
    BY <2>1, <2>2 DEF PullInv, PullTypes, CursorsOK, AppliedOK
  <2>6. PageOK'
    <3> SUFFICES ASSUME pull # NoPull PROVE PageOK'
      BY <2>1, Zenon DEF PageOK
    <3>1. pull \in CallType
      BY Zenon DEF PullInv, PullTypes
    <3>2. CASE pull.stage = "page"
      <4>1. \A i \in 1..Len(pull.page) : pull.after + i \in 1..Len(log)
        BY <3>1, <3>2, <2>1 DEF PullInv, PageOK, CallType
      <4> QED BY <4>1, <3>1, <3>2, <2>1, <2>2, SMTT(30) DEF PullInv, PageOK, CallType, cursors
    <3>3. CASE pull.stage # "page"
      BY <3>1, <3>3, <2>1, <2>2 DEF PullInv, PageOK, CallType
    <3> QED BY <3>2, <3>3
  <2>7. PullReachesItsStart'
    BY <2>1, Zenon DEF PullInv, PullReachesItsStart
  <2> QED BY <2>3, <2>4, <2>5, <2>6, <2>7, SMTT(30) DEF PullInv
<1>2. CASE LocalCommit
  <2>1. /\ ver_high' = ver_high + 1 /\ ver_high' \in Vers /\ ver_high \in Vers
        /\ UNCHANGED <<log, admits, cursors, pull, applied, pulled>>
    BY <1>2 DEF LocalCommit, PullInv, PullTypes, Vers
  <2>2. VerHighCoversCaptured'
    <3> SUFFICES ASSUME NEW s \in DOMAIN admits PROVE admits[s] <= ver_high'
      BY <2>1, Zenon DEF VerHighCoversCaptured
    <3>1. admits[s] = log[s] /\ log[s] \in Vers /\ admits[s] <= ver_high
      BY SMTT(30) DEF PullInv, PullTypes, CursorsOK, AdmitsAreServerSlice, VerHighCoversCaptured
    <3> QED BY <3>1, <2>1 DEF Vers
  <2> QED BY <2>1, <2>2, Zenon DEF PullInv, PullTypes, CursorsOK, AdmitsAreServerSlice, AppliedOK,
                            PageOK, PullReachesItsStart, cursors
<1>3. CASE PullStart
  <2>1. /\ pull' = [stage |-> "loop", from |-> Len(log), page |-> <<>>, after |-> 0]
        /\ UNCHANGED <<log, admits, cursors, ver_high, applied, pulled>>
    BY <1>3, Zenon DEF PullStart
  <2>2. pull' \in CallType /\ PageOK'
    BY <2>1 DEF PullInv, PullTypes, CallType, PageOK
  <2> QED BY <2>1, <2>2, Zenon DEF PullInv, PullTypes, CursorsOK, AdmitsAreServerSlice, AppliedOK,
                            VerHighCoversCaptured, PullReachesItsStart, cursors
<1>4. CASE PullPage
  <2> DEFINE after == admit_tail - 1
  <2>1. /\ pull # NoPull /\ pull \in CallType /\ pull.from <= Len(log)
        /\ after \in Nat /\ after <= Len(log) /\ log \in Seq(Vers) /\ PullCap \in Nat
        /\ pull' = [pull EXCEPT !.stage = "page", !.after = after, !.page = ServerPage(after)]
        /\ UNCHANGED <<log, admits, cursors, ver_high, applied, pulled>>
    BY <1>4, SMTT(30) DEF PullPage, PullInv, PullTypes, CursorsOK, PageOK
  <2> HIDE DEF after
  <2>2. /\ ServerPage(after) \in Seq(Vers)
        /\ after + Len(ServerPage(after)) <= Len(log)
        /\ \A i \in 1..Len(ServerPage(after)) : ServerPage(after)[i] = log[after + i]
        /\ Len(ServerPage(after)) < PullCap => after + Len(ServerPage(after)) = Len(log)
    BY <2>1, PageIsRun, Zenon
  <2>3. /\ pull' \in CallType /\ pull'.from = pull.from
        /\ pull'.after = after /\ pull'.page = ServerPage(after)
    BY <2>1, <2>2, Zenon DEF CallType
  <2>4. after = admit_tail' - 1 /\ log' = log
    BY <2>1, Zenon DEF after, cursors
  <2>5. PageOK'
    BY <2>1, <2>2, <2>3, <2>4 DEF PageOK
  <2> QED BY <2>1, <2>3, <2>5, Zenon DEF PullInv, PullTypes, CursorsOK, AdmitsAreServerSlice, AppliedOK,
                                  VerHighCoversCaptured, PullReachesItsStart, cursors
<1>5. CASE AppendAdmits
  BY <1>5, AppendKeeps, Zenon
<1>6. CASE PullLost
  BY <1>6, Zenon DEF PullLost, PullInv, PullTypes, CursorsOK, AdmitsAreServerSlice, AppliedOK, PageOK,
              VerHighCoversCaptured, PullReachesItsStart, cursors
<1>7. CASE Apply
  <2> DEFINE next == Len(applied) + 1
  <2>1. /\ next \in DOMAIN admits /\ applied' = Append(applied, admits[next])
        /\ UNCHANGED <<log, admits, cursors, ver_high, pull, pulled>>
    BY <1>7, Zenon DEF Apply
  <2>2. /\ next \in 1..(admit_tail - 1) /\ next <= Len(log) /\ admits[next] = log[next]
        /\ applied \in Seq(Vers) /\ log \in Seq(Vers)
    <3>1. applied \in Seq(Vers) /\ log \in Seq(Vers) /\ admit_head \in Nat /\ admit_tail \in Nat
      BY Zenon DEF PullInv, PullTypes
    <3>2. /\ DOMAIN admits = admit_head..(admit_tail - 1)
          /\ admit_tail <= Len(log) + 1 /\ admits[next] = log[next] /\ 1 <= admit_head
      BY <2>1, Zenon DEF PullInv, CursorsOK, AdmitsAreServerSlice
    <3> QED BY <3>1, <3>2, <2>1
  <2>3. admits[next] \in Vers
    BY <2>2
  <2>4. /\ applied' \in Seq(Vers) /\ Len(applied') = next
        /\ \A i \in 1..Len(applied) : applied'[i] = applied[i]
        /\ applied'[next] = log[next]
    BY <2>1, <2>2, <2>3
  <2>5. PullTypes' /\ CursorsOK'
    BY <2>1, <2>2, <2>4 DEF PullInv, PullTypes, CursorsOK, cursors
  <2>6. AppliedOK'
    BY <2>1, <2>2, <2>4 DEF PullInv, AppliedOK
  <2> QED BY <2>1, <2>5, <2>6 DEF PullInv, AdmitsAreServerSlice, PageOK, VerHighCoversCaptured,
                                  PullReachesItsStart, cursors
<1>8. ASSUME NEW to \in 1..(MaxAdmitted + 1), MarkAdmitsApplied(to) PROVE PullInv'
  BY <1>8 DEF MarkAdmitsApplied, PullInv, PullTypes, CursorsOK, AdmitsAreServerSlice, AppliedOK,
              PageOK, VerHighCoversCaptured, PullReachesItsStart
<1>9. ASSUME NEW to \in 1..(MaxAdmitted + 1), TrimAdmits(to) PROVE PullInv'
  <2>1. /\ to \in (admit_head + 1)..admit_neck /\ admit_head' = to
        /\ admits' = [s \in DOMAIN admits \ (admit_head..(to - 1)) |-> admits[s]]
        /\ UNCHANGED <<log, admit_neck, admit_tail, ver_high, pull, applied, pulled>>
    BY <1>9, Zenon DEF TrimAdmits, Trimmable, Reclaimed
  <2>2. PullTypes' /\ CursorsOK'
    BY <2>1 DEF PullInv, PullTypes, CursorsOK
  <2>3. AdmitsAreServerSlice' /\ VerHighCoversCaptured'
    <3>1. DOMAIN admits' = to..(admit_tail - 1)
      BY <2>1, SMTT(30) DEF PullInv, PullTypes, CursorsOK, AdmitsAreServerSlice
    <3>2. \A s \in DOMAIN admits' : s \in DOMAIN admits /\ admits'[s] = admits[s]
      BY <2>1, Zenon
    <3> QED BY <3>1, <3>2, <2>1, SMTT(30) DEF PullInv, AdmitsAreServerSlice, VerHighCoversCaptured
  <2> QED BY <2>1, <2>2, <2>3, Zenon DEF PullInv, AppliedOK, PageOK, PullReachesItsStart
<1>10. CASE UNCHANGED pullVars
  BY <1>10, Zenon DEF pullVars, PullInv, PullTypes, CursorsOK, AdmitsAreServerSlice, AppliedOK, PageOK,
               VerHighCoversCaptured, PullReachesItsStart, cursors
<1> QED BY <1>1, <1>2, <1>3, <1>4, <1>5, <1>6, <1>7, <1>8, <1>9, <1>10, SMTT(30) DEF PullNext, Vers

\* What the inductive invariant says about the prefix.
LEMMA PullInvImplies == PullInv => AppliedIsServerPrefix /\ PullTypeOK
<1> SUFFICES ASSUME PullInv PROVE AppliedIsServerPrefix /\ PullTypeOK
  BY Zenon
<1>1. /\ log \in Seq(Vers) /\ applied \in Seq(Vers) /\ ver_high \in Vers
      /\ admit_head \in Nat /\ admit_neck \in Nat /\ admit_tail \in Nat
  BY Zenon DEF PullInv, PullTypes
<1>2. /\ Len(applied) \in Nat /\ Len(log) \in Nat /\ Len(applied) <= Len(log)
      /\ admit_head <= admit_neck /\ admit_neck <= admit_tail
      /\ admit_neck <= Len(applied) + 1
  BY <1>1 DEF PullInv, CursorsOK
<1>3. IsPrefix(applied, log)
  <2>1. \A i \in 1..Len(applied) : applied[i] = log[i]
    BY Zenon DEF PullInv, AppliedOK
  <2> QED BY <2>1, <1>1, <1>2, PrefixByElements, SMTT(30) DEF IsPrefix
<1>4. log \in Seq(Nat) /\ applied \in Seq(Nat) /\ ver_high \in Nat
  BY <1>1, SeqMonotone, 0..MaxPulledVer \subseteq Nat, Zenon DEF Vers
<1> QED BY <1>1, <1>2, <1>3, <1>4, Zenon DEF PullInv, AppliedIsServerPrefix, PullTypeOK

\* The inductive invariant holds in every reachable state.
THEOREM PullInvariance == PullSpec => []PullInv
<1> QED BY PullInitInv, PullNextInv, PTL DEF PullSpec

\* What the application has applied is a prefix of the server's log, and what
\* the client retains is the dense slice of it up to the tail, with versions the
\* high-water covers: append_admits, mark_applied and trim, with pulls lost at
\* any point.
THEOREM AppliedIsPrefix == PullSpec => []AppliedIsServerPrefix
<1> QED BY PullInvariance, PullInvImplies, PTL

\* A pull that returns has captured everything admitted before it started
\* (pull_inner ends on a short page only).
THEOREM PullReaches == PullSpec => []PullReachesItsStart
<1>1. PullInv => PullReachesItsStart
  BY Zenon DEF PullInv
<1> QED BY <1>1, PullInvariance, PTL
=============================================================================
