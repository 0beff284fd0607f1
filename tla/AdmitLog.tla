------------------------------ MODULE AdmitLog ------------------------------
(***************************************************************************)
(* The client's inbound log: pull_inner's paging loop and the cursors of   *)
(* Admits (client/src/space.rs, client/src/meta.rs) against a server log   *)
(* that grows meanwhile (pull in server/src/space/data.rs).                *)
(*                                                                         *)
(* An admitted batch is represented by the greatest version it carries     *)
(* (0 for an empty batch, a rollback marker).  The application applies     *)
(* retained batches in order and then acknowledges them; its state, which  *)
(* it keeps durable itself, is the sequence of batches it applied.         *)
(***************************************************************************)
EXTENDS SequencesExt, Integers

CONSTANTS PullCap,  \* DEFAULT_PULL_CAP
          MaxAdmitted,   \* bound: admitted batches
          MaxPulledVer,   \* bound: versions
          NoPull

ASSUME PullAssumption == PullCap \in Nat \ {0} /\ MaxAdmitted \in Nat /\ MaxPulledVer \in Nat

VARIABLES log,               \* the server's admitted batches
          admits,            \* retained batches, by admission sequence; durable
          admit_head, admit_neck, admit_tail,  \* AdmitCursors, durable
          ver_high,          \* VerHighRecord, durable
          pull,              \* the running pull_inner call, or NoPull
          applied,           \* the application's state: batches applied so far
          pulled             \* history: [start, end] of the last finished pull

cursors == <<admit_head, admit_neck, admit_tail>>
pullVars == <<log, admits, cursors, ver_high, pull, applied, pulled>>

ServerAdmits(v) ==
  /\ Len(log) < MaxAdmitted
  /\ log' = Append(log, v)
  /\ UNCHANGED <<admits, cursors, ver_high, pull, applied, pulled>>

\* A local commit consumes versions (commit_prepared needs no permit).
LocalCommit ==
  /\ ver_high < MaxPulledVer
  /\ ver_high' = ver_high + 1
  /\ UNCHANGED <<log, admits, cursors, pull, applied, pulled>>

PullStart ==
  /\ pull = NoPull
  /\ pull' = [stage |-> "loop", from |-> Len(log), page |-> <<>>, after |-> 0]
  /\ UNCHANGED <<log, admits, cursors, ver_high, applied, pulled>>

Smaller(a, b) == IF a <= b THEN a ELSE b

\* Mutant: the cursor is ignored.
ServerPage_from_start(after) == SubSeq(log, 1, Smaller(Len(log), PullCap))

\* The server's pull: a dense page of at most PullCap batches above `after'.
ServerPage(after) == SubSeq(log, after + 1, after + Smaller(Len(log) - after, PullCap))

PullPage ==
  /\ pull # NoPull /\ pull.stage = "loop"
  /\ pull' = [pull EXCEPT !.stage = "page", !.after = admit_tail - 1, !.page = ServerPage(admit_tail - 1)]
  /\ UNCHANGED <<log, admits, cursors, ver_high, applied, pulled>>

\* Mutant: a full page is taken for the last one.
LastPage_full(page) == Len(page) <= PullCap

\* Only a short page ends the loop; a full one may have more behind it.
LastPage(page) == Len(page) < PullCap

RaisedVer(page) == Max({ver_high} \cup Range(page))

\* append_admits, one transition for the page, the tail and the version
\* high-water; then pull_inner returns or asks for the next page.
AppendAdmits ==
  /\ pull # NoPull /\ pull.stage = "page"
  /\ pull.after = admit_tail - 1
  /\ admits' = [s \in DOMAIN admits \cup (admit_tail..(pull.after + Len(pull.page))) |->
                 IF s \in DOMAIN admits THEN admits[s] ELSE pull.page[s - pull.after]]
  /\ admit_tail' = pull.after + Len(pull.page) + 1
  /\ ver_high' = IF pull.page = <<>> THEN ver_high ELSE RaisedVer(pull.page)
  /\ IF LastPage(pull.page)
     THEN pull' = NoPull /\ pulled' = [start |-> pull.from, end |-> pull.after + Len(pull.page)]
     ELSE pull' = [pull EXCEPT !.stage = "loop"] /\ UNCHANGED pulled
  /\ UNCHANGED <<log, admit_head, admit_neck, applied>>

\* A lost reply, a dropped future or a client crash: what was appended stays.
PullLost ==
  /\ pull # NoPull
  /\ pull' = NoPull
  /\ UNCHANGED <<log, admits, cursors, ver_high, applied, pulled>>

\* iter: the application reads the next retained batch and applies it.  Its own
\* durable position may be ahead of the neck, when it died before mark_applied.
Apply ==
  /\ pull = NoPull
  /\ Len(applied) + 1 \in DOMAIN admits
  /\ applied' = Append(applied, admits[Len(applied) + 1])
  /\ UNCHANGED <<log, admits, cursors, ver_high, pull, pulled>>

\* mark_applied up to exclusive `to', within [neck, tail].
MarkAdmitsApplied(to) ==
  /\ pull = NoPull
  /\ to \in (admit_neck + 1)..admit_tail /\ to <= Len(applied) + 1
  /\ admit_neck' = to
  /\ UNCHANGED <<log, admits, admit_head, admit_tail, ver_high, pull, applied, pulled>>

\* trim_admits accepts [head, neck].
Trimmable(to) == to \in (admit_head + 1)..admit_neck

Reclaimed(to) == admit_head..(to - 1)

TrimAdmits(to) ==
  /\ pull = NoPull
  /\ Trimmable(to)
  /\ admits' = [s \in DOMAIN admits \ Reclaimed(to) |-> admits[s]]
  /\ admit_head' = to
  /\ UNCHANGED <<log, admit_neck, admit_tail, ver_high, pull, applied, pulled>>

PullInit ==
  /\ log = <<>> /\ admits = <<>> /\ admit_head = 1 /\ admit_neck = 1 /\ admit_tail = 1
  /\ ver_high = 0 /\ pull = NoPull /\ applied = <<>> /\ pulled = [start |-> 0, end |-> 0]

PullNext ==
  \/ \E v \in 0..MaxPulledVer : ServerAdmits(v)
  \/ LocalCommit
  \/ PullStart \/ PullPage \/ AppendAdmits \/ PullLost
  \/ Apply
  \/ \E to \in 1..(MaxAdmitted + 1) : MarkAdmitsApplied(to) \/ TrimAdmits(to)

PullSpec == PullInit /\ [][PullNext]_pullVars
-----------------------------------------------------------------------------
PullTypeOK ==
  /\ log \in Seq(Nat) /\ applied \in Seq(Nat) /\ ver_high \in Nat
  /\ admit_head \in Nat /\ admit_neck \in Nat /\ admit_tail \in Nat
  /\ admit_head <= admit_neck /\ admit_neck <= admit_tail

\* certify's third invariant, against the server: the retained batches are the
\* exactly dense slice [head, tail) of the server's log, as admitted, and nothing
\* below the tail that is still to be applied is missing.
AdmitsAreServerSlice ==
  /\ admit_tail <= Len(log) + 1
  /\ DOMAIN admits = admit_head..(admit_tail - 1)
  /\ \A s \in DOMAIN admits : admits[s] = log[s]

\* Versions assigned after a capture exceed every captured one (append_admits).
VerHighCoversCaptured == \A s \in DOMAIN admits : admits[s] <= ver_high

\* The application's state is a prefix of the server's log: no batch is skipped
\* or applied twice, across pages, lost pulls and trims (Admits); and what it may
\* assign next is above what it has captured.
AppliedIsServerPrefix ==
  /\ IsPrefix(applied, log) /\ admit_neck <= Len(applied) + 1
  /\ AdmitsAreServerSlice
  /\ VerHighCoversCaptured

\* A pull that returns has captured everything admitted before it started: what
\* lease() relies on to reach a barrier (space.rs, "pull stopped at ...").
PullReachesItsStart == pulled.start <= pulled.end
=============================================================================
