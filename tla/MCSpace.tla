------------------------------ MODULE MCSpace -------------------------------
(* One space, two devices at it, a parent key and its child: every kind of *)
(* mutation, or leases and the writes they reserve; next to it, the        *)
(* two-head summaries of three devices competing for two heads, in two     *)
(* registers to merge.  One of the three runs in each behaviour.           *)
EXTENDS Space, HeadsMachine, TLC

CONSTANTS A, X,       \* key components
          Vers,       \* versions a device may present
          Writers     \* the devices that write to the space

VARIABLE part         \* which of them runs: "data", "leases" or "heads"

Parent == <<A>>
Child == <<A, X>>

Point(op, k, v) == [op |-> op, target |-> k, ver |-> v]
OneEntry(e) == [entries |-> <<e>>, asserts |-> {}]

TwoKeys == {Parent, Child}

Mutations(keys, ranges) ==
  {Point(op, k, v) : op \in {"Set", "Delete"}, k \in keys, v \in Vers}
  \cup {Point("DeleteRange", r, v) : r \in ranges, v \in Vers}

\* Leases: single writes and range deletes, one per request.
LeaseBatches ==
  {OneEntry(Point("Set", Child, v)) : v \in 1..2}
  \cup {OneEntry(Point("DeleteRange", Parent, 2))}

LeasePrefixes == {Parent, Child}

\* Materialisation: every mutation, some batches of two, some with asserts.
SingleBatches == {OneEntry(e) : e \in Mutations(TwoKeys, {Full, Parent, Child})}

\* Batches whose second mutation meets the staged effect of the first.
StagedBatches ==
  {[entries |-> <<e, f>>, asserts |-> {}] :
     e \in {Point("Set", Child, 1), Point("Delete", Child, 1), Point("DeleteRange", Parent, 1)},
     f \in {Point("Set", Child, 2), Point("DeleteRange", Parent, 2)}}

AssertBatches ==
  {[entries |-> <<Point("Set", Child, v)>>, asserts |-> {[prefix |-> Child, upto |-> u]}] :
     v \in Vers, u \in 0..1}

DataBatches == SingleBatches \cup AssertBatches \cup StagedBatches
-----------------------------------------------------------------------------
WriterSymmetry == Permutations(Writers) \cup Permutations(Register)

\* Mutations without leases.
Writing ==
  INSTANCE Space WITH Device <- Writers, LeasePrefix <- {}, Ttl <- {}, Stamp <- {}, MaxNow <- 0, MaxLeaseId <- 0

\* Leases, with one batch of each device.
Leasing ==
  INSTANCE Space WITH Device <- Writers, Batch <- LeaseBatches, MaxRequest <- 1, MaxLog <- 2, MaxDeviceSeq <- 1

MCInit == part \in {"data", "leases", "heads"} /\ Init /\ HeadsInit

DataPart == part = "data" /\ Writing!Next /\ UNCHANGED <<part, headsVars>>
LeasePart == part = "leases" /\ Leasing!Next /\ UNCHANGED <<part, headsVars>>
HeadsPart == part = "heads" /\ HeadsNext /\ UNCHANGED <<part, vars>>

MCSpec == MCInit /\ [][DataPart \/ LeasePart \/ HeadsPart]_<<part, vars, headsVars>>
=============================================================================
