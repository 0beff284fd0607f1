--------------------------- MODULE ReplicatedMap ----------------------------
(***************************************************************************)
(* What a space promises its readers, without leases, tombstones, counts   *)
(* or histories: a map from keys to their last written record and the log  *)
(* of batches of operations that produced it.  Every step appends batches  *)
(* to the log and applies exactly their operations to the map, at once.    *)
(***************************************************************************)
EXTENDS KeyRanges

VARIABLES admitted,  \* admitted batches, in admission order
          live       \* the records a read of everything returns

mapVars == <<admitted, live>>

\* One operation on the map: a range delete removes everything below its
\* prefix, a point write replaces the key's record, a point delete removes it.
ApplyTo(records, e) ==
  IF e.op = "DeleteRange" THEN {r \in records : ~covers_key(e.target, r.target)}
  ELSE {r \in records : r.target # e.target} \cup (IF e.op = "Set" THEN {e} ELSE {})

\* Operations one after the other, and those of one batch after the other.
ReplayFrom(records, suffix) ==
  LET after[n \in 0..Len(suffix)] == IF n = 0 THEN records ELSE ApplyTo(after[n - 1], suffix[n])
  IN  after[Len(suffix)]

ReplayBatches(records, batches) ==
  LET after[n \in 0..Len(batches)] ==
        IF n = 0 THEN records ELSE ReplayFrom(after[n - 1], batches[n].entries)
  IN  after[Len(batches)]

MapInit == admitted = <<>> /\ live = {}

Extend ==
  /\ Len(admitted) < Len(admitted') /\ SubSeq(admitted', 1, Len(admitted)) = admitted
  /\ live' = ReplayBatches(live, SubSeq(admitted', Len(admitted) + 1, Len(admitted')))

MapSpec == MapInit /\ [][Extend]_mapVars
=============================================================================
