----------------------------- MODULE Footprint ------------------------------
(***************************************************************************)
(* Conflict footprints of Multilite transactions                           *)
(* (multilite/src/commit/footprint.rs) and the write regions they are      *)
(* validated against (multilite/src/commit/history.rs).  Keys are those of *)
(* KeyRanges; a row's key lies below its table's root.                     *)
(***************************************************************************)
EXTENDS KeyRanges

Point(key) == [kind |-> "Point", key |-> key]
DeletedRange(prefix) == [kind |-> "Range", key |-> prefix]

\* WriteRegion::overlaps_prefix: a point invalidates the prefixes above it, a
\* range deletion also those below it.
overlaps_prefix(region, prefix) ==
  IF region.kind = "Point" THEN starts_with(region.key, prefix)
                           ELSE overlaps(region.key, prefix)

\* The rows a region rewrites.
Touches(region, row) ==
  IF region.kind = "Point" THEN region.key = row ELSE starts_with(row, region.key)

\* ConflictFootprint::asserted_keys: reads count under serializable isolation.
asserted_keys(footprint, isolation) ==
  footprint.writes \cup footprint.constraints
    \cup (IF isolation = "Serializable" THEN footprint.reads ELSE {})

conflicts_with_writes(footprint, isolation, committed) ==
  \E prefix \in asserted_keys(footprint, isolation) :
    \E region \in committed : overlaps_prefix(region, prefix)

\* PrefixAntichain: what inserting the keys one by one leaves.
antichain(keys) ==
  {key \in keys : \A other \in keys : starts_with(key, other) => other = key}

\* ConflictFootprint::plan: the range assertions of the Homebase submission.
plan(footprint, isolation, upto) ==
  {[prefix |-> key, upto |-> upto] : key \in antichain(asserted_keys(footprint, isolation))}
=============================================================================
