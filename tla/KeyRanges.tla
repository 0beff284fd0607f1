----------------------------- MODULE KeyRanges ------------------------------
(***************************************************************************)
(* Component-wise key ranges (core/src/range.rs, core/src/key.rs).  A key  *)
(* is a non-empty sequence of components; a range is the subtree below a   *)
(* prefix.  Range::Full is the empty prefix, which no key equals.          *)
(***************************************************************************)
EXTENDS Naturals, Sequences

Full == <<>>

\* Key::starts_with: component-wise, never byte-wise.
starts_with(key, prefix) == Len(prefix) <= Len(key) /\ SubSeq(key, 1, Len(prefix)) = prefix

covers_key(range, key) == starts_with(key, range)

covers_range(range, other) == starts_with(other, range)

overlaps(a, b) == covers_range(a, b) \/ covers_range(b, a)
=============================================================================
