---------------------------- MODULE HeadsMachine ----------------------------
(***************************************************************************)
(* HistoricalHeads summaries next to the per-device tables they summarise, *)
(* under the two operations the server performs on them: observe (one      *)
(* admission) and merge (an aggregate with its covering tombstones).       *)
(***************************************************************************)
EXTENDS HistoricalHeads

CONSTANTS Register,   \* the summaries under test
          MaxObserved      \* bound: admission sequences observed by the run

ASSUME HeadsAssumption == MaxObserved \in Nat

VARIABLES heads,    \* heads[r]: the summary a prefix record stores
          admitted  \* admitted[r][d]: the greatest admission by d (0: none)

headsVars == <<heads, admitted>>

HeadsInit ==
  /\ heads = [r \in Register |-> EmptyHeads]
  /\ admitted = [r \in Register |-> [d \in Device |-> 0]]

Observe(r, d, s) ==
  /\ heads' = [heads EXCEPT ![r] = observe(@, d, s)]
  /\ admitted' = [admitted EXCEPT ![r][d] = MaxOf(@, s)]

Merge(r, o) ==
  /\ heads' = [heads EXCEPT ![r] = merge(@, heads[o])]
  /\ admitted' = [admitted EXCEPT ![r] = [d \in Device |-> MaxOf(@[d], admitted[o][d])]]

HeadsNext ==
  \/ \E r \in Register, d \in Device, s \in 1..MaxObserved : Observe(r, d, s)
  \/ \E r, o \in Register : Merge(r, o)

HeadsSpec == HeadsInit /\ [][HeadsNext]_headsVars
-----------------------------------------------------------------------------
HeadsTypeOK ==
  /\ heads \in [Register -> Heads]
  /\ admitted \in [Register -> [Device -> Nat]]

\* x is the greatest value of the table m over the devices other than d.
GreatestExcluding(m, d, x) ==
  /\ \A e \in Device \ {d} : m[e] <= x
  /\ x # 0 => \E e \in Device \ {d} : m[e] = x

\* The record decoder's sanity conditions (decode_from) and the exactness of
\* both heads: everything the summary says about the table it stands for.
Represents(h, m) ==
  /\ h.second.seq <= h.first.seq
  /\ h.first.seq # 0 => h.first.device \in Device /\ m[h.first.device] = h.first.seq
  /\ h.second.seq # 0 => /\ h.second.device \in Device \ {h.first.device}
                         /\ m[h.second.device] = h.second.seq
  /\ \A d \in Device : m[d] <= h.first.seq
  /\ \A d \in Device : d # h.first.device => m[d] <= h.second.seq

\* Two heads are enough (schema.rs max_excluding, used by range_assert_failures):
\* after any sequence of observes and merges, with any number of devices, the
\* summary answers exactly the greatest foreign admission for every device.
HeadsExact ==
  \A r \in Register, d \in Device :
    GreatestExcluding(admitted[r], d, max_excluding(heads[r], d))

\* The inductive strengthening of HeadsExact.
HeadsInv == HeadsTypeOK /\ \A r \in Register : Represents(heads[r], admitted[r])
=============================================================================
