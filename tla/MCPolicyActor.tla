--------------------------- MODULE MCPolicyActor ----------------------------
(***************************************************************************)
(* The policy actor under each policy, with a call that writes or pushes   *)
(* and one that reads, writes, pulls or rebases.  Staleness and delay are  *)
(* one tick, so that deadlines pass and answers go stale within the bound. *)
(***************************************************************************)
EXTENDS PolicyActor, TLC

Local(staleness, delay) == [name |-> "LocalFirst", staleness |-> staleness, delay |-> delay]
EveryPolicy == {Local(1, 1), [name |-> "Remote", staleness |-> 0, delay |-> 0],
                [name |-> "LocalOnly", staleness |-> 0, delay |-> 0]}

CONSTANTS c1, c2
MCCallOps == (c1 :> {"write", "push"}) @@ (c2 :> {"read", "write", "pull", "rebase"})
=============================================================================
