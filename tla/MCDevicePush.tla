---------------------------- MODULE MCDevicePush ----------------------------
(* Two machines side by side, one of them running in each behaviour.       *)
(*                                                                         *)
(* The push protocol: a one-entry and a two-entry payload, so that a       *)
(* refusal can single one out and the entry budget of a request can cut a  *)
(* group short.  The permit queue its callers go through: three tasks over *)
(* two spaces, which is a holder, a cancelled waiter and a live one.       *)
EXTENDS DevicePush, Coordinator, TLC

CONSTANTS p1, p2

Sizes == (p1 :> 1) @@ (p2 :> 2)

VARIABLE part   \* which of the two runs: "push" or "permits"

MCInit ==
  part \in {"push", "permits"} /\ Init /\ CoordInit /\ (part = "permits" => refused = {})

PushPart == part = "push" /\ Next /\ UNCHANGED <<part, coordVars>>
PermitPart == part = "permits" /\ CoordNext /\ UNCHANGED <<part, vars>>

MCSpec ==
  MCInit /\ [][PushPart \/ PermitPart]_<<part, vars, coordVars>> /\ PushFairness /\ CoordFairness
=============================================================================
