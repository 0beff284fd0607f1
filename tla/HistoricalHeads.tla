-------------------------- MODULE HistoricalHeads ---------------------------
\* Device identities and the summary of who admitted last.
(* Device identities, shared by the modules of one space.                  *)
EXTENDS Naturals

CONSTANTS Device,     \* device identities
          NoDevice    \* DeviceId([0; 16]), the device of an empty head

ASSUME DeviceAssumption == NoDevice \notin Device
-----------------------------------------------------------------------------
(***************************************************************************)
(* The two-entry summary of "who admitted last" that the server keeps for  *)
(* every key prefix (server/src/schema.rs, HistoricalHeads).  It holds the *)
(* greatest admission sequences of two distinct devices and must answer,   *)
(* for every device d, "the greatest admission by a device other than d":  *)
(* the question a range assert asks at admission.                          *)
(*                                                                         *)
(* Operators only; HeadsMachine runs them against the table they stand for.*)
(***************************************************************************)

EmptyHead == [device |-> NoDevice, seq |-> 0]

\* HistoricalHeads::empty
EmptyHeads == [first |-> EmptyHead, second |-> EmptyHead]

MaxOf(a, b) == IF a >= b THEN a ELSE b

max_admission_seq(h) == MaxOf(h.first.seq, h.second.seq)

max_excluding(h, d) == IF h.first.device # d THEN h.first.seq ELSE h.second.seq

\* The head pair with the greater one first (the swap that ends observe).
Ordered(h) ==
  IF h.second.seq > h.first.seq THEN [first |-> h.second, second |-> h.first] ELSE h

\* Mutant: a third device never displaces the runner-up.
observe_keeps_runner_up(h, d, s) ==
  LET observed == [device |-> d, seq |-> s] IN
  Ordered(IF h.first.seq = 0 THEN [h EXCEPT !.first = observed]
          ELSE IF h.first.device = d THEN [h EXCEPT !.first.seq = MaxOf(@, s)]
          ELSE IF h.second.seq = 0 THEN [h EXCEPT !.second = observed]
          ELSE IF h.second.device = d THEN [h EXCEPT !.second.seq = MaxOf(@, s)]
          ELSE h)

\* HistoricalHeads::observe: one else-if chain, then the swap.
observe(h, d, s) ==
  LET observed == [device |-> d, seq |-> s] IN
  Ordered(IF h.first.seq = 0 THEN [h EXCEPT !.first = observed]
          ELSE IF h.first.device = d THEN [h EXCEPT !.first.seq = MaxOf(@, s)]
          ELSE IF h.second.seq = 0 THEN [h EXCEPT !.second = observed]
          ELSE IF h.second.device = d THEN [h EXCEPT !.second.seq = MaxOf(@, s)]
          ELSE IF s > h.second.seq THEN [h EXCEPT !.second = observed]
          ELSE h)

\* HistoricalHeads::merge: the other summary's non-empty heads, in order.
merge(h, other) ==
  LET fold(acc, head) == IF head.seq # 0 THEN observe(acc, head.device, head.seq) ELSE acc
  IN  fold(fold(h, other.first), other.second)

DeviceAdmission == [device : Device \cup {NoDevice}, seq : Nat]

Heads == [first : DeviceAdmission, second : DeviceAdmission]
=============================================================================
