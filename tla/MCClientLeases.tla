--------------------------- MODULE MCClientLeases ---------------------------
(* What a client keeps of the server: its leases, over one prefix so that  *)
(* every workflow meets the same lease record; read leases over a prefix   *)
(* and a longer one, with a checked assertion waiting under both; and the  *)
(* admitted batches it pulls, in pages of two over a log of up to four, so *)
(* that there are short, full and exactly full last pages.  One of them    *)
(* runs in each behaviour.                                                 *)
EXTENDS CheckedSubmits, AdmitLog

CONSTANTS A, X, B

TwoPrefixes == {<<A>>, <<A, X>>}
LongWrite == {[prefix |-> <<A>>, mode |-> "Write", ttl |-> 2]}
ShortReads == [prefix : TwoPrefixes, mode : {"Read"}, ttl : {1}]
Specs == LongWrite \cup ShortReads
Inside == {<<A, X>>}
TwoKeys == {<<A, X>>, <<B>>}

CONSTANT Parts   \* what runs: a subset of {"leases", "asserts", "pull"}

VARIABLE part

\* The leases the application asks for in a behaviour.
Asks(specs) ==
  call' # None /\ call'.stage \in {"renew", "acquire", "barrier"} => call'.spec \in specs \cup {None}

MCInit == part \in Parts /\ Init /\ AssertInit /\ PullInit

LeasePart ==
  /\ part = "leases" /\ Next /\ Asks(LongWrite) /\ admission_high_water' <= 1
  /\ UNCHANGED <<part, assertVars, pullVars>>

\* The waiting assertions are about one process that is not suspended and gives
\* up no request in flight: what comes of that is in the other behaviours.
OneProcess ==
  /\ lineage' = lineage /\ now' <= 1 /\ (now' # now => mono' # mono)
  /\ \A i \in DOMAIN mailbox' : mailbox'[i].live

AssertPart ==
  /\ part = "asserts" /\ AssertNext /\ Asks(ShortReads) /\ OneProcess
  /\ UNCHANGED <<part, pullVars>>

PullPart == part = "pull" /\ PullNext /\ UNCHANGED <<part, vars, assertVars>>

MCSpec == MCInit /\ [][LeasePart \/ AssertPart \/ PullPart]_<<part, vars, assertVars, pullVars>>
=============================================================================
