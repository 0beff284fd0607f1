-------------------------- MODULE DevicePushProofs --------------------------
(***************************************************************************)
(* The push protocol, for every set of payloads and sizes, every request   *)
(* cap, and with callers that give up, client crashes and server restarts  *)
(* at any point.                                                           *)
(*                                                                         *)
(* The invariant says where the server can be: at the acknowledged prefix, *)
(* or past it by the first records of the client's active window.  It is   *)
(* kept by the requests in flight: one sent before the last acknowledgement*)
(* expects a shorter prefix than any the server can be at, and is refused; *)
(* one sent after it carries the first records of the present window.      *)
(* Rollback moves the window, and the answer it waits for is the last of   *)
(* the mailbox, so nothing is then in flight.                              *)
(***************************************************************************)
EXTENDS DevicePush, DataFacts

Operation == [kind : {"Commit", "Rollback"}, payload : Payload \cup Nat, ver : Nat]
Batch == [seq : Nat, op : Operation]
Request == [expected : Seq(Batch), batches : Seq(Batch), live : BOOLEAN]
Reservation == [seq : Nat, ver : Nat, payload : Payload]

PushTypes ==
  /\ head \in Nat \ {0} /\ neck \in Nat /\ tail \in Nat /\ ver_high \in Nat
  /\ head <= neck /\ neck <= tail /\ rows = head..(tail - 1)
  /\ ops \in Seq(Operation) /\ Len(ops) = tail - 1
  /\ confirmed \in Seq(Batch) /\ history \in Seq(Batch)
  /\ reserved \subseteq Reservation /\ mailbox \in Seq(Request)

\* The records: markers point back, and versions grow along the window.
RecordsOK ==
  /\ \A s \in 1..(tail - 1) : ops[s].kind = "Rollback" => ops[s].payload < s
  /\ \A s \in neck..(tail - 1) : IsCommit(ops[s]) => ops[s].ver <= ver_high
  /\ \A s, t \in neck..(tail - 1) :
       IsCommit(ops[s]) /\ s < t /\ IsCommit(ops[t]) => ops[s].ver <= ops[t].ver - Size[ops[t].payload]

\* A chain of the client's records below sequence n, none of them given up.
Chain(c, n) ==
  /\ \A i \in 1..Len(c) : c[i].seq \in 1..(n - 1) /\ c[i].op = ops[c[i].seq]
  /\ \A i \in 1..Len(c) : IsCommit(c[i].op) => c[i].seq \notin retired
  /\ \A i \in 1..Len(c) : i > 1 => c[i - 1].seq < c[i].seq

\* A chain that misses nothing below n but what was given up.
Covers(c, n) == \A s \in 1..(n - 1) : s \in retired \/ \E i \in 1..Len(c) : c[i].seq = s

ConfirmedOK ==
  Chain(confirmed, neck) /\ Covers(confirmed, neck) /\ retired \subseteq 1..(neck - 1)

Sent == push.stage = "sent"

PushOK ==
  /\ push.stage \in {"idle", "loop", "sent"}
  /\ push.stage # "idle" => push.through \in Nat \cup {None}
  /\ Sent => /\ push.first = neck /\ push.confirmed = confirmed
             /\ push.tail \in Nat /\ push.tail <= tail /\ push.last \in neck..(push.tail - 1)
             /\ push = [stage |-> "sent", through |-> push.through, probe |-> push.probe,
                        first |-> push.first, last |-> push.last, tail |-> push.tail,
                        confirmed |-> push.confirmed, reply |-> push.reply]

\* The records a running request can reach: those that were there when it was sent.
Limit == IF Sent THEN push.tail ELSE tail

\* The first records of the active window.
OfWindow(batches) == \E l \in neck..(Limit - 1) : batches = Batches(neck, l)

HistoryOK == history = confirmed \/ \E l \in neck..(Limit - 1) : history = confirmed \o Batches(neck, l)

MailOK ==
  \A i \in 1..Len(mailbox) :
    /\ Len(mailbox[i].expected) <= Len(confirmed)
    /\ mailbox[i].expected = confirmed => OfWindow(mailbox[i].batches)
    /\ mailbox[i].live => /\ i = Len(mailbox) /\ Sent /\ mailbox[i].expected = confirmed
                          /\ mailbox[i].batches = Batches(neck, push.last)

ReplyOK ==
  Sent /\ push.reply # None =>
    /\ mailbox = <<>>
    /\ \/ /\ push.reply.kind = "Applied" /\ push.reply.checksum = history
          /\ history = confirmed \o Batches(neck, push.last)
       \/ /\ push.reply.kind = "Mismatch" /\ push.reply.checksum = history
          /\ push.reply.seq = LastSeq(history) /\ history # confirmed
       \/ push.reply.kind = "Refused" /\ history = confirmed

RejectionOK == rejection # None => mailbox = <<>> /\ history = confirmed /\ push.stage = "idle"

PushInv ==
  /\ PushTypes /\ RecordsOK /\ ConfirmedOK /\ PushOK /\ HistoryOK /\ MailOK /\ ReplyOK
  /\ RejectionOK /\ forked = FALSE

\* The records have versions.
LEMMA Versions ==
  ASSUME PushTypes
  PROVE  \A s \in 1..(tail - 1) : ops[s] \in Operation /\ ops[s].ver \in Nat
<1>1. \A s \in 1..(tail - 1) : ops[s] \in Operation
  BY DEF PushTypes
<1>2. \A o \in Operation : o.ver \in Nat
  BY Zenon DEF Operation
<1> QED BY <1>1, <1>2, Zenon

\* A run of records, as a sequence of batches.
LEMMA BatchesType ==
  ASSUME PushTypes, NEW f \in Nat \ {0}, NEW l \in (f - 1)..(tail - 1)
  PROVE  /\ Batches(f, l) \in Seq(Batch) /\ Len(Batches(f, l)) = l - f + 1
         /\ \A i \in 1..(l - f + 1) : /\ f + i - 1 \in f..l
                                      /\ Batches(f, l)[i].seq = f + i - 1
                                      /\ Batches(f, l)[i].op = ops[f + i - 1]
<1> DEFINE n == l - f + 1
           b(i) == [seq |-> f + i - 1, op |-> ops[f + i - 1]]
<1>1. n \in Nat /\ \A i \in 1..n : f + i - 1 \in f..l /\ f + i - 1 \in 1..Len(ops)
  BY DEF PushTypes
<1>2. \A i \in 1..n : b(i) \in Batch
  <2>1. \A k \in 1..Len(ops) : ops[k] \in Operation /\ k \in Nat
    BY DEF PushTypes
  <2>2. \A i \in 1..n : ops[f + i - 1] \in Operation /\ f + i - 1 \in Nat
    BY <1>1, <2>1, Zenon
  <2> QED BY <2>2, Zenon DEF Batch
<1>3. Batches(f, l) = [i \in 1..n |-> b(i)]
  BY Zenon DEF Batches
<1>4. \A i \in 1..n : Batches(f, l)[i] = b(i)
  BY <1>3, Zenon
<1>5. \A i \in 1..n : b(i).seq = f + i - 1 /\ b(i).op = ops[f + i - 1]
  BY Zenon
<1> HIDE DEF b, n
<1>6. Batches(f, l) \in Seq(Batch) /\ Len(Batches(f, l)) = n
  BY <1>1, <1>2, <1>3
<1> QED BY <1>1, <1>4, <1>5, <1>6, Zenon DEF n

\* The records a request can reach are records of the log.
LEMMA LimitBound ==
  ASSUME PushTypes, PushOK
  PROVE  Limit \in Nat /\ Limit <= tail
BY DEF PushTypes, PushOK, Limit

\* A higher bound.
LEMMA Between ==
  ASSUME NEW a \in Nat, NEW b \in Nat, NEW c \in Nat, b <= c, NEW x \in a..(b - 1)
  PROVE  x \in a..(c - 1)
OBVIOUS

\* A window that only grows keeps the runs at its front.
LEMMA WindowKeeps ==
  ASSUME PushTypes, PushOK, neck' = neck, \A s \in 1..(tail - 1) : ops'[s] = ops[s],
         Limit' \in Nat, Limit <= Limit'
  PROVE  \A l \in neck..(Limit - 1) : l \in neck'..(Limit' - 1) /\ Batches(neck, l)' = Batches(neck, l)
<1> SUFFICES ASSUME NEW l \in neck..(Limit - 1)
             PROVE  l \in neck'..(Limit' - 1) /\ Batches(neck, l)' = Batches(neck, l)
  BY Zenon
<1>0. Limit \in Nat /\ Limit <= tail
  BY LimitBound, Zenon
<1>1. neck \in Nat \ {0} /\ neck \in Nat /\ tail \in Nat /\ Limit \in Nat /\ Limit <= tail
  BY <1>0 DEF PushTypes
<1>2. \A i \in 1..(l - neck + 1) : neck + i - 1 \in 1..(tail - 1)
  BY <1>1
<1>3. \A i \in 1..(l - neck + 1) : ops'[neck + i - 1] = ops[neck + i - 1]
  BY <1>2, Zenon
<1>4. Batches(neck, l)' = Batches(neck, l)
  BY <1>3, Zenon DEF Batches
<1>5. l \in neck..(Limit' - 1)
  BY <1>1, Between, Zenon
<1> QED BY <1>4, <1>5, Zenon

\* What the acknowledged prefix and the first records of the window make.
LEMMA Extended ==
  ASSUME PushTypes, NEW l \in neck..(tail - 1)
  PROVE  LET c == confirmed \o Batches(neck, l)
             n == Len(confirmed)
         IN  /\ c \in Seq(Batch) /\ Len(c) = n + (l - neck + 1)
             /\ \A i \in 1..n : c[i] = confirmed[i]
             /\ \A i \in 1..(l - neck + 1) : c[n + i].seq = neck + i - 1 /\ c[n + i].op = ops[neck + i - 1]
<1> DEFINE b == Batches(neck, l)
           k == l - neck + 1
<1>1. neck \in Nat \ {0} /\ l \in (neck - 1)..(tail - 1) /\ k \in Nat /\ confirmed \in Seq(Batch)
  BY DEF PushTypes
<1>2. /\ b \in Seq(Batch) /\ Len(b) = k
      /\ \A i \in 1..k : b[i].seq = neck + i - 1 /\ b[i].op = ops[neck + i - 1]
  BY <1>1, BatchesType, Zenon
<1> HIDE DEF b, k
<1>3. confirmed \in Seq(Batch) /\ b \in Seq(Batch)
  BY <1>1, <1>2, Zenon
<1>4. /\ confirmed \o b \in Seq(Batch) /\ Len(confirmed \o b) = Len(confirmed) + Len(b)
      /\ \A i \in 1..Len(confirmed) : (confirmed \o b)[i] = confirmed[i]
      /\ \A i \in 1..Len(b) : (confirmed \o b)[Len(confirmed) + i] = b[i]
  BY <1>3
<1> QED BY <1>2, <1>4, Zenon DEF b, k

\* The position of a server that is past the acknowledged prefix.
LEMMA LastOfExtended ==
  ASSUME PushTypes, NEW l \in neck..(tail - 1)
  PROVE  /\ LastSeq(confirmed \o Batches(neck, l)) = l
         /\ Len(confirmed \o Batches(neck, l)) > Len(confirmed)
<1> DEFINE c == confirmed \o Batches(neck, l)
           n == Len(confirmed)
           k == l - neck + 1
<1>1. neck \in Nat /\ l \in Nat /\ n \in Nat /\ k \in Nat \ {0} /\ k \in 1..k
  BY DEF PushTypes
<1>2. c \in Seq(Batch) /\ Len(c) = n + k /\ \A i \in 1..k : c[n + i].seq = neck + i - 1
  BY Extended, Zenon
<1> HIDE DEF c, n
<1>3. Len(c) > n /\ c # <<>> /\ c[n + k].seq = l
  <2>1. c[n + k].seq = neck + k - 1 /\ Len(c) = n + k
    BY <1>1, <1>2, Zenon
  <2>2. neck + k - 1 = l /\ n + k > n /\ n + k # 0
    BY <1>1
  <2>3. c # <<>>
    BY <1>2, <2>1, <2>2
  <2> QED BY <2>1, <2>2, <2>3, Zenon
<1> HIDE DEF c
<1> QED BY <1>1, <1>2, <1>3 DEF LastSeq, c, n

\* The server that is at the acknowledged prefix is before the window.
LEMMA LastOfConfirmed ==
  ASSUME PushTypes, ConfirmedOK
  PROVE  LastSeq(confirmed) \in Nat /\ LastSeq(confirmed) < neck
<1>1. neck \in Nat \ {0} /\ Len(confirmed) \in Nat
  BY DEF PushTypes
<1>2. CASE confirmed = <<>>
  BY <1>1, <1>2 DEF LastSeq
<1>3. CASE confirmed # <<>>
  <2>1. Len(confirmed) \in 1..Len(confirmed)
    BY <1>3 DEF PushTypes
  <2>2. confirmed[Len(confirmed)].seq \in 1..(neck - 1)
    BY <2>1, Zenon DEF ConfirmedOK, Chain
  <2> QED BY <1>1, <1>3, <2>2 DEF LastSeq
<1> QED BY <1>2, <1>3, Zenon

\* A chain goes on with the first records of the window.
LEMMA ChainExtends ==
  ASSUME PushTypes, ConfirmedOK, NEW l \in neck..(tail - 1)
  PROVE  Chain(confirmed \o Batches(neck, l), l + 1) /\ Covers(confirmed \o Batches(neck, l), l + 1)
<1> DEFINE c == confirmed \o Batches(neck, l)
           n == Len(confirmed)
           k == l - neck + 1
<1>1. neck \in Nat \ {0} /\ l \in Nat /\ n \in Nat /\ k \in Nat /\ neck <= l + 1
  BY DEF PushTypes
<1>2. /\ c \in Seq(Batch) /\ Len(c) = n + k
      /\ \A i \in 1..n : c[i] = confirmed[i]
      /\ \A i \in 1..k : c[n + i].seq = neck + i - 1 /\ c[n + i].op = ops[neck + i - 1]
  BY Extended, Zenon
<1>3. /\ \A i \in 1..n : confirmed[i].seq \in 1..(neck - 1) /\ confirmed[i].op = ops[confirmed[i].seq]
      /\ \A i \in 1..n : IsCommit(confirmed[i].op) => confirmed[i].seq \notin retired
      /\ \A i \in 1..n : i > 1 => confirmed[i - 1].seq < confirmed[i].seq
      /\ retired \subseteq 1..(neck - 1)
  BY Zenon DEF ConfirmedOK, Chain
<1> HIDE DEF c, n, k
<1>4. \A i \in 1..Len(c) : i \in 1..n \/ (i - n \in 1..k /\ n + (i - n) = i)
  BY <1>1, <1>2
<1>5. ASSUME NEW i \in 1..Len(c), i \notin 1..n
      PROVE  /\ c[i].seq = neck + (i - n) - 1 /\ c[i].op = ops[c[i].seq]
             /\ c[i].seq \in neck..l
  <2>1. i - n \in 1..k /\ n + (i - n) = i
    BY <1>4, <1>5, Zenon
  <2>2. c[i].seq = neck + (i - n) - 1 /\ c[i].op = ops[neck + (i - n) - 1]
    BY <1>2, <2>1, Zenon
  <2> QED BY <1>1, <2>1, <2>2 DEF k
<1>6. ASSUME NEW i \in 1..Len(c)
      PROVE  c[i].seq \in 1..l /\ c[i].op = ops[c[i].seq]
  <2>1. CASE i \in 1..n
    <3>1. c[i].seq \in 1..(neck - 1) /\ c[i].op = ops[c[i].seq]
      BY <1>2, <1>3, <2>1, Zenon
    <3>2. 1..(neck - 1) \subseteq 1..l
      BY <1>1
    <3> QED BY <3>1, <3>2, Zenon
  <2>2. CASE i \notin 1..n
    <3>1. neck..l \subseteq 1..l
      BY <1>1
    <3> QED BY <1>5, <2>2, <3>1, Zenon
  <2> QED BY <2>1, <2>2, Zenon
<1>7. \A i \in 1..Len(c) : IsCommit(c[i].op) => c[i].seq \notin retired
  <2>1. \A s \in neck..l : s \notin 1..(neck - 1)
    BY <1>1
  <2> QED BY <1>2, <1>3, <1>5, <2>1, Zenon
<1>8. ASSUME NEW i \in 1..Len(c), i > 1
      PROVE  c[i - 1].seq < c[i].seq
  <2>1. CASE i \in 1..n
    <3>1. i - 1 \in 1..n
      BY <1>1, <1>8, <2>1
    <3> QED BY <1>2, <1>3, <1>8, <2>1, <3>1, Zenon
  <2>2. CASE i \notin 1..n /\ i - 1 \in 1..n
    <3>1. c[i - 1].seq \in 1..(neck - 1) /\ c[i].seq \in neck..l
      BY <1>2, <1>3, <1>5, <2>2, Zenon
    <3> QED BY <1>1, <3>1
  <2>3. CASE i \notin 1..n /\ i - 1 \notin 1..n
    <3>1. i - 1 \in 1..Len(c)
      BY <1>1, <1>2, <1>8
    <3>2. c[i].seq = neck + (i - n) - 1 /\ c[i - 1].seq = neck + ((i - 1) - n) - 1
      BY <1>5, <2>3, <3>1, Zenon
    <3> QED BY <1>1, <1>2, <3>2
  <2> QED BY <2>1, <2>2, <2>3, Zenon
<1>9. Chain(c, l + 1)
  <2>1. (l + 1) - 1 = l
    BY <1>1
  <2> QED BY <1>6, <1>7, <1>8, <2>1, Zenon DEF Chain
<1>10. Covers(c, l + 1)
  <2> SUFFICES ASSUME NEW s \in 1..((l + 1) - 1), s \notin retired
               PROVE  \E i \in 1..Len(c) : c[i].seq = s
    BY Zenon DEF Covers
  <2>1. CASE s \in 1..(neck - 1)
    <3>1. PICK i \in 1..n : confirmed[i].seq = s
      BY <2>1, Zenon DEF ConfirmedOK, Covers, n
    <3>2. i \in 1..Len(c) /\ c[i].seq = s
      BY <1>1, <1>2, <3>1
    <3> QED BY <3>2, Zenon
  <2>2. CASE s \in neck..l
    <3>1. s - neck + 1 \in 1..k /\ neck + (s - neck + 1) - 1 = s
      BY <1>1, <2>2 DEF k
    <3>2. c[n + (s - neck + 1)].seq = s
      BY <1>2, <3>1, Zenon
    <3>3. n + (s - neck + 1) \in 1..Len(c)
      BY <1>1, <1>2, <3>1
    <3> QED BY <3>2, <3>3, Zenon
  <2> QED BY <1>1, <2>1, <2>2
<1> QED BY <1>9, <1>10, Zenon DEF c

\* A fresh device.
LEMMA PushInitInv == Init => PushInv
<1> SUFFICES ASSUME Init PROVE PushInv
  BY Zenon
<1>1. PushTypes /\ RecordsOK
  BY DEF Init, PushTypes, RecordsOK
<1>2. ConfirmedOK
  BY DEF Init, ConfirmedOK, Chain, Covers
<1>3. push.stage = "idle" /\ ~Sent
  BY Zenon DEF Init, Idle, Sent
<1> QED BY <1>1, <1>2, <1>3 DEF Init, PushInv, PushOK, HistoryOK, MailOK, ReplyOK, RejectionOK

\* Steps that only raise the version high-water, hand out a reservation or
\* change what the server refuses.
LEMMA SameKeeps ==
  ASSUME PushInv, ver_high' \in Nat, ver_high <= ver_high', reserved' \subseteq Reservation,
         UNCHANGED <<head, neck, tail, ops, rows, confirmed, push, rejection, mailbox, history, retired, forked>>
  PROVE  PushInv'
<1>1. /\ head' = head /\ neck' = neck /\ tail' = tail /\ ops' = ops /\ rows' = rows /\ confirmed' = confirmed
      /\ push' = push /\ rejection' = rejection /\ mailbox' = mailbox /\ history' = history
      /\ retired' = retired /\ forked' = forked
  BY Zenon
<1>2. PushTypes'
  BY <1>1, Zenon DEF PushInv, PushTypes
<1>3. RecordsOK'
  <2>1. \A s \in neck..(tail - 1) : s \in 1..(tail - 1) /\ ops[s].ver \in Nat
    BY Versions DEF PushInv, PushTypes
  <2>2. \A s \in neck..(tail - 1) : IsCommit(ops[s]) => ops[s].ver <= ver_high'
    <3>1. ver_high \in Nat /\ \A s \in neck..(tail - 1) : IsCommit(ops[s]) => ops[s].ver <= ver_high
      BY Zenon DEF PushInv, PushTypes, RecordsOK
    <3> QED BY <2>1, <3>1
  <2> QED BY <1>1, <2>2, Zenon DEF PushInv, RecordsOK, IsCommit
<1>4. ConfirmedOK'
  BY <1>1, Zenon DEF PushInv, ConfirmedOK, Chain, Covers, IsCommit
<1>5. Limit' = Limit /\ \A l : Batches(neck, l)' = Batches(neck, l)
  BY <1>1, Zenon DEF Limit, Sent, Batches
<1>6. HistoryOK'
  BY <1>1, <1>5, Zenon DEF PushInv, HistoryOK
<1>7. PushOK'
  BY <1>1, Zenon DEF PushInv, PushOK, Sent
<1>8. MailOK'
  <2>1. (Sent <=> Sent') /\ \A batches : OfWindow(batches) => OfWindow(batches)'
    BY <1>1, <1>5, Zenon DEF OfWindow, Sent
  <2> QED BY <1>1, <1>5, <2>1, Zenon DEF PushInv, MailOK
<1>9. ReplyOK'
  BY <1>1, Zenon DEF PushInv, ReplyOK, Sent, Batches, LastSeq
<1>10. RejectionOK'
  BY <1>1, Zenon DEF PushInv, RejectionOK
<1> QED BY <1>1, <1>2, <1>3, <1>4, <1>6, <1>7, <1>8, <1>9, <1>10, Zenon DEF PushInv

\* commit: one more record at the end of the window, above every version of it.
LEMMA CommitKeeps ==
  ASSUME PushInv, NEW r \in reserved, Commit(r)
  PROVE  PushInv'
<1>1. r \in Reservation /\ Size[r.payload] \in Nat
  BY PushAssumption, Zenon DEF PushInv, PushTypes, Reservation
<1>2. /\ r.seq \in Nat /\ r.ver \in Nat /\ r.payload \in Payload
      /\ reserved' \subseteq Reservation
  BY <1>1, Zenon DEF Commit, Reservation, PushInv, PushTypes
<1>3. /\ head' = head /\ neck' = neck /\ confirmed' = confirmed
      /\ push' = push /\ rejection' = rejection /\ mailbox' = mailbox /\ history' = history
      /\ retired' = retired /\ forked' = forked
  BY Zenon DEF Commit
<1>4. CASE ~(tail = r.seq /\ ver_high = r.ver - Size[r.payload])
  <2>1. ops' = ops /\ rows' = rows /\ tail' = tail /\ ver_high' = ver_high
    BY <1>4, Zenon DEF Commit
  <2>2. ver_high' \in Nat /\ ver_high <= ver_high'
    BY <2>1 DEF PushInv, PushTypes
  <2> QED BY <1>2, <1>3, <2>1, <2>2, SameKeeps, Zenon
<1>5. CASE tail = r.seq /\ ver_high = r.ver - Size[r.payload]
  <2> DEFINE o == CommitRecord(r)
  <2>1. ops' = Append(ops, o) /\ rows' = rows \cup {tail} /\ tail' = tail + 1 /\ ver_high' = r.ver
    BY <1>5, Zenon DEF Commit, AppendRecord
  <2>2. o \in Operation /\ o.kind = "Commit" /\ o.payload = r.payload /\ o.ver = r.ver
    BY <1>2, Zenon DEF CommitRecord, Operation
  <2>3. /\ head \in Nat \ {0} /\ neck \in Nat /\ tail \in Nat /\ ver_high \in Nat
        /\ head <= neck /\ neck <= tail /\ rows = head..(tail - 1)
        /\ ops \in Seq(Operation) /\ Len(ops) = tail - 1 /\ ver_high <= r.ver
    <3>1. /\ head \in Nat \ {0} /\ neck \in Nat /\ tail \in Nat /\ ver_high \in Nat
          /\ head <= neck /\ neck <= tail /\ rows = head..(tail - 1)
          /\ ops \in Seq(Operation) /\ Len(ops) = tail - 1
      BY Zenon DEF PushInv, PushTypes
    <3>2. ver_high <= r.ver
      BY <1>1, <1>2, <1>5, <3>1
    <3> QED BY <3>1, <3>2, Zenon
  <2> HIDE DEF o
  <2>4. /\ ops' \in Seq(Operation) /\ Len(ops') = tail' - 1 /\ ops'[tail] = o
        /\ \A s \in 1..(tail - 1) : ops'[s] = ops[s]
    BY <2>1, <2>2, <2>3
  <2>5. PushTypes'
    <3>1. rows' = head'..(tail' - 1)
      BY <1>3, <2>1, <2>3
    <3> QED BY <1>2, <1>3, <2>1, <2>3, <2>4, <3>1 DEF PushInv, PushTypes
  <2>6. RecordsOK'
    <3>1. \A s \in 1..(tail' - 1) : s \in 1..(tail - 1) \/ s = tail
      BY <2>1, <2>3
    <3>2. \A s \in neck..(tail' - 1) : s \in neck..(tail - 1) \/ s = tail
      BY <2>1, <2>3
    <3>3. \A s \in neck..(tail - 1) : s \in 1..(tail - 1) /\ ops[s].ver \in Nat
      BY <2>3, Versions DEF PushInv
    <3>4. \A s \in 1..(tail' - 1) : ops'[s].kind = "Rollback" => ops'[s].payload < s
      BY <2>2, <2>4, <3>1, Zenon DEF PushInv, RecordsOK
    <3>5. \A s \in neck..(tail' - 1) : IsCommit(ops'[s]) => ops'[s].ver <= r.ver
      <4>1. \A s \in neck..(tail - 1) : IsCommit(ops'[s]) => ops'[s].ver <= r.ver
        <5>1. \A s \in neck..(tail - 1) : ops'[s] = ops[s] /\ ops[s].ver \in Nat
          BY <2>4, <3>3, Zenon
        <5>2. \A s \in neck..(tail - 1) : IsCommit(ops[s]) => ops[s].ver <= ver_high
          BY Zenon DEF PushInv, RecordsOK
        <5> QED BY <1>2, <2>3, <5>1, <5>2, SMTT(30)
      <4> QED BY <1>2, <2>2, <2>4, <3>2, <4>1
    <3>6. ASSUME NEW s \in neck..(tail' - 1), NEW t \in neck..(tail' - 1),
                 IsCommit(ops'[s]), s < t, IsCommit(ops'[t])
          PROVE  ops'[s].ver <= ops'[t].ver - Size[ops'[t].payload]
      <4>1. s \in neck..(tail - 1) /\ ops'[s] = ops[s]
        BY <2>1, <2>3, <2>4, <3>2, <3>3, <3>6
      <4>2. CASE t = tail
        BY <1>5, <2>2, <2>4, <3>6, <4>1, <4>2, Zenon DEF PushInv, RecordsOK
      <4>3. CASE t \in neck..(tail - 1)
        BY <2>4, <3>3, <3>6, <4>1, <4>3, Zenon DEF PushInv, RecordsOK
      <4> QED BY <3>2, <4>2, <4>3, Zenon
    <3> QED BY <1>3, <2>1, <3>4, <3>5, <3>6, Zenon DEF RecordsOK, IsCommit
  <2>7. ConfirmedOK'
    <3>1. \A i \in 1..Len(confirmed) : confirmed[i].seq \in 1..(neck - 1) /\ confirmed[i].seq \in 1..(tail - 1)
      BY <2>3 DEF PushInv, ConfirmedOK, Chain
    <3>2. \A i \in 1..Len(confirmed) : confirmed[i].op = ops'[confirmed[i].seq]
      BY <2>4, <3>1, Zenon DEF PushInv, ConfirmedOK, Chain
    <3> QED BY <1>3, <3>1, <3>2, Zenon DEF PushInv, ConfirmedOK, Chain, Covers, IsCommit
  <2>8. PushOK'
    BY <1>3, <2>1, <2>3 DEF PushInv, PushOK, Sent
  <2>9. Limit' \in Nat /\ Limit <= Limit'
    BY <1>3, <2>1, <2>3 DEF Limit, Sent, PushInv, PushOK
  <2>10. \A l \in neck..(Limit - 1) : l \in neck'..(Limit' - 1) /\ Batches(neck, l)' = Batches(neck, l)
    BY <1>3, <2>4, <2>9, WindowKeeps, Zenon DEF PushInv
  <2>11. HistoryOK'
    BY <1>3, <2>10, Zenon DEF PushInv, HistoryOK
  <2>12. Sent => push.last \in neck..(Limit - 1)
    BY Zenon DEF PushInv, PushOK, Limit
  <2>13. MailOK'
    <3>1. \A b : OfWindow(b) => OfWindow(b)'
      BY <2>10, Zenon DEF OfWindow
    <3> QED BY <1>3, <2>10, <2>12, <3>1, Zenon DEF PushInv, MailOK, Sent
  <2>14. ReplyOK'
    BY <1>3, <2>10, <2>12, Zenon DEF PushInv, ReplyOK, Sent, LastSeq
  <2>15. RejectionOK'
    BY <1>3, Zenon DEF PushInv, RejectionOK
  <2> QED BY <1>3, <2>5, <2>6, <2>7, <2>8, <2>11, <2>13, <2>14, <2>15, Zenon DEF PushInv
<1> QED BY <1>4, <1>5, Zenon

\* rollback: the window moves behind a marker.  Nothing is in flight and the
\* server has nothing of the window, because the rejection was definitive.
LEMMA RollbackKeeps ==
  ASSUME PushInv, Rollback
  PROVE  PushInv'
<1> DEFINE to == rejection.at
           o == [kind |-> "Rollback", payload |-> to, ver |-> 0]
<1>1. /\ head' = head /\ confirmed' = confirmed /\ ver_high' = ver_high /\ reserved' = reserved
      /\ push' = push /\ rejection' = rejection /\ mailbox' = mailbox /\ history' = history /\ forked' = forked
      /\ ops' = Append(ops, o) /\ rows' = rows \cup {tail} /\ tail' = tail + 1 /\ neck' = tail
      /\ retired' = retired \cup (neck..(tail - 1)) /\ to \in neck..(tail - 1)
  BY Zenon DEF Rollback, RollbackTo, AppendRecord
<1>2. push.stage = "idle" /\ ~Sent /\ mailbox = <<>> /\ history = confirmed
  BY Zenon DEF Rollback, SpacePermit, Sent, PushInv, RejectionOK
<1>3. /\ head \in Nat \ {0} /\ neck \in Nat \ {0} /\ tail \in Nat /\ ver_high \in Nat
      /\ head <= neck /\ neck <= tail /\ rows = head..(tail - 1)
      /\ ops \in Seq(Operation) /\ Len(ops) = tail - 1 /\ Len(confirmed) \in Nat
  BY DEF PushInv, PushTypes
<1>4. to \in Nat /\ to < tail
  BY <1>1, <1>3
<1>5. o \in Operation /\ o.kind = "Rollback" /\ o.payload = to /\ ~IsCommit(o)
  BY <1>4, Zenon DEF Operation, IsCommit
<1> HIDE DEF o, to
<1>6. /\ ops' \in Seq(Operation) /\ Len(ops') = tail' - 1 /\ ops'[tail] = o
      /\ \A s \in 1..(tail - 1) : ops'[s] = ops[s]
  BY <1>1, <1>3, <1>5, SMTT(30)
<1>7. PushTypes'
  <2>1. rows' = head'..(tail' - 1)
    BY <1>1, <1>3
  <2>2. /\ head' \in Nat \ {0} /\ neck' \in Nat /\ tail' \in Nat /\ head' <= neck' /\ neck' <= tail'
    BY <1>1, <1>3
  <2> QED BY <1>1, <1>6, <2>1, <2>2, Zenon DEF PushInv, PushTypes
<1>8. RecordsOK'
  <2>1. \A s \in 1..(tail' - 1) : s \in 1..(tail - 1) \/ s = tail
    BY <1>1, <1>3
  <2>2. \A s \in neck'..(tail' - 1) : s = tail
    BY <1>1, <1>3
  <2>3. \A s \in 1..(tail' - 1) : ops'[s].kind = "Rollback" => ops'[s].payload < s
    BY <1>4, <1>5, <1>6, <2>1, Zenon DEF PushInv, RecordsOK
  <2> QED BY <1>5, <1>6, <2>2, <2>3, Zenon DEF RecordsOK, IsCommit
<1>9. ConfirmedOK'
  <2>1. \A i \in 1..Len(confirmed) : /\ confirmed[i].seq \in 1..(tail - 1) /\ confirmed[i].seq \notin neck..(tail - 1)
                                    /\ confirmed[i].op = ops'[confirmed[i].seq]
    <3>1. \A i \in 1..Len(confirmed) : confirmed[i].seq \in 1..(neck - 1) /\ confirmed[i].op = ops[confirmed[i].seq]
      BY Zenon DEF PushInv, ConfirmedOK, Chain
    <3>2. \A s \in 1..(neck - 1) : s \in 1..(tail - 1) /\ s \notin neck..(tail - 1)
      BY <1>3
    <3> QED BY <1>6, <3>1, <3>2, Zenon
  <2>2. \A i \in 1..Len(confirmed) : IsCommit(confirmed[i].op) => confirmed[i].seq \notin retired'
    BY <1>1, <2>1, Zenon DEF PushInv, ConfirmedOK, Chain
  <2>3. Chain(confirmed, neck)'
    BY <1>1, <2>1, <2>2, Zenon DEF PushInv, ConfirmedOK, Chain, IsCommit
  <2>4. \A s \in 1..(tail - 1) : s \in 1..(neck - 1) \/ s \in neck..(tail - 1)
    BY <1>3
  <2>5. Covers(confirmed, neck)'
    BY <1>1, <2>4, Zenon DEF PushInv, ConfirmedOK, Covers
  <2>6. retired' \subseteq 1..(neck' - 1)
    BY <1>1, <1>3 DEF PushInv, ConfirmedOK
  <2> QED BY <2>3, <2>5, <2>6, Zenon DEF ConfirmedOK
<1>10. PushOK' /\ HistoryOK' /\ ReplyOK' /\ RejectionOK'
  BY <1>1, <1>2, Zenon DEF PushInv, PushOK, HistoryOK, ReplyOK, RejectionOK, Sent
<1>11. MailOK'
  BY <1>1, <1>2 DEF MailOK
<1> QED BY <1>1, <1>7, <1>8, <1>9, <1>10, <1>11, Zenon DEF PushInv

\* Steps after which no reply is awaited: the requests left behind are as they
\* were, and nobody listens to them.
LEMMA StopKeeps ==
  ASSUME PushInv, UNCHANGED <<clientVars, history, retired, forked>>, reserved' \subseteq Reservation,
         push'.stage \in {"idle", "loop"},
         push'.stage = "loop" => push'.through \in Nat \cup {None},
         mailbox' \in Seq(Request), Len(mailbox') = Len(mailbox),
         \A i \in 1..Len(mailbox) : /\ mailbox'[i].expected = mailbox[i].expected
                                   /\ mailbox'[i].batches = mailbox[i].batches
                                   /\ ~mailbox'[i].live,
         rejection' # None => mailbox = <<>> /\ history = confirmed /\ push'.stage = "idle"
  PROVE  PushInv'
<1>1. /\ head' = head /\ neck' = neck /\ tail' = tail /\ ops' = ops /\ rows' = rows /\ confirmed' = confirmed
      /\ ver_high' = ver_high /\ history' = history /\ retired' = retired /\ forked' = forked
  BY Zenon DEF clientVars
<1>2. PushTypes' /\ RecordsOK' /\ ConfirmedOK'
  BY <1>1, Zenon DEF PushInv, PushTypes, RecordsOK, ConfirmedOK, Chain, Covers, IsCommit
<1>3. ~Sent' /\ PushOK' /\ ReplyOK'
  BY Zenon DEF Sent, PushOK, ReplyOK
<1>4. Limit' \in Nat /\ Limit <= Limit'
  BY <1>1, <1>3, LimitBound, Zenon DEF Limit, PushInv, PushTypes
<1>5. \A l \in neck..(Limit - 1) : l \in neck'..(Limit' - 1) /\ Batches(neck, l)' = Batches(neck, l)
  BY <1>1, <1>4, WindowKeeps, Zenon DEF PushInv
<1>6. HistoryOK'
  BY <1>1, <1>5, Zenon DEF PushInv, HistoryOK
<1>7. MailOK'
  <2>1. \A b : OfWindow(b) => OfWindow(b)'
    BY <1>5, Zenon DEF OfWindow
  <2> QED BY <1>1, <2>1, Zenon DEF PushInv, MailOK
<1>8. RejectionOK'
  <2>1. mailbox = <<>> => mailbox' = <<>>
    OBVIOUS
  <2> QED BY <1>1, <2>1, Zenon DEF RejectionOK
<1> QED BY <1>1, <1>2, <1>3, <1>6, <1>7, <1>8, Zenon DEF PushInv

\* A group is not empty and does not go past its bound.
LEMMA GroupInWindow ==
  ASSUME PushTypes, NEW until \in neck..(tail - 1)
  PROVE  GroupEnd(until) \in neck..until
<1> DEFINE fits == {n \in neck..until : \A m \in (neck + 1)..n : Entries(m) <= PushCap}
<1>1. neck \in Nat /\ until \in Nat /\ neck \in neck..until
  BY DEF PushTypes
<1>2. (neck + 1)..neck = {}
  BY <1>1
<1>3. neck \in fits /\ fits \subseteq neck..until
  BY <1>1, <1>2, Zenon
<1>4. GroupEnd(until) = IF push.probe THEN neck ELSE CHOOSE n \in fits : \A m \in fits : m <= n
  BY Zenon DEF GroupEnd
<1> HIDE DEF fits
<1>5. \E n \in fits : \A m \in fits : m <= n
  <2>1. fits \in SUBSET Nat /\ fits # {} /\ \A m \in fits : m <= until
    BY <1>1, <1>3
  <2> QED BY <1>1, <2>1, GreatestNat, Zenon
<1>6. (CHOOSE n \in fits : \A m \in fits : m <= n) \in fits
  BY <1>5, Zenon
<1> QED BY <1>1, <1>3, <1>4, <1>6, Zenon

\* One request more in flight: the first records of the present window, after
\* the acknowledged prefix.
LEMMA SendKeeps ==
  ASSUME PushInv, PushSend
  PROVE  PushInv'
<1> DEFINE streamEnd == IF push.through # None THEN push.through ELSE tail - 1
           until == IF neck + PushCap - 1 < streamEnd THEN neck + PushCap - 1 ELSE streamEnd
           last == GroupEnd(until)
           request == [expected |-> confirmed, batches |-> Batches(neck, last), live |-> TRUE]
           n == Len(mailbox)
<1>1. /\ push.stage = "loop" /\ neck < tail
      /\ push.through # None => push.through >= neck /\ push.through < tail
      /\ mailbox' = Append(mailbox, request)
      /\ push' = [stage |-> "sent", through |-> push.through, probe |-> push.probe,
                  first |-> neck, last |-> last, tail |-> tail, confirmed |-> confirmed,
                  reply |-> None]
  BY Zenon DEF PushSend
<1>2. /\ head' = head /\ neck' = neck /\ tail' = tail /\ ops' = ops /\ rows' = rows /\ confirmed' = confirmed
      /\ ver_high' = ver_high /\ history' = history /\ retired' = retired /\ forked' = forked
      /\ reserved' = reserved /\ rejection' = rejection
  BY Zenon DEF PushSend, clientVars
<1>3. /\ neck \in Nat \ {0} /\ tail \in Nat /\ confirmed \in Seq(Batch) /\ mailbox \in Seq(Request)
      /\ PushCap \in Nat \ {0} /\ push.through \in Nat \cup {None} /\ None \notin Nat
  <2>1. PushCap \in Nat \ {0} /\ None \notin Nat
    BY PushAssumption, Zenon
  <2>2. /\ neck \in Nat /\ head \in Nat \ {0} /\ head <= neck
        /\ tail \in Nat /\ confirmed \in Seq(Batch) /\ mailbox \in Seq(Request)
    BY Zenon DEF PushInv, PushTypes
  <2>3. neck \in Nat \ {0}
    BY <2>2
  <2>4. push.through \in Nat \cup {None}
    BY <1>1, Zenon DEF PushInv, PushOK
  <2> QED BY <2>1, <2>2, <2>3, <2>4, Zenon
<1>4. streamEnd \in neck..(tail - 1)
  BY <1>1, <1>3
<1>5. until \in neck..(tail - 1) /\ until <= tail - 1
  BY <1>3, <1>4
<1> HIDE DEF streamEnd, until
<1>6. last \in neck..(tail - 1)
  BY <1>3, <1>5, GroupInWindow DEF PushInv
<1> HIDE DEF last
<1>7. Batches(neck, last) \in Seq(Batch)
  BY <1>3, <1>6, BatchesType DEF PushInv
<1>8. /\ request \in Request /\ request.expected = confirmed /\ request.batches = Batches(neck, last)
      /\ request.live = TRUE
  BY <1>3, <1>7, Zenon DEF Request
<1> HIDE DEF request
<1>9. /\ mailbox' \in Seq(Request) /\ Len(mailbox') = n + 1 /\ n \in Nat /\ mailbox'[n + 1] = request
      /\ \A i \in 1..n : mailbox'[i] = mailbox[i]
  BY <1>1, <1>3, <1>8
<1>10. /\ push'.stage = "sent" /\ push'.through = push.through /\ push'.first = neck /\ push'.last = last
       /\ push'.tail = tail /\ push'.confirmed = confirmed /\ push'.reply = None
       /\ push'.probe = push.probe
  BY <1>1, Zenon
<1>11. ~Sent /\ Sent' /\ Limit = tail /\ Limit' = tail
  BY <1>1, <1>10, Zenon DEF Sent, Limit
<1>12. \A l : Batches(neck, l)' = Batches(neck, l)
  BY <1>2, Zenon DEF Batches
<1>13. PushTypes' /\ RecordsOK' /\ ConfirmedOK'
  BY <1>2, <1>9, Zenon DEF PushInv, PushTypes, RecordsOK, ConfirmedOK, Chain, Covers, IsCommit
<1>14. PushOK'
  BY <1>1, <1>2, <1>3, <1>6, <1>10 DEF PushOK, Sent
<1>15. HistoryOK'
  BY <1>2, <1>11, <1>12, Zenon DEF PushInv, HistoryOK
<1>16. MailOK'
  <2>1. \A b : OfWindow(b) => OfWindow(b)'
    BY <1>2, <1>11, <1>12, Zenon DEF OfWindow
  <2>2. \A b : b = request.batches => OfWindow(b)'
    <3>1. last \in neck'..(Limit' - 1) /\ request.batches = Batches(neck, last)
      BY <1>2, <1>6, <1>8, <1>11, Zenon
    <3>2. \A l \in neck'..(Limit' - 1) : Batches(neck, l) = Batches(neck, l)'
      BY <1>12, Zenon
    <3> QED BY <3>1, <3>2, Zenon DEF OfWindow
  <2>3. \A i \in 1..n : ~mailbox[i].live
    BY <1>11, Zenon DEF PushInv, MailOK
  <2> SUFFICES ASSUME NEW i \in 1..(n + 1)
               PROVE  /\ Len(mailbox'[i].expected) <= Len(confirmed')
                      /\ mailbox'[i].expected = confirmed' => OfWindow(mailbox[i].batches)'
                      /\ mailbox'[i].live => /\ i = n + 1 /\ Sent' /\ mailbox'[i].expected = confirmed'
                                            /\ mailbox'[i].batches = Batches(neck, push.last)'
    BY <1>9, Zenon DEF MailOK
  <2>4. CASE i \in 1..n
    BY <1>2, <1>9, <2>1, <2>3, <2>4, Zenon DEF PushInv, MailOK
  <2>5. CASE i = n + 1
    <3>1. Len(confirmed) <= Len(confirmed)
      BY <1>3
    <3>2. OfWindow(mailbox[i].batches)'
      BY <1>9, <2>2, <2>5, Zenon
    <3>3. mailbox'[i].batches = Batches(neck, push.last)'
      BY <1>2, <1>8, <1>9, <1>10, <2>5, Zenon DEF Batches
    <3> QED BY <1>2, <1>8, <1>9, <1>11, <2>5, <3>1, <3>2, <3>3, Zenon
  <2> QED BY <1>9, <2>4, <2>5
<1>17. ReplyOK' /\ RejectionOK'
  BY <1>1, <1>2, <1>10, Zenon DEF ReplyOK, RejectionOK, PushInv
<1> QED BY <1>2, <1>13, <1>14, <1>15, <1>16, <1>17, Zenon DEF PushInv

\* trim_oplog after an acknowledgement, or a mismatch the records explain: the
\* acknowledged prefix is where the server is, and the window starts behind it.
LEMMA TrimKeeps ==
  ASSUME PushInv, Sent, mailbox = <<>>, NEW l \in neck..(tail - 1),
         history = confirmed \o Batches(neck, l), TrimOplog(l, history), ContinueAfterAck(l),
         UNCHANGED <<reserved, rejection, mailbox, history, retired, forked>>
  PROVE  PushInv'
<1>1. /\ head \in Nat \ {0} /\ neck \in Nat /\ tail \in Nat /\ head <= neck /\ neck <= tail
      /\ rows = head..(tail - 1) /\ l \in Nat
  BY DEF PushInv, PushTypes
<1>2. head' = l + 1 /\ neck' = l + 1
  BY <1>1 DEF TrimOplog
<1>3. rows' = (l + 1)..(tail - 1)
  BY <1>1 DEF TrimOplog, Retained
<1>4. /\ confirmed' = history /\ tail' = tail /\ ops' = ops /\ ver_high' = ver_high
      /\ reserved' = reserved /\ rejection' = rejection /\ mailbox' = mailbox /\ history' = history
      /\ retired' = retired /\ forked' = forked
  BY Zenon DEF TrimOplog
<1>5. PushTypes'
  BY <1>1, <1>2, <1>3, <1>4 DEF PushInv, PushTypes
<1>6. RecordsOK'
  <2>1. \A s \in neck'..(tail - 1) : s \in neck..(tail - 1)
    BY <1>1, <1>2
  <2> QED BY <1>4, <2>1, Zenon DEF PushInv, RecordsOK, IsCommit
<1>7. ConfirmedOK'
  <2>1. Chain(history, l + 1) /\ Covers(history, l + 1)
    BY ChainExtends, Zenon DEF PushInv
  <2>2. Chain(confirmed, neck)' /\ Covers(confirmed, neck)'
    BY <1>2, <1>4, <2>1, Zenon DEF Chain, Covers, IsCommit
  <2>3. retired' \subseteq 1..(neck' - 1)
    BY <1>1, <1>2, <1>4 DEF PushInv, ConfirmedOK
  <2> QED BY <2>2, <2>3, Zenon DEF ConfirmedOK
<1>8. push'.stage \in {"idle", "loop"} /\ (push'.stage = "loop" => push'.through \in Nat \cup {None})
  <2>1. push.through \in Nat \cup {None}
    BY Zenon DEF PushInv, PushOK, Sent
  <2> QED BY <2>1 DEF ContinueAfterAck, Finish, Idle, Again
<1>9. PushOK' /\ ReplyOK'
  BY <1>8, Zenon DEF PushOK, ReplyOK, Sent
<1>10. HistoryOK' /\ MailOK'
  BY <1>4 DEF HistoryOK, MailOK
<1>11. rejection = None
  BY Zenon DEF PushInv, RejectionOK, Sent
<1>12. RejectionOK'
  BY <1>4, <1>11, Zenon DEF RejectionOK
<1> QED BY <1>4, <1>5, <1>6, <1>7, <1>9, <1>10, <1>12, Zenon DEF PushInv

\* The last step of a push that was answered: acknowledged, or explained.
LEMMA AnsweredKeeps ==
  ASSUME PushInv, PushApplied \/ PushMismatch
  PROVE  PushInv'
<1>1. /\ Sent /\ push.reply # None
      /\ PushApplied => push.reply.kind = "Applied"
      /\ PushMismatch => push.reply.kind \in {"Mismatch", "Regression"}
  BY Zenon DEF PushApplied, PushMismatch, Arrived, Sent
<1>2. /\ mailbox = <<>> /\ push.first = neck /\ push.confirmed = confirmed /\ push.tail \in Nat
      /\ push.tail <= tail /\ push.last \in neck..(push.tail - 1) /\ rows = head..(tail - 1)
      /\ head \in Nat /\ neck \in Nat /\ tail \in Nat /\ head <= neck
  BY <1>1, Zenon DEF PushInv, ReplyOK, PushOK, PushTypes
<1>3. CASE PushApplied
  <2>1. push.reply.checksum = history /\ history = confirmed \o Batches(neck, push.last)
    BY <1>1, <1>3, Zenon DEF PushInv, ReplyOK
  <2>2. push.last \in neck..(tail - 1)
    BY <1>2
  <2> QED BY <1>1, <1>2, <1>3, <2>1, <2>2, TrimKeeps, Zenon DEF PushApplied
<1>4. CASE PushMismatch
  <2>1. /\ push.reply.kind = "Mismatch" /\ push.reply.checksum = history
        /\ push.reply.seq = LastSeq(history) /\ history # confirmed
    BY <1>1, <1>4, Zenon DEF PushInv, ReplyOK
  <2>2. PICK l \in neck..(push.tail - 1) : history = confirmed \o Batches(neck, l)
    BY <1>1, <2>1, Zenon DEF PushInv, HistoryOK, Limit
  <2>3. l \in neck..(tail - 1) /\ l \in rows /\ l >= neck /\ l < push.tail
    BY <1>2
  <2>4. push.reply.seq = l
    BY <2>1, <2>2, <2>3, LastOfExtended, Zenon DEF PushInv
  <2>5. Reproduces(push.reply.seq, push.reply.checksum)
    BY <1>2, <2>1, <2>2, <2>3, <2>4, Zenon DEF Reproduces
  <2>6. /\ TrimOplog(l, history) /\ ContinueAfterAck(l) /\ UNCHANGED forked
        /\ UNCHANGED <<reserved, rejection, mailbox, history, refused, retired>>
    BY <1>4, <2>1, <2>4, <2>5, Zenon DEF PushMismatch
  <2> QED BY <1>1, <1>2, <2>2, <2>3, <2>6, TrimKeeps, Zenon
<1> QED BY <1>3, <1>4, Zenon

\* A request the server can accept continues the acknowledged prefix with the
\* first records of the window.
LEMMA AcceptedIsOfWindow ==
  ASSUME PushInv, NEW i \in 1..Len(mailbox), mailbox[i].expected = history
  PROVE  history = confirmed /\ OfWindow(mailbox[i].batches)
<1>1. Len(history) <= Len(confirmed) /\ Len(history) \in Nat /\ Len(confirmed) \in Nat
  BY DEF PushInv, MailOK, PushTypes
<1>2. ASSUME NEW l \in neck..(Limit - 1), history = confirmed \o Batches(neck, l)
      PROVE  FALSE
  <2>1. l \in neck..(tail - 1)
    BY LimitBound DEF PushInv, PushTypes
  <2>2. Len(history) > Len(confirmed)
    BY <1>2, <2>1, LastOfExtended, Zenon DEF PushInv
  <2> QED BY <1>1, <2>2
<1>3. history = confirmed
  BY <1>2, Zenon DEF PushInv, HistoryOK
<1> QED BY <1>3, Zenon DEF PushInv, MailOK

\* A request of the running push is in order after the acknowledged prefix.
LEMMA NoRegression ==
  ASSUME PushInv, history = confirmed, NEW l \in neck..(tail - 1)
  PROVE  Consecutive(Batches(neck, l))
<1> DEFINE b == Batches(neck, l)
           k == l - neck + 1
<1>1. neck \in Nat \ {0} /\ l \in (neck - 1)..(tail - 1) /\ k \in Nat \ {0}
  BY DEF PushInv, PushTypes
<1>2. Len(b) = k /\ \A i \in 1..k : b[i].seq = neck + i - 1
  BY <1>1, BatchesType, Zenon DEF PushInv
<1>3. LastSeq(history) \in Nat /\ LastSeq(history) < neck
  BY LastOfConfirmed, Zenon DEF PushInv
<1> HIDE DEF b, k
<1>4. b[1].seq > LastSeq(history)
  <2>1. 1 \in 1..k /\ neck + 1 - 1 = neck
    BY <1>1
  <2> QED BY <1>1, <1>2, <1>3, <2>1, Zenon
<1>5. \A i \in 2..k : b[i].seq = b[i - 1].seq + 1
  <2> SUFFICES ASSUME NEW i \in 2..k PROVE b[i].seq = b[i - 1].seq + 1
    BY Zenon
  <2>1. i \in 1..k /\ i - 1 \in 1..k
    BY <1>1
  <2>2. b[i].seq = neck + i - 1 /\ b[i - 1].seq = neck + (i - 1) - 1
    BY <1>2, <2>1, Zenon
  <2> QED BY <1>1, <2>1, <2>2
<1> QED BY <1>2, <1>4, <1>5, Zenon DEF Consecutive, b

\* admit_impl: the server moves on only along the window, and its reply tells
\* the running push where it is.
LEMMA AdmitKeeps ==
  ASSUME PushInv, ServerAdmit
  PROVE  PushInv'
<1> DEFINE m == mailbox[1]
           v == Verdict(m)
           n == Len(mailbox)
<1>1. /\ mailbox # <<>> /\ mailbox' = Tail(mailbox)
      /\ history' = IF v.kind = "Applied" THEN v.checksum ELSE history
      /\ push' = IF m.live THEN [push EXCEPT !.reply = v] ELSE push
  BY Zenon DEF ServerAdmit
<1>2. /\ head' = head /\ neck' = neck /\ tail' = tail /\ ops' = ops /\ rows' = rows /\ confirmed' = confirmed
      /\ ver_high' = ver_high /\ retired' = retired /\ forked' = forked
      /\ reserved' = reserved /\ rejection' = rejection
  BY Zenon DEF ServerAdmit, clientVars
<1>3. /\ mailbox \in Seq(Request) /\ confirmed \in Seq(Batch) /\ history \in Seq(Batch)
      /\ neck \in Nat /\ tail \in Nat
  BY Zenon DEF PushInv, PushTypes
<1>4. /\ n \in Nat \ {0} /\ 1 \in 1..n /\ mailbox' \in Seq(Request) /\ Len(mailbox') = n - 1
      /\ \A i \in 1..Len(mailbox') : i + 1 \in 1..n /\ mailbox'[i] = mailbox[i + 1]
  BY <1>1, <1>3
<1>5. \A l : Batches(neck, l)' = Batches(neck, l)
  BY <1>2, Zenon DEF Batches
<1>6. v.kind = "Applied" => /\ m.expected = history /\ v.checksum = history \o m.batches
                            /\ history = confirmed /\ OfWindow(m.batches)
  <2>1. v.kind = "Applied" => m.expected = history /\ v.checksum = history \o m.batches
    BY Zenon DEF Verdict
  <2>2. m.expected = history => history = confirmed /\ OfWindow(m.batches)
    BY <1>4, AcceptedIsOfWindow, Zenon
  <2> QED BY <2>1, <2>2, Zenon
<1>7. rejection = None /\ ~(Sent /\ push.reply # None)
  BY <1>1, Zenon DEF PushInv, RejectionOK, ReplyOK
<1>8. m.live => /\ n = 1 /\ Sent /\ m.expected = confirmed /\ m.batches = Batches(neck, push.last)
                /\ mailbox' = <<>>
  <2>1. m.live => n = 1 /\ Sent /\ m.expected = confirmed /\ m.batches = Batches(neck, push.last)
    BY <1>4, Zenon DEF PushInv, MailOK
  <2>2. n = 1 => mailbox' = <<>>
    BY <1>4
  <2> QED BY <2>1, <2>2, Zenon
<1>9. m.live => push' = [stage |-> "sent", through |-> push.through, probe |-> push.probe,
                         first |-> push.first, last |-> push.last, tail |-> push.tail,
                         confirmed |-> push.confirmed, reply |-> v]
  <2> DEFINE p == [stage |-> "sent", through |-> push.through, probe |-> push.probe,
                   first |-> push.first, last |-> push.last, tail |-> push.tail,
                   confirmed |-> push.confirmed, reply |-> push.reply]
  <2>1. m.live => push = p
    BY <1>8, Zenon DEF PushInv, PushOK
  <2>2. m.live => push' = [p EXCEPT !.reply = v]
    BY <1>1, <2>1, Zenon
  <2> QED BY <2>2, Zenon
<1> HIDE DEF v
<1>10. /\ push'.stage = push.stage /\ (push.stage # "idle" => push'.through = push.through)
       /\ Sent => /\ push'.first = push.first /\ push'.last = push.last /\ push'.tail = push.tail
                  /\ push'.confirmed = push.confirmed /\ push'.probe = push.probe
  <2>1. CASE m.live
    BY <1>8, <1>9, <2>1 DEF Sent
  <2>2. CASE ~m.live
    BY <1>1, <2>2, Zenon
  <2> QED BY <2>1, <2>2, Zenon
<1>11. (Sent' <=> Sent) /\ Limit' = Limit
  BY <1>2, <1>10, Zenon DEF Sent, Limit
<1> HIDE DEF m
<1>12. history' = history \/ \E l \in neck..(Limit - 1) : history' = confirmed \o Batches(neck, l)
  BY <1>1, <1>6, Zenon DEF OfWindow
<1>13. history' \in Seq(Batch)
  <2>1. ASSUME NEW l \in neck..(Limit - 1) PROVE confirmed \o Batches(neck, l) \in Seq(Batch)
    <3>1. l \in neck..(tail - 1)
      BY <1>3, LimitBound DEF PushInv
    <3> QED BY <3>1, Extended, Zenon DEF PushInv
  <2> QED BY <1>3, <1>12, <2>1, Zenon
<1>14. PushTypes' /\ RecordsOK' /\ ConfirmedOK'
  BY <1>2, <1>4, <1>13 DEF PushInv, PushTypes, RecordsOK, ConfirmedOK, Chain, Covers, IsCommit
<1>15. PushOK'
  <2>1. CASE m.live
    BY <1>2, <1>9, <1>10, <1>11, <2>1, Zenon DEF PushInv, PushOK, Sent
  <2>2. CASE ~m.live
    <3>1. push' = push
      BY <1>1, <2>2, Zenon
    <3> QED BY <1>2, <3>1, Zenon DEF PushInv, PushOK, Sent
  <2> QED BY <2>1, <2>2, Zenon
<1>16. HistoryOK'
  BY <1>2, <1>5, <1>11, <1>12, Zenon DEF PushInv, HistoryOK
<1>17. MailOK'
  <2>1. \A b : OfWindow(b) => OfWindow(b)'
    BY <1>2, <1>5, <1>11, Zenon DEF OfWindow
  <2> SUFFICES ASSUME NEW i \in 1..Len(mailbox')
               PROVE  /\ Len(mailbox'[i].expected) <= Len(confirmed')
                      /\ mailbox'[i].expected = confirmed' => OfWindow(mailbox[i].batches)'
                      /\ mailbox'[i].live => /\ i = Len(mailbox') /\ Sent' /\ mailbox'[i].expected = confirmed'
                                            /\ mailbox'[i].batches = Batches(neck, push.last)'
    BY Zenon DEF MailOK
  <2>2. i + 1 \in 1..n /\ mailbox'[i] = mailbox[i + 1] /\ (i + 1 = n => i = Len(mailbox'))
    BY <1>4
  <2>3. Sent => Batches(neck, push.last)' = Batches(neck, push.last)
    BY <1>2, <1>10, Zenon DEF Batches
  <2> QED BY <1>2, <1>11, <2>1, <2>2, <2>3, Zenon DEF PushInv, MailOK
<1>18. ReplyOK'
  <2>1. CASE m.live
    <3>1. push'.reply = v /\ push'.last = push.last /\ mailbox' = <<>> /\ Sent
      BY <1>8, <1>9, <2>1
    <3>2. m.expected = confirmed /\ m.batches = Batches(neck, push.last)
      BY <1>8, <2>1, Zenon
    <3>3. CASE history # confirmed
      <4>1. v.kind = "Mismatch" /\ v.seq = LastSeq(history) /\ v.checksum = history
        BY <3>2, <3>3, Zenon DEF v, Verdict
      <4>2. history' = history
        BY <1>1, <4>1, Zenon
      <4> QED BY <1>2, <3>1, <3>3, <4>1, <4>2, Zenon DEF ReplyOK, LastSeq
    <3>4. CASE history = confirmed
      <4>1. push.last \in neck..(tail - 1)
        BY <1>3, <3>1 DEF PushInv, PushOK
      <4>2. Consecutive(m.batches)
        BY <3>2, <3>4, <4>1, NoRegression, Zenon
      <4>3. CASE Refuses(m.batches)
        <5>1. v.kind = "Refused"
          BY <3>2, <3>4, <4>2, <4>3, Zenon DEF v, Verdict
        <5>2. history' = history
          BY <1>1, <5>1, Zenon
        <5> QED BY <1>2, <3>1, <3>4, <5>1, <5>2, Zenon DEF ReplyOK
      <4>4. CASE ~Refuses(m.batches)
        <5>1. v.kind = "Applied" /\ v.checksum = history \o m.batches
          BY <3>2, <3>4, <4>2, <4>4, Zenon DEF v, Verdict
        <5>2. history' = v.checksum /\ history' = confirmed \o Batches(neck, push.last)
          BY <1>1, <3>2, <3>4, <5>1, Zenon
        <5>3. Batches(neck, push.last)' = Batches(neck, push.last)
          BY <1>2, <3>1, Zenon DEF Batches
        <5> QED BY <1>2, <3>1, <5>1, <5>2, <5>3, Zenon DEF ReplyOK
      <4> QED BY <4>3, <4>4, Zenon
    <3> QED BY <3>3, <3>4, Zenon
  <2>2. CASE ~m.live
    <3>1. push' = push
      BY <1>1, <2>2, Zenon
    <3> QED BY <1>7, <3>1, Zenon DEF ReplyOK, Sent
  <2> QED BY <2>1, <2>2, Zenon
<1>19. RejectionOK'
  BY <1>2, <1>7, Zenon DEF RejectionOK
<1> QED BY <1>2, <1>14, <1>15, <1>16, <1>17, <1>18, <1>19, Zenon DEF PushInv

\* The actor's restart: nothing is in flight, and a push still waiting ends.
LEMMA RestartKeeps ==
  ASSUME PushInv, ServerRestart
  PROVE  PushInv'
<1>1. /\ mailbox # <<>> /\ mailbox' = <<>>
      /\ head' = head /\ neck' = neck /\ tail' = tail /\ ops' = ops /\ rows' = rows /\ confirmed' = confirmed
      /\ ver_high' = ver_high /\ history' = history /\ retired' = retired /\ forked' = forked
      /\ reserved' = reserved /\ rejection' = rejection
  BY Zenon DEF ServerRestart, clientVars
<1>2. rejection = None /\ ~(Sent /\ push.reply # None)
  BY <1>1, Zenon DEF PushInv, RejectionOK, ReplyOK
<1>3. PushTypes' /\ RecordsOK' /\ ConfirmedOK'
  <2>1. PushTypes'
    BY <1>1 DEF PushInv, PushTypes
  <2>2. RecordsOK'
    BY <1>1, Zenon DEF PushInv, RecordsOK, IsCommit
  <2>3. ConfirmedOK'
    BY <1>1, Zenon DEF PushInv, ConfirmedOK, Chain, Covers, IsCommit
  <2> QED BY <2>1, <2>2, <2>3, Zenon
<1>4. MailOK' /\ RejectionOK'
  <2>1. \A i \in 1..Len(mailbox') : FALSE
    BY <1>1
  <2>2. MailOK'
    BY <2>1, Zenon DEF MailOK
  <2>3. RejectionOK'
    BY <1>1, <1>2, Zenon DEF RejectionOK
  <2> QED BY <2>2, <2>3, Zenon
<1>5. CASE push' = Idle
  <2>1. ~Sent' /\ PushOK' /\ ReplyOK'
    BY <1>5, Zenon DEF Idle, Sent, PushOK, ReplyOK
  <2>2. Limit' \in Nat /\ Limit <= Limit'
    BY <1>1, <2>1, LimitBound, Zenon DEF Limit, PushInv, PushTypes
  <2>3. \A l \in neck..(Limit - 1) : l \in neck'..(Limit' - 1) /\ Batches(neck, l)' = Batches(neck, l)
    BY <1>1, <2>2, WindowKeeps, Zenon DEF PushInv
  <2>4. HistoryOK'
    BY <1>1, <2>3, Zenon DEF PushInv, HistoryOK
  <2> QED BY <1>1, <1>3, <1>4, <2>1, <2>4, Zenon DEF PushInv
<1>6. CASE push' = push
  <2>1. PushOK'
    BY <1>1, <1>6, Zenon DEF PushInv, PushOK, Sent
  <2>2. ReplyOK'
    BY <1>2, <1>6, Zenon DEF ReplyOK, Sent
  <2>3. Limit' = Limit /\ \A l : Batches(neck, l)' = Batches(neck, l)
    BY <1>1, <1>6, Zenon DEF Limit, Sent, Batches
  <2>4. HistoryOK'
    BY <1>1, <2>3, Zenon DEF PushInv, HistoryOK
  <2> QED BY <1>1, <1>3, <1>4, <2>1, <2>2, <2>4, Zenon DEF PushInv
<1> QED BY <1>5, <1>6, Zenon DEF ServerRestart

\* Nobody awaits a reply unless a request is out.
LEMMA NobodyListens ==
  ASSUME PushInv, ~Sent
  PROVE  \A i \in 1..Len(mailbox) : ~mailbox[i].live
BY Zenon DEF PushInv, MailOK

\* GiveUp and ClientCrash leave the requests in the mailbox, with no listener.
LEMMA Deafened ==
  ASSUME PushInv, mailbox' = [i \in DOMAIN mailbox |-> [mailbox[i] EXCEPT !.live = FALSE]]
  PROVE  /\ mailbox' \in Seq(Request) /\ Len(mailbox') = Len(mailbox)
         /\ \A i \in 1..Len(mailbox) : /\ mailbox'[i].expected = mailbox[i].expected
                                       /\ mailbox'[i].batches = mailbox[i].batches
                                       /\ ~mailbox'[i].live
<1> DEFINE d(i) == [mailbox[i] EXCEPT !.live = FALSE]
<1>1. mailbox \in Seq(Request) /\ DOMAIN mailbox = 1..Len(mailbox) /\ Len(mailbox) \in Nat
  BY DEF PushInv, PushTypes
<1>2. \A i \in 1..Len(mailbox) : mailbox[i] \in Request
  BY <1>1
<1>3. \A i \in 1..Len(mailbox) : /\ d(i) \in Request /\ d(i).expected = mailbox[i].expected
                                 /\ d(i).batches = mailbox[i].batches /\ ~d(i).live
  <2>1. \A r \in Request : LET e == [r EXCEPT !.live = FALSE] IN
          e \in Request /\ e.expected = r.expected /\ e.batches = r.batches /\ ~e.live
    BY Zenon DEF Request
  <2> QED BY <1>2, <2>1, Zenon
<1>4. mailbox' = [i \in 1..Len(mailbox) |-> d(i)]
  BY <1>1, Zenon
<1> HIDE DEF d
<1>5. mailbox' \in Seq(Request) /\ Len(mailbox') = Len(mailbox)
  <2> DEFINE n == Len(mailbox)
  <2>1. n \in Nat /\ mailbox' = [i \in 1..n |-> d(i)] /\ \A i \in 1..n : d(i) \in Request
    BY <1>1, <1>3, <1>4, Zenon
  <2> HIDE DEF n
  <2>2. mailbox' \in [1..n -> Request]
    BY <2>1, Zenon
  <2>3. mailbox' \in Seq(Request)
    BY <2>1, <2>2
  <2>4. DOMAIN mailbox' = 1..n
    BY <2>2, Zenon
  <2>5. Len(mailbox') = n
    BY <2>1, <2>3, <2>4
  <2> QED BY <2>3, <2>5, Zenon DEF n
<1>6. \A i \in 1..Len(mailbox) : mailbox'[i] = d(i)
  BY <1>4, Zenon
<1> QED BY <1>3, <1>5, <1>6, Zenon

\* Every step of the client, the server and their environment keeps the invariant.
LEMMA PushNextInv == PushInv /\ [Next]_vars => PushInv'
<1> SUFFICES ASSUME PushInv, [Next]_vars PROVE PushInv'
  BY Zenon
<1>1. /\ ver_high \in Nat /\ reserved \subseteq Reservation /\ mailbox \in Seq(Request)
      /\ tail \in Nat /\ MaxSeq \in Nat /\ MaxVer \in Nat
  BY PushAssumption, Zenon DEF PushInv, PushTypes
<1>2. ASSUME NEW p \in Payload, Reserve(p) PROVE PushInv'
  <2>1. [seq |-> tail, ver |-> ver_high + Size[p], payload |-> p] \in Reservation
    <3>1. Size[p] \in Nat
      BY <1>2, PushAssumption, Zenon
    <3> QED BY <1>1, <1>2, <3>1 DEF Reservation
  <2>2. reserved' \subseteq Reservation /\ ver_high' = ver_high
    BY <1>1, <1>2, <2>1, Zenon DEF Reserve, clientVars
  <2> QED BY <1>1, <1>2, <2>2, SameKeeps DEF Reserve, clientVars
<1>3. ASSUME NEW r \in reserved, Commit(r) PROVE PushInv'
  BY <1>3, CommitKeeps, Zenon
<1>4. ASSUME NEW v \in 1..MaxVer, PullRaisesVer(v) PROVE PushInv'
  <2>1. ver_high' \in Nat /\ ver_high <= ver_high'
    BY <1>1, <1>4 DEF PullRaisesVer
  <2> QED BY <1>1, <1>4, <2>1, SameKeeps, Zenon DEF PullRaisesVer
<1>5. CASE Rollback \/ RollbackIfUnchanged
  BY <1>5, RollbackKeeps, Zenon DEF RollbackIfUnchanged
<1>6. ASSUME NEW through \in {None} \cup 1..MaxSeq, StartPush(through) PROVE PushInv'
  <2>1. /\ push'.stage = "loop" /\ push'.through \in Nat \cup {None} /\ rejection' = None
        /\ mailbox' = mailbox /\ reserved' = reserved /\ ~Sent
        /\ UNCHANGED <<clientVars, history, retired, forked>>
    BY <1>1, <1>6 DEF StartPush, SpacePermit, Sent
  <2> QED BY <1>1, <2>1, NobodyListens, StopKeeps, Zenon
<1>7. CASE PushEnds
  <2>1. /\ push'.stage = "idle" /\ rejection' = rejection /\ mailbox' = mailbox /\ reserved' = reserved /\ ~Sent
        /\ push.stage = "loop" /\ UNCHANGED <<clientVars, history, retired, forked>>
    BY <1>7, Zenon DEF PushEnds, Finish, Idle, Sent
  <2>2. rejection' = None
    BY <2>1, Zenon DEF PushInv, RejectionOK
  <2> QED BY <1>1, <2>1, <2>2, NobodyListens, StopKeeps, Zenon
<1>8. CASE PushSend
  BY <1>8, SendKeeps, Zenon
<1>9. CASE PushApplied \/ PushMismatch
  BY <1>9, AnsweredKeeps, Zenon
<1>10. CASE PushRefused
  <2>1. Sent /\ push.reply # None /\ push.reply.kind = "Refused" /\ mailbox' = mailbox /\ reserved' = reserved
        /\ UNCHANGED <<clientVars, history, retired, forked>>
    BY <1>10, Zenon DEF PushRefused, Arrived, Sent
  <2>2. /\ mailbox = <<>> /\ history = confirmed /\ rejection = None /\ push.through \in Nat \cup {None}
    BY <2>1, Zenon DEF PushInv, ReplyOK, RejectionOK, PushOK, Sent
  <2>3. \/ push'.stage = "loop" /\ push'.through = push.through /\ rejection' = rejection
        \/ push'.stage = "idle"
    <3>1. CASE push.last > push.first
      BY <1>10, <3>1 DEF PushRefused, Again
    <3>2. CASE ~(push.last > push.first)
      BY <1>10, <3>2 DEF PushRefused, Finish, Idle
    <3> QED BY <3>1, <3>2, Zenon
  <2>4. \A i \in 1..Len(mailbox) : FALSE
    BY <2>2
  <2> QED BY <1>1, <2>1, <2>2, <2>3, <2>4, StopKeeps, Zenon
<1>11. CASE GiveUp
  <2>1. /\ push'.stage = "idle" /\ rejection' = rejection /\ reserved' = reserved /\ Sent
        /\ mailbox' = [i \in DOMAIN mailbox |-> [mailbox[i] EXCEPT !.live = FALSE]]
        /\ UNCHANGED <<clientVars, history, retired, forked>>
    BY <1>11, Zenon DEF GiveUp, Finish, Idle, Sent
  <2>2. rejection' = None
    BY <2>1, Zenon DEF PushInv, RejectionOK, Sent
  <2> QED BY <1>1, <2>1, <2>2, Deafened, StopKeeps, Zenon
<1>12. CASE ClientCrash
  <2>1. /\ push'.stage = "idle" /\ rejection' = None /\ reserved' = {}
        /\ mailbox' = [i \in DOMAIN mailbox |-> [mailbox[i] EXCEPT !.live = FALSE]]
        /\ UNCHANGED <<clientVars, history, retired, forked>>
    BY <1>12, Zenon DEF ClientCrash, Finish, Idle
  <2> QED BY <2>1, Deafened, StopKeeps, Zenon
<1>13. CASE ServerAdmit
  BY <1>13, AdmitKeeps, Zenon
<1>14. CASE ServerRestart
  BY <1>14, RestartKeeps, Zenon
<1>15. CASE RefusalsChange
  BY <1>1, <1>15, SameKeeps DEF RefusalsChange, clientVars
<1>16. CASE UNCHANGED vars
  BY <1>1, <1>16, SameKeeps DEF vars, clientVars
<1> QED
  BY <1>2, <1>3, <1>4, <1>5, <1>6, <1>7, <1>8, <1>9, <1>10, <1>11, <1>12, <1>13, <1>14, <1>15, <1>16, Zenon
  DEF Next, PushStep

\* The protocol's invariant, in every reachable state: the server is at the
\* acknowledged prefix or past it by the first records of the window.
THEOREM PushInvariance == Spec => []PushInv
<1> QED BY PushInitInv, PushNextInv, PTL DEF Spec

\* The invariants certify asserts when a client opens, after any crash, rollback
\* or lost reply: ordered cursors, rows exactly between them, markers that point
\* back and versions that grow along the active window (meta.rs certify).
THEOREM CertifiedAlways == Spec => []Certified
<1>1. PushInv => Certified
  <2> SUFFICES ASSUME PushInv PROVE Certified
    BY Zenon
  <2>1. rows \subseteq 1..(tail - 1) /\ head <= neck /\ neck <= tail /\ rows = head..(tail - 1)
    BY DEF PushInv, PushTypes
  <2> QED BY <2>1, Zenon DEF PushInv, RecordsOK, Certified
<1> QED BY <1>1, PushInvariance, PTL

\* Where the server is, in terms of the client's records.
LEMMA HistoryIsChain ==
  ASSUME PushInv
  PROVE  /\ Chain(history, tail) /\ Covers(history, neck) /\ Len(confirmed) <= Len(history)
         /\ \A i \in 1..Len(confirmed) : history[i] = confirmed[i]
         /\ \A i \in (Len(confirmed) + 1)..Len(history) : history[i].seq \in neck..(tail - 1)
<1>1. /\ neck \in Nat \ {0} /\ tail \in Nat /\ neck <= tail /\ Len(confirmed) \in Nat
  BY DEF PushInv, PushTypes
<1>2. CASE history = confirmed
  <2>1. \A s \in 1..(neck - 1) : s \in 1..(tail - 1)
    BY <1>1
  <2> QED BY <1>1, <1>2, <2>1 DEF PushInv, ConfirmedOK, Chain
<1>3. ASSUME NEW l \in neck..(Limit - 1), history = confirmed \o Batches(neck, l)
      PROVE  /\ Chain(history, tail) /\ Covers(history, neck) /\ Len(confirmed) <= Len(history)
             /\ \A i \in 1..Len(confirmed) : history[i] = confirmed[i]
             /\ \A i \in (Len(confirmed) + 1)..Len(history) : history[i].seq \in neck..(tail - 1)
  <2> DEFINE n == Len(confirmed)
             k == l - neck + 1
  <2>1. l \in neck..(tail - 1) /\ l \in Nat /\ k \in Nat
    BY <1>1, LimitBound DEF PushInv
  <2>2. Chain(history, l + 1) /\ Covers(history, l + 1)
    BY <1>3, <2>1, ChainExtends, Zenon DEF PushInv
  <2>3. /\ Len(history) = n + k /\ \A i \in 1..n : history[i] = confirmed[i]
        /\ \A i \in 1..k : history[n + i].seq = neck + i - 1
    BY <1>3, <2>1, Extended, Zenon DEF PushInv
  <2>4. \A s \in 1..((l + 1) - 1) : s \in 1..(tail - 1)
    BY <1>1, <2>1
  <2>5. \A s \in 1..(neck - 1) : s \in 1..((l + 1) - 1)
    BY <1>1, <2>1
  <2>6. Chain(history, tail)
    BY <2>2, <2>4, Zenon DEF Chain
  <2>7. Covers(history, neck)
    BY <2>2, <2>5, Zenon DEF Covers
  <2> HIDE DEF n
  <2>8. ASSUME NEW i \in (n + 1)..Len(history) PROVE history[i].seq \in neck..(tail - 1)
    <3>1. n \in Nat /\ i - n \in 1..k /\ n + (i - n) = i
      BY <1>1, <2>1, <2>3 DEF n
    <3>2. history[i].seq = neck + (i - n) - 1
      BY <2>3, <3>1, Zenon
    <3> QED BY <1>1, <2>1, <3>1, <3>2
  <2>9. n <= Len(history)
    BY <1>1, <2>1, <2>3 DEF n
  <2> QED BY <2>3, <2>6, <2>7, <2>8, <2>9, Zenon DEF n
<1> QED BY <1>2, <1>3, Zenon DEF PushInv, HistoryOK

\* Exactly once, in order, as written: the server has of the device its records
\* in their order, none given up, and what left the submit log is there or was
\* given up (push_space, trim_oplog, rollback).
THEOREM ExactlyOnce == Spec => []ExactlyOnceInOrder
<1>1. PushInv => ExactlyOnceInOrder
  <2> SUFFICES ASSUME PushInv PROVE ExactlyOnceInOrder
    BY Zenon
  <2>1. /\ DOMAIN history = 1..Len(history) /\ head \in Nat /\ neck \in Nat /\ tail \in Nat /\ head <= neck
    BY DEF PushInv, PushTypes
  <2>2. Chain(history, tail) /\ Covers(history, neck)
    BY HistoryIsChain, Zenon
  <2>3. AtMostOnceInOrder
    <3>1. \A i \in 1..Len(history) : history[i].seq < tail
      BY <2>1, <2>2 DEF Chain
    <3> QED BY <2>1, <2>2, <3>1, Zenon DEF Chain, AtMostOnceInOrder
  <2>4. TrimmedIsAdmitted
    <3>1. \A s \in 1..(head - 1) : s \in 1..(neck - 1)
      BY <2>1
    <3> QED BY <2>1, <2>2, <3>1, Zenon DEF Covers, TrimmedIsAdmitted
  <2> QED BY <2>3, <2>4, Zenon DEF ExactlyOnceInOrder
<1> QED BY <1>1, PushInvariance, PTL

\* A client that rolls back only on a definitive rejection never meets Fork, and
\* can always re-derive the server's position from what it retains (push_space's
\* mismatch branch).
THEOREM ForkFree == Spec => []NeverForks
<1>1. PushInv => NeverForks
  <2> SUFFICES ASSUME PushInv PROVE NeverForks
    BY Zenon
  <2>1. /\ confirmed \in Seq(Batch) /\ history \in Seq(Batch) /\ rows = head..(tail - 1)
        /\ head \in Nat /\ neck \in Nat /\ tail \in Nat /\ head <= neck /\ forked = FALSE
    BY Zenon DEF PushInv, PushTypes
  <2>2. /\ Len(confirmed) <= Len(history) /\ \A i \in 1..Len(confirmed) : confirmed[i] = history[i]
        /\ \A i \in (Len(confirmed) + 1)..Len(history) : history[i].seq \in neck..(tail - 1)
    BY HistoryIsChain, Zenon
  <2>3. SubSeq(history, 1, Len(confirmed)) = confirmed
    BY <2>1, <2>2, PrefixByElements, Zenon
  <2>4. \A s \in neck..(tail - 1) : s \in rows
    BY <2>1
  <2> QED BY <2>1, <2>2, <2>3, <2>4, Zenon DEF NeverForks, UnacknowledgedIsRetained
<1> QED BY <1>1, PushInvariance, PTL

\* No step lowers the version high-water: reservations sealed earlier are checked
\* again before they are written (reserve_commit, commit, append_admits).
THEOREM VersionsGrow == Spec => VersionsOnlyGrow
<1>1. PushInv /\ [Next]_vars => [ver_high' >= ver_high]_ver_high
  <2> SUFFICES ASSUME PushInv, Next PROVE ver_high' >= ver_high \/ ver_high' = ver_high
    BY Zenon DEF vars, clientVars
  <2>1. ver_high \in Nat /\ reserved \subseteq Reservation
    BY Zenon DEF PushInv, PushTypes
  <2>2. ASSUME NEW r \in reserved, Commit(r) PROVE ver_high' >= ver_high \/ ver_high' = ver_high
    <3>1. r.ver \in Nat /\ Size[r.payload] \in Nat
      BY <2>1, PushAssumption, Zenon DEF Reservation
    <3> QED BY <2>1, <2>2, <3>1 DEF Commit
  <2>3. ASSUME NEW v \in 1..MaxVer, PullRaisesVer(v) PROVE ver_high' >= ver_high
    BY <2>1, <2>3, PushAssumption DEF PullRaisesVer
  <2>4. CASE Rollback \/ RollbackIfUnchanged
    BY <2>4, Zenon DEF RollbackIfUnchanged, Rollback, RollbackTo
  <2>5. CASE PushStep
    BY <2>5, Zenon DEF PushStep, PushEnds, PushSend, PushApplied, PushRefused, PushMismatch, TrimOplog, clientVars
  <2> QED
    BY <2>2, <2>3, <2>4, <2>5, Zenon
    DEF Next, Reserve, StartPush, GiveUp, ClientCrash, ServerAdmit, ServerRestart, RefusalsChange, clientVars
<1> QED BY <1>1, PushInvariance, PTL DEF Spec, VersionsOnlyGrow
=============================================================================
