---------------------------- MODULE RowIdProofs -----------------------------
(***************************************************************************)
(* Rowids are never reissued, whatever the widths, the number of replicas  *)
(* and the places where processes stop.                                    *)
(*                                                                         *)
(* RowidsUnique is not inductive: that the next offset of a cached lease   *)
(* was never issued follows from the file being ahead of every process.    *)
(* RowInv says it: every issued rowid is in a slot its replica's file      *)
(* records, below the lease frontier when that slot is the active one; a   *)
(* cached lease is the end of what the file has leased; no two images have *)
(* the same device.                                                        *)
(***************************************************************************)
EXTENDS RowIds, TLAPS

Image == [tables : SUBSET Components, device : Devices \cup {NoDevice}, slot : Nat,
          through : Nat, slots : SUBSET Nat]

RowTypeOK ==
    /\ file \in [Replicas -> Image]
    /\ process \in [Replicas -> [pc : {"closed", "initializing", "open"}, work : Image,
                                 lease : [slot : Nat, next : Nat, end : Nat]]]
    /\ minted \in SUBSET Devices
    /\ reissued \in BOOLEAN

\* An image that is not fully initialized has no device.
ImageOK(f) == \/ f.device = NoDevice /\ f.slots = {} /\ f.tables # Components
              \/ f.device \in minted /\ f.tables = Components /\ ValidSlots(f)

Images == /\ \A r \in Replicas : ImageOK(file[r]) /\ ImageOK(process[r].work)
          /\ \A r \in Replicas : file[r].tables \in {{}, Components}
          /\ \A r \in Replicas : file[r].tables = {} => file[r] = Blank

Positions ==
    \A r \in Replicas :
        /\ process[r].pc = "initializing" => file[r].device = NoDevice
        /\ process[r].pc = "open" => file[r].device # NoDevice
        /\ process[r].pc # "initializing" => process[r].work.device = NoDevice

DevicesDiffer ==
    \A r, q \in Replicas :
        /\ file[r].device = file[q].device => r = q \/ file[r].device = NoDevice
        /\ file[r].device = process[q].work.device => file[r].device = NoDevice
        /\ process[r].work.device = process[q].work.device
              => r = q \/ process[r].work.device = NoDevice

Issued(rowid, r, slot, offset) ==
    /\ slot \in file[r].slots
    /\ rowid = compose(slot, offset)
    /\ slot = file[r].slot => offset < file[r].through

Owned ==
    \A rowid \in issued : \E r \in Replicas : \E slot \in file[r].slots :
        \E offset \in 0..SlotCapacity - 1 : Issued(rowid, r, slot, offset)

LeaseOK(r) ==
    LET l == process[r].lease
    IN  l.next # l.end =>
          /\ process[r].pc = "open" /\ l.slot = file[r].slot
          /\ l.next < l.end /\ l.end = file[r].through
          /\ \A offset \in l.next..l.end - 1 : compose(l.slot, offset) \notin issued

RowInv ==
    /\ RowTypeOK /\ Images /\ Positions /\ DevicesDiffer /\ Owned
    /\ \A r \in Replicas : LeaseOK(r)
    /\ ~reissued

\* A number has one representation with a low digit below the radix: what
\* keeps slots apart in compose and tags apart in slots.
LEMMA MixedRadix ==
    ASSUME NEW C \in Nat \ {0}, NEW a \in Nat, NEW b \in Nat,
           NEW x \in 0..C - 1, NEW y \in 0..C - 1,
           a * C + x = b * C + y
    PROVE  a = b /\ x = y
<1>1. ASSUME NEW m \in Nat, NEW n \in Nat, m < n
      PROVE  m * C + C <= n * C
  <2>1. PICK k \in Nat : n = m + 1 + k
    <3>1. n - m - 1 \in Nat /\ n = m + 1 + (n - m - 1)
      BY <1>1
    <3> QED BY <3>1, Zenon
  <2>2. n * C = m * C + C + k * C
    BY <2>1
  <2>3. k * C \in Nat
    BY <2>1
  <2>4. m * C \in Nat
    OBVIOUS
  <2> QED BY <2>2, <2>3, <2>4
<1>2. a * C \in Nat /\ b * C \in Nat
  OBVIOUS
<1>3. ~(a < b)
  BY <1>1, <1>2
<1>4. ~(b < a)
  BY <1>1, <1>2
<1>5. a = b
  BY <1>3, <1>4
<1> QED BY <1>2, <1>5

\* compose gives different rowids to different slots and offsets.
LEMMA ComposeInjective ==
    ASSUME NEW s \in Nat, NEW t \in Nat,
           NEW x \in 0..SlotCapacity - 1, NEW y \in 0..SlotCapacity - 1,
           compose(s, x) = compose(t, y)
    PROVE  s = t /\ x = y
BY MixedRadix, RowIdAssumption DEF compose

\* Under distinct tags the slots of two devices are different.
LEMMA SlotsApart ==
    ASSUME DistinctTags, NEW d \in Devices, NEW e \in Devices,
           NEW s \in UnusedSlots(d, {}), s \in UnusedSlots(e, {})
    PROVE  d = e
<1>1. PICK x \in 0..SuffixRange - 1 : s = TagOf(d) * SuffixRange + x
  BY Zenon DEF UnusedSlots
<1>2. PICK y \in 0..SuffixRange - 1 : s = TagOf(e) * SuffixRange + y
  BY Zenon DEF UnusedSlots
<1>3. TagOf(d) = TagOf(e)
  BY <1>1, <1>2, MixedRadix, RowIdAssumption, Zenon
<1> QED BY <1>3, Zenon DEF DistinctTags

\* A slot (the tag of its device times the suffix range, plus a suffix) is a natural
\* number.
LEMMA SlotsAreNat ==
    ASSUME NEW d \in Devices, NEW S, NEW s \in UnusedSlots(d, S)
    PROVE  s \in Nat
<1>1. PICK x \in 0..SuffixRange - 1 : s = TagOf(d) * SuffixRange + x
  BY Zenon DEF UnusedSlots
<1>2. TagOf(d) * SuffixRange \in Nat
  BY RowIdAssumption
<1> QED BY <1>1, <1>2, RowIdAssumption

\* The end of a lease (min of the lease size and the end of the slot) is past its
\* first offset and not past the end of the slot.
LEMMA LeaseEndBounds ==
    ASSUME NEW start \in Nat, start < SlotCapacity
    PROVE  LeaseEnd(start) \in Nat /\ start < LeaseEnd(start) /\ LeaseEnd(start) <= SlotCapacity
BY RowIdAssumption DEF LeaseEnd

\* A slot of one replica's file is in no other replica's.
LEMMA SlotOwner ==
    ASSUME RowInv, DistinctTags, NEW r \in Replicas, NEW q \in Replicas,
           NEW s \in file[r].slots, s \in file[q].slots
    PROVE  r = q
<1>1. file[r].device \in Devices /\ file[q].device \in Devices
  BY RowIdAssumption, Zenon DEF RowInv, Images, ImageOK, ValidSlots
<1>2. s \in UnusedSlots(file[r].device, {}) /\ s \in UnusedSlots(file[q].device, {})
  BY Zenon DEF RowInv, Images, ImageOK, ValidSlots
<1>3. file[r].device = file[q].device
  BY <1>1, <1>2, SlotsApart, Zenon
<1> QED BY <1>1, <1>3, RowIdAssumption, Zenon DEF RowInv, DevicesDiffer

\* A database that was never opened satisfies the invariant: nothing is leased and
\* nothing was issued.
THEOREM RowInitInv == RowInit => RowInv
<1> SUFFICES ASSUME RowInit PROVE RowInv
  BY Zenon
<1>1. RowTypeOK
  BY RowIdAssumption, Zenon DEF RowInit, RowTypeOK, Image, Blank, Closed, NoLease, Components
<1>2. Images
  BY Zenon DEF RowInit, Images, ImageOK, Blank, Closed, Components
<1>3. Positions /\ DevicesDiffer
  BY Zenon DEF RowInit, Positions, DevicesDiffer, Blank, Closed
<1>4. Owned /\ \A r \in Replicas : LeaseOK(r)
  BY Zenon DEF RowInit, Owned, LeaseOK, Closed, NoLease
<1> QED BY <1>1, <1>2, <1>3, <1>4, Zenon DEF RowInv, RowInit

\* Opening, initializing and stopping touch neither leases nor issued rowids.
LEMMA OpenStep ==
    ASSUME RowInv, NEW r \in Replicas,
           OpenFresh(r) \/ Reopen(r) \/ InitializeTables(r) \/ Stop(r)
    PROVE  RowInv'
<1> USE DEF RowInv
<1>0. UNCHANGED <<file, minted, issued, reissued>>
  BY Zenon DEF OpenFresh, Reopen, InitializeTables, Stop
<1>1. /\ Blank \in Image /\ NoLease \in [slot : Nat, next : Nat, end : Nat]
      /\ Components \ {"rowids"} \in SUBSET Components /\ Components \ {"rowids"} # Components
  BY Zenon DEF Blank, Image, NoLease, Components
<1>2. RowTypeOK'
  <2>1. CASE InitializeTables(r)
    <3> DEFINE Lease == [slot : Nat, next : Nat, end : Nat]
               Process == [pc : {"closed", "initializing", "open"}, work : Image, lease : Lease]
               w == [process[r].work EXCEPT !.tables = Components \ {"rowids"}]
               p == [process[r] EXCEPT !.work = w]
    <3>1. process \in [Replicas -> Process] /\ process[r] \in Process /\ process[r].work \in Image
      BY Zenon DEF RowTypeOK
    <3>2. w \in Image
      BY <1>1, <3>1, Zenon DEF Image
    <3>3. process' = [process EXCEPT ![r] = p]
      BY <2>1, <3>1 DEF InitializeTables
    <3> HIDE DEF w
    <3>4. p \in Process
      BY <3>1, <3>2, Zenon
    <3> HIDE DEF p, Process
    <3>5. process' \in [Replicas -> Process]
      BY <3>1, <3>3, <3>4, Zenon
    <3> QED BY <3>5, <1>0, Zenon DEF RowTypeOK, Process
  <2>2. CASE OpenFresh(r) \/ Reopen(r) \/ Stop(r)
    BY <2>2, <1>0, <1>1, SMTT(30) DEF RowTypeOK, OpenFresh, Reopen, Stop, Closed
  <2> QED BY <2>1, <2>2, Zenon
<1>3. \A q \in Replicas : /\ ImageOK(process[q].work)'
                         /\ process'[q].work.device \in {NoDevice, process[q].work.device}
                         /\ process'[q].lease \in {NoLease, process[q].lease}
  <2> TAKE q \in Replicas
  <2>1. CASE InitializeTables(r)
    <3>1. process[r].work.device = NoDevice /\ process[r].work.slots = {}
      <4>1. process[r].work.tables = {} /\ ImageOK(process[r].work)
        BY <2>1, Zenon DEF InitializeTables, Images
      <4>2. Components # {}
        BY Zenon DEF Components
      <4> QED BY <4>1, <4>2, Zenon DEF ImageOK
    <3>2. process' = [process EXCEPT ![r].work.tables = Components \ {"rowids"}]
      BY <2>1, Zenon DEF InitializeTables
    <3> QED BY <3>1, <3>2, <1>0, <1>1 DEF RowTypeOK, Image, Images, ImageOK, ValidSlots
  <2>2. CASE OpenFresh(r) \/ Reopen(r) \/ Stop(r)
    BY <2>2, <1>0, <1>1, SMTT(30) DEF OpenFresh, Reopen, Stop, RowTypeOK, Images, ImageOK, ValidSlots,
                            Closed, Blank
  <2> QED BY <2>1, <2>2, Zenon
<1>4. Images'
  BY <1>0, <1>3, Zenon DEF Images, ImageOK, ValidSlots
<1>5. Positions'
  <2>1. file[r].tables = Components => file[r].device # NoDevice
    BY RowIdAssumption, Zenon DEF Images, ImageOK, RowTypeOK
  <2>2. file[r].tables = {} => file[r].device = NoDevice
    BY DEF Images, Blank
  <2>3. CASE InitializeTables(r)
    BY <2>3, <1>0 DEF Positions, InitializeTables, RowTypeOK
  <2>4. CASE OpenFresh(r) \/ Reopen(r) \/ Stop(r)
    BY <2>4, <1>0, <2>1, <2>2, SMTT(30) DEF Positions, OpenFresh, Reopen, Stop, RowTypeOK, Closed, Blank
  <2> QED BY <2>3, <2>4, Zenon
<1>6. DevicesDiffer'
  BY <1>0, <1>3 DEF DevicesDiffer
<1>7. Owned'
  BY <1>0 DEF Owned, Issued
<1>8. \A q \in Replicas : LeaseOK(q)'
  <2> SUFFICES ASSUME NEW q \in Replicas, process'[q].lease.next # process'[q].lease.end
               PROVE  LeaseOK(q)'
    BY Zenon DEF LeaseOK
  <2>1. process'[q].lease = process[q].lease /\ process[q].lease # NoLease
    BY <1>3 DEF NoLease
  <2>2. process[q].pc = "open"
    BY <2>1, Zenon DEF LeaseOK
  <2>3. process'[q].pc = "open"
    BY <2>1, <2>2, <1>3 DEF OpenFresh, Reopen, InitializeTables, Stop, RowTypeOK, Closed
  <2> QED BY <2>1, <2>3, <1>0, Zenon DEF LeaseOK, compose
<1> QED BY <1>0, <1>2, <1>4, <1>5, <1>6, <1>7, <1>8, Zenon

\* A freshly drawn device is in no other image.
LEMMA InitializeRowidsStep ==
    ASSUME RowInv, NEW r \in Replicas, NEW d \in Devices, NEW s \in UnusedSlots(d, {}),
           InitializeRowids(r, d, s)
    PROVE  RowInv'
<1> USE DEF RowInv
<1> DEFINE img == [tables |-> Components, device |-> d, slot |-> s, through |-> 0, slots |-> {s}]
<1>0. /\ UNCHANGED <<file, issued, reissued>> /\ minted' = minted \cup {d} /\ d \notin minted
      /\ process[r].pc = "initializing"
      /\ process' = [process EXCEPT ![r].work = img]
  BY Zenon DEF InitializeRowids
<1>1. img \in Image /\ s \in Nat
  BY SlotsAreNat, Zenon DEF Image
<1>2. RowTypeOK'
  BY <1>0, <1>1, Zenon DEF RowTypeOK
<1>3. \A q \in Replicas : /\ process'[q].pc = process[q].pc
                         /\ process'[q].lease = process[q].lease
                         /\ process'[q].work = IF q = r THEN img ELSE process[q].work
  BY <1>0, Zenon DEF RowTypeOK
<1>4. \A q \in Replicas : file[q].device # d /\ process[q].work.device # d
  BY <1>0, RowIdAssumption, Zenon DEF Images, ImageOK
<1>5. Images'
  <2>1. ImageOK(img)'
    BY <1>0, RowIdAssumption DEF ImageOK, ValidSlots
  <2> QED BY <1>0, <1>3, <2>1 DEF Images, ImageOK, ValidSlots
<1>6. Positions'
  BY <1>0, <1>3 DEF Positions
<1>7. DevicesDiffer'
  BY <1>0, <1>3, <1>4 DEF DevicesDiffer
<1>8. Owned'
  BY <1>0 DEF Owned, Issued
<1>9. \A q \in Replicas : LeaseOK(q)'
  BY <1>0, <1>3 DEF LeaseOK, compose
<1> QED BY <1>0, <1>2, <1>5, <1>6, <1>7, <1>8, <1>9, Zenon

\* Releasing the savepoint makes the image the file.
LEMMA ReleaseOpenStep ==
    ASSUME RowInv, NEW r \in Replicas, ReleaseOpen(r)
    PROVE  RowInv'
<1> USE DEF RowInv
<1>0. /\ UNCHANGED <<minted, issued, reissued>>
      /\ process[r].pc = "initializing" /\ process[r].work.tables = Components
      /\ file' = [file EXCEPT ![r] = process[r].work]
      /\ process' = [process EXCEPT ![r] = [Closed EXCEPT !.pc = "open"]]
  BY Zenon DEF ReleaseOpen
<1>1. Blank \in Image /\ NoLease \in [slot : Nat, next : Nat, end : Nat] /\ Components # {}
  BY Zenon DEF Blank, Image, NoLease, Components
<1>2. RowTypeOK'
  BY <1>0, <1>1, Zenon DEF RowTypeOK, Closed
<1>3. \A q \in Replicas : /\ process'[q] = IF q = r THEN [Closed EXCEPT !.pc = "open"] ELSE process[q]
                         /\ file'[q] = IF q = r THEN process[r].work ELSE file[q]
  BY <1>0, Zenon DEF RowTypeOK
<1>4. process[r].work.device # NoDevice /\ file[r].device = NoDevice
  BY <1>0, RowIdAssumption, Zenon DEF Images, ImageOK, RowTypeOK, Positions
<1>5. Images'
  <2>1. ImageOK(Blank)' /\ Closed.work = Blank
    BY <1>1, Zenon DEF ImageOK, Blank, Closed
  <2>2. \A q \in Replicas : process'[q].work \in {Blank, process[q].work}
    BY <1>3, Zenon DEF Closed
  <2>3. \A q \in Replicas : ImageOK(process[q].work)' /\ ImageOK(file[q])'
    BY <1>0, <1>3, <2>1, <2>2 DEF Images, ImageOK, ValidSlots
  <2>4. \A q \in Replicas : file'[q].tables \in {{}, Components}
    BY <1>0, <1>3, Zenon DEF Images
  <2>5. \A q \in Replicas : file'[q].tables = {} => file'[q] = Blank
    BY <1>0, <1>1, <1>3 DEF Images
  <2> QED BY <2>3, <2>4, <2>5, Zenon DEF Images, Blank
<1>6. Positions'
  BY <1>3, <1>4 DEF Positions, Closed, Blank
<1>7. DevicesDiffer'
  BY <1>3, <1>4 DEF DevicesDiffer, Closed, Blank
<1>8. file[r].slots = {}
  BY <1>4, RowIdAssumption, Zenon DEF Images, ImageOK, RowTypeOK
<1>9. Owned'
  BY <1>0, <1>3, <1>8 DEF Owned, Issued
<1>10. \A q \in Replicas : LeaseOK(q)'
  BY <1>0, <1>3 DEF LeaseOK, Closed, NoLease, compose
<1> QED BY <1>0, <1>2, <1>5, <1>6, <1>7, <1>9, <1>10, Zenon

\* The offset handed out is the first of a lease no offset of which was issued;
\* the leases of other replicas are in other slots.
LEMMA NextRowidStep ==
    ASSUME RowInv, DistinctTags, NEW r \in Replicas, next_rowid(r)
    PROVE  RowInv'
<1> USE DEF RowInv
<1> DEFINE l == process[r].lease
           id == compose(l.slot, l.next)
<1>0. /\ UNCHANGED <<file, minted>> /\ process[r].pc = "open" /\ l.next # l.end
      /\ process' = [process EXCEPT ![r].lease.next = @ + 1]
      /\ issued' = issued \cup {id} /\ reissued' = (reissued \/ id \in issued)
  BY Zenon DEF next_rowid
<1>1. /\ l.slot = file[r].slot /\ l.next < l.end /\ l.end = file[r].through
      /\ \A offset \in l.next..l.end - 1 : compose(l.slot, offset) \notin issued
  BY <1>0, Zenon DEF LeaseOK
<1>2. l.next \in Nat /\ l.end \in Nat /\ l.slot \in Nat
  BY Zenon DEF RowTypeOK
<1>3. ~reissued'
  <2>1. l.next \in l.next..l.end - 1
    BY <1>1, <1>2
  <2>2. id \notin issued
    BY <2>1, <1>1, Zenon
  <2> QED BY <2>2, <1>0, Zenon
<1>4. \A q \in Replicas :
        /\ process'[q].pc = process[q].pc /\ process'[q].work = process[q].work
        /\ process'[q].lease = IF q = r THEN [l EXCEPT !.next = l.next + 1] ELSE process[q].lease
  BY <1>0, Zenon DEF RowTypeOK
<1>5. RowTypeOK'
  BY <1>0, <1>2, <1>3, SMTT(30) DEF RowTypeOK
<1>6. Images' /\ Positions' /\ DevicesDiffer'
  BY <1>0, <1>4 DEF Images, ImageOK, ValidSlots, Positions, DevicesDiffer
<1>7. ValidSlots(file[r])
  BY <1>0, Zenon DEF Positions, Images, ImageOK
<1>8. l.next \in 0..SlotCapacity - 1
  BY <1>1, <1>2, <1>7, RowIdAssumption DEF ValidSlots
<1>9. Owned'
  <2>1. Issued(id, r, l.slot, l.next) /\ l.slot \in file[r].slots
    BY <1>1, <1>7, <1>2, Zenon DEF Issued, ValidSlots
  <2> QED BY <1>0, <1>8, <2>1 DEF Owned, Issued
<1>10. ASSUME NEW q \in Replicas PROVE LeaseOK(q)'
  <2> DEFINE m == process[q].lease
  <2>1. CASE q = r
    <3>1. \A offset \in l.next + 1..l.end - 1 : compose(l.slot, offset) # id
      BY <1>2, <1>7, <1>1, RowIdAssumption, ComposeInjective, <1>8 DEF ValidSlots
    <3>2. \A offset \in l.next + 1..l.end - 1 : compose(l.slot, offset) \notin issued'
      BY <1>0, <1>1, <1>2, <3>1
    <3>3. /\ process'[q].pc = "open" /\ process'[q].lease.slot = l.slot
          /\ process'[q].lease.next = l.next + 1 /\ process'[q].lease.end = l.end
      BY <2>1, <1>0, <1>4 DEF RowTypeOK
    <3>4. file'[q] = file[r]
      BY <2>1, <1>0, Zenon
    <3> QED BY <3>2, <3>3, <3>4, <1>1, <1>2 DEF LeaseOK, compose
  <2>2. CASE q # r
    <3>1. SUFFICES ASSUME m.next # m.end
                   PROVE  \A offset \in m.next..m.end - 1 : compose(m.slot, offset) # id
      BY <2>2, <1>0, <1>4 DEF LeaseOK, compose
    <3>2. /\ m.slot = file[q].slot /\ m.end = file[q].through /\ process[q].pc = "open"
          /\ m.slot \in Nat /\ m.next \in Nat /\ m.end \in Nat
      BY <3>1, Zenon DEF LeaseOK, RowTypeOK
    <3>3. ValidSlots(file[q])
      BY <3>2, Zenon DEF Positions, Images, ImageOK
    <3>4. m.slot # l.slot
      BY <2>2, <1>1, <1>7, <3>2, <3>3, SlotOwner, Zenon DEF ValidSlots
    <3>5. \A offset \in m.next..m.end - 1 : offset \in 0..SlotCapacity - 1
      BY <3>2, <3>3, RowIdAssumption DEF ValidSlots
    <3> QED BY <1>2, <1>8, <3>2, <3>4, <3>5, ComposeInjective
  <2> QED BY <2>1, <2>2, Zenon
<1> QED BY <1>3, <1>5, <1>6, <1>9, <1>10, Zenon

\* A lease moves the frontier of the active slot, or opens an unused slot;
\* what it covers was never issued.
LEMMA LeaseStep ==
    ASSUME RowInv, DistinctTags, NEW r \in Replicas, NEW slot, NEW start \in Nat, NEW slots,
           NEW delivered \in BOOLEAN,
           process[r].pc = "open", process[r].lease.next = process[r].lease.end,
           start < SlotCapacity,
           \/ slot = file[r].slot /\ start = file[r].through /\ slots = file[r].slots
           \/ /\ slot \in UnusedSlots(file[r].device, file[r].slots) /\ start = 0
              /\ slots = file[r].slots \cup {slot} /\ file[r].through = SlotCapacity,
           LeaseFrom(r, slot, start, slots, delivered)
    PROVE  RowInv'
<1> USE DEF RowInv
<1> DEFINE img == [file[r] EXCEPT !.slot = slot, !.slots = slots, !.through = LeaseEnd(start)]
           new == IF delivered THEN [slot |-> slot, next |-> start, end |-> LeaseEnd(start)]
                  ELSE NoLease
<1>0. /\ UNCHANGED <<minted, issued, reissued>>
      /\ file' = [file EXCEPT ![r] = img]
      /\ process' = [process EXCEPT ![r] = [process[r] EXCEPT !.lease = new]]
  BY Zenon DEF LeaseFrom
<1>1. ValidSlots(file[r]) /\ file[r].device \in minted /\ file[r].tables = Components
  BY Zenon DEF Positions, Images, ImageOK
<1>2. /\ LeaseEnd(start) \in Nat /\ start < LeaseEnd(start) /\ LeaseEnd(start) <= SlotCapacity
  BY LeaseEndBounds, Zenon
<1>3. slot \in Nat /\ slot \in slots /\ slots \in SUBSET Nat /\ slot \in UnusedSlots(file[r].device, {})
  BY <1>1, SlotsAreNat DEF RowTypeOK, Image, ValidSlots, UnusedSlots
<1>4. /\ img \in Image /\ img.device = file[r].device /\ img.slot = slot /\ img.slots = slots
      /\ img.through = LeaseEnd(start) /\ img.tables = file[r].tables
  BY <1>2, <1>3, ZenonT(30) DEF RowTypeOK, Image
<1>5. new \in [slot : Nat, next : Nat, end : Nat]
  BY <1>2, <1>3, Zenon DEF NoLease
<1>6. RowTypeOK'
  BY <1>0, <1>4, <1>5 DEF RowTypeOK
<1>7. \A q \in Replicas :
        /\ file'[q] = IF q = r THEN img ELSE file[q]
        /\ process'[q].pc = process[q].pc /\ process'[q].work = process[q].work
        /\ process'[q].lease = IF q = r THEN new ELSE process[q].lease
  BY <1>0, Zenon DEF RowTypeOK
<1>8. Images'
  <2>1. ValidSlots(img)
    BY <1>1, <1>2, <1>3, <1>4 DEF ValidSlots, UnusedSlots
  <2>2. ImageOK(img)'
    BY <2>1, <1>0, <1>1, <1>4 DEF ImageOK, ValidSlots
  <2>3. \A q \in Replicas : ImageOK(file[q])' /\ ImageOK(process[q].work)'
    BY <2>2, <1>0, <1>7 DEF Images, ImageOK, ValidSlots
  <2>4. Components # {}
    BY Zenon DEF Components
  <2>5. \A q \in Replicas : file'[q].tables \in {{}, Components}
    BY <1>1, <1>4, <1>7, Zenon DEF Images
  <2>6. \A q \in Replicas : file'[q].tables = {} => file'[q] = Blank
    BY <2>4, <1>1, <1>4, <1>7, Zenon DEF Images
  <2> QED BY <2>3, <2>5, <2>6, Zenon DEF Images, Blank
<1>9. Positions' /\ DevicesDiffer'
  <2>1. \A q \in Replicas : file'[q].device = file[q].device
    BY <1>4, <1>7, Zenon
  <2> HIDE DEF img, new
  <2>2. Positions'
    BY <1>7, <2>1 DEF Positions
  <2>3. DevicesDiffer'
    BY <1>7, <2>1 DEF DevicesDiffer
  <2> QED BY <2>2, <2>3, Zenon
<1>10. Owned'
  <2> SUFFICES ASSUME NEW id \in issued
               PROVE  \E q \in Replicas : \E s \in file'[q].slots :
                        \E offset \in 0..SlotCapacity - 1 : Issued(id, q, s, offset)'
    BY <1>0, Zenon DEF Owned
  <2>0. PICK q \in Replicas : \E s \in file[q].slots :
          \E offset \in 0..SlotCapacity - 1 : Issued(id, q, s, offset)
    BY Zenon DEF Owned
  <2>1. PICK s \in file[q].slots, offset \in 0..SlotCapacity - 1 : Issued(id, q, s, offset)
    BY <2>0, Zenon
  <2>2. s \in file'[q].slots
    BY <1>4, <1>7, Zenon
  <2>3. Issued(id, q, s, offset)'
    <3>1. CASE q # r
      BY <3>1, <2>1, <2>2, <1>7, Zenon DEF Issued, compose
    <3>2. CASE q = r /\ s = slot
      <4>1. slot = file[r].slot /\ start = file[r].through
        BY <3>2, <2>1, Zenon DEF UnusedSlots
      <4>2. offset < LeaseEnd(start)
        BY <4>1, <3>2, <2>1, <1>2 DEF Issued
      <4> QED BY <4>2, <3>2, <2>1, <2>2, <1>4, <1>7, Zenon DEF Issued, compose
    <3>3. CASE q = r /\ s # slot
      BY <3>3, <2>1, <2>2, <1>4, <1>7, Zenon DEF Issued, compose
    <3> QED BY <3>1, <3>2, <3>3, Zenon
  <2> QED BY <2>2, <2>3, Zenon
<1>11. \A offset \in start..LeaseEnd(start) - 1 : compose(slot, offset) \notin issued
  <2> SUFFICES ASSUME NEW x \in start..LeaseEnd(start) - 1, compose(slot, x) \in issued
               PROVE  FALSE
    BY Zenon
  <2>0. PICK q \in Replicas : \E s \in file[q].slots :
          \E y \in 0..SlotCapacity - 1 : Issued(compose(slot, x), q, s, y)
    BY Zenon DEF Owned
  <2>1. PICK s \in file[q].slots, y \in 0..SlotCapacity - 1 : Issued(compose(slot, x), q, s, y)
    BY <2>0, Zenon
  <2>2. s \in Nat /\ x \in 0..SlotCapacity - 1
    <3>1. file[q].slots \in SUBSET Nat
      BY Zenon DEF RowTypeOK, Image
    <3>2. x \in 0..SlotCapacity - 1
      BY <1>2, RowIdAssumption
    <3> QED BY <3>1, <3>2, Zenon
  <2>3. s = slot /\ x = y
    BY <2>1, <2>2, <1>3, ComposeInjective DEF Issued
  <2>4. file[q].device = file[r].device
    <3>1. file[q].device \in Devices /\ s \in UnusedSlots(file[q].device, {})
      BY Zenon DEF Images, ImageOK, ValidSlots
    <3> QED BY <3>1, <2>3, <1>1, <1>3, SlotsApart, Zenon DEF ValidSlots
  <2>5. q = r
    BY <2>4, <1>1, RowIdAssumption, Zenon DEF DevicesDiffer, ValidSlots
  <2> QED BY <2>1, <2>2, <2>3, <2>5, <1>2 DEF Issued, UnusedSlots
<1>12. ASSUME NEW q \in Replicas PROVE LeaseOK(q)'
  <2>1. CASE q = r
    <3>1. CASE delivered
      <4>1. /\ process'[q].lease.slot = slot /\ process'[q].lease.next = start
            /\ process'[q].lease.end = LeaseEnd(start) /\ process'[q].pc = "open"
        BY <2>1, <3>1, <1>7
      <4>2. file'[q].slot = slot /\ file'[q].through = LeaseEnd(start)
        BY <2>1, <1>4, <1>7, Zenon
      <4> QED BY <4>1, <4>2, <1>0, <1>2, <1>11, Zenon DEF LeaseOK, compose
    <3>2. CASE ~delivered
      BY <2>1, <3>2, <1>7 DEF LeaseOK, NoLease
    <3> QED BY <3>1, <3>2, Zenon
  <2>2. CASE q # r
    BY <2>2, <1>0, <1>7 DEF LeaseOK, compose
  <2> QED BY <2>1, <2>2, Zenon
<1> QED BY <1>0, <1>6, <1>8, <1>9, <1>10, <1>12, Zenon

\* Every step of opening, leasing, issuing and crashing keeps the invariant, one
\* lemma per action.
LEMMA RowNextInv == RowInv /\ DistinctTags /\ [RowNext]_rowVars => RowInv'
<1> SUFFICES ASSUME RowInv, DistinctTags, [RowNext]_rowVars PROVE RowInv'
  BY Zenon
<1>1. CASE UNCHANGED rowVars
  BY <1>1 DEF rowVars, RowInv, RowTypeOK, Images, ImageOK, ValidSlots, Positions, DevicesDiffer,
              Owned, Issued, LeaseOK, compose
<1>2. ASSUME NEW r \in Replicas, NEW delivered \in BOOLEAN, lease(r, delivered) PROVE RowInv'
  <2>1. file[r].through \in Nat /\ file[r].through < SlotCapacity
    <3>1. ValidSlots(file[r])
      BY <1>2, Zenon DEF lease, RowInv, Positions, Images, ImageOK
    <3>2. file[r].through \in Nat
      BY Zenon DEF RowInv, RowTypeOK, Image
    <3>3. file[r].through # SlotCapacity /\ file[r].through <= SlotCapacity
      BY <3>1, <1>2, Zenon DEF lease, ValidSlots
    <3> QED BY <3>2, <3>3, RowIdAssumption
  <2> QED BY <2>1, <1>2, LeaseStep, Zenon DEF lease
<1>3. ASSUME NEW r \in Replicas, NEW s, NEW delivered \in BOOLEAN, lease_next_slot(r, s, delivered)
      PROVE  RowInv'
  BY <1>3, LeaseStep, RowIdAssumption DEF lease_next_slot
<1>4. CASE RowNext
  BY <1>2, <1>3, <1>4, OpenStep, InitializeRowidsStep, ReleaseOpenStep, NextRowidStep, Zenon DEF RowNext
<1> QED BY <1>1, <1>4, Zenon

\* No rowid is ever handed out twice, for any slot and lease sizes, any number
\* of replicas whose devices have distinct tags, and any crashes.
THEOREM RowidsAreUnique == RowSpec => []RowidsUnique
<1>1. CASE DistinctTags
  <2>1. RowInv => RowidsUnique
    BY Zenon DEF RowInv, RowidsUnique
  <2> QED BY <1>1, <2>1, RowInitInv, RowNextInv, PTL DEF RowSpec
<1>2. CASE ~DistinctTags
  <2>1. RowidsUnique
    BY <1>2, Zenon DEF RowidsUnique
  <2> QED BY <2>1, PTL
<1> QED BY <1>1, <1>2, Zenon
=============================================================================
