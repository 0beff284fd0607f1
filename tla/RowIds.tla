------------------------------- MODULE RowIds -------------------------------
(***************************************************************************)
(* Opening a replica's file and allocating its rowids                      *)
(* (multilite/src/database.rs, multilite/src/rowid.rs).                    *)
(*                                                                         *)
(*   file     the committed SQLite file of each replica: the metadata      *)
(*            table groups it has, and the device, active slot, lease      *)
(*            frontier and used slots of the rowid allocator               *)
(*   process  the process that has the file open: the image inside the     *)
(*            opening savepoint and the cached lease                       *)
(*   minted   device identities drawn so far                               *)
(*   issued   rowids handed to inserts, over all replicas and runs         *)
(*   reissued whether some rowid was handed out twice (history)            *)
(*                                                                         *)
(* A rowid is slot * SlotCapacity + offset, a slot tag * SuffixRange +     *)
(* suffix.  The widths are constants; the code's are 16, 27 and 20 bits    *)
(* and leases of 2^10.                                                     *)
(***************************************************************************)
EXTENDS Integers

CONSTANTS Replicas, Devices, NoDevice, SuffixRange, SlotCapacity, LeaseSize,
          TagOf(_)

\* device_tag never returns zero.  Distinct devices may share a tag.
ASSUME RowIdAssumption ==
    /\ SuffixRange \in Nat \ {0} /\ SlotCapacity \in Nat \ {0} /\ LeaseSize \in Nat \ {0}
    /\ \A d \in Devices : TagOf(d) \in Nat \ {0}
    /\ NoDevice \notin Devices

VARIABLES file, process, minted, issued, reissued

rowVars == <<file, process, minted, issued, reissued>>

\* The table groups classify looks for, and a file that has some of them.
Components == {"metadata", "pending", "repair", "catalog", "history", "rowids"}

Blank == [tables |-> {}, device |-> NoDevice, slot |-> 0, through |-> 0, slots |-> {}]

NoLease == [slot |-> 0, next |-> 0, end |-> 0]

Closed == [pc |-> "closed", work |-> Blank, lease |-> NoLease]

RowInit ==
    /\ file = [r \in Replicas |-> Blank]
    /\ process = [r \in Replicas |-> Closed]
    /\ minted = {}
    /\ issued = {}
    /\ reissued = FALSE

compose(slot, offset) == slot * SlotCapacity + offset

\* The slots insert_unused_slot may draw: the device's tag over a suffix that
\* the file has not used.  It draws again while the slot is taken.
UnusedSlots(device, slots) ==
    {TagOf(device) * SuffixRange + suffix : suffix \in 0..SuffixRange - 1} \ slots

\* rowid::validate and validate_device.
ValidSlots(f) ==
    /\ f.device \in Devices
    /\ f.slot \in f.slots
    /\ f.through <= SlotCapacity
    /\ \A s \in f.slots : s \in UnusedSlots(f.device, {})

(***************************************************************************)
(* open_on: everything up to the release happens inside one savepoint.     *)
(***************************************************************************)

\* classify: a file with none of the groups is fresh, with all of them it is
\* reopened, and anything else is refused.
OpenFresh(r) ==
    /\ process[r].pc = "closed" /\ file[r].tables = {}
    /\ process' = [process EXCEPT ![r] = [Closed EXCEPT !.pc = "initializing"]]
    /\ UNCHANGED <<file, minted, issued, reissued>>

Reopen(r) ==
    /\ process[r].pc = "closed" /\ file[r].tables = Components
    /\ ValidSlots(file[r])
    /\ process' = [process EXCEPT ![r] = [Closed EXCEPT !.pc = "open"]]
    /\ UNCHANGED <<file, minted, issued, reissued>>

\* initialize up to history::initialize.
InitializeTables(r) ==
    /\ process[r].pc = "initializing" /\ process[r].work.tables = {}
    /\ process' = [process EXCEPT ![r].work.tables = Components \ {"rowids"}]
    /\ UNCHANGED <<file, minted, issued, reissued>>

\* Client::open draws a device, and rowid::initialize its first slot.
InitializeRowids(r, device, slot) ==
    /\ process[r].pc = "initializing" /\ process[r].work.tables = Components \ {"rowids"}
    /\ device \notin minted /\ slot \in UnusedSlots(device, {})
    /\ minted' = minted \cup {device}
    /\ process' = [process EXCEPT ![r].work =
                     [tables |-> Components, device |-> device, slot |-> slot,
                      through |-> 0, slots |-> {slot}]]
    /\ UNCHANGED <<file, issued, reissued>>

ReleaseOpen(r) ==
    /\ process[r].pc = "initializing" /\ process[r].work.tables = Components
    /\ file' = [file EXCEPT ![r] = process[r].work]
    /\ process' = [process EXCEPT ![r] = [Closed EXCEPT !.pc = "open"]]
    /\ UNCHANGED <<minted, issued, reissued>>

\* The process ends, or opening fails and the savepoint is rolled back.  The
\* cached lease and an unreleased savepoint are gone.
Stop(r) ==
    /\ process[r].pc # "closed"
    /\ process' = [process EXCEPT ![r] = Closed]
    /\ UNCHANGED <<file, minted, issued, reissued>>

(***************************************************************************)
(* Allocation.                                                             *)
(***************************************************************************)

\* RowidAllocator::next while the cached lease has offsets left.  What becomes
\* of the update that asked for the rowid plays no part.
next_rowid(r) ==
    LET lease == process[r].lease
        rowid == compose(lease.slot, lease.next)
    IN  /\ process[r].pc = "open" /\ lease.next # lease.end
        /\ process' = [process EXCEPT ![r].lease.next = @ + 1]
        /\ issued' = issued \cup {rowid}
        /\ reissued' = (reissued \/ rowid \in issued)
        /\ UNCHANGED <<file, minted>>

LeaseEnd(start) == IF start + LeaseSize <= SlotCapacity THEN start + LeaseSize ELSE SlotCapacity

\* lease_with: continue the active slot or, when it is used up, draw another.
\* The lease is released to the file before the caller gets it; a caller that
\* does not get it has lost it.
LeaseFrom(r, slot, start, slots, delivered) ==
    /\ file' = [file EXCEPT ![r] = [file[r] EXCEPT !.slot = slot, !.slots = slots,
                                                   !.through = LeaseEnd(start)]]
    /\ process' = [process EXCEPT ![r] = [process[r] EXCEPT !.lease =
                     IF delivered THEN [slot |-> slot, next |-> start, end |-> LeaseEnd(start)]
                     ELSE NoLease]]
    /\ UNCHANGED <<minted, issued, reissued>>

lease_in_memory(r, delivered) ==
    /\ process[r].pc = "open" /\ process[r].lease.next = process[r].lease.end
    /\ file[r].through # SlotCapacity
    /\ process' = [process EXCEPT ![r] = [process[r] EXCEPT !.lease =
                     IF delivered THEN [slot |-> file[r].slot, next |-> file[r].through,
                                        end |-> LeaseEnd(file[r].through)] ELSE NoLease]]
    /\ UNCHANGED <<file, minted, issued, reissued>>

lease(r, delivered) ==
    /\ process[r].pc = "open" /\ process[r].lease.next = process[r].lease.end
    /\ file[r].through # SlotCapacity
    /\ LeaseFrom(r, file[r].slot, file[r].through, file[r].slots, delivered)

lease_next_slot(r, slot, delivered) ==
    /\ process[r].pc = "open" /\ process[r].lease.next = process[r].lease.end
    /\ file[r].through = SlotCapacity
    /\ slot \in UnusedSlots(file[r].device, file[r].slots)
    /\ LeaseFrom(r, slot, 0, file[r].slots \cup {slot}, delivered)

RowNext ==
    \E r \in Replicas :
        \/ OpenFresh(r) \/ Reopen(r) \/ InitializeTables(r) \/ ReleaseOpen(r) \/ Stop(r)
        \/ \E d \in Devices : \E s \in UnusedSlots(d, {}) : InitializeRowids(r, d, s)
        \/ next_rowid(r)
        \/ \E delivered \in BOOLEAN :
              \/ lease(r, delivered)
              \/ \E d \in Devices : \E s \in UnusedSlots(d, {}) : lease_next_slot(r, s, delivered)

RowSpec == RowInit /\ [][RowNext]_rowVars

(***************************************************************************)
(* Properties                                                              *)
(***************************************************************************)

DistinctTags == \A d, e \in Devices : TagOf(d) = TagOf(e) => d = e

\* No rowid is handed out twice: not by one replica before and after a crash,
\* not from a lease whose reply was lost, not when a slot is used up, and not
\* by two replicas whose devices have different tags.
RowidsUnique == DistinctTags => ~reissued
=============================================================================
