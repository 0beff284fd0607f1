------------------------------ MODULE Branches ------------------------------
\* Branches of a database file, in three parts: the write-ahead log and its parser,
\* the private page overlay of a branch, and the machine of snapshots, views and
\* checkpoints.
(***************************************************************************)
(* SQLite's write-ahead log as multilite sees it, and the parser that      *)
(* derives a page map from it (multilite/src/branch/wal.rs).               *)
(*                                                                         *)
(* A frame holds one page.  Its content is the identity of the write that  *)
(* produced it, and prev is the identity of the frame before it when it    *)
(* was written: a frame passes the running checksum exactly when prev is   *)
(* the frame the parser consumed last.  count is the database size stored  *)
(* in a commit frame and 0 in every other frame.                           *)
(*                                                                         *)
(* The operators on a database record [base, wal, salt, mx, count,         *)
(* backfill] are SQLite's, external to the repository: how frames are      *)
(* appended, when a writer restarts the log in place, what a checkpoint    *)
(* may copy back under the read marks that are held.  A read mark of 0 is  *)
(* SQLite's lock on the database file alone, which a reader takes when the *)
(* whole log has been copied back.                                         *)
(***************************************************************************)
EXTENDS Integers, Sequences, SequencesExt, FiniteSets

Blank == 0       \* a page of zeroes

MaxOf(S) == CHOOSE x \in S : \A y \in S : y <= x

MinOf(S) == CHOOSE x \in S : \A y \in S : x <= y

EmptyMap == [p \in {} |-> 0]

(***************************************************************************)
(* SQLite (external)                                                       *)
(***************************************************************************)

NewDatabase(pages) == [base |-> [p \in 1..pages |-> Blank], wal |-> <<>>,
                       salt |-> 1, mx |-> 0, count |-> pages, backfill |-> 0]

\* The latest frame of page p among the frames first..last.
LatestFrame(db, p, first, last) ==
    MaxOf({i \in first..last : db.wal[i].page = p} \cup {0})

\* The committed image that a native reader sees.
Image(db) ==
    [p \in 1..db.count |->
        LET i == LatestFrame(db, p, 1, db.mx)
        IN  IF i > 0 THEN db.wal[i].id
            ELSE IF p <= Len(db.base) THEN db.base[p] ELSE Blank]

\* The mark a new read transaction takes.
ReadMark(db) == IF db.backfill = db.mx THEN 0 ELSE db.mx

\* A writer that finds the log copied back and no reader in it starts over.
RestartedForWrite(db, marks) ==
    IF db.mx > 0 /\ db.backfill = db.mx /\ marks \subseteq {0}
      THEN [db EXCEPT !.salt = @ + 1, !.mx = 0, !.backfill = 0]
      ELSE db

\* Write the pages as frames after mx, the last one with count.
WriteFrames(db, pages, count, firstId) ==
    LET frame(k) == [salt |-> db.salt, page |-> pages[k], id |-> firstId + k - 1,
                     count |-> IF k = Len(pages) THEN count ELSE 0,
                     prev |-> IF k > 1 THEN firstId + k - 2
                              ELSE IF db.mx = 0 THEN 0 ELSE db.wal[db.mx].id]
        last == db.mx + Len(pages)
    IN  [db EXCEPT !.wal = [i \in 1..MaxOf({Len(db.wal), last}) |->
                             IF i > db.mx /\ i <= last THEN frame(i - db.mx)
                                                       ELSE db.wal[i]]]

Committed(db, marks, pages, count, firstId) ==
    LET d == WriteFrames(RestartedForWrite(db, marks), pages, count, firstId)
    IN  [d EXCEPT !.mx = @ + Len(pages), !.count = count]

\* A transaction larger than the page cache writes frames before it ends;
\* when it is rolled back they stay in the file, after mx.
SpilledAndRolledBack(db, marks, pages, firstId) ==
    WriteFrames(RestartedForWrite(db, marks), pages, 0, firstId)

\* wal_checkpoint(PASSIVE): copy back what no held mark forbids.
Passive(db, marks) ==
    LET safe == MinOf({db.mx} \cup marks)
        size == MaxOf({Len(db.base)} \cup
                      {db.wal[i].page : i \in db.backfill + 1 .. safe})
        copied(p) == LET i == LatestFrame(db, p, db.backfill + 1, safe)
                     IN  IF i > 0 THEN db.wal[i].id
                         ELSE IF p <= Len(db.base) THEN db.base[p] ELSE Blank
    IN  IF db.backfill = db.mx \/ 0 \in marks \/ safe <= db.backfill THEN db
        ELSE [db EXCEPT !.backfill = safe,
                        !.base = [p \in 1..(IF safe = db.mx THEN db.count ELSE size)
                                    |-> copied(p)]]

PassiveComplete(db) == db.backfill = db.mx

\* wal_checkpoint(TRUNCATE) is busy while the log is not copied back or a
\* reader holds a mark in it.
TruncateBusy(db, marks) == db.backfill < db.mx \/ ~(marks \subseteq {0})

Truncated(db) == [db EXCEPT !.wal = <<>>, !.salt = @ + 1, !.mx = 0, !.backfill = 0]

(***************************************************************************)
(* The incremental parser.  seen is the sequence of frames it consumed;    *)
(* its last element stands for the running checksum.                       *)
(***************************************************************************)

NoWal == [salt |-> 0, max |-> 0, count |-> 0, map |-> EmptyMap]

NoParser == [salt |-> 0, seen |-> <<>>, working |-> EmptyMap, committed |-> NoWal]

\* PageMap::insert and PageMap::truncate.
insert_frame(map, page, frame) ==
    [p \in DOMAIN map \cup {page} |-> IF p = page THEN frame ELSE map[p]]

truncate(map, count) == [p \in {q \in DOMAIN map : q <= count} |-> map[p]]

Checksum(parser) == IF parser.seen = <<>> THEN 0 ELSE Last(parser.seen)

\* How far the frames after the consumed ones carry the epoch's salt and
\* continue the checksum.
ValidThrough(wal, parser) ==
    LET next == Len(parser.seen)
        valid(i) == /\ wal[i].salt = parser.salt
                    /\ wal[i].prev = IF i = next + 1 THEN Checksum(parser)
                                                     ELSE wal[i - 1].id
    IN  MaxOf({n \in next..Len(wal) : \A i \in next + 1 .. n : valid(i)})

\* One frame of the loop: a commit frame publishes the working map.
consume(parser, frame) ==
    LET n == Len(parser.seen) + 1
        map == insert_frame(parser.working, frame.page, n)
        cut == truncate(map, frame.count)
    IN  IF frame.count = 0
          THEN [parser EXCEPT !.seen = Append(@, frame.id), !.working = map]
          ELSE [parser EXCEPT !.seen = Append(@, frame.id), !.working = cut,
                              !.committed = [salt |-> parser.salt, max |-> n,
                                             count |-> frame.count, map |-> cut]]

\* WalParser::refresh_source on a file whose header carries salt.
refresh_source_without_reset(parser, wal, salt) ==
    LET p == IF parser.salt = 0 \/ Len(wal) < Len(parser.seen)
               THEN [NoParser EXCEPT !.salt = salt] ELSE parser
    IN  FoldLeft(consume, p, SubSeq(wal, Len(p.seen) + 1, ValidThrough(wal, p)))

refresh_source(parser, wal, salt) ==
    LET p == IF parser.salt # salt \/ Len(wal) < Len(parser.seen)
               THEN [NoParser EXCEPT !.salt = salt] ELSE parser
    IN  FoldLeft(consume, p, SubSeq(wal, Len(p.seen) + 1, ValidThrough(wal, p)))

\* WalParser::parse: the same machine, started cold.
ColdParse(db) == refresh_source(NoParser, db.wal, db.salt)

\* SnapshotCache::observe: a missing or empty log clears the parser.
ObservedLog(parser, db) ==
    IF db.wal = <<>> THEN NoParser ELSE refresh_source(parser, db.wal, db.salt)

\* Frames the parser consumed have since been written over in this epoch.
WrittenOver(parser, db) ==
    /\ parser.salt = db.salt
    /\ \E i \in DOMAIN parser.seen :
          i > Len(db.wal) \/ db.wal[i].id # parser.seen[i]
-----------------------------------------------------------------------------
(***************************************************************************)
(* One private database image: a physical snapshot read through the        *)
(* canonical files, under an overlay of the pages the branch wrote         *)
(* (multilite/src/branch/mod.rs).                                          *)
(*                                                                         *)
(* Files are sequences of pages and a page is a pair of halves, so that a  *)
(* write of part of a page is distinguished from a write of all of it.     *)
(* The two journal-mode bytes that patch_rollback_header rewrites are not  *)
(* part of the content.                                                    *)
(***************************************************************************)

Halves == 1..2

PageOf(id) == [h \in Halves |-> id]

ZeroPage == PageOf(Blank)

\* SqliteSnapshot: the log's latest commit, or NoWal, and the page count.
frame_for(snapshot, page) ==
    IF page \in DOMAIN snapshot.wal.map THEN snapshot.wal.map[page] ELSE 0

\* SnapshotReader::read_at for one page.  A page beyond the snapshot or past
\* the end of a file is reported as not present.
SnapshotPage(db, snapshot, page) ==
    LET frame == frame_for(snapshot, page)
        present == /\ page <= snapshot.count
                   /\ IF frame > 0 THEN frame <= Len(db.wal)
                                   ELSE page <= Len(db.base)
    IN  IF ~present THEN ZeroPage
        ELSE IF frame > 0 THEN PageOf(db.wal[frame].id)
        ELSE PageOf(db.base[page])

(***************************************************************************)
(* PageOverlay.  pages maps a page number to [at |-> "memory", bytes] or   *)
(* [at |-> "spilled", offset]; spill is the spill file's content.          *)
(***************************************************************************)

NewOverlay(count) == [size |-> count, fallback |-> count, memory |-> 0,
                      pages |-> EmptyMap, spill |-> <<>>, next |-> 0]

InMemory(bytes) == [at |-> "memory", bytes |-> bytes, offset |-> 0]

SpilledAt(offset) == [at |-> "spilled", bytes |-> ZeroPage, offset |-> offset]

MemoryPages(pages) == {p \in DOMAIN pages : pages[p].at = "memory"}

Set(map, key, value) == [k \in DOMAIN map \cup {key} |->
                           IF k = key THEN value ELSE map[k]]

\* PageOverlay::read_at for one page below the logical size.
OverlayPage(db, snapshot, o, page) ==
    IF page \in DOMAIN o.pages
      THEN IF o.pages[page].at = "memory" THEN o.pages[page].bytes
                                          ELSE o.spill[o.pages[page].offset]
    ELSE IF page > o.fallback THEN ZeroPage
    ELSE SnapshotPage(db, snapshot, page)

\* PageOverlay::write_page_slice: the first write of a page copies it.
write_page_slice(db, snapshot, o, page, half, value) ==
    LET held == page \in DOMAIN o.pages
        bytes == IF held THEN o.pages[page].bytes
                 ELSE IF page <= o.fallback THEN SnapshotPage(db, snapshot, page)
                 ELSE ZeroPage
    IN  IF held /\ o.pages[page].at = "spilled"
          THEN [o EXCEPT !.spill[o.pages[page].offset][half] = value]
          ELSE [o EXCEPT !.pages = Set(@, page, InMemory([bytes EXCEPT ![half] = value])),
                         !.memory = @ + IF held THEN 0 ELSE 1]

\* PageOverlay::spill_if_needed: every page in memory moves to the spill file
\* in page order.  When the spill file fails nothing is moved.
spill_if_needed(o, limit, fails) ==
    LET order == SetToSortSeq(MemoryPages(o.pages), <)
        at(p) == o.next + CHOOSE k \in DOMAIN order : order[k] = p
    IN  IF o.memory <= limit \/ fails THEN o
        ELSE [o EXCEPT !.spill = SubSeq(@, 1, o.next)
                                   \o [k \in DOMAIN order |-> o.pages[order[k]].bytes],
                       !.pages = [p \in DOMAIN o.pages |->
                                    IF o.pages[p].at = "memory" THEN SpilledAt(at(p))
                                                                ELSE o.pages[p]],
                       !.next = @ + Len(order),
                       !.memory = @ - Len(order)]

\* PageOverlay::write_at within one page.
OverlayWrite(db, snapshot, o, page, half, value, limit, fails) ==
    LET w == write_page_slice(db, snapshot, o, page, half, value)
    IN  spill_if_needed([w EXCEPT !.size = MaxOf({@, page})], limit, fails)

\* PageOverlay::truncate at a page boundary: the pages beyond are dropped and
\* never read from the snapshot again.
OverlayTruncate(o, size) ==
    LET kept == {p \in DOMAIN o.pages : p <= size}
    IN  [o EXCEPT !.pages = [p \in kept |-> o.pages[p]],
                  !.memory = @ - Cardinality(MemoryPages(o.pages) \ kept),
                  !.size = size,
                  !.fallback = MinOf({@, size})]
-----------------------------------------------------------------------------
(***************************************************************************)
(* Snapshots, private branches, pooled readers and WAL maintenance of one  *)
(* multilite database file (multilite/src/branch, commit/checkpoint.rs and *)
(* the capture half of database/commit_backend.rs).                        *)
(*                                                                         *)
(* The committer is one thread: commit groups, captures and checkpoints    *)
(* never overlap.  Homebase metadata writes use the same connection from   *)
(* other threads, between the three steps of a capture.  Branches and      *)
(* views are used and dropped by application threads at any time.          *)
(*                                                                         *)
(*   db          the database file, its log and the wal-index (external)   *)
(*   parser      WalParser of the SnapshotCache                            *)
(*   generation  ReaderPool::view_generation                               *)
(*   idle        ReaderPool::idle, most recently returned last             *)
(*   branches    the live writable branches                                *)
(*   views       the live views and the ones being returned to the pool    *)
(*   capture     the capture in progress                                   *)
(*   policy      CheckpointPolicy                                          *)
(*   written     the number of frames written so far                       *)
(*   groups      the number of commit groups (a history variable)          *)
(*                                                                         *)
(* A read transaction is [open, mark, image, groups]; image and groups     *)
(* record what it saw when it began and are history variables.             *)
(***************************************************************************)

CONSTANTS BranchSlots, ViewSlots,
          Pages,               \* pages of the new database
          MaxPages,            \* pages a database or branch grows to
          PageLists,           \* the page sequences a transaction writes
          MaxWritten,          \* frames written in a behaviour
          MaxIdle,             \* MAX_IDLE_READERS
          MaxAttempts,         \* MAX_CAPTURE_ATTEMPTS
          SoftFrames, HardFrames, RetryGrowth,   \* the policy's limits, in frames
          MemoryLimit,         \* OverlayOptions::memory_limit, in pages
          MaxBranchWrites      \* writes and truncations of one branch

VARIABLES db, parser, generation, idle, branches, views, capture, policy,
          written, groups

branchVars == <<db, parser, generation, idle, branches, views, capture, policy,
          written, groups>>

NoBranch == [live |-> FALSE]

NoTx == [open |-> FALSE, mark |-> 0, image |-> <<>>, groups |-> 0]

Began == [open |-> TRUE, mark |-> ReadMark(db), image |-> Image(db),
          groups |-> groups]

NoCapture == [step |-> "idle"]

\* The marks of the open read transactions.
TxMarks(txs) == {t.mark : t \in {u \in txs : u.open}}

LiveTxs == {branches[b].tx : b \in {c \in BranchSlots : branches[c].live}}
             \cup {views[v].tx : v \in {w \in ViewSlots : views[w].live}}

CaptureTxs == IF capture.step = "pinned" THEN {capture.tx} ELSE {}

Marks == TxMarks(LiveTxs \cup CaptureTxs \cup {idle[i].tx : i \in DOMAIN idle})

BranchInit ==
    /\ db = NewDatabase(Pages)
    /\ parser = NoParser
    /\ generation = 0
    /\ idle = <<>>
    /\ branches = [b \in BranchSlots |-> NoBranch]
    /\ views = [v \in ViewSlots |-> NoBranch]
    /\ capture = NoCapture
    /\ policy = [next |-> SoftFrames, blocked |-> FALSE, error |-> FALSE]
    /\ written = 0
    /\ groups = 0

(***************************************************************************)
(* The reader pool.                                                        *)
(***************************************************************************)

\* ReaderPool::invalidate_views: the generation moves on and idle views are
\* rolled back.
InvalidatedIdle == [i \in DOMAIN idle |-> [tx |-> NoTx, generation |-> -1]]

\* ReaderPool::recycle after the disposition is decided: a full pool closes
\* the connection.
PushIdle(pool, reader) ==
    IF Len(pool) < MaxIdle THEN Append(pool, reader) ELSE pool

PlainReader == [tx |-> NoTx, generation |-> -1]

\* ReaderPool::checkout pops a reader, ending any transaction it holds.
Popped == IF idle = <<>> THEN idle ELSE Front(idle)

(***************************************************************************)
(* CheckpointPolicy.  A maintenance step is [db, policy]; failed stands    *)
(* for an error of the file system or of the checkpoint.                   *)
(***************************************************************************)

AfterPassive(passive, pol, marks, bytes) ==
    IF bytes < HardFrames
      THEN [db |-> passive, policy |-> [pol EXCEPT !.blocked = FALSE, !.next = bytes + RetryGrowth]]
    ELSE IF PassiveComplete(passive) /\ ~TruncateBusy(passive, marks)
      THEN [db |-> Truncated(passive), policy |-> [pol EXCEPT !.blocked = FALSE, !.next = SoftFrames]]
    ELSE [db |-> passive, policy |-> [pol EXCEPT !.blocked = TRUE, !.next = bytes + RetryGrowth]]

maintain(d, pol, marks, force) ==
    LET bytes == Len(d.wal)
    IN  IF bytes < SoftFrames
          THEN [db |-> d, policy |-> [pol EXCEPT !.blocked = FALSE, !.next = SoftFrames]]
        ELSE IF ~force /\ bytes < pol.next /\ bytes < HardFrames
          THEN [db |-> d, policy |-> pol]
        ELSE AfterPassive(Passive(d, marks), pol, marks, bytes)

\* CheckpointPolicy::after_commit records an error instead of returning it.
after_commit(d, marks, failed) ==
    LET m == maintain(d, policy, marks, FALSE)
    IN  IF failed THEN [db |-> d, policy |-> [policy EXCEPT !.error = TRUE]]
        ELSE [m EXCEPT !.policy.error = FALSE]

\* CheckpointPolicy::before_snapshot: the third field says whether a snapshot
\* may be issued.
before_snapshot_without_retry(marks, failed) ==
    [db |-> db, policy |-> policy, ok |-> ~policy.blocked]

Retried(m) == [db |-> m.db, policy |-> [m.policy EXCEPT !.error = FALSE], ok |-> ~m.policy.blocked]
before_snapshot(marks, failed) ==
    IF ~policy.blocked /\ ~policy.error THEN [db |-> db, policy |-> policy, ok |-> TRUE]
    ELSE IF failed THEN [db |-> db, policy |-> policy, ok |-> FALSE]
    ELSE Retried(maintain(db, policy, marks, TRUE))

(***************************************************************************)
(* Canonical transactions.                                                 *)
(***************************************************************************)

\* A transaction writes pages and leaves the database with count pages; every
\* page it adds is written.
IsTransaction(pages, count) ==
    /\ written + Len(pages) <= MaxWritten
    /\ count <= MaxPages
    /\ count >= db.count
    /\ \A k \in DOMAIN pages : pages[k] <= count
    /\ (db.count + 1)..count \subseteq {pages[k] : k \in DOMAIN pages}

\* DatabaseCommitBackend::commit_group when the group commits.
commit_group(pages, count, failed) ==
    /\ capture = NoCapture
    /\ IsTransaction(pages, count)
    /\ generation' = generation + 1
    /\ idle' = InvalidatedIdle
    /\ LET d == Committed(db, Marks, pages, count, written + 1)
           held == TxMarks(LiveTxs)
           m == after_commit(d, held, failed)
       IN  /\ db' = m.db
           /\ policy' = m.policy
    /\ written' = written + Len(pages)
    /\ groups' = groups + 1
    /\ UNCHANGED <<parser, branches, views, capture>>

\* A group, or a metadata write, whose savepoint is rolled back after its
\* page cache spilled.
RolledBack(pages) ==
    /\ IsTransaction(pages, db.count)
    /\ db' = SpilledAndRolledBack(db, Marks, pages, written + 1)
    /\ written' = written + Len(pages)
    /\ UNCHANGED <<parser, generation, idle, branches, views, capture, policy, groups>>

\* ConnectionOwner::with_savepoint outside the committer's groups: row-id
\* leases and homebase metadata.  No reader is invalidated.
MetadataCommit(pages) ==
    /\ IsTransaction(pages, db.count)
    /\ db' = Committed(db, Marks, pages, db.count, written + 1)
    /\ written' = written + Len(pages)
    /\ UNCHANGED <<parser, generation, idle, branches, views, capture, policy, groups>>

(***************************************************************************)
(* DatabaseCommitBackend::capture_snapshot and SnapshotCache::capture.     *)
(***************************************************************************)

\* before_snapshot decides whether a snapshot may be issued.
CaptureBegin(failed) ==
    /\ capture = NoCapture
    /\ \E b \in BranchSlots : ~branches[b].live
    /\ \E r \in {before_snapshot(Marks, failed)} :
           /\ db' = r.db
           /\ policy' = r.policy
           /\ capture' = IF r.ok THEN [step |-> "observe", attempt |-> 1] ELSE capture
    /\ UNCHANGED <<parser, generation, idle, branches, views, written, groups>>

\* The observation that starts an attempt.
CaptureObserve ==
    /\ capture.step = "observe"
    /\ parser' = ObservedLog(parser, db)
    /\ capture' = [step |-> "observed", attempt |-> capture.attempt,
                   tip |-> parser'.committed]
    /\ UNCHANGED <<db, generation, idle, branches, views, policy, written, groups>>

\* BEGIN and PRAGMA page_count on a pooled reader.
CapturePin ==
    /\ capture.step = "observed"
    /\ idle' = Popped
    /\ capture' = [step |-> "pinned", attempt |-> capture.attempt,
                   tip |-> capture.tip, tx |-> Began]
    /\ UNCHANGED <<db, parser, generation, branches, views, policy, written, groups>>

same_tip(before, after) ==
    /\ before.salt = after.salt
    /\ before.max = after.max

\* The second observation: the same tip and the page count the reader saw, or
\* another attempt.
CaptureFinish ==
    /\ capture.step = "pinned"
    /\ parser' = ObservedLog(parser, db)
    /\ LET after == parser'.committed
           count == Len(capture.tx.image)
           stable == /\ same_tip(capture.tip, after)
                     /\ after = NoWal \/ after.count = count
       IN  \/ /\ stable
              /\ \E b \in BranchSlots :
                    /\ ~branches[b].live
                    /\ branches' = [branches EXCEPT ![b] =
                         [live |-> TRUE, tx |-> capture.tx,
                          snapshot |-> [wal |-> after, count |-> count],
                          stale |-> WrittenOver(parser', db),
                          overlay |-> NewOverlay(count), writes |-> 0,
                          expected |-> [p \in 1..count |-> PageOf(capture.tx.image[p])]]]
              /\ capture' = NoCapture
              /\ UNCHANGED idle
           \/ /\ ~stable
              /\ idle' = PushIdle(idle, PlainReader)
              /\ capture' = IF capture.attempt < MaxAttempts
                              THEN [step |-> "observe", attempt |-> capture.attempt + 1]
                              ELSE NoCapture
              /\ UNCHANGED branches
    /\ UNCHANGED <<db, generation, views, policy, written, groups>>

(***************************************************************************)
(* DatabaseCommitBackend::capture_view and the life of a view.             *)
(***************************************************************************)

\* A reader still pinned at the current generation is reused as it is.
checkout_view(reader) == reader.generation = generation

capture_view(v, failed) ==
    /\ capture = NoCapture
    /\ ~views[v].live
    /\ \E r \in {before_snapshot(Marks, failed)} :
       LET reuse == idle # <<>> /\ checkout_view(Last(idle))
           tx == IF reuse THEN Last(idle).tx
                 ELSE [open |-> TRUE, mark |-> ReadMark(r.db), image |-> Image(r.db),
                       groups |-> groups]
       IN  /\ db' = r.db
           /\ policy' = r.policy
           /\ \/ ~r.ok /\ UNCHANGED <<idle, views>>
              \/ /\ r.ok
                 /\ idle' = Popped
                 /\ views' = [views EXCEPT ![v] =
                      [live |-> TRUE, tx |-> tx, generation |-> generation,
                       recycling |-> FALSE, current |-> tx.groups = groups]]
    /\ UNCHANGED <<parser, generation, branches, capture, written, groups>>

\* PooledReader::drop of a view, up to the point where recycle has compared
\* its generation: a stale view is rolled back, a current one stays pinned.
ReleaseView(v) ==
    /\ views[v].live /\ ~views[v].recycling
    /\ IF views[v].generation = generation
         THEN /\ views' = [views EXCEPT ![v].recycling = TRUE]
              /\ UNCHANGED idle
         ELSE /\ views' = [views EXCEPT ![v] = NoBranch]
              /\ idle' = PushIdle(idle, PlainReader)
    /\ UNCHANGED <<db, parser, generation, branches, capture, policy, written, groups>>

\* The rest of recycle: the pinned reader enters the pool, or is closed.
ParkView(v) ==
    /\ views[v].live /\ views[v].recycling
    /\ views' = [views EXCEPT ![v] = NoBranch]
    /\ idle' = PushIdle(idle, [tx |-> views[v].tx, generation |-> views[v].generation])
    /\ UNCHANGED <<db, parser, generation, branches, capture, policy, written, groups>>

(***************************************************************************)
(* The branch's own SQLite connection, through the branch VFS.             *)
(***************************************************************************)

\* What the branch's SQLite sees: io_file_size and io_read.
io_file_size(b) == branches[b].overlay.size

io_read(b, page) == OverlayPage(db, branches[b].snapshot, branches[b].overlay, page)

\* io_write of one half of a page, or of a new page at the end of the file.
io_write(b, page, half, fails) ==
    /\ branches[b].live
    /\ branches[b].writes < MaxBranchWrites
    /\ page <= MaxPages
    /\ page <= branches[b].overlay.size \/ (page = branches[b].overlay.size + 1 /\ half = 2)
    /\ LET B == branches[b]
           value == -(B.writes + 1)
           was == IF page <= Len(B.expected) THEN B.expected[page] ELSE ZeroPage
       IN  branches' = [branches EXCEPT
             ![b].overlay = OverlayWrite(db, B.snapshot, B.overlay, page, half, value,
                                         MemoryLimit, fails),
             ![b].writes = @ + 1,
             ![b].expected = [p \in 1..MaxOf({Len(B.expected), page}) |->
                                IF p = page THEN [was EXCEPT ![half] = value]
                                            ELSE B.expected[p]]]
    /\ UNCHANGED <<db, parser, generation, idle, views, capture, policy, written, groups>>

\* io_truncate at a page boundary.
io_truncate(b, size) ==
    /\ branches[b].live
    /\ branches[b].writes < MaxBranchWrites
    /\ size < branches[b].overlay.size
    /\ branches' = [branches EXCEPT
         ![b].overlay = OverlayTruncate(@, size),
         ![b].writes = @ + 1,
         ![b].expected = SubSeq(@, 1, size)]
    /\ UNCHANGED <<db, parser, generation, idle, views, capture, policy, written, groups>>

\* WritableBranch::drop and PooledReader::drop: the pin is rolled back.
DropBranch(b) ==
    /\ branches[b].live
    /\ branches' = [branches EXCEPT ![b] = NoBranch]
    /\ idle' = PushIdle(idle, PlainReader)
    /\ UNCHANGED <<db, parser, generation, views, capture, policy, written, groups>>

CommitPages ==
    \E pages \in PageLists, count \in {db.count, db.count + 1}, failed \in BOOLEAN :
       commit_group(pages, count, failed)

Metadata == \E pages \in PageLists : MetadataCommit(pages) \/ RolledBack(pages)

CaptureStep == \/ \E failed \in BOOLEAN : CaptureBegin(failed)
               \/ CaptureObserve \/ CapturePin \/ CaptureFinish

View == \E v \in ViewSlots : \/ \E failed \in BOOLEAN : capture_view(v, failed)
                             \/ ReleaseView(v) \/ ParkView(v)

Branch == \E b \in BranchSlots :
             \/ \E p \in 1..MaxPages, h \in Halves, fails \in BOOLEAN : io_write(b, p, h, fails)
             \/ \E n \in 0..MaxPages : io_truncate(b, n)
             \/ DropBranch(b)

BranchNext == CommitPages \/ Metadata \/ CaptureStep \/ View \/ Branch

BranchSpec == BranchInit /\ [][BranchNext]_branchVars

(***************************************************************************)
(* Properties                                                              *)
(***************************************************************************)

LiveBranches == {b \in BranchSlots : branches[b].live}

BranchContent(b) == [p \in 1..io_file_size(b) |-> io_read(b, p)]

\* The log a snapshot has frames in was started over or cut to nothing while
\* the snapshot's companion reader held only the lock on the database file.
LogReplacedUnderBasePin(b) ==
    /\ branches[b].tx.mark = 0
    /\ branches[b].snapshot.wal # NoWal
    /\ branches[b].snapshot.wal.salt # db.salt \/ db.wal = <<>>

\* Every live branch reads exactly the committed image its companion reader
\* was pinned at, changed by its own writes and truncations only: whatever is
\* committed, rolled back, checkpointed, spilled or truncated meanwhile, and
\* whatever was committed between the steps of its capture (DESIGN.md,
\* "companion SQLite read pins preserve live images").  Except in the two
\* situations in which the code lets the image go: the log was replaced under
\* a reader that pins only the database file, or the branch was derived by a
\* parser that had consumed frames of a rolled-back transaction which were
\* then written over.
BranchImageStable ==
    \A b \in LiveBranches :
        \/ branches[b].stale
        \/ LogReplacedUnderBasePin(b)
        \/ BranchContent(b) = branches[b].expected

\* Incremental parsing agrees with parsing the log from the start
\* (branch/wal.rs: "the same state machine"), as long as no consumed frame was
\* written over in its epoch.
IncrementalIsCold ==
    LET p == ObservedLog(parser, db)
    IN  db.wal = <<>> \/ WrittenOver(p, db) \/ p.committed = ColdParse(db).committed

\* A view shows every commit group that completed before it was captured, also
\* when the reader it reuses was pinned earlier (ReaderPool::checkout_view).
ViewIsCurrent ==
    \A v \in ViewSlots : views[v].live => views[v].current

\* Backpressure ends with the readers that cause it: while snapshots are
\* refused and no branch or view is live, the next attempt to issue one
\* truncates the log and succeeds (CheckpointPolicy::before_snapshot).  A
\* reader that entered the pool pinned at an older generation is excepted.
BlockedOnlyByLive ==
    \/ ~policy.blocked
    \/ LiveTxs # {} \/ capture # NoCapture
    \/ \E i \in DOMAIN idle : idle[i].tx.open /\ idle[i].generation < generation
    \/ before_snapshot(Marks, FALSE).ok

\* The overlay's accounting: memory counts the pages in memory, and no two
\* spilled pages share a place in the spill file (PageOverlay::spill_if_needed,
\* also after a failed spill and after a truncation).
OverlayAccounting ==
    \A b \in LiveBranches :
        LET o == branches[b].overlay
            spilled == {p \in DOMAIN o.pages : o.pages[p].at = "spilled"}
        IN  /\ o.memory = Cardinality(MemoryPages(o.pages))
            /\ \A p \in spilled : o.pages[p].offset \in 1..o.next
            /\ \A p, q \in spilled : o.pages[p].offset = o.pages[q].offset => p = q
            /\ \A p \in DOMAIN o.pages : p <= o.size

\* Whoever reads sees one committed image: a branch its own, a view the current
\* one, whichever way the log was parsed and wherever the overlay keeps its pages.
SnapshotsAreExact == BranchImageStable /\ IncrementalIsCold /\ ViewIsCurrent /\ OverlayAccounting
=============================================================================
