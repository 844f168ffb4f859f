---------------------------- MODULE WalSegments ----------------------------
(***************************************************************************)
(* The segmented write-ahead log (chirondb-core/src/wal.rs, wal/layout.rs) *)
(* that every store of ChironDB and the transaction journal append to.     *)
(*                                                                         *)
(* A WAL is a directory of numbered segment files and a sidecar wal.base   *)
(* that names the retained range: the LSN of its first byte, its first     *)
(* segment and (V2) the last segment that may hold data.  The owner of the *)
(* handle serialises its operations; an operation is a sequence of steps   *)
(* on the disk (variable stage), each of which may fail, and between which *)
(* the process may be killed or the machine lose power.                    *)
(*                                                                         *)
(* Data are abstracted to frames of RecordLen cells; each cell holds the   *)
(* LSN that the frame's envelope names.  A torn frame has fewer cells.  A  *)
(* directory operation and the directory sync after it are one step.       *)
(***************************************************************************)
EXTENDS Integers, Sequences, FiniteSetsExt

CONSTANTS
  SegmentBytes,  \* segment_bytes, in cells
  Crashes,       \* crash kinds the environment may produce
  IoErrors,      \* operations in which the file system may report an error
  EmptyReset,    \* whether a WAL without records is ever reset
  MaxLsn,        \* bound on the LSN a record may reach
  MaxSegment     \* bound on the segment index a reset of an empty WAL makes

RecordLen == 2
Errors == {"write", "sync", "rotate", "cut", "reset", "prefix"}

ASSUME ConstantsAssumption ==
  /\ SegmentBytes \in Nat
  /\ Crashes \subseteq {"kill", "power"}
  /\ IoErrors \subseteq Errors
  /\ EmptyReset \in BOOLEAN
  /\ MaxLsn \in Nat
  /\ MaxSegment \in Nat

VARIABLES
  \* the directory: contents and synced length of each segment, and wal.base
  data, synced, base,
  \* the handle
  file, active_index, base_lsn, poisoned, dirty,
  \* the operation under way
  stage, op, doomed,
  \* history: the end of what a caller was promised to find after a crash, of
  \* what callers gave up, and of what the handle found when it was opened
  promised, released, inherited

disk == <<data, synced, base>>
handle == <<file, active_index, base_lsn, poisoned, dirty>>
running == <<stage, op, doomed>>
vars == <<disk, handle, running, promised, released, inherited>>

None == -1    \* wal.base V1 has no last_segment
Segments == DOMAIN data
Opening == {"closed", "open_remove", "open_create", "open_base"}
Stages == Opening \cup
  {"idle", "write", "sync", "rotate_sync", "rotate_create", "rotate_base",
   "capture", "reset_sync", "reset_create", "reset_base", "reset_remove",
   "prefix_sync", "prefix_base", "prefix_remove"}
NoOp == [kind |-> "none", sync |-> FALSE, lsn |-> 0]

(***************************************************************************)
(* The directory as a reader finds it.                                     *)
(***************************************************************************)
Retained == {i \in Segments : i >= base.first_segment}
Final == Max(Retained)
BytesOf(S) == MapThenSumSet(LAMBDA i : Len(data[i]), S)
Start(i) == base.lsn + BytesOf({j \in Retained : j < i})
Required ==
  IF base.last_segment > base.first_segment THEN base.last_segment
  ELSE base.first_segment

\* The inventory is contiguous, reaches the frontier of wal.base, and holds
\* no data beyond it.
wal_segments_accepts ==
  /\ Retained # {} => Retained = base.first_segment .. Final
  /\ base.last_segment # None =>
       /\ Retained # {} /\ Final >= Required
       /\ \A i \in Retained : i > Required => data[i] = << >>

\* The frames of segment i are whole and each is at the LSN it names.  Only
\* the last segment may be empty, or end in a torn frame.
Frames(i) == Len(data[i]) \div RecordLen
Torn(i) == Len(data[i]) % RecordLen # 0
segment_accepts(i) ==
  /\ i # Final => data[i] # << >> /\ ~Torn(i)
  /\ \A k \in 1 .. Frames(i) * RecordLen :
       data[i][k] = Start(i) + RecordLen * ((k - 1) \div RecordLen)

scan_accepts ==
  /\ wal_segments_accepts
  /\ \A i \in Retained : segment_accepts(i)

ScanEnd ==
  IF Retained = {} THEN base.lsn
  ELSE Start(Final) + RecordLen * Frames(Final)

(***************************************************************************)
(* The handle.                                                             *)
(***************************************************************************)
active_len == Len(data[file])
wal_len == base_lsn + active_len

Available == stage = "idle" /\ ~poisoned

\* A step of the file system that may report error e.  When it does, its
\* effect may have happened or not.
io(done, ok, e) == (ok => done) /\ (~ok => e \in IoErrors)

returns ==
  /\ stage' = "idle"
  /\ op' = NoOp
  /\ doomed' = {}

\* Mutant: the sync is left out.
fsync_skipped(i) == synced' = synced

fsync(i) == synced' = [synced EXCEPT ![i] = Len(data[i])]

\* A new segment is empty and synced, and so is its directory entry.
create(i) ==
  /\ data' = [j \in Segments \cup {i} |-> IF j = i THEN << >> ELSE data[j]]
  /\ synced' = [j \in Segments \cup {i} |-> IF j = i THEN 0 ELSE synced[j]]

remove(i) ==
  /\ data' = [j \in Segments \ {i} |-> data[j]]
  /\ synced' = [j \in Segments \ {i} |-> synced[j]]
-----------------------------------------------------------------------------
Init ==
  /\ data = [i \in {} |-> << >>] /\ synced = [i \in {} |-> 0]
  /\ base = [lsn |-> 0, first_segment |-> 0, last_segment |-> None]
  /\ file = 0 /\ active_index = 0 /\ base_lsn = 0
  /\ poisoned = FALSE /\ dirty = FALSE
  /\ stage = "closed" /\ op = NoOp /\ doomed = {}
  /\ promised = 0 /\ released = 0 /\ inherited = 0

(***************************************************************************)
(* Opening: a scan repairs a torn tail, segments before wal.base go, the   *)
(* last segment becomes the active one, and wal.base names it.             *)
(***************************************************************************)
recover_from ==
  /\ stage = "closed"
  /\ scan_accepts
  /\ IF Retained # {} /\ Torn(Final)
     THEN LET n == RecordLen * Frames(Final)
          IN /\ data' = [data EXCEPT ![Final] = SubSeq(@, 1, n)]
             /\ synced' = [synced EXCEPT ![Final] = n]
     ELSE UNCHANGED <<data, synced>>
  /\ stage' = "open_remove"
  /\ UNCHANGED <<base, handle, op, doomed, promised, released, inherited>>

Stale == {i \in Segments : i < base.first_segment}

open_remove ==
  /\ stage = "open_remove"
  /\ IF Stale # {}
     THEN remove(Min(Stale)) /\ UNCHANGED stage
     ELSE /\ stage' = "open_create"
          /\ UNCHANGED <<data, synced>>
  /\ UNCHANGED <<base, handle, op, doomed, promised, released, inherited>>

open_create ==
  /\ stage = "open_create"
  /\ wal_segments_accepts
  /\ IF Retained = {}
     THEN create(base.first_segment) /\ active_index' = base.first_segment
     ELSE UNCHANGED <<data, synced>> /\ active_index' = Final
  /\ file' = active_index'
  /\ base_lsn' = base.lsn + BytesOf({i \in Retained : i < active_index'})
  /\ poisoned' = FALSE /\ dirty' = FALSE
  /\ inherited' = base_lsn' + Len(data'[active_index'])
  /\ stage' = "open_base"
  /\ UNCHANGED <<base, op, doomed, promised, released>>

open_base ==
  /\ stage = "open_base"
  /\ base' = [base EXCEPT !.last_segment = active_index]
  /\ stage' = "idle"
  /\ UNCHANGED <<data, synced, handle, op, doomed, promised, released, inherited>>

(***************************************************************************)
(* append and append_no_sync.  A frame that would overflow the active      *)
(* segment goes to a new one.                                              *)
(***************************************************************************)
append_inner(sync) ==
  /\ Available
  /\ wal_len + RecordLen <= MaxLsn
  /\ stage' = IF active_len > 0 /\ active_len + RecordLen > SegmentBytes
              THEN "rotate_sync" ELSE "write"
  /\ op' = [kind |-> "append", sync |-> sync, lsn |-> wal_len]
  /\ UNCHANGED <<disk, handle, doomed, promised, released, inherited>>

\* Mutant: the handle stays usable.
write_fails_usable == UNCHANGED poisoned /\ returns

write_fails == poisoned' = TRUE /\ returns

\* n cells reach the file; fewer than a frame is an error.
write_frame(n) ==
  /\ stage = "write"
  /\ io(n = RecordLen, n = RecordLen, "write")
  /\ data' = [data EXCEPT ![file] = @ \o [k \in 1 .. n |-> op.lsn]]
  /\ IF n < RecordLen
     THEN write_fails /\ UNCHANGED dirty
     ELSE /\ dirty' = TRUE
          /\ IF op.sync THEN stage' = "sync" /\ UNCHANGED <<op, doomed>>
             ELSE returns
          /\ UNCHANGED poisoned
  /\ UNCHANGED <<synced, base, file, active_index, base_lsn, promised, released, inherited>>

\* sync(), alone or at the end of append.
sync(ok) ==
  /\ stage = "sync" \/ Available
  /\ io(TRUE, ok, "sync")
  /\ IF ok
     THEN /\ fsync(file)
          /\ dirty' = FALSE
          /\ promised' = wal_len
          /\ UNCHANGED poisoned
     ELSE poisoned' = TRUE /\ UNCHANGED <<synced, dirty, promised>>
  /\ returns
  /\ UNCHANGED <<data, base, file, active_index, base_lsn, released, inherited>>

(***************************************************************************)
(* rotate, called by append, freeze_archive_cut and drop_prefix.  Only     *)
(* append poisons the handle when it fails.                                *)
(***************************************************************************)
rotation_error == IF op.kind = "append" THEN "rotate" ELSE "cut"

\* Mutant: no caller poisons the handle.
rotation_fails_usable == UNCHANGED poisoned /\ returns

rotation_fails ==
  /\ poisoned' = (op.kind = "append")
  /\ returns

rotate_sync(ok) ==
  /\ stage = "rotate_sync"
  /\ io(TRUE, ok, rotation_error)
  /\ IF ok
     THEN /\ fsync(file)
          /\ dirty' = FALSE
          /\ promised' = wal_len
          /\ base_lsn' = base_lsn + active_len
          /\ active_index' = active_index + 1
          /\ stage' = "rotate_create"
          /\ UNCHANGED <<poisoned, op, doomed>>
     ELSE rotation_fails /\ UNCHANGED <<synced, dirty, promised, base_lsn, active_index>>
  /\ UNCHANGED <<data, base, file, released, inherited>>

rotate_create(done, ok) ==
  /\ stage = "rotate_create"
  /\ IF active_index \in Segments THEN ~done /\ ~ok
     ELSE io(done, ok, rotation_error)
  /\ IF done THEN create(active_index) /\ file' = active_index
     ELSE UNCHANGED <<data, synced, file>>
  /\ IF ok THEN stage' = "rotate_base" /\ UNCHANGED <<poisoned, op, doomed>>
     ELSE rotation_fails
  /\ UNCHANGED <<base, active_index, base_lsn, dirty, promised, released, inherited>>

after_rotation ==
  CASE op.kind = "append" -> "write"
    [] op.kind = "cut" -> "capture"
    [] op.kind = "prefix" -> "prefix_base"

\* Mutant: wal.base is not told of the new segment.
rotate_base_unwritten(done, ok) ==
  /\ stage = "rotate_base"
  /\ done /\ ok
  /\ stage' = after_rotation
  /\ UNCHANGED <<disk, handle, op, doomed, promised, released, inherited>>

rotate_base(done, ok) ==
  /\ stage = "rotate_base"
  /\ io(done, ok, rotation_error)
  /\ base' = IF done THEN [base EXCEPT !.last_segment = active_index] ELSE base
  /\ IF ok
     THEN stage' = after_rotation /\ UNCHANGED <<poisoned, op, doomed>>
     ELSE rotation_fails
  /\ UNCHANGED <<data, synced, file, active_index, base_lsn, dirty, promised, released, inherited>>

(***************************************************************************)
(* freeze_archive_cut: every segment before the active one becomes an      *)
(* immutable archive of the records up to the end of the log.              *)
(***************************************************************************)
\* Mutant: the active segment is not rotated.
freeze_archive_cut_unrotated(ok) ==
  /\ Available /\ ok
  /\ op' = [kind |-> "cut", sync |-> FALSE, lsn |-> wal_len]
  /\ fsync(file) /\ stage' = "capture"
  /\ UNCHANGED <<data, base, handle, doomed, promised, released, inherited>>

freeze_archive_cut(ok) ==
  /\ Available
  /\ io(TRUE, ok, "sync")
  /\ ok \/ active_len = 0
  /\ IF ok
     THEN /\ op' = [kind |-> "cut", sync |-> FALSE, lsn |-> wal_len]
          /\ IF active_len = 0 THEN fsync(file) /\ stage' = "capture"
             ELSE stage' = "rotate_sync" /\ UNCHANGED synced
          /\ UNCHANGED <<poisoned, doomed>>
     ELSE poisoned' = TRUE /\ returns /\ UNCHANGED synced
  /\ UNCHANGED <<data, base, file, active_index, base_lsn, dirty, promised, released, inherited>>

Frozen == {i \in Retained : i < active_index}

capture ==
  /\ stage = "capture"
  /\ returns
  /\ UNCHANGED <<disk, handle, promised, released, inherited>>

(***************************************************************************)
(* reset: all records are given up.  An empty successor is published       *)
(* first, then wal.base moves to it, then the old segments go.  Compaction *)
(* calls it with a record of its own just appended, or, when there was     *)
(* nothing to compact, with a WAL that holds no record at all.             *)
(***************************************************************************)
reset ==
  /\ Available
  /\ active_len = 0 =>
       EmptyReset /\ BytesOf(Retained) = 0 /\ Max(Segments) < MaxSegment
  /\ released' = Max({released, wal_len})
  /\ op' = [kind |-> "reset", sync |-> FALSE, lsn |-> wal_len]
  /\ doomed' = Segments
  /\ stage' = "reset_sync"
  /\ UNCHANGED <<disk, handle, promised, inherited>>

\* Mutant: the new generation starts again at LSN 0.
reset_lsn_zero == 0

reset_lsn == op.lsn
successor == Max(doomed) + 1

reset_fails == poisoned' = TRUE /\ returns

reset_sync(ok) ==
  /\ stage = "reset_sync"
  /\ io(TRUE, ok, "reset")
  /\ IF ok THEN fsync(file) /\ stage' = "reset_create" /\ UNCHANGED <<poisoned, op, doomed>>
     ELSE reset_fails /\ UNCHANGED synced
  /\ UNCHANGED <<data, base, file, active_index, base_lsn, dirty, promised, released, inherited>>

reset_create(done, ok) ==
  /\ stage = "reset_create"
  /\ io(done, ok, "reset")
  /\ IF done THEN create(successor) ELSE UNCHANGED <<data, synced>>
  /\ IF ok THEN stage' = "reset_base" /\ UNCHANGED <<poisoned, op, doomed>>
     ELSE reset_fails
  /\ UNCHANGED <<base, file, active_index, base_lsn, dirty, promised, released, inherited>>

reset_base(done, ok) ==
  /\ stage = "reset_base"
  /\ io(done, ok, "reset")
  /\ base' = IF done THEN [lsn |-> reset_lsn, first_segment |-> successor,
                           last_segment |-> successor]
             ELSE base
  /\ promised' = IF done THEN op.lsn ELSE promised
  /\ IF ok
     THEN /\ file' = successor
          /\ active_index' = successor
          /\ base_lsn' = reset_lsn
          /\ dirty' = FALSE
          /\ stage' = "reset_remove"
          /\ UNCHANGED <<poisoned, op, doomed>>
     ELSE reset_fails /\ UNCHANGED <<file, active_index, base_lsn, dirty>>
  /\ UNCHANGED <<data, synced, released, inherited>>

reset_remove(done, ok) ==
  /\ stage = "reset_remove"
  /\ io(done, ok, "reset")
  /\ IF done THEN remove(Min(doomed)) ELSE UNCHANGED <<data, synced>>
  /\ IF ~ok THEN reset_fails
     ELSE /\ UNCHANGED poisoned
          /\ IF doomed = {Min(doomed)} THEN returns
             ELSE doomed' = doomed \ {Min(doomed)} /\ UNCHANGED <<stage, op>>
  /\ UNCHANGED <<base, file, active_index, base_lsn, dirty, promised, released, inherited>>

(***************************************************************************)
(* drop_prefix: the caller gives up the records before up_to.  Whole       *)
(* segments before it go; when it is the end of the log, the active        *)
(* segment is rotated first so that it can go too.                         *)
(***************************************************************************)
Boundaries == {n \in base.lsn .. wal_len : (n - base.lsn) % RecordLen = 0}

drop_prefix(up_to) ==
  /\ Available
  /\ up_to \in Boundaries
  /\ up_to # base.lsn => scan_accepts /\ ~Torn(Final)
  /\ released' = Max({released, up_to})
  /\ op' = [kind |-> "prefix", sync |-> FALSE, lsn |-> up_to]
  /\ stage' = "prefix_sync"
  /\ UNCHANGED <<disk, handle, doomed, promised, inherited>>

prefix_sync(ok) ==
  /\ stage = "prefix_sync"
  /\ io(TRUE, ok, "prefix")
  /\ IF ok
     THEN /\ fsync(file)
          /\ stage' = IF active_len > 0 /\ wal_len <= op.lsn
                      THEN "rotate_sync" ELSE "prefix_base"
          /\ UNCHANGED <<poisoned, op, doomed>>
     ELSE poisoned' = TRUE /\ UNCHANGED synced /\ returns
  /\ UNCHANGED <<data, base, file, active_index, base_lsn, dirty, promised, released, inherited>>

Dropped ==
  {i \in Retained : i < active_index /\ Start(i) + Len(data[i]) <= op.lsn}

retained_base ==
  [lsn |-> base.lsn + BytesOf(Dropped), first_segment |-> Max(Dropped) + 1,
   last_segment |-> active_index]

prefix_base(done, ok) ==
  /\ stage = "prefix_base"
  /\ io(done, ok, "prefix")
  /\ base' = IF done /\ Dropped # {} THEN retained_base ELSE base
  /\ IF ok /\ Dropped # {}
     THEN stage' = "prefix_remove" /\ doomed' = Dropped /\ UNCHANGED op
     ELSE returns
  /\ promised' = Max({promised, base'.lsn})
  /\ UNCHANGED <<data, synced, handle, released, inherited>>

prefix_remove(done, ok) ==
  /\ stage = "prefix_remove"
  /\ io(done, ok, "prefix")
  /\ IF done THEN remove(Min(doomed)) ELSE UNCHANGED <<data, synced>>
  /\ IF ok /\ doomed # {Min(doomed)}
     THEN doomed' = doomed \ {Min(doomed)} /\ UNCHANGED <<stage, op>>
     ELSE returns
  /\ UNCHANGED <<base, handle, promised, released, inherited>>

(***************************************************************************)
(* Crashes.  A kill keeps all that was written; a power loss keeps of each *)
(* file its synced cells and any part of the rest.                         *)
(***************************************************************************)
crash ==
  /\ stage' = "closed" /\ op' = NoOp /\ doomed' = {}
  /\ file' = 0 /\ active_index' = 0 /\ base_lsn' = 0
  /\ poisoned' = FALSE /\ dirty' = FALSE
  /\ UNCHANGED <<base, promised>>
  /\ released' = Min({released, ScanEnd'})
  /\ inherited' = 0

kill == "kill" \in Crashes /\ stage # "closed" /\ UNCHANGED <<data, synced>> /\ crash

Unsynced == {i \in Segments : synced[i] < Len(data[i])}

power_loss ==
  /\ "power" \in Crashes
  /\ \E kept \in [Unsynced -> 0 .. MaxLsn] :
       /\ \A i \in Unsynced : kept[i] \in synced[i] .. Len(data[i])
       /\ synced' = [i \in Segments |->
                       IF i \in Unsynced THEN kept[i] ELSE synced[i]]
       /\ data' = [i \in Segments |-> SubSeq(data[i], 1, synced'[i])]
  /\ crash
-----------------------------------------------------------------------------
Next ==
  \/ recover_from \/ open_remove \/ open_create \/ open_base
  \/ \E b \in BOOLEAN :
       \/ append_inner(b) \/ sync(b) \/ rotate_sync(b) \/ reset_sync(b)
       \/ prefix_sync(b) \/ freeze_archive_cut(b)
  \/ \E n \in 0 .. RecordLen : write_frame(n)
  \/ \E done, ok \in BOOLEAN :
       \/ rotate_create(done, ok) \/ rotate_base(done, ok)
       \/ reset_create(done, ok) \/ reset_base(done, ok) \/ reset_remove(done, ok)
       \/ prefix_base(done, ok) \/ prefix_remove(done, ok)
  \/ capture \/ reset
  \/ \E up_to \in 0 .. MaxLsn : drop_prefix(up_to)
  \/ kill \/ power_loss

Spec == Init /\ [][Next]_vars
-----------------------------------------------------------------------------
\* Every variable has the type of its field, and wal.base is one that
\* read_wal_base takes: its frontier does not precede its first segment.
TypeOK ==
  /\ data \in [Segments -> Seq(Nat)]
  /\ synced \in [Segments -> Nat]
  /\ \A i \in Segments : i \in Nat /\ synced[i] <= Len(data[i])
  /\ base \in [lsn : Nat, first_segment : Nat, last_segment : Nat \cup {None}]
  /\ base.last_segment = None \/ base.first_segment <= base.last_segment
  /\ file \in Nat /\ active_index \in Nat /\ base_lsn \in Nat
  /\ poisoned \in BOOLEAN /\ dirty \in BOOLEAN
  /\ stage \in Stages
  /\ op \in [kind : {"none", "append", "cut", "reset", "prefix"},
             sync : BOOLEAN, lsn : Nat]
  /\ doomed \subseteq Nat
  /\ promised \in Nat /\ released \in Nat /\ inherited \in Nat

\* Whatever step of whatever operation a crash or an I/O error cuts short,
\* the directory it leaves is one that recovery reads: the segment inventory
\* is accepted and every retained frame is whole and at its LSN.
Recoverable == stage = "closed" => scan_accepts

\* A usable handle agrees with the directory: the LSN it gives the next
\* record is the LSN at which recovery will look for it.
HandleAgrees == Available => scan_accepts /\ wal_len = ScanEnd

\* A handle that reports no unsynced bytes, and so is skipped by the
\* background flusher, has none of its own: what is not synced was there
\* when the handle was opened.
CleanIsDurable ==
  Available /\ ~dirty =>
    \A i \in Retained :
      synced[i] < Len(data[i]) => Start(i) + Len(data[i]) <= inherited

\* The frozen segments of an archive cut hold exactly the records from the
\* base of the WAL to the end at which the cut was asked for.
CutIsExact == stage = "capture" => base.lsn + BytesOf(Frozen) = op.lsn

\* No record enters a segment beyond the frontier that wal.base names.
FrontierFencesMutations ==
  base.last_segment # None =>
    \A i \in Retained : i > Required => data[i] = << >>

\* The WAL implements a durable log: records that were promised survive, and
\* only released ones are dropped.
Durable == INSTANCE DurableLog WITH lo <- base.lsn, hi <- ScanEnd
ImplementsDurableLog == Durable!Spec
=============================================================================
