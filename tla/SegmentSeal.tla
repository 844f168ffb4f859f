---------------------------- MODULE SegmentSeal ----------------------------
(***************************************************************************)
(* One vector collection: its mutable streamer, the background seal that   *)
(* turns a frozen streamer into an immutable segment, compaction, and the  *)
(* load of the collection after a crash (db.rs, db/generation_builder.rs,  *)
(* overlay.rs, checkpoint.rs, segment.rs).                                 *)
(*                                                                         *)
(* A row is the LSN of the upsert that wrote it.  The log is the whole     *)
(* history; its first `base` records have been dropped from the WAL.       *)
(* Records are durable when they are written: the transaction journal      *)
(* writes them again when they are not.  A worker that holds the write     *)
(* lock of the collection is at one of the program points of Locked; only  *)
(* a crash comes between its steps.                                        *)
(***************************************************************************)
EXTENDS Integers, Sequences, FiniteSets, SequencesExt, FiniteSetsExt

CONSTANTS
  Points,            \* point ids
  MaxMutations,      \* bound on upserts and deletes
  MaxCompactions,    \* bound on compactions
  MaxFailures,       \* bound on failed file system calls
  MaxCrashes,        \* bound on crashes
  MinFanIn,          \* SIZE_TIER_MIN_FAN_IN
  Deviations         \* the known deviations that are let happen (README, section 4)

ASSUME ConstantsAssumption ==
  /\ {MaxMutations, MaxCompactions, MaxFailures, MaxCrashes} \subseteq Nat
  /\ MinFanIn \in Nat \ {0}
  /\ "none" \notin Points
  /\ Deviations \subseteq {"order", "generation", "missing"}

VARIABLES
  log, base,      \* the history and the length of its dropped prefix
  segs,           \* segment directories: their rows and tombstone sidecar
  manifest,       \* segments.json
  published,      \* the overlay CURRENT names
  checkpoint,     \* checkpoint.gdx: WAL watermark, whether a segment is named
  up,             \* the collection is loaded
  streamer,       \* mutable rows
  sealing,        \* the frozen streamer and the worker it belongs to
  searchers,      \* names of the installed segments, by position
  id_index,       \* where each live point is
  overlay,        \* the overlay in memory: generation and hidden rows
  last_segment,   \* last_segment_id is set
  building,       \* generation_build_in_flight
  seal, compact,  \* the background seal and the compaction under way
  used            \* what has been used of the bounds; whether a build was left behind

wal == <<log, base>>
disk == <<segs, manifest, published, checkpoint>>
content == <<streamer, sealing, searchers, id_index>>
memory == <<up, content, overlay, last_segment, building>>
vars == <<wal, disk, memory, seal, compact, used>>

\* Locations of the id index; a positive location is a searcher's position.
Streamer == -1
Sealing == 0

\* The map f with x at v, and f completed by g.
Put(f, x, v) == [y \in DOMAIN f \cup {x} |-> IF y = x THEN v ELSE f[y]]
Completed(f, g) == [x \in DOMAIN f \cup DOMAIN g |-> IF x \in DOMAIN f THEN f[x] ELSE g[x]]

NoRows == [p \in {} |-> 0]
NotSealing == [owner |-> "none", rows |-> NoRows]
NoManifest == [exists |-> FALSE, generation |-> 0, segments |-> <<>>]
NoSeal == [pc |-> "idle", end |-> 0]
NoCompact ==
  [pc |-> "idle", staged |-> FALSE, name |-> <<0, 0, 0>>, end |-> 0, entries |-> NoRows,
   rows |-> NoRows, selected |-> {}, mark |-> 0, segment |-> FALSE]

Init ==
  /\ log = <<>> /\ base = 0 /\ segs = [s \in {} |-> 0] /\ manifest = NoManifest
  /\ published = [generation |-> 0, points |-> {}]
  /\ checkpoint = [watermark |-> 0, segment |-> FALSE]
  /\ up = TRUE /\ streamer = NoRows /\ sealing = NotSealing /\ searchers = <<>>
  /\ id_index = NoRows /\ overlay = published /\ last_segment = FALSE /\ building = FALSE
  /\ seal = NoSeal /\ compact = NoCompact
  /\ used = [mutations |-> 0, compactions |-> 0, failures |-> 0, crashes |-> 0,
             stuck |-> FALSE]

Spend(what) == used' = [used EXCEPT ![what] = @ + 1]
MayFail == used.failures < MaxFailures

\* Known deviation: an error returns before the flag of the build under way is
\* cleared and its frozen streamer removed or given back.
LeftBehind == used' = [used EXCEPT !.failures = @ + 1, !.stuck = TRUE]

Locked ==
  \/ seal.pc \in {"manifest", "checkpoint", "drop"}
  \/ compact.pc \in {"advance", "manifest", "empty", "migrate", "write", "clear", "install",
                     "rewrite", "overlay", "checkpoint", "cut", "remove"}
-----------------------------------------------------------------------------
(***************************************************************************)
(* Segment names sort as their directories do: sg-<crc> of the legacy      *)
(* format (kind 0), sg-v6-<lsn> of a seal (1), sg-v6-merge-<lsn>-<gen> of  *)
(* a compaction (2).                                                       *)
(***************************************************************************)
LegacyName(generation) == <<0, 0, generation>>
SealName(end) == <<1, end, 0>>
MergeName(end, generation) == <<2, end, generation>>
IsLegacy(s) == s[1] = 0

Before(s, t) ==
  \/ s[1] < t[1]
  \/ s[1] = t[1] /\ s[2] < t[2]
  \/ s[1] = t[1] /\ s[2] = t[2] /\ s[3] < t[3]

exact_vectors_current == \A i \in DOMAIN searchers : ~IsLegacy(searchers[i])
RowsOf(i) == segs[searchers[i]].rows
HiddenAt(points, s, p) == <<s, p>> \in points
NextGeneration == manifest.generation + 1
Hide(s, ids) == {s} \X ids

\* The row a location holds (try_resolve).
Resolve(p) ==
  CASE id_index[p] = Streamer -> streamer[p]
    [] id_index[p] = Sealing -> sealing.rows[p]
    [] OTHER -> RowsOf(id_index[p])[p]

(***************************************************************************)
(* One record applied to [streamer, index, hidden] over the given          *)
(* searchers: the mutation itself, and its replay.                         *)
(***************************************************************************)
Applied(state, record, lsn, order) ==
  LET p == record.id
      sealed == p \in DOMAIN state.index /\ state.index[p] > 0
      tombstone == IF sealed THEN {<<order[state.index[p]], p>>} ELSE {}
  IN  CASE record.op = "put" ->
             [streamer |-> Put(state.streamer, p, lsn), index |-> Put(state.index, p, Streamer),
              hidden |-> state.hidden \cup tombstone]
        [] record.op = "del" ->
             [streamer |-> Restrict(state.streamer, DOMAIN state.streamer \ {p}),
              index |-> Restrict(state.index, DOMAIN state.index \ {p}),
              hidden |-> state.hidden \cup tombstone]
        [] OTHER -> state

\* The streamer is moved aside for the given worker (freeze_streamer_for_seal).
Frozen(index) == [p \in DOMAIN index |-> IF index[p] = Streamer THEN Sealing ELSE index[p]]

\* What a failed build gives back to the streamer (restore_failed_seal).
restore_failed_seal(owner) ==
  LET back == {p \in DOMAIN sealing.rows \cap DOMAIN id_index : id_index[p] = Sealing}
  IN  IF sealing.owner # owner THEN UNCHANGED <<streamer, sealing, id_index>>
      ELSE /\ streamer' = Completed(Restrict(sealing.rows, back), streamer)
           /\ id_index' = Completed([p \in back |-> Streamer], id_index)
           /\ sealing' = NotSealing
-----------------------------------------------------------------------------
(***************************************************************************)
(* Mutations.  The overlay they leave pending is published by themselves,  *)
(* by the flusher or by a later step: a crash may come first.              *)
(***************************************************************************)
Mutates(record) ==
  /\ up /\ ~Locked /\ compact.pc # "lost" /\ used.mutations < MaxMutations
  /\ Spend("mutations")
  /\ log' = Append(log, record)

Result(record) ==
  Applied([streamer |-> streamer, index |-> id_index, hidden |-> overlay.points],
          record, Len(log) + 1, searchers)

Upsert(p) ==
  LET new == Result([op |-> "put", id |-> p])
  IN  /\ Mutates([op |-> "put", id |-> p])
      /\ streamer' = new.streamer /\ id_index' = new.index
      /\ overlay' = [overlay EXCEPT !.points = new.hidden]
      /\ UNCHANGED <<base, disk, up, sealing, searchers, last_segment, building, seal, compact>>

\* The streamer has reached its limit: it is frozen in the same upsert.
UpsertAndSeal(p) ==
  LET new == Result([op |-> "put", id |-> p])
  IN  /\ sealing.owner = "none" /\ ~building
      /\ Mutates([op |-> "put", id |-> p])
      /\ overlay' = [overlay EXCEPT !.points = new.hidden] /\ published' = overlay'
      /\ streamer' = NoRows /\ id_index' = Frozen(new.index)
      /\ sealing' = [owner |-> "seal", rows |-> new.streamer]
      /\ seal' = [pc |-> "build", end |-> Len(log')]
      /\ UNCHANGED <<base, segs, manifest, checkpoint, up, searchers, last_segment, building,
                     compact>>

Delete(p) ==
  LET new == Result([op |-> "del", id |-> p])
  IN  /\ Mutates([op |-> "del", id |-> p])
      /\ streamer' = new.streamer /\ id_index' = new.index
      /\ overlay' = [overlay EXCEPT !.points = new.hidden]
      /\ UNCHANGED <<base, disk, up, sealing, searchers, last_segment, building, seal, compact>>

FlushOverlay ==
  /\ up /\ ~Locked /\ compact.pc # "lost" /\ published # overlay
  /\ published' = overlay
  /\ UNCHANGED <<wal, segs, manifest, checkpoint, memory, seal, compact, used>>
-----------------------------------------------------------------------------
(***************************************************************************)
(* The background seal.                                                    *)
(***************************************************************************)
Sealed == SealName(seal.end)

\* The segment is built off the lock and renamed into place.
SealBuild ==
  /\ seal.pc = "build"
  /\ segs' = Put(segs, Sealed, [rows |-> sealing.rows, tomb |-> {}])
  /\ seal' = [seal EXCEPT !.pc = "publish"]
  /\ UNCHANGED <<wal, manifest, published, checkpoint, memory, compact, used>>

\* Mutant of Superseded: only deleted points are left out of the new segment.
Superseded_deleted == DOMAIN sealing.rows \ DOMAIN id_index

\* Frozen rows that a mutation has replaced or removed in the meantime.
Superseded == {p \in DOMAIN sealing.rows : p \notin DOMAIN id_index \/ id_index[p] # Sealing}

\* Sidecars after a worker has persisted the tombstones of the installed
\* segments: only those of the legacy format are written.
Persisted ==
  [s \in DOMAIN segs |->
     IF IsLegacy(s) THEN [segs[s] EXCEPT !.tomb = @ \cup {p \in Points : HiddenAt(overlay.points, s, p)}]
     ELSE segs[s]]

SealOverlay ==
  [generation |-> NextGeneration, points |-> overlay.points \cup Hide(Sealed, Superseded)]

\* The write lock is taken; sidecar and overlay of the next generation are
\* written before the manifest.
SealPublish ==
  /\ seal.pc = "publish" /\ ~Locked
  /\ segs' = [Persisted EXCEPT ![Sealed].tomb = Superseded]
  /\ published' = SealOverlay
  /\ seal' = [seal EXCEPT !.pc = "manifest"]
  /\ UNCHANGED <<wal, manifest, checkpoint, memory, compact, used>>

SealPublishFails ==
  /\ seal.pc = "publish" /\ ~Locked /\ MayFail /\ Spend("failures")
  /\ segs' = [Persisted EXCEPT ![Sealed].tomb = Superseded]
  /\ published' \in {published, overlay, SealOverlay}
  /\ seal' = [seal EXCEPT !.pc = "failed"]
  /\ UNCHANGED <<wal, manifest, checkpoint, memory, compact>>

\* The manifest switches the generation; searchers, index and overlay follow.
SealSwitch ==
  /\ seal.pc = "manifest"
  /\ searchers' = Append(searchers, Sealed)
  /\ manifest' = [exists |-> TRUE, generation |-> NextGeneration, segments |-> searchers']
  /\ overlay' = published
  /\ id_index' = [p \in DOMAIN id_index |->
                    IF id_index[p] = Sealing THEN Len(searchers') ELSE id_index[p]]
  /\ UNCHANGED <<wal, segs, published, checkpoint, up, streamer, building, compact>>

SealManifest ==
  /\ SealSwitch
  /\ sealing' = NotSealing /\ last_segment' = TRUE
  /\ seal' = [seal EXCEPT !.pc = "checkpoint"]
  /\ UNCHANGED used

\* The payload index cannot be rebuilt: the frozen streamer of the published
\* segment stays installed with nobody to remove it.
SealInstallStuck ==
  /\ MayFail /\ LeftBehind
  /\ SealSwitch
  /\ sealing' = [sealing EXCEPT !.owner = "gone"]
  /\ seal' = NoSeal
  /\ UNCHANGED last_segment

SealManifestFails ==
  /\ seal.pc = "manifest" /\ MayFail /\ Spend("failures")
  /\ published' \in {published, overlay}
  /\ seal' = [seal EXCEPT !.pc = "failed"]
  /\ UNCHANGED <<wal, segs, manifest, checkpoint, memory, compact>>

\* Mutant of SealMark: the watermark is the end of the log.
SealMark_log_end == Len(log)

SealMark == seal.end

SealCheckpoint ==
  /\ seal.pc = "checkpoint"
  /\ checkpoint' = [watermark |-> SealMark, segment |-> TRUE]
  /\ seal' = [seal EXCEPT !.pc = "drop"]
  /\ UNCHANGED <<wal, segs, manifest, published, memory, compact, used>>

SealDrop ==
  /\ seal.pc = "drop"
  /\ base' = SealMark /\ seal' = NoSeal
  /\ UNCHANGED <<log, disk, memory, compact, used>>

\* Mutant of SealRetireFails: the seal forgets that it has been published.
SealRetireFails_unpublished ==
  /\ seal.pc \in {"checkpoint", "drop"} /\ MayFail /\ Spend("failures")
  /\ checkpoint' \in {checkpoint, [watermark |-> SealMark, segment |-> TRUE]}
  /\ seal' = [seal EXCEPT !.pc = "failed"]
  /\ UNCHANGED <<wal, segs, manifest, published, memory, compact>>

\* Once the manifest is written a failure only ends the seal.
SealRetireFails ==
  /\ seal.pc \in {"checkpoint", "drop"} /\ MayFail /\ Spend("failures")
  /\ checkpoint' \in {checkpoint, [watermark |-> SealMark, segment |-> TRUE]}
  /\ seal' = NoSeal
  /\ UNCHANGED <<wal, segs, manifest, published, memory, compact>>

SealFails ==
  /\ seal.pc \in {"build", "publish"} /\ MayFail /\ Spend("failures")
  /\ seal' = [seal EXCEPT !.pc = "failed"]
  /\ UNCHANGED <<wal, disk, memory, compact>>

\* The candidate is removed and what is still frozen goes back.
SealAbandon ==
  /\ seal.pc = "failed" /\ ~Locked
  /\ segs' = Restrict(segs, DOMAIN segs \ {Sealed})
  /\ restore_failed_seal("seal")
  /\ seal' = NoSeal
  /\ UNCHANGED <<wal, manifest, published, checkpoint, up, searchers, overlay, last_segment,
                 building, compact, used>>

SealStep ==
  \/ SealBuild \/ SealPublish \/ SealPublishFails
  \/ SealManifest \/ SealInstallStuck \/ SealManifestFails
  \/ SealCheckpoint \/ SealDrop \/ SealRetireFails \/ SealFails \/ SealAbandon
-----------------------------------------------------------------------------
(***************************************************************************)
(* Compaction: staging.                                                    *)
(***************************************************************************)
Physical(i) == Cardinality(DOMAIN RowsOf(i))
Live(i) == Cardinality({p \in DOMAIN id_index : id_index[p] = i})
Tier(i) == Max({k \in 0 .. Physical(i) : 2 ^ k <= Physical(i)})
TierOf(k) == {i \in DOMAIN searchers : Live(i) > 0 /\ Tier(i) = k}

\* The positions one bounded merge replaces: a dead segment with one live
\* anchor, else one segment with a fifth of its rows dead, else the smallest
\* tier that is full (the upper fan-in of eight is beyond the bounds here).
select_size_tier ==
  LET dead == {i \in DOMAIN searchers : Physical(i) > 0 /\ Live(i) = 0}
      live == {i \in DOMAIN searchers : Live(i) > 0}
      sparse == {i \in live : 100 * (Physical(i) - Live(i)) >= 20 * Physical(i) /\ Physical(i) > Live(i)}
      full == {k \in 0 .. Cardinality(Points) : Cardinality(TierOf(k)) >= MinFanIn}
  IN  IF dead # {} /\ live # {} THEN {Min(dead), Min(live)}
      ELSE IF sparse # {} THEN {Min(sparse)}
      ELSE IF full # {} THEN TierOf(Min(full))
      ELSE {}

\* Waits for other builds, flushes, and gives a collection its first manifest.
CompactBegin ==
  /\ up /\ ~Locked /\ compact.pc = "idle" /\ used.compactions < MaxCompactions
  /\ sealing.owner = "none" /\ ~building
  /\ Spend("compactions")
  /\ published' = overlay
  /\ manifest' = IF manifest.exists THEN manifest
                 ELSE [exists |-> TRUE, generation |-> 0, segments |-> searchers]
  /\ compact' = [compact EXCEPT !.pc = "stage"]
  /\ UNCHANGED <<wal, segs, checkpoint, memory, seal>>

Stageable ==
  /\ id_index # NoRows /\ sealing.owner = "none" /\ ~building /\ exact_vectors_current
  /\ select_size_tier # {} \/ streamer # NoRows

\* The inputs of a merge are fixed under the lock; the build runs off it.
CompactStage ==
  LET selected == select_size_tier
      entries == {p \in DOMAIN id_index : id_index[p] = Streamer \/ id_index[p] \in selected}
      frozen == streamer # NoRows
  IN  /\ compact.pc = "stage" /\ ~Locked /\ Stageable
      /\ compact' = [compact EXCEPT !.pc = "build", !.staged = TRUE, !.end = Len(log),
                       !.name = MergeName(Len(log), NextGeneration),
                       !.rows = [p \in entries |-> Resolve(p)],
                       !.entries = Restrict(Frozen(id_index), entries),
                       !.selected = selected]
      /\ building' = TRUE
      /\ sealing' = IF frozen THEN [owner |-> "compact", rows |-> streamer] ELSE sealing
      /\ streamer' = NoRows /\ id_index' = Frozen(id_index)
      /\ UNCHANGED <<wal, disk, up, searchers, overlay, last_segment, seal, used>>

CompactStageNothing ==
  /\ compact.pc = "stage" /\ ~Locked /\ ~Stageable
  /\ compact' = [compact EXCEPT !.pc = "commit"]
  /\ UNCHANGED <<wal, disk, memory, seal, used>>

CompactBuild ==
  /\ compact.pc = "build"
  /\ segs' = Put(segs, compact.name, [rows |-> compact.rows, tomb |-> {}])
  /\ compact' = [compact EXCEPT !.pc = "commit"]
  /\ UNCHANGED <<wal, manifest, published, checkpoint, memory, seal, used>>

\* Mutant of CompactAbandoned: the frozen streamer is not given back.
CompactAbandoned_frozen(current) ==
  /\ MayFail /\ Spend("failures")
  /\ published' = current
  /\ segs' = Restrict(segs, DOMAIN segs \ {compact.name})
  /\ building' = FALSE
  /\ compact' = NoCompact
  /\ UNCHANGED <<wal, manifest, checkpoint, up, content, overlay, last_segment, seal>>

\* A merge fails before it is published and cleans up after itself: flag,
\* frozen streamer, candidate.
CompactAbandoned(current) ==
  /\ MayFail /\ Spend("failures")
  /\ published' = current
  /\ segs' = Restrict(segs, DOMAIN segs \ {compact.name})
  /\ building' = FALSE
  /\ restore_failed_seal("compact")
  /\ compact' = NoCompact
  /\ UNCHANGED <<wal, manifest, checkpoint, up, searchers, overlay, last_segment, seal>>

CompactBuildFails == compact.pc = "build" /\ ~Locked /\ CompactAbandoned(published)
-----------------------------------------------------------------------------
(***************************************************************************)
(* Compaction: the four branches under the write lock.                     *)
(***************************************************************************)
AtCommit ==
  /\ compact.pc = "commit" /\ ~Locked
  /\ sealing.owner = "none" \/ sealing.owner = "compact"
  /\ building => compact.staged

Unchanged ==
  ~compact.staged /\ last_segment /\ streamer = NoRows /\ base = Len(log) /\ exact_vectors_current
Emptied == ~Unchanged /\ id_index = NoRows
Rewrites == ~Unchanged /\ ~Emptied /\ ~compact.staged

CompactRecord == [op |-> "compact", id |-> "none"]
SwitchedTo(names) == [exists |-> TRUE, generation |-> NextGeneration, segments |-> names]

\* The length of the WAL or the manifest cannot be read; a staged merge returns
\* without its clean-up.
CompactCommitFails ==
  /\ AtCommit /\ MayFail
  /\ IF compact.staged THEN LeftBehind ELSE Spend("failures")
  /\ compact' = NoCompact
  /\ UNCHANGED <<wal, disk, memory, seal>>

\* Nothing has been written since the last compaction: only the WAL is reset.
CompactUnchanged ==
  /\ AtCommit /\ Unchanged
  /\ compact' = [compact EXCEPT !.pc = "checkpoint", !.mark = 0, !.segment = TRUE]
  /\ UNCHANGED <<wal, disk, memory, seal, used>>

\* Every point is gone.  A staged merge is forgotten, its frozen streamer and
\* its flag are left behind.
CompactEmpty ==
  /\ AtCommit /\ Emptied
  /\ log' = Append(log, CompactRecord)
  /\ compact' = [compact EXCEPT !.pc = "empty"]
  /\ used' = [used EXCEPT !.stuck = @ \/ compact.staged]
  /\ UNCHANGED <<base, disk, memory, seal>>

EmptyManifest ==
  /\ compact.pc = "empty"
  /\ manifest' = SwitchedTo(<<>>)
  /\ searchers' = <<>> /\ id_index' = NoRows /\ streamer' = NoRows /\ last_segment' = FALSE
  /\ overlay' = [generation |-> NextGeneration, points |-> {}]
  /\ compact' = [compact EXCEPT !.pc = "overlay", !.mark = 0, !.segment = FALSE]
  /\ UNCHANGED <<wal, segs, published, checkpoint, up, sealing, building, seal, used>>

EmptyManifestFails ==
  /\ compact.pc = "empty" /\ MayFail /\ Spend("failures")
  /\ manifest' \in {manifest, SwitchedTo(<<>>)}
  /\ compact' = NoCompact
  /\ UNCHANGED <<wal, segs, published, checkpoint, memory, seal>>

(***************************************************************************)
(* No merge was staged and some segment is of the legacy format: all rows  *)
(* are rewritten under the lock into one segment of the current format.    *)
(* Memory changes only once the manifest is written.                       *)
(***************************************************************************)
Migrates == AtCommit /\ Rewrites /\ ~exact_vectors_current
Migrated == MergeName(Len(log), NextGeneration)
MigratedSegment == [rows |-> [p \in DOMAIN id_index |-> Resolve(p)], tomb |-> {}]

MigrateBuild ==
  /\ Migrates /\ Migrated \notin DOMAIN segs
  /\ segs' = Put(segs, Migrated, MigratedSegment)
  /\ log' = Append(log, CompactRecord)
  /\ compact' = [compact EXCEPT !.pc = "migrate", !.name = Migrated]
  /\ UNCHANGED <<base, manifest, published, checkpoint, memory, seal, used>>

\* The candidate may be left behind; a retry that takes its name cannot rename
\* onto it.
MigrateBuildFails ==
  /\ Migrates
  /\ IF Migrated \in DOMAIN segs THEN UNCHANGED used ELSE MayFail /\ Spend("failures")
  /\ segs' \in {segs, Put(segs, Migrated, MigratedSegment)}
  /\ compact' = NoCompact
  /\ UNCHANGED <<wal, manifest, published, checkpoint, memory, seal>>

MigrateManifest ==
  /\ compact.pc = "migrate"
  /\ searchers' = <<compact.name>> /\ manifest' = SwitchedTo(searchers')
  /\ id_index' = [p \in DOMAIN segs[compact.name].rows |-> 1]
  /\ streamer' = NoRows /\ last_segment' = TRUE
  /\ overlay' = [generation |-> NextGeneration, points |-> {}]
  /\ compact' = [compact EXCEPT !.pc = "overlay", !.mark = 0, !.segment = TRUE]
  /\ UNCHANGED <<wal, segs, published, checkpoint, up, sealing, building, seal, used>>

\* The manifest may have been renamed into place; memory stays as it was.
MigrateManifestFails ==
  /\ compact.pc = "migrate" /\ MayFail /\ Spend("failures")
  /\ manifest' \in {manifest, SwitchedTo(<<compact.name>>)}
  /\ compact' = NoCompact
  /\ UNCHANGED <<wal, segs, published, checkpoint, memory, seal>>

(***************************************************************************)
(* No merge was staged and every segment is of the current format: streamer*)
(* and searchers are emptied into one map, which is written as a legacy    *)
(* segment.  The writer removes every other segment before the manifest is *)
(* written.                                                                *)
(***************************************************************************)
Copies(p) == {i \in DOMAIN searchers : p \in DOMAIN RowsOf(i) /\ ~HiddenAt(overlay.points, searchers[i], p)}

UnionPoints ==
  [p \in DOMAIN streamer \cup {q \in Points : Copies(q) # {}} |->
     IF p \in DOMAIN streamer THEN streamer[p] ELSE RowsOf(Min(Copies(p)))[p]]

WithLegacy == Put(segs, compact.name, [rows |-> compact.rows, tomb |-> {}])

\* Streamer and searchers are taken; the index is not touched.
LegacyTake ==
  /\ AtCommit /\ Rewrites /\ exact_vectors_current
  /\ compact' = [compact EXCEPT !.pc = "write", !.name = LegacyName(NextGeneration),
                   !.rows = UnionPoints]
  /\ streamer' = NoRows /\ searchers' = <<>>
  /\ UNCHANGED <<wal, disk, up, sealing, id_index, overlay, last_segment, building, seal, used>>

LegacyWrite ==
  /\ compact.pc = "write"
  /\ segs' = WithLegacy
  /\ compact' = [compact EXCEPT !.pc = "clear"]
  /\ UNCHANGED <<wal, manifest, published, checkpoint, memory, seal, used>>

LegacyClear ==
  /\ compact.pc = "clear"
  /\ segs' = Restrict(segs, {compact.name})
  /\ compact' = [compact EXCEPT !.pc = "install"]
  /\ UNCHANGED <<wal, manifest, published, checkpoint, memory, seal, used>>

\* The new segment is opened and installed in memory.
LegacyInstall ==
  /\ compact.pc = "install"
  /\ searchers' = <<compact.name>>
  /\ id_index' = [p \in DOMAIN segs[compact.name].rows |-> 1]
  /\ compact' = [compact EXCEPT !.pc = "rewrite"]
  /\ UNCHANGED <<wal, disk, up, streamer, sealing, overlay, last_segment, building, seal, used>>

LegacyManifest ==
  /\ compact.pc = "rewrite"
  /\ log' = Append(log, CompactRecord)
  /\ manifest' = SwitchedTo(searchers)
  /\ overlay' = [generation |-> NextGeneration, points |-> {}]
  /\ compact' = [compact EXCEPT !.pc = "overlay", !.mark = 0, !.segment = TRUE]
  /\ UNCHANGED <<base, segs, published, checkpoint, up, content, last_segment, building, seal, used>>

\* What the disk shows of the known deviation "missing".
Installed == IF manifest.exists THEN ToSet(manifest.segments) ELSE DOMAIN segs
Missing == ~(Installed \subseteq DOMAIN segs)

\* Until the new segment is installed a failure leaves the collection without
\* its rows.  What later operations make of it is not followed: only a
\* restart comes after.
LegacyFails ==
  /\ compact.pc \in {"write", "clear", "install"} /\ MayFail /\ Spend("failures")
  /\ segs' \in CASE compact.pc = "write" -> {segs, WithLegacy}
               [] compact.pc = "clear" ->
                    {Restrict(segs, {compact.name} \cup left) : left \in SUBSET DOMAIN segs}
               [] OTHER -> {segs}
  /\ compact' = [NoCompact EXCEPT !.pc = "lost"]
  /\ UNCHANGED <<wal, manifest, published, checkpoint, memory, seal>>
  /\ Missing' => "missing" \in Deviations

\* Once it is installed in memory a failure ends the compaction, on either
\* side of the record and of the manifest.
LegacyManifestFails ==
  /\ compact.pc = "rewrite" /\ MayFail /\ Spend("failures")
  /\ \/ log' \in {log, Append(log, CompactRecord)} /\ UNCHANGED manifest
     \/ log' = Append(log, CompactRecord) /\ manifest' = SwitchedTo(searchers)
  /\ compact' = NoCompact
  /\ UNCHANGED <<base, segs, published, checkpoint, memory, seal>>
  /\ Missing' => "missing" \in Deviations

CompactOverlay ==
  /\ compact.pc = "overlay"
  /\ published' = overlay
  /\ compact' = [compact EXCEPT !.pc = "checkpoint"]
  /\ UNCHANGED <<wal, segs, manifest, checkpoint, memory, seal, used>>

(***************************************************************************)
(* The staged merge.                                                       *)
(***************************************************************************)
\* Rows of the merge that a mutation has replaced or removed meanwhile.
Moved ==
  {p \in DOMAIN compact.entries : p \notin DOMAIN id_index \/ id_index[p] # compact.entries[p]}

\* The merged segment takes the place of the first one it replaces.
Place == IF compact.selected = {} THEN Len(searchers) + 1 ELSE Min(compact.selected)
Kept == {i \in DOMAIN searchers : i \notin compact.selected}

NewPosition(i) ==
  IF i \in Kept THEN Cardinality({j \in Kept : j <= i}) + (IF i > Place THEN 1 ELSE 0) ELSE Place

Merged ==
  LET at(i) == CASE i = Place -> <<compact.name>>
                 [] i # Place /\ i \in Kept -> <<searchers[i]>>
                 [] OTHER -> <<>>
  IN  FlattenSeq([i \in 1 .. Max({Place, Len(searchers)}) |-> at(i)])

MergedOverlay ==
  [generation |-> compact.name[3],
   points |-> {h \in overlay.points : \E i \in Kept : searchers[i] = h[1]}
                \cup Hide(compact.name, Moved)]

CompactCommit ==
  /\ AtCommit /\ compact.staged /\ ~Emptied
  /\ segs' = [Persisted EXCEPT ![compact.name].tomb = Moved]
  /\ log' = Append(log, CompactRecord)
  /\ compact' = [compact EXCEPT !.pc = "advance",
                   !.mark = IF Len(log) > compact.end THEN compact.end ELSE 0, !.segment = TRUE]
  /\ UNCHANGED <<base, manifest, published, checkpoint, memory, seal, used>>

CompactAdvance ==
  /\ compact.pc = "advance"
  /\ published' = MergedOverlay
  /\ compact' = [compact EXCEPT !.pc = "manifest"]
  /\ UNCHANGED <<wal, segs, manifest, checkpoint, memory, seal, used>>

\* As for a seal, with the merged segment in the place of those it replaces.
CompactSwitch ==
  /\ compact.pc = "manifest"
  /\ searchers' = Merged
  /\ manifest' = [exists |-> TRUE, generation |-> compact.name[3], segments |-> Merged]
  /\ overlay' = published
  /\ id_index' = [p \in DOMAIN id_index |->
                    CASE id_index[p] = Streamer -> Streamer
                      [] id_index[p] = Sealing -> Place
                      [] OTHER -> NewPosition(id_index[p])]
  /\ UNCHANGED <<wal, segs, published, checkpoint, up, streamer, seal>>

CompactManifest ==
  /\ CompactSwitch
  /\ sealing' = NotSealing /\ building' = FALSE /\ last_segment' = TRUE
  /\ compact' = [compact EXCEPT !.pc = "checkpoint"]
  /\ UNCHANGED used

\* The payload index cannot be rebuilt.
CompactInstallStuck ==
  /\ MayFail /\ LeftBehind
  /\ CompactSwitch
  /\ compact' = NoCompact
  /\ UNCHANGED <<sealing, building, last_segment>>

\* A step before the manifest fails and the overlay in memory is published
\* again.  When that fails too the clean-up is skipped.
Publishing ==
  \/ compact.pc \in {"advance", "manifest"}
  \/ AtCommit /\ compact.staged /\ ~Emptied

CompactPublishFails == Publishing /\ CompactAbandoned(overlay)

CompactRestoreFails ==
  /\ Publishing /\ MayFail /\ LeftBehind
  /\ published' \in {published, overlay} \cup (IF compact.pc = "commit" THEN {} ELSE {MergedOverlay})
  /\ compact' = NoCompact
  /\ UNCHANGED <<wal, segs, manifest, checkpoint, memory, seal>>

(***************************************************************************)
(* The end of every branch.                                                *)
(***************************************************************************)
CompactCheckpoint ==
  /\ compact.pc = "checkpoint"
  /\ checkpoint' = [watermark |-> compact.mark, segment |-> compact.segment]
  /\ last_segment' = compact.segment
  /\ compact' = [compact EXCEPT !.pc = "cut"]
  /\ UNCHANGED <<wal, segs, manifest, published, up, content, overlay, building, seal, used>>

CompactCut ==
  /\ compact.pc = "cut"
  /\ base' = IF compact.mark > 0 THEN compact.mark ELSE Len(log)
  /\ compact' = [compact EXCEPT !.pc = "remove"]
  /\ UNCHANGED <<log, disk, memory, seal, used>>

CompactRemove ==
  /\ compact.pc = "remove"
  /\ segs' = Restrict(segs, ToSet(manifest.segments))
  /\ compact' = NoCompact
  /\ UNCHANGED <<wal, manifest, published, checkpoint, memory, seal, used>>

CompactRetireFails ==
  /\ compact.pc \in {"overlay", "checkpoint", "cut", "remove"} /\ MayFail /\ Spend("failures")
  /\ compact' = NoCompact
  /\ UNCHANGED <<wal, disk, memory, seal>>

CompactStep ==
  \/ CompactStage \/ CompactStageNothing \/ CompactBuild \/ CompactBuildFails
  \/ CompactCommitFails \/ CompactUnchanged
  \/ CompactEmpty \/ EmptyManifest \/ EmptyManifestFails
  \/ MigrateBuild \/ MigrateBuildFails \/ MigrateManifest \/ MigrateManifestFails
  \/ LegacyTake \/ LegacyWrite \/ LegacyClear \/ LegacyInstall \/ LegacyManifest
  \/ LegacyFails \/ LegacyManifestFails
  \/ CompactCommit \/ CompactAdvance \/ CompactManifest \/ CompactInstallStuck
  \/ CompactPublishFails \/ CompactRestoreFails
  \/ CompactOverlay \/ CompactCheckpoint \/ CompactCut \/ CompactRemove \/ CompactRetireFails
-----------------------------------------------------------------------------
(***************************************************************************)
(* Crash and load.                                                         *)
(***************************************************************************)
\* Segment directories are read in the order of their names.
LoadOrder ==
  CHOOSE order \in [1 .. Cardinality(Installed) -> Installed] :
    \A i, j \in DOMAIN order : i < j => Before(order[i], order[j])

SidecarPoints == UNION {Hide(s, segs[s].tomb) : s \in Installed}
CurrentPoints == {h \in published.points : h[1] \in Installed}

\* The overlay a load starts from; one of another generation is not used.
OpenedPoints ==
  IF published.generation = manifest.generation THEN CurrentPoints \cup SidecarPoints
  ELSE SidecarPoints

ReplayFrom == Max({base, checkpoint.watermark})

\* A point starts at the last segment that has a row of it.
LoadedIndex ==
  LET order == LoadOrder
      last(p) == Max({i \in DOMAIN order : p \in DOMAIN segs[order[i]].rows})
  IN  [p \in {q \in Points : \E s \in Installed : q \in DOMAIN segs[s].rows} |-> last(p)]

ReplayStart == [streamer |-> NoRows, index |-> LoadedIndex, hidden |-> OpenedPoints]
ReplayStep(state, lsn) == Applied(state, log[lsn], lsn, LoadOrder)

Replayed ==
  FoldLeft(ReplayStep, ReplayStart, [i \in 1 .. (Len(log) - ReplayFrom) |-> ReplayFrom + i])

Load ==
  LET order == LoadOrder
      loaded == Replayed
      hidden == {p \in DOMAIN loaded.index :
                   loaded.index[p] > 0 /\ <<order[loaded.index[p]], p>> \in OpenedPoints}
  IN  /\ ~up /\ Installed \subseteq DOMAIN segs
      /\ up' = TRUE
      /\ segs' = Restrict(segs, Installed)
      /\ searchers' = order /\ streamer' = loaded.streamer
      /\ id_index' = Restrict(loaded.index, DOMAIN loaded.index \ hidden)
      /\ overlay' = [generation |-> manifest.generation, points |-> loaded.hidden]
      /\ published' = overlay' /\ last_segment' = checkpoint.segment
      /\ UNCHANGED <<wal, manifest, checkpoint, sealing, building, seal, compact, used>>

\* What the disk shows of the other known deviations when the process dies.
\* The copy that sorts last is hidden and an earlier one is not.
Misordered ==
  \E p \in Points :
    LET order == LoadOrder
        copies == {i \in DOMAIN order : p \in DOMAIN segs[order[i]].rows}
        visible == {i \in copies : ~HiddenAt(OpenedPoints, order[i], p)}
    IN  visible # {} /\ Max(copies) \notin visible

\* The published overlay is of another generation, and what the segments hide
\* is written nowhere else.
OverlayIgnored ==
  /\ published.generation # manifest.generation
  /\ ~({h \in overlay.points : h[1] \in Installed} \subseteq SidecarPoints)

Crash ==
  /\ up /\ used.crashes < MaxCrashes
  /\ used' = [used EXCEPT !.crashes = @ + 1, !.stuck = FALSE]
  /\ Missing => "missing" \in Deviations
  /\ ~Missing /\ Misordered => "order" \in Deviations
  /\ ~Missing /\ OverlayIgnored => "generation" \in Deviations
  /\ up' = FALSE
  /\ streamer' = NoRows /\ sealing' = NotSealing /\ searchers' = <<>> /\ id_index' = NoRows
  /\ overlay' = [generation |-> 0, points |-> {}] /\ last_segment' = FALSE /\ building' = FALSE
  /\ seal' = NoSeal /\ compact' = NoCompact
  /\ UNCHANGED <<wal, disk>>

Next ==
  \/ \E p \in Points : Upsert(p) \/ UpsertAndSeal(p) \/ Delete(p)
  \/ FlushOverlay
  \/ SealStep
  \/ CompactBegin \/ CompactStep
  \/ Crash \/ Load

Spec == Init /\ [][Next]_vars /\ WF_vars(SealStep) /\ WF_vars(CompactStep)
-----------------------------------------------------------------------------
(***************************************************************************)
(* Properties.                                                             *)
(***************************************************************************)
Names == {0, 1, 2} \X Nat \X Nat

\* The frozen streamer belongs to the worker that is to install or return it,
\* the build flag to a compaction, and an index entry names a place that
\* exists, but for the rewrite that takes the searchers away
\* (SegLoc, PendingSeal, generation_build_in_flight).
TypeOK ==
  /\ base \in 0 .. Len(log) /\ DOMAIN segs \subseteq Names
  /\ sealing.owner \in {"none", "seal", "compact", "gone"}
  /\ compact.pc \notin {"write", "clear", "install", "lost"} =>
       \A p \in DOMAIN id_index : id_index[p] \in {Streamer, Sealing} \cup DOMAIN searchers
  /\ published.generation \in Nat /\ overlay.generation \in Nat
  /\ up \in BOOLEAN /\ building \in BOOLEAN /\ last_segment \in BOOLEAN

Readable == up /\ ~Locked

LastRecord(p) == Max({0} \cup {i \in DOMAIN log : log[i].id = p})
Latest(p) == IF LastRecord(p) > 0 /\ log[LastRecord(p)].op = "put" THEN LastRecord(p) ELSE 0

\* A read by id finds the last upsert of every point and no deleted point,
\* whatever has been frozen, sealed, merged, cut from the WAL or lost in a
\* crash since, and whatever step has failed (try_resolve against
\* load_collection_state_with_journal).  The collection that a failed rewrite
\* into the legacy format has emptied is the known exception until a restart.
ReadsLatest ==
  Readable /\ compact.pc # "lost" => \A p \in Points :
    IF Latest(p) = 0 THEN p \notin DOMAIN id_index
    ELSE p \in DOMAIN id_index /\ Resolve(p) = Latest(p)

\* The rows a search goes through: the streamer, the frozen rows the index
\* still points at, the rows of the searchers the overlay does not hide.
Searched(p) ==
  {<<"streamer", 0, streamer[q]>> : q \in {p} \cap DOMAIN streamer}
    \cup {<<"sealing", 0, sealing.rows[q]>> :
            q \in {r \in {p} \cap DOMAIN sealing.rows \cap DOMAIN id_index : id_index[r] = Sealing}}
    \cup {<<"searcher", i, RowsOf(i)[p]>> : i \in Copies(p)}

\* A search meets the last version of a live point once and nothing of a
\* deleted one ("a point id is live in exactly one segment"), with the same
\* exception.
LiveInOneSegment ==
  Readable /\ compact.pc # "lost" => \A p \in Points :
    IF Latest(p) = 0 THEN Searched(p) = {}
    ELSE Cardinality(Searched(p)) = 1 /\ \A c \in Searched(p) : c[3] = Latest(p)

\* What the comment on the rewrite into the legacy format says of its failure,
\* weakened: where searches do not find every point that was written, a restart
\* at least finds the segments it needs.
RewriteFailureKeeps ==
  Readable => ~Missing \/ \A p \in Points : Latest(p) # 0 => Searched(p) # {}

\* The segments the manifest installs are on disk at every step, so a crash
\* finds them: clean-up of a failed build and of replaced segments removes
\* nothing that is installed (remove_unlisted_segment_dirs, cleanup_unpublished_seal
\* against "installed segment directories are missing").  The steps of the
\* rewrite into the legacy format between the removal and the manifest are
\* left out; that no failure ends it there is the deviation "missing".
InstalledIsThere ==
  compact.pc \notin {"install", "rewrite"} => Installed \subseteq DOMAIN segs

\* A frozen streamer is installed or given back and a build flag cleared, by
\* the builds that succeed and by those whose failure reaches its clean-up: none
\* of them leaves the collection closed to later seals, compactions and its own
\* removal.  The early returns that skip the clean-up, and the merge of a
\* collection emptied meanwhile, are the only exception (LeftBehind,
\* CompactEmpty), and it ends with a restart.
BuildsEnd ==
  (sealing.owner # "none" \/ building) ~>
    ((sealing.owner = "none" /\ ~building) \/ used.stuck)
=============================================================================
