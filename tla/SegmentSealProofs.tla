-------------------------- MODULE SegmentSealProofs --------------------------
(***************************************************************************)
(* One collection shows what its history says, for any number of points,   *)
(* mutations, seals, compactions, failed calls and crashes.                *)
(*                                                                         *)
(* The invariant Inv relates four things.  Memory: the index, the streamer *)
(* and the rows the overlay leaves visible hold the last version of every  *)
(* live point once (Shape, Content).  The WAL: what only memory has is     *)
(* still to be replayed (Retained).  The work under way: the rows a seal   *)
(* or a merge has taken, and the points that changed since (SealRows,      *)
(* Staged, Rewritten).  The disk: the manifest, its segments and the       *)
(* published overlay give, with the records a replay starts from, what     *)
(* memory shows (Linked, and Loadable for a process that is down).  A      *)
(* failure on either side of a manifest leaves memory and manifest apart;  *)
(* Behind says why the disk is then still enough.  From the moment the     *)
(* legacy rewrite empties memory until it is installed or the process      *)
(* restarts (Emptying) only the disk is spoken of (Rewritten).             *)
(*                                                                         *)
(* Its hardest steps are the load, which folds the records after the       *)
(* checkpoint over the segments in the order of their names (LoadKeeps),   *)
(* and the two manifest switches, where positions, overlay and index move  *)
(* together (SealManifestKeeps, CompactManifestKeeps).  That no name of a  *)
(* legacy segment is taken twice needs the age of the installed ones, an   *)
(* invariant of its own beside Inv (Dated).                                *)
(***************************************************************************)
EXTENDS SegmentSeal, FiniteSetTheorems, SequenceTheorems, NaturalsInduction, WellFoundedInduction,
        TLAPS

\* The steps that leave a known deviation on disk do not happen: a failure or
\* a crash that leaves the manifest naming a segment the rewrite has removed
\* ("missing"), a crash with a copy that sorts last and is hidden ("order"), or
\* with an overlay of another generation whose rows are hidden nowhere else
\* ("generation").  Builds that are left behind may: they harm no read.
Calm == Deviations = {}

RowMaps == UNION {[D -> Nat] : D \in SUBSET Points}
Records == [op : {"put", "del"}, id : Points] \cup {CompactRecord}

SealPcs == {"idle", "build", "publish", "manifest", "checkpoint", "drop", "failed"}
CompactPcs == {"idle", "stage", "build", "commit", "advance", "manifest", "empty", "migrate",
               "write", "clear", "install", "rewrite", "lost", "overlay", "checkpoint", "cut",
               "remove"}

DiskTypes ==
  /\ log \in Seq(Records) /\ base \in Nat /\ base <= Len(log)
  /\ segs \in [DOMAIN segs -> [rows : RowMaps, tomb : SUBSET Points]] /\ DOMAIN segs \subseteq Names
  /\ manifest \in [exists : BOOLEAN, generation : Nat, segments : Seq(Names)]
  /\ published \in [generation : Nat, points : SUBSET (Names \X Points)]
  /\ checkpoint \in [watermark : Nat, segment : BOOLEAN] /\ checkpoint.watermark <= Len(log)

MemoryTypes ==
  /\ up \in BOOLEAN /\ building \in BOOLEAN /\ last_segment \in BOOLEAN
  /\ streamer \in RowMaps
  /\ sealing \in [owner : {"none", "seal", "compact", "gone"}, rows : RowMaps]
  /\ searchers \in Seq(Names)
  /\ id_index \in [DOMAIN id_index -> Int] /\ DOMAIN id_index \subseteq Points
  /\ compact.pc \notin {"write", "clear", "install", "lost"} =>
       id_index \in [DOMAIN id_index -> {Streamer, Sealing} \cup DOMAIN searchers]
  /\ overlay \in [generation : Nat, points : SUBSET (Names \X Points)]

WorkTypes ==
  /\ seal \in [pc : SealPcs, end : Nat] /\ seal.end <= Len(log)
  /\ compact \in [pc : CompactPcs, staged : BOOLEAN, name : Names, end : Nat,
                  entries : RowMaps, rows : RowMaps,
                  selected : SUBSET Nat, mark : Nat, segment : BOOLEAN]
  /\ compact.end <= Len(log) /\ compact.mark <= Len(log)

Types == DiskTypes /\ MemoryTypes /\ WorkTypes

(* Who holds what. *)
SealActive == seal.pc \in {"build", "publish", "manifest", "failed"}
SealEnding == seal.pc \in {"checkpoint", "drop"}
\* A merge that is staged and not yet installed or given up.
Merging == compact.staged /\ compact.pc \in {"build", "commit", "advance", "manifest"}
CompactLocks == compact.pc \in {"advance", "manifest", "empty", "migrate", "write", "clear",
                                "install", "rewrite", "overlay", "checkpoint", "cut", "remove"}
\* The legacy rewrite has emptied memory, and the disk is not switched yet.
Emptying == compact.pc \in {"write", "clear", "install", "rewrite", "lost"}
Ending == compact.pc \in {"overlay", "checkpoint", "cut", "remove"}

Owners ==
  /\ SealActive <=> sealing.owner = "seal"
  /\ sealing.owner = "none" => sealing = NotSealing
  /\ sealing.owner = "compact" => building
  /\ building => sealing.owner \notin {"seal", "gone"} /\ ~SealEnding
  /\ Merging => building
  /\ compact.pc \in {"build", "advance", "manifest"} => compact.staged
  /\ Emptying \/ compact.pc \in {"stage", "migrate"} => ~compact.staged
  /\ compact.pc = "idle" => compact = NoCompact
  /\ CompactLocks \/ Emptying => seal.pc = "idle"
  /\ Emptying \/ compact.pc = "migrate" => ~building
  /\ Emptying => up /\ sealing = NotSealing
  /\ compact.pc = "empty" => id_index = NoRows
  /\ compact.pc \in {"empty", "migrate"} => base < Len(log)
  /\ compact.pc # "idle" => manifest.exists
  /\ ~up => seal = NoSeal /\ compact = NoCompact /\ sealing = NotSealing /\ ~building

(* Names. *)
Bounded(s) ==
  /\ s[1] = 0 => \/ s[3] <= manifest.generation
                 \/ s[3] = NextGeneration /\ s \in ToSet(searchers)
  /\ s[1] = 1 => s[2] <= Len(log)
  /\ s[1] = 2 => s[2] < Len(log)

Fresh(s) ==
  s \notin ToSet(searchers) /\ s \notin ToSet(manifest.segments) /\ \A h \in overlay.points : h[1] # s

Named ==
  /\ \A s \in ToSet(searchers) \cup ToSet(manifest.segments) : Bounded(s)
  /\ ~manifest.exists => \A s \in DOMAIN segs : Bounded(s)
  /\ up => \A h \in published.points \cup overlay.points : Bounded(h[1])
  /\ SealActive => Fresh(Sealed)
  /\ Merging => /\ Fresh(compact.name)
                /\ compact.name = MergeName(compact.end, NextGeneration)
  /\ compact.pc \in {"advance", "manifest"} => compact.end < Len(log)
  /\ compact.pc \in {"migrate", "write", "clear", "install", "rewrite"} =>
       /\ compact.name \notin ToSet(manifest.segments)
       /\ \A h \in published.points \cup overlay.points : h[1] # compact.name
  /\ compact.pc = "migrate" =>
       Fresh(compact.name) /\ compact.name[1] = 2 /\ compact.name[2] < Len(log)
  /\ compact.pc \in {"write", "clear", "install", "rewrite"} =>
       compact.name = LegacyName(NextGeneration)

\* A directory of the legacy format that a load would install is of an earlier
\* generation than the next.
Dated == \A s \in Installed : s[1] = 0 => s[3] <= manifest.generation

(* Memory. *)
Shown(i, p) == p \in DOMAIN RowsOf(i) /\ <<searchers[i], p>> \notin overlay.points

Shape ==
  /\ \A i, j \in DOMAIN searchers : searchers[i] = searchers[j] => i = j
  /\ \A i \in DOMAIN searchers : searchers[i] \in DOMAIN segs
  /\ \A i \in DOMAIN searchers : \A p \in segs[searchers[i]].tomb : <<searchers[i], p>> \in overlay.points

Content ==
  /\ \A p \in Points : p \in DOMAIN streamer <=> p \in DOMAIN id_index /\ id_index[p] = Streamer
  /\ \A p \in DOMAIN id_index :
       id_index[p] = Sealing => p \in DOMAIN sealing.rows /\ sealing.owner # "none"
  /\ \A i \in DOMAIN searchers, p \in Points :
       Shown(i, p) <=> p \in DOMAIN id_index /\ id_index[p] = i
  /\ \A p \in Points : p \in DOMAIN id_index <=> Latest(p) # 0
  /\ \A p \in DOMAIN id_index :
       /\ id_index[p] = Streamer => streamer[p] = Latest(p)
       /\ id_index[p] = Sealing => sealing.rows[p] = Latest(p)
       /\ id_index[p] \in DOMAIN searchers => RowsOf(id_index[p])[p] = Latest(p)

Memory == up /\ ~Emptying => Shape /\ Content

(* What the WAL still has to give back. *)
InMemory(p) == p \in DOMAIN id_index /\ id_index[p] \in {Streamer, Sealing}
After(n) == \A p \in Points : InMemory(p) => Latest(p) > n
CutTo == IF compact.mark > 0 THEN compact.mark ELSE Len(log)

Retained ==
  up => 
  /\ ~Emptying => After(ReplayFrom)
  /\ SealActive \/ SealEnding => \A p \in DOMAIN streamer : streamer[p] > seal.end
  /\ SealEnding => sealing.owner = "none"
  /\ Merging => compact.end > 0 /\ \A p \in DOMAIN streamer : streamer[p] > compact.end
  /\ compact.pc \in {"overlay", "checkpoint", "cut"} => After(CutTo)
  /\ compact.pc \in {"advance", "manifest"} => 
       /\ compact.mark = (IF Len(log) > compact.end + 1 THEN compact.end ELSE 0)
       /\ log[Len(log)] = CompactRecord

SealRows ==
  SealActive =>
    /\ seal.end > 0
    /\ \A p \in DOMAIN sealing.rows :
         /\ sealing.rows[p] > ReplayFrom /\ sealing.rows[p] <= LastRecord(p)
         /\ \A i \in DOMAIN searchers : p \in DOMAIN RowsOf(i) => <<searchers[i], p>> \in overlay.points
    /\ seal.pc \in {"publish", "manifest"} =>
         Sealed \in DOMAIN segs /\ segs[Sealed].rows = sealing.rows
    /\ seal.pc = "manifest" => segs[Sealed].tomb = Superseded /\ published = SealOverlay

(* Disk and memory. *)
Current == published.generation = manifest.generation
Row(s, p) == s \in Installed /\ p \in DOMAIN segs[s].rows

\* The manifest and memory name other segments, or overlays of another
\* generation: a compaction has failed on either side of its manifest.  What
\* is not to be replayed is in the one segment the manifest names.
Behind ==
  /\ base < Len(log)
  /\ \A s, t \in ToSet(manifest.segments) : s = t
  /\ ToSet(manifest.segments) \subseteq DOMAIN segs
  /\ \A p \in Points : LastRecord(p) <= ReplayFrom =>
       /\ Latest(p) # 0 => manifest.segments # <<>>
       /\ \A s \in ToSet(manifest.segments) :
            /\ p \in DOMAIN segs[s].rows <=> Latest(p) # 0
            /\ p \in DOMAIN segs[s].rows => segs[s].rows[p] = Latest(p)
            /\ p \notin segs[s].tomb /\ <<s, p>> \notin published.points \cup overlay.points

Switched ==
  \/ ToSet(manifest.segments) = ToSet(searchers) /\ overlay.generation = manifest.generation
  \/ Behind

\* Before the first manifest.
Unlisted ==
  ~manifest.exists =>
    /\ manifest = NoManifest /\ overlay.generation = 0
    /\ ToSet(searchers) \subseteq DOMAIN segs
    /\ DOMAIN segs \subseteq ToSet(searchers) \cup (IF SealActive THEN {Sealed} ELSE {})
    /\ \A s \in DOMAIN segs \ ToSet(searchers) : segs[s].rows = sealing.rows

Finishing ==
  /\ SealEnding \/ Ending =>
       ToSet(manifest.segments) = ToSet(searchers) /\ overlay.generation = manifest.generation
  /\ SealEnding => published = overlay
  /\ compact.pc \in {"checkpoint", "cut"} => published = overlay \/ base = Len(log)

\* The overlay on disk against the one in memory.
Covered ==
  /\ \A h \in published.points : h[1] \in Installed => h \in overlay.points
  /\ \A h \in overlay.points :
       h[1] \in Installed => h \in published.points \/ LastRecord(h[2]) > ReplayFrom
  /\ \A s, t \in Installed, p \in Points :
       Row(s, p) /\ Row(t, p) /\ <<s, p>> \notin published.points /\ <<t, p>> \notin published.points
         => s = t

Guarded ==
  /\ published.points \subseteq overlay.points
  /\ \A p \in DOMAIN sealing.rows, i \in DOMAIN searchers :
       p \in DOMAIN RowsOf(i) => <<searchers[i], p>> \in published.points

Linked ==
  up /\ ~Emptying =>
    /\ Unlisted /\ (manifest.exists => Switched) /\ Finishing
    /\ Current => Covered
    /\ Current /\ SealActive => Guarded

(* The merge. *)
Staged ==
  up /\ Merging =>
    /\ DOMAIN compact.entries = DOMAIN compact.rows /\ compact.selected \subseteq DOMAIN searchers
    /\ \A p \in DOMAIN compact.entries :
         /\ compact.entries[p] \in {Sealing} \cup compact.selected
         /\ compact.entries[p] = Sealing =>
              p \in DOMAIN sealing.rows /\ sealing.rows[p] = compact.rows[p]
         /\ compact.entries[p] # Sealing =>
              p \in DOMAIN RowsOf(compact.entries[p]) /\ RowsOf(compact.entries[p])[p] = compact.rows[p]
    /\ \A p \in DOMAIN id_index :
         id_index[p] \in {Sealing} \cup compact.selected =>
           p \in DOMAIN compact.entries /\ compact.entries[p] = id_index[p]
    /\ compact.pc # "build" => compact.name \in DOMAIN segs /\ segs[compact.name].rows = compact.rows
    /\ compact.pc \in {"advance", "manifest"} => segs[compact.name].tomb = Moved
    /\ compact.pc = "manifest" => published = MergedOverlay

(* What a load would find. *)
Found(s, p) == Row(s, p) /\ <<s, p>> \notin OpenedPoints

Loadable ==
  \A p \in Points :
    /\ \A s, t \in Installed : Found(s, p) /\ Found(t, p) => s = t
    /\ LastRecord(p) <= ReplayFrom =>
         /\ Latest(p) = 0 => \A s \in Installed : ~Found(s, p)
         /\ Latest(p) # 0 => \E s \in Installed : Found(s, p) /\ segs[s].rows[p] = Latest(p)

\* The rows of a rewrite hold the last version of every live point.
Whole(rows) ==
  /\ \A p \in Points : p \in DOMAIN rows <=> Latest(p) # 0
  /\ \A p \in DOMAIN rows : rows[p] = Latest(p)

Rewritten ==
  /\ compact.pc = "write" => Whole(compact.rows)
  /\ compact.pc \in {"migrate", "clear", "install", "rewrite"} =>
       /\ compact.name \in DOMAIN segs /\ segs[compact.name].tomb = {}
       /\ Whole(segs[compact.name].rows)
  /\ compact.pc \in {"install", "rewrite"} => DOMAIN segs = {compact.name}
  /\ compact.pc \in {"write", "clear", "install"} => searchers = <<>>
  /\ compact.pc \in {"write", "clear", "lost"} => ~Missing
  /\ compact.pc = "rewrite" =>
       /\ searchers = <<compact.name>>
       /\ id_index = [p \in DOMAIN segs[compact.name].rows |-> 1]
  /\ Emptying => /\ streamer = NoRows /\ \E p \in Points : Latest(p) # 0
                 /\ Missing \/ OverlayIgnored \/ Loadable

Down ==
  ~up => /\ ~Missing /\ ~Misordered /\ Loadable /\ IsFiniteSet(Installed)
         /\ ~manifest.exists => manifest = NoManifest

Inv == /\ Types /\ Owners /\ Named /\ Memory /\ Retained /\ SealRows /\ Linked /\ Staged
       /\ Rewritten /\ Down
-----------------------------------------------------------------------------
(***************************************************************************)
(* Numbers.                                                                *)
(***************************************************************************)
\* A set of numbers has a least element, and a bounded one a greatest.
LEMMA LeastOf ==
  ASSUME NEW S \in SUBSET Nat, S # {}
  PROVE  \E x \in S : \A y \in S : x <= y
<1>1. PICK x \in S : \A y \in S : ~(<<y, x>> \in OpToRel(<, Nat))
  BY NatLessThanWellFounded, WFMin
<1>2. \A y \in S : ~(y < x)
  BY <1>1 DEF OpToRel
<1> QED BY <1>2

LEMMA MinOf ==
  ASSUME NEW S \in SUBSET Nat, S # {}
  PROVE  Min(S) \in S /\ \A y \in S : Min(S) <= y
<1>1. \E x \in S : \A y \in S : x =< y
  BY LeastOf
<1> QED BY <1>1, Zenon DEF Min

LEMMA MaxOf ==
  ASSUME NEW S \in SUBSET Nat, S # {}, NEW b \in Nat, \A x \in S : x <= b
  PROVE  Max(S) \in S /\ \A y \in S : y <= Max(S)
<1> DEFINE T == {k \in Nat : \E x \in S : k + x = b}
<1>1. T \in SUBSET Nat /\ T # {}
  <2>1. PICK x \in S : TRUE
    OBVIOUS
  <2>2. b - x \in Nat /\ (b - x) + x = b
    OBVIOUS
  <2> QED BY <2>2
<1>2. PICK z \in T : \A y \in T : z <= y
  BY <1>1, LeastOf
<1>3. PICK x \in S : z + x = b
  OBVIOUS
<1>4. \A y \in S : x >= y
  <2> TAKE y \in S
  <2>1. b - y \in T
    OBVIOUS
  <2>2. z <= b - y
    BY <1>2, <2>1
  <2>3. x \in Nat /\ y \in Nat /\ z \in Nat
    OBVIOUS
  <2> HIDE DEF T
  <2> QED BY <1>3, <2>2, <2>3
<1>5. Max(S) \in S /\ \A y \in S : Max(S) >= y
  BY <1>4, Zenon DEF Max
<1>6. Max(S) \in Nat
  BY <1>5
<1> QED BY <1>5, <1>6

LEMMA PairMax ==
  ASSUME NEW a \in Nat, NEW b \in Nat
  PROVE  Max({a, b}) \in Nat /\ Max({a, b}) = IF a >= b THEN a ELSE b
<1>1. {a, b} \in SUBSET Nat /\ {a, b} # {} /\ (IF a >= b THEN a ELSE b) \in Nat
      /\ \A x \in {a, b} : x <= IF a >= b THEN a ELSE b
  OBVIOUS
<1>2. Max({a, b}) \in {a, b} /\ \A y \in {a, b} : y <= Max({a, b})
  BY <1>1, MaxOf
<1> QED BY <1>2

\* Induction on numbers, for a set of them.
LEMMA EveryNumber ==
  ASSUME NEW T, 0 \in T, \A k \in Nat : k \in T => k + 1 \in T
  PROVE  \A k \in Nat : k \in T
<1> SUFFICES ASSUME NEW k \in Nat, k \notin T PROVE FALSE
  OBVIOUS
<1>1. PICK x \in Nat \ T : \A y \in Nat \ T : x <= y
  <2>1. Nat \ T \in SUBSET Nat /\ Nat \ T # {}
    OBVIOUS
  <2> QED BY <2>1, LeastOf
<1>2. x # 0 /\ x - 1 \in Nat /\ (x - 1) + 1 = x
  BY <1>1
<1>3. x - 1 \in T
  BY <1>1, <1>2
<1> QED BY <1>1, <1>2, <1>3

-----------------------------------------------------------------------------
(***************************************************************************)
(* Maps of rows.                                                           *)
(***************************************************************************)
IsRows(f) == f = [x \in DOMAIN f |-> f[x]] /\ DOMAIN f \subseteq Points /\ \A x \in DOMAIN f : f[x] \in Nat

LEMMA RowsAre ==
  ASSUME NEW f
  PROVE  f \in RowMaps <=> IsRows(f)
<1>1. ASSUME f \in RowMaps PROVE IsRows(f)
  BY <1>1 DEF RowMaps, IsRows
<1>2. ASSUME IsRows(f) PROVE f \in RowMaps
  <2>1. f \in [DOMAIN f -> Nat] /\ DOMAIN f \in SUBSET Points
    BY <1>2 DEF IsRows
  <2> QED BY <2>1 DEF RowMaps
<1> QED BY <1>1, <1>2

LEMMA EmptyRows ==
  /\ NoRows \in RowMaps /\ DOMAIN NoRows = {}
  /\ \A f \in RowMaps : DOMAIN f = {} => f = NoRows
<1>1. DOMAIN NoRows = {} /\ IsRows(NoRows)
  BY DEF NoRows, IsRows
<1>2. ASSUME NEW f \in RowMaps, DOMAIN f = {} PROVE f = NoRows
  <2>1. IsRows(f)
    BY RowsAre
  <2> QED BY <1>2, <2>1 DEF NoRows, IsRows
<1> QED BY <1>1, <1>2, RowsAre

LEMMA PutRows ==
  ASSUME NEW f \in RowMaps, NEW p \in Points, NEW v \in Nat
  PROVE  /\ Put(f, p, v) \in RowMaps /\ Put(f, p, v)[p] = v
         /\ \A q : q \in DOMAIN Put(f, p, v) <=> q = p \/ q \in DOMAIN f
         /\ \A q \in DOMAIN f : q # p => Put(f, p, v)[q] = f[q]
<1>1. IsRows(f)
  BY RowsAre
<1>2. IsRows(Put(f, p, v))
  BY <1>1 DEF IsRows, Put
<1> QED BY <1>2, RowsAre DEF Put

LEMMA RestrictRows ==
  ASSUME NEW f \in RowMaps, NEW D \in SUBSET DOMAIN f
  PROVE  /\ Restrict(f, D) \in RowMaps /\ DOMAIN Restrict(f, D) = D
         /\ \A q \in D : Restrict(f, D)[q] = f[q]
<1>1. IsRows(f)
  BY RowsAre
<1>2. IsRows(Restrict(f, D))
  BY <1>1 DEF IsRows, Restrict
<1> QED BY <1>2, RowsAre DEF Restrict

LEMMA CompletedRows ==
  ASSUME NEW f \in RowMaps, NEW g \in RowMaps
  PROVE  /\ Completed(f, g) \in RowMaps
         /\ \A q : q \in DOMAIN Completed(f, g) <=> q \in DOMAIN f \/ q \in DOMAIN g
         /\ \A q \in DOMAIN f : Completed(f, g)[q] = f[q]
         /\ \A q \in DOMAIN g : q \notin DOMAIN f => Completed(f, g)[q] = g[q]
<1>1. IsRows(f) /\ IsRows(g)
  BY RowsAre
<1>2. IsRows(Completed(f, g))
  BY <1>1 DEF IsRows, Completed
<1> QED BY <1>2, RowsAre DEF Completed

-----------------------------------------------------------------------------
(***************************************************************************)
(* The last record of a point.                                             *)
(***************************************************************************)
LEMMA LastRecordIs ==
  ASSUME log \in Seq(Records), NEW p
  PROVE  /\ LastRecord(p) \in Nat /\ LastRecord(p) <= Len(log)
         /\ LastRecord(p) # 0 => LastRecord(p) \in DOMAIN log /\ log[LastRecord(p)].id = p
         /\ \A i \in DOMAIN log : log[i].id = p => i <= LastRecord(p)
<1> DEFINE S == {0} \cup {i \in DOMAIN log : log[i].id = p}
<1>1. S \in SUBSET Nat /\ S # {} /\ Len(log) \in Nat /\ \A x \in S : x <= Len(log)
  OBVIOUS
<1>2. Max(S) \in S /\ \A y \in S : y <= Max(S)
  BY <1>1, MaxOf
<1>3. LastRecord(p) = Max(S)
  BY DEF LastRecord
<1> QED BY <1>1, <1>2, <1>3

LEMMA LatestIs ==
  ASSUME log \in Seq(Records), NEW p
  PROVE  /\ Latest(p) \in Nat
         /\ Latest(p) # 0 => Latest(p) = LastRecord(p) /\ log[Latest(p)].op = "put"
         /\ Latest(p) = 0 /\ LastRecord(p) # 0 => log[LastRecord(p)].op # "put"
         /\ Latest(p) <= LastRecord(p)
  BY LastRecordIs DEF Latest

\* What a record adds.
LEMMA Logged ==
  ASSUME log \in Seq(Records), NEW r \in Records, log' = Append(log, r), NEW p \in Points
  PROVE  /\ log' \in Seq(Records) /\ Len(log') = Len(log) + 1
         /\ LastRecord(p)' = IF r.id = p THEN Len(log) + 1 ELSE LastRecord(p)
         /\ Latest(p)' = IF r.id # p THEN Latest(p) ELSE IF r.op = "put" THEN Len(log) + 1 ELSE 0
<1>1. log' \in Seq(Records) /\ Len(log') = Len(log) + 1 /\ Len(log) \in Nat
      /\ log'[Len(log) + 1] = r /\ \A i \in DOMAIN log : log'[i] = log[i]
      /\ DOMAIN log = 1 .. Len(log) /\ DOMAIN log' = 1 .. Len(log) + 1
  OBVIOUS
<1>2. /\ LastRecord(p)' \in Nat /\ LastRecord(p)' <= Len(log')
      /\ LastRecord(p)' # 0 => LastRecord(p)' \in DOMAIN log' /\ log'[LastRecord(p)'].id = p
      /\ \A i \in DOMAIN log' : log'[i].id = p => i <= LastRecord(p)'
  <2> DEFINE S == {0} \cup {i \in DOMAIN log' : log'[i].id = p}
  <2>1. S \in SUBSET Nat /\ S # {} /\ Len(log') \in Nat /\ \A x \in S : x <= Len(log')
    BY <1>1
  <2>2. Max(S) \in S /\ \A y \in S : y <= Max(S)
    BY <2>1, MaxOf
  <2>3. LastRecord(p)' = Max(S)
    BY DEF LastRecord
  <2> QED BY <2>1, <2>2, <2>3
<1>3. /\ LastRecord(p) \in Nat /\ LastRecord(p) <= Len(log)
      /\ LastRecord(p) # 0 => LastRecord(p) \in DOMAIN log /\ log[LastRecord(p)].id = p
      /\ \A i \in DOMAIN log : log[i].id = p => i <= LastRecord(p)
  BY LastRecordIs
<1>4. LastRecord(p)' = IF r.id = p THEN Len(log) + 1 ELSE LastRecord(p)
  <2>1. CASE r.id = p
    BY <1>1, <1>2, <2>1
  <2>2. CASE r.id # p
    <3>1. LastRecord(p)' <= Len(log)
      BY <1>1, <1>2, <2>2
    <3>2. LastRecord(p)' <= LastRecord(p)
      BY <1>1, <1>2, <1>3, <3>1
    <3>3. LastRecord(p) <= LastRecord(p)'
      BY <1>1, <1>2, <1>3
    <3> QED BY <1>2, <1>3, <3>2, <3>3, <2>2
  <2> QED BY <2>1, <2>2
<1>5. Latest(p)' = IF LastRecord(p)' > 0 /\ log'[LastRecord(p)'].op = "put" THEN LastRecord(p)' ELSE 0
  BY DEF Latest
<1>6. Latest(p) = IF LastRecord(p) > 0 /\ log[LastRecord(p)].op = "put" THEN LastRecord(p) ELSE 0
  BY DEF Latest
<1> QED BY <1>1, <1>3, <1>4, <1>5, <1>6

LEMMA NotLogged ==
  ASSUME UNCHANGED log, NEW p
  PROVE  LastRecord(p)' = LastRecord(p) /\ Latest(p)' = Latest(p)
  BY DEF LastRecord, Latest
-----------------------------------------------------------------------------
(***************************************************************************)
(* The order of a load: the names of a finite set can be sorted.           *)
(***************************************************************************)
LEMMA BeforeOrders ==
  ASSUME NEW s \in Names, NEW t \in Names, NEW u \in Names
  PROVE  /\ ~Before(s, s) /\ (s = t \/ Before(s, t) \/ Before(t, s))
         /\ Before(s, t) /\ Before(t, u) => Before(s, u)
  BY DEF Names, Before

Sorts(order, S) ==
  /\ order \in [1 .. Cardinality(S) -> S]
  /\ \A i, j \in DOMAIN order : i < j => Before(order[i], order[j])

LEMMA LastName ==
  ASSUME NEW S \in SUBSET Names, IsFiniteSet(S), S # {}
  PROVE  \E m \in S : \A s \in S : s # m => Before(s, m)
<1> DEFINE T == {k \in Nat : \A U \in SUBSET Names :
                   IsFiniteSet(U) /\ Cardinality(U) = k + 1 =>
                     \E m \in U : \A s \in U : s # m => Before(s, m)}
<1>1. 0 \in T
  <2> SUFFICES ASSUME NEW U \in SUBSET Names, IsFiniteSet(U), Cardinality(U) = 0 + 1
               PROVE  \E m \in U : \A s \in U : s # m => Before(s, m)
    OBVIOUS
  <2>1. PICK x : U = {x}
    <3>1. Cardinality(U) = 1
      OBVIOUS
    <3> HIDE DEF T
    <3> QED BY <3>1, FS_Singleton
  <2> QED BY <2>1
<1>2. \A k \in Nat : k \in T => k + 1 \in T
  <2> SUFFICES ASSUME NEW k \in Nat, k \in T, NEW U \in SUBSET Names, IsFiniteSet(U),
                      Cardinality(U) = k + 1 + 1
               PROVE  \E m \in U : \A s \in U : s # m => Before(s, m)
    OBVIOUS
  <2>1. U # {}
    BY FS_EmptySet
  <2>2. PICK x \in U : TRUE
    BY <2>1
  <2>3. IsFiniteSet(U \ {x}) /\ Cardinality(U \ {x}) = k + 1
    BY <2>2, FS_RemoveElement
  <2>4. PICK m \in U \ {x} : \A s \in U \ {x} : s # m => Before(s, m)
    BY <2>3
  <2>5. CASE Before(m, x)
    <3>1. \A s \in U : s # x => Before(s, x)
      BY <2>4, <2>5, BeforeOrders
    <3> QED BY <3>1
  <2>6. CASE ~Before(m, x)
    <3>1. Before(x, m)
      BY <2>4, <2>6, BeforeOrders
    <3> QED BY <2>4, <3>1
  <2> QED BY <2>5, <2>6
<1>3. \A k \in Nat : k \in T
  <2> HIDE DEF T
  <2> QED BY <1>1, <1>2, EveryNumber
<1>4. Cardinality(S) \in Nat /\ Cardinality(S) # 0
  BY FS_CardinalityType, FS_EmptySet
<1>5. Cardinality(S) - 1 \in Nat /\ (Cardinality(S) - 1) + 1 = Cardinality(S)
  BY <1>4
<1> QED BY <1>3, <1>5

LEMMA SortExists ==
  ASSUME NEW S \in SUBSET Names, IsFiniteSet(S)
  PROVE  \E order : Sorts(order, S)
<1> DEFINE T == {k \in Nat : \A U \in SUBSET Names :
                   IsFiniteSet(U) /\ Cardinality(U) = k => \E order : Sorts(order, U)}
<1>1. 0 \in T
  <2> SUFFICES ASSUME NEW U \in SUBSET Names, IsFiniteSet(U), Cardinality(U) = 0
               PROVE  \E order : Sorts(order, U)
    OBVIOUS
  <2> DEFINE o == [i \in 1 .. 0 |-> 0]
  <2>1. o \in [1 .. Cardinality(U) -> U] /\ DOMAIN o = {}
    OBVIOUS
  <2>2. Sorts(o, U)
    BY <2>1 DEF Sorts
  <2> QED BY <2>2
<1>2. \A k \in Nat : k \in T => k + 1 \in T
  <2> SUFFICES ASSUME NEW k \in Nat, k \in T, NEW U \in SUBSET Names, IsFiniteSet(U),
                      Cardinality(U) = k + 1
               PROVE  \E order : Sorts(order, U)
    OBVIOUS
  <2>1. U # {}
    BY FS_EmptySet
  <2>2. PICK m \in U : \A s \in U : s # m => Before(s, m)
    BY <2>1, LastName
  <2>3. IsFiniteSet(U \ {m}) /\ Cardinality(U \ {m}) = k
    <3> HIDE DEF T
    <3>1. IsFiniteSet(U \ {m}) /\ Cardinality(U \ {m}) = Cardinality(U) - 1
      BY <2>2, FS_RemoveElement
    <3> QED BY <3>1
  <2>4. PICK f : Sorts(f, U \ {m})
    BY <2>3
  <2>5. f \in [1 .. k -> U \ {m}] /\ \A i, j \in 1 .. k : i < j => Before(f[i], f[j])
    BY <2>3, <2>4 DEF Sorts
  <2> DEFINE o == [i \in 1 .. k + 1 |-> IF i = k + 1 THEN m ELSE f[i]]
  <2>6. o \in [1 .. Cardinality(U) -> U]
    BY <2>5
  <2>7. ASSUME NEW i \in DOMAIN o, NEW j \in DOMAIN o, i < j PROVE Before(o[i], o[j])
    <3>1. i \in 1 .. k /\ o[i] = f[i] /\ f[i] \in U \ {m}
      BY <2>5, <2>7
    <3>2. CASE j = k + 1
      BY <2>2, <3>1, <3>2
    <3>3. CASE j # k + 1
      BY <2>5, <2>7, <3>1, <3>3
    <3> QED BY <3>2, <3>3
  <2>8. Sorts(o, U)
    BY <2>6, <2>7 DEF Sorts
  <2> QED BY <2>8
<1>3. \A k \in Nat : k \in T
  <2> HIDE DEF T
  <2> QED BY <1>1, <1>2, EveryNumber
<1>4. Cardinality(S) \in Nat
  BY FS_CardinalityType
<1> QED BY <1>3, <1>4

\* The order goes through every installed segment once.
LEMMA LoadOrderIs ==
  ASSUME Installed \subseteq Names, IsFiniteSet(Installed)
  PROVE  /\ LoadOrder \in Seq(Installed)
         /\ ToSet(LoadOrder) = Installed
         /\ \A i, j \in DOMAIN LoadOrder : LoadOrder[i] = LoadOrder[j] => i = j
<1> DEFINE I == Installed
           n == Cardinality(I)
<1>1. \E order \in [1 .. n -> I] : \A i, j \in DOMAIN order : i < j => Before(order[i], order[j])
  BY SortExists DEF Sorts
<1>2. /\ LoadOrder \in [1 .. n -> I]
      /\ \A i, j \in DOMAIN LoadOrder : i < j => Before(LoadOrder[i], LoadOrder[j])
  <2> HIDE DEF I
  <2> QED BY <1>1, Zenon DEF LoadOrder, I
<1>3. n \in Nat
  BY FS_CardinalityType
<1> HIDE DEF n
<1>4. DOMAIN LoadOrder = 1 .. n
  BY <1>2
<1>5. \A i, j \in 1 .. n : LoadOrder[i] = LoadOrder[j] => i = j
  <2> SUFFICES ASSUME NEW i \in 1 .. n, NEW j \in 1 .. n, LoadOrder[i] = LoadOrder[j], i < j
               PROVE  FALSE
    BY <1>3
  <2>1. Before(LoadOrder[i], LoadOrder[j])
    BY <1>2, <1>4
  <2>2. LoadOrder[i] \in Names
    BY <1>2, <1>4
  <2> QED BY <2>1, <2>2, BeforeOrders
<1>6. LoadOrder \in Injection(1 .. n, I)
  BY <1>2, <1>4, <1>5 DEF Injection, IsInjective
<1>7. LoadOrder \in Surjection(1 .. n, I)
  <2>1. Cardinality(1 .. n) = n
    BY <1>3, FS_Interval
  <2> QED BY <1>6, <2>1, FS_Injection DEF n
<1>8. LoadOrder \in Seq(I)
  BY <1>2, <1>3
<1>9. ToSet(LoadOrder) = I
  BY <1>2, <1>4, <1>7 DEF ToSet, Surjection
<1> QED BY <1>4, <1>5, <1>8, <1>9
-----------------------------------------------------------------------------
(***************************************************************************)
(* The replay of the WAL: the fold has a solution, which goes from one     *)
(* record to the next.                                                     *)
(***************************************************************************)
Offsets == [i \in 1 .. (Len(log) - ReplayFrom) |-> ReplayFrom + i]

FoldValue(f, s) ==
  IF s = {} THEN ReplayStart ELSE ReplayStep(f[s \ {Max(s)}], Offsets[Max(s)])
Folds(S, f) == f = [s \in SUBSET S |-> FoldValue(f, s)]

LEMMA ReplayedChoose == Replayed = (CHOOSE f : Folds(DOMAIN Offsets, f))[DOMAIN Offsets]
  BY Zenon DEF Replayed, FoldLeft, MapThenFoldSet, Folds, FoldValue, Offsets

UpTo(S, k) == {s \in SUBSET S : Cardinality(s) <= k}
Solves(S, k, f) == f = [s \in UpTo(S, k) |-> FoldValue(f, s)]

LEMMA SubsetSize ==
  ASSUME NEW n \in Nat, NEW s \in SUBSET (1 .. n)
  PROVE  IsFiniteSet(s) /\ Cardinality(s) \in Nat /\ Cardinality(s) <= n
<1>1. IsFiniteSet(1 .. n) /\ Cardinality(1 .. n) = n
  <2>1. 1 \in Int /\ n \in Int
    OBVIOUS
  <2> QED BY <2>1, FS_Interval
<1>2. IsFiniteSet(s) /\ Cardinality(s) <= n
  BY <1>1, FS_Subset
<1> QED BY <1>2, FS_CardinalityType

LEMMA WithoutMax ==
  ASSUME NEW n \in Nat, NEW s \in SUBSET (1 .. n), s # {}
  PROVE  /\ Max(s) \in s /\ IsFiniteSet(s) /\ Cardinality(s) \in Nat
         /\ Cardinality(s \ {Max(s)}) \in Nat /\ Cardinality(s \ {Max(s)}) + 1 = Cardinality(s)
<1>1. s \in SUBSET Nat /\ \A x \in s : x <= n
  OBVIOUS
<1>2. Max(s) \in s
  BY <1>1, MaxOf
<1>3. IsFiniteSet(s)
  BY SubsetSize
<1>4. Cardinality(s) \in Nat
  BY <1>3, FS_CardinalityType
<1>5. IsFiniteSet(s \ {Max(s)}) /\ Cardinality(s \ {Max(s)}) = Cardinality(s) - 1
  BY <1>2, <1>3, FS_RemoveElement
<1>6. Cardinality(s \ {Max(s)}) \in Nat
  BY <1>5, FS_CardinalityType
<1> QED BY <1>2, <1>3, <1>4, <1>5, <1>6

LEMMA SolvesMore ==
  ASSUME NEW n \in Nat, NEW k \in Nat, NEW f, Solves(1 .. n, k, f)
  PROVE  \E g : Solves(1 .. n, k + 1, g)
<1> DEFINE S == 1 .. n
           g == [s \in UpTo(S, k + 1) |-> FoldValue(f, s)]
<1>1. \A s \in UpTo(S, k) : s \in UpTo(S, k + 1) /\ g[s] = f[s]
  <2> TAKE s \in UpTo(S, k)
  <2>1. s \in SUBSET S /\ Cardinality(s) <= k
    BY DEF UpTo
  <2>2. Cardinality(s) \in Nat
    BY <2>1, SubsetSize
  <2>3. s \in UpTo(S, k + 1)
    BY <2>1, <2>2 DEF UpTo
  <2>4. f[s] = FoldValue(f, s)
    <3> HIDE DEF S
    <3> QED BY Zenon DEF Solves, S
  <2> QED BY <2>3, <2>4, Zenon
<1>2. \A s \in UpTo(S, k + 1) : s # {} => s \ {Max(s)} \in UpTo(S, k)
  <2> SUFFICES ASSUME NEW s \in UpTo(S, k + 1), s # {}
               PROVE  s \ {Max(s)} \in UpTo(S, k)
    OBVIOUS
  <2>1. s \in SUBSET S /\ Cardinality(s) <= k + 1
    BY DEF UpTo
  <2>2. Cardinality(s \ {Max(s)}) <= k
    <3>1. Cardinality(s \ {Max(s)}) \in Nat /\ Cardinality(s \ {Max(s)}) + 1 = Cardinality(s)
      BY <2>1, WithoutMax
    <3> HIDE DEF g
    <3> QED BY <2>1, <3>1
  <2>3. s \ {Max(s)} \in SUBSET S
    BY <2>1
  <2> QED BY <2>2, <2>3 DEF UpTo
<1>3. \A s \in UpTo(S, k + 1) : s # {} => f[s \ {Max(s)}] = g[s \ {Max(s)}]
  <2> HIDE DEF S, g
  <2> QED BY <1>1, <1>2, Zenon
<1>4. \A s \in UpTo(S, k + 1) : FoldValue(f, s) = FoldValue(g, s)
  <2> HIDE DEF S, g
  <2> QED BY <1>3, Zenon DEF FoldValue
<1>5. g = [s \in UpTo(S, k + 1) |-> FoldValue(g, s)]
  <2> DEFINE G(s) == FoldValue(g, s)
             F(s) == FoldValue(f, s)
  <2>1. \A s \in UpTo(S, k + 1) : F(s) = G(s)
    BY <1>4
  <2>2. g = [s \in UpTo(S, k + 1) |-> F(s)]
    OBVIOUS
  <2> HIDE DEF g, F, G
  <2>3. g = [s \in UpTo(S, k + 1) |-> G(s)]
    BY <2>1, <2>2, Zenon
  <2> QED BY <2>3 DEF G
<1>6. Solves(S, k + 1, g)
  <2> HIDE DEF g
  <2> QED BY <1>5, Zenon DEF Solves
<1> HIDE DEF g
<1> QED BY <1>6

LEMMA SolvesNone ==
  ASSUME NEW n \in Nat
  PROVE  \E f : Solves(1 .. n, 0, f)
<1> DEFINE f == [s \in UpTo(1 .. n, 0) |-> ReplayStart]
<1>1. \A s \in UpTo(1 .. n, 0) : s = {}
  <2> SUFFICES ASSUME NEW s \in UpTo(1 .. n, 0) PROVE s = {}
    OBVIOUS
  <2>0. s \in SUBSET (1 .. n) /\ Cardinality(s) <= 0
    BY DEF UpTo
  <2>1. IsFiniteSet(s) /\ Cardinality(s) \in Nat
    BY <2>0, SubsetSize
  <2>2. Cardinality(s) = 0
    BY <2>0, <2>1
  <2> QED BY <2>1, <2>2, FS_EmptySet
<1>2. f = [s \in UpTo(1 .. n, 0) |-> FoldValue(f, s)]
  BY <1>1, Zenon DEF FoldValue
<1>3. Solves(1 .. n, 0, f)
  BY <1>2, Zenon DEF Solves
<1> QED BY <1>3

LEMMA FoldsExist ==
  ASSUME NEW n \in Nat
  PROVE  \E f : Folds(1 .. n, f)
<1> DEFINE T == {k \in Nat : \E f : Solves(1 .. n, k, f)}
<1>1. 0 \in T
  BY SolvesNone
<1>2. \A k \in Nat : k \in T => k + 1 \in T
  <2> SUFFICES ASSUME NEW k \in Nat, k \in T PROVE k + 1 \in T
    OBVIOUS
  <2>1. PICK f : Solves(1 .. n, k, f)
    OBVIOUS
  <2>2. \E g : Solves(1 .. n, k + 1, g)
    BY <2>1, SolvesMore
  <2> QED BY <2>2
<1>3. \A k \in Nat : k \in T
  <2> HIDE DEF T
  <2> QED BY <1>1, <1>2, EveryNumber
<1>4. PICK f : Solves(1 .. n, n, f)
  BY <1>3
<1>5. UpTo(1 .. n, n) = SUBSET (1 .. n)
  <2>1. \A s \in SUBSET (1 .. n) : Cardinality(s) <= n
    BY SubsetSize
  <2> QED BY <2>1 DEF UpTo
<1>6. Folds(1 .. n, f)
  BY <1>4, <1>5, Zenon DEF Solves, Folds
<1> QED BY <1>6

LEMMA IntervalMax ==
  ASSUME NEW k \in Nat
  PROVE  Max(1 .. k + 1) = k + 1
<1> DEFINE s == 1 .. k + 1
           m == k + 1
<1>1. s \in SUBSET Nat /\ s # {} /\ (\A x \in s : x <= m) /\ m \in s /\ m \in Nat
  OBVIOUS
<1> HIDE DEF s, m
<1>2. Max(s) \in s /\ \A y \in s : y <= Max(s)
  BY <1>1, MaxOf
<1>3. Max(s) \in Nat /\ Max(s) <= m /\ m <= Max(s)
  BY <1>1, <1>2
<1>4. Max(s) = m
  BY <1>1, <1>3
<1> QED BY <1>4 DEF s, m

\* The states of a replay, one after each record.
LEMMA ReplayChain ==
  ASSUME NEW n \in Nat, Len(log) - ReplayFrom = n
  PROVE  \E f : /\ f[0] = ReplayStart /\ f[n] = Replayed
                /\ \A k \in 0 .. n - 1 : f[k + 1] = ReplayStep(f[k], ReplayFrom + (k + 1))
<1>1. DOMAIN Offsets = 1 .. n /\ \A i \in 1 .. n : Offsets[i] = ReplayFrom + i
  BY DEF Offsets
<1>2. \E f : Folds(1 .. n, f)
  BY FoldsExist
<1> DEFINE g == CHOOSE f : Folds(1 .. n, f)
<1>3. Folds(1 .. n, g)
  BY <1>2, Zenon
<1>4. Replayed = g[1 .. n]
  BY <1>1, ReplayedChoose
<1> HIDE DEF g
<1>5. \A s \in SUBSET (1 .. n) : g[s] = FoldValue(g, s)
  BY <1>3, Zenon DEF Folds
<1> DEFINE f == [k \in 0 .. n |-> g[1 .. k]]
<1>6. f[0] = ReplayStart
  <2>1. 1 .. 0 = {} /\ {} \in SUBSET (1 .. n)
    OBVIOUS
  <2>2. g[{}] = ReplayStart
    BY <1>5, <2>1, Zenon DEF FoldValue
  <2> QED BY <2>1, <2>2
<1>7. ASSUME NEW k \in 0 .. n - 1 PROVE f[k + 1] = ReplayStep(f[k], ReplayFrom + (k + 1))
  <2> DEFINE s == 1 .. k + 1
  <2>1. s \in SUBSET (1 .. n) /\ s # {} /\ s \ {k + 1} = 1 .. k /\ k + 1 \in 1 .. n
    OBVIOUS
  <2>2. Max(s) = k + 1
    <3>1. k \in Nat
      OBVIOUS
    <3> HIDE DEF f
    <3> QED BY <3>1, IntervalMax
  <2> HIDE DEF s
  <2>3. g[s] = ReplayStep(g[1 .. k], Offsets[k + 1])
    BY <1>5, <2>1, <2>2, Zenon DEF FoldValue
  <2>4. f[k + 1] = g[s] /\ f[k] = g[1 .. k]
    BY DEF s
  <2>5. Offsets[k + 1] = ReplayFrom + (k + 1)
    BY <1>1, <2>1
  <2> QED BY <2>3, <2>4, <2>5
<1>8. f[n] = Replayed
  BY <1>4
<1> HIDE DEF f
<1> QED BY <1>6, <1>7, <1>8

-----------------------------------------------------------------------------
(***************************************************************************)
(* One record applied, and the state a replay ends in.                     *)
(***************************************************************************)
\* What the records of the log are.
LEMMA RecordIs ==
  ASSUME NEW r \in Records, NEW p
  PROVE  /\ r = CompactRecord => r.op # "put" /\ r.op # "del" /\ (p \in Points => r.id # p)
         /\ r # CompactRecord => r.op \in {"put", "del"} /\ r.id \in Points
         /\ r.id = p /\ p \in Points => r.op \in {"put", "del"}
  BY ConstantsAssumption DEF Records, CompactRecord

\* The state st after the record r of the given LSN.
Follows(a, st, r, lsn, order) ==
  /\ a.streamer \in RowMaps
  /\ a.index = [x \in DOMAIN a.index |-> a.index[x]]
  /\ r.op = "put" => /\ r.id \in DOMAIN a.streamer /\ a.streamer[r.id] = lsn
                     /\ r.id \in DOMAIN a.index /\ a.index[r.id] = Streamer
  /\ r.op # "put" => r.id \notin DOMAIN a.streamer /\ r.id \notin DOMAIN a.index
  /\ \A q : q # r.id => /\ q \in DOMAIN a.streamer <=> q \in DOMAIN st.streamer
                        /\ q \in DOMAIN a.index <=> q \in DOMAIN st.index
  /\ \A q \in DOMAIN st.streamer : q # r.id => a.streamer[q] = st.streamer[q]
  /\ \A q \in DOMAIN st.index : q # r.id => a.index[q] = st.index[q]
  /\ \A h : h \in a.hidden <=>
              \/ h \in st.hidden
              \/ /\ r.id \in DOMAIN st.index /\ st.index[r.id] > 0
                 /\ h = <<order[st.index[r.id]], r.id>>

LEMMA AppliedIs ==
  ASSUME NEW st, st.streamer \in RowMaps, NEW r \in Records, r # CompactRecord,
         NEW lsn \in Nat, NEW order
  PROVE  Follows(Applied(st, r, lsn, order), st, r, lsn, order)
<1> DEFINE p == r.id
           tomb == IF p \in DOMAIN st.index /\ st.index[p] > 0 THEN {<<order[st.index[p]], p>>} ELSE {}
           a == Applied(st, r, lsn, order)
<1>0. r.op \in {"put", "del"} /\ p \in Points
  BY RecordIs
<1>1. CASE r.op = "put"
  <2>1. a = [streamer |-> Put(st.streamer, p, lsn), index |-> Put(st.index, p, Streamer),
             hidden |-> st.hidden \cup tomb]
    BY <1>1 DEF Applied
  <2>2. Put(st.streamer, p, lsn) \in RowMaps /\ Put(st.streamer, p, lsn)[p] = lsn
        /\ (\A q : q \in DOMAIN Put(st.streamer, p, lsn) <=> q = p \/ q \in DOMAIN st.streamer)
        /\ (\A q \in DOMAIN st.streamer : q # p => Put(st.streamer, p, lsn)[q] = st.streamer[q])
    BY <1>0, PutRows
  <2>3. /\ a.streamer \in RowMaps /\ p \in DOMAIN a.streamer /\ a.streamer[p] = lsn
        /\ \A q : q # p => (q \in DOMAIN a.streamer <=> q \in DOMAIN st.streamer)
        /\ \A q \in DOMAIN st.streamer : q # p => a.streamer[q] = st.streamer[q]
    BY <2>1, <2>2
  <2>4. /\ a.index = [x \in DOMAIN a.index |-> a.index[x]] /\ p \in DOMAIN a.index /\ a.index[p] = Streamer
        /\ \A q : q # p => (q \in DOMAIN a.index <=> q \in DOMAIN st.index)
        /\ \A q \in DOMAIN st.index : q # p => a.index[q] = st.index[q]
    <3>1. a.index = Put(st.index, p, Streamer)
      BY <2>1
    <3> HIDE DEF a, p
    <3> QED BY <3>1 DEF Put
  <2>5. \A h : h \in a.hidden <=>
                \/ h \in st.hidden
                \/ p \in DOMAIN st.index /\ st.index[p] > 0 /\ h = <<order[st.index[p]], p>>
    <3>1. a.hidden = st.hidden \cup tomb
      BY <2>1
    <3> HIDE DEF a
    <3> QED BY <3>1
  <2>6. Follows(a, st, r, lsn, order)
    <3> HIDE DEF a
    <3> QED BY <1>1, <2>3, <2>4, <2>5 DEF Follows
  <2> QED BY <2>6
<1>2. CASE r.op = "del"
  <2> DEFINE D == DOMAIN st.streamer \ {p}
             E == DOMAIN st.index \ {p}
  <2>1. a = [streamer |-> Restrict(st.streamer, D), index |-> Restrict(st.index, E),
             hidden |-> st.hidden \cup tomb]
    BY <1>2 DEF Applied
  <2>2. Restrict(st.streamer, D) \in RowMaps /\ DOMAIN Restrict(st.streamer, D) = D
        /\ \A q \in D : Restrict(st.streamer, D)[q] = st.streamer[q]
    <3>1. D \in SUBSET DOMAIN st.streamer
      OBVIOUS
    <3> HIDE DEF D
    <3> QED BY <3>1, RestrictRows
  <2>3. /\ a.streamer \in RowMaps /\ p \notin DOMAIN a.streamer
        /\ \A q : q # p => (q \in DOMAIN a.streamer <=> q \in DOMAIN st.streamer)
        /\ \A q \in DOMAIN st.streamer : q # p => a.streamer[q] = st.streamer[q]
    <3>1. a.streamer = Restrict(st.streamer, D)
      BY <2>1
    <3> HIDE DEF a
    <3> QED BY <2>2, <3>1
  <2>4. /\ a.index = [x \in DOMAIN a.index |-> a.index[x]] /\ p \notin DOMAIN a.index
        /\ \A q : q # p => (q \in DOMAIN a.index <=> q \in DOMAIN st.index)
        /\ \A q \in DOMAIN st.index : q # p => a.index[q] = st.index[q]
    <3>1. a.index = Restrict(st.index, E)
      BY <2>1
    <3> HIDE DEF a
    <3> QED BY <3>1 DEF Restrict
  <2>5. \A h : h \in a.hidden <=>
                \/ h \in st.hidden
                \/ p \in DOMAIN st.index /\ st.index[p] > 0 /\ h = <<order[st.index[p]], p>>
    <3>1. a.hidden = st.hidden \cup tomb
      BY <2>1
    <3> HIDE DEF a
    <3> QED BY <3>1
  <2>6. Follows(a, st, r, lsn, order)
    <3> HIDE DEF a
    <3> QED BY <1>2, <2>3, <2>4, <2>5 DEF Follows
  <2> QED BY <2>6
<1> QED BY <1>0, <1>1, <1>2

\* What a load starts from.
Opens ==
  /\ log \in Seq(Records) /\ ReplayFrom \in Nat /\ ReplayFrom <= Len(log)
  /\ Installed \subseteq Names /\ IsFiniteSet(Installed)

LEMMA LoadedIs ==
  ASSUME Opens
  PROVE  /\ \A p : p \in DOMAIN LoadedIndex <=> p \in Points /\ \E s \in Installed : p \in DOMAIN segs[s].rows
         /\ \A p \in DOMAIN LoadedIndex :
              /\ LoadedIndex[p] \in DOMAIN LoadOrder /\ p \in DOMAIN segs[LoadOrder[LoadedIndex[p]]].rows
              /\ \A i \in DOMAIN LoadOrder : p \in DOMAIN segs[LoadOrder[i]].rows => i <= LoadedIndex[p]
         /\ LoadedIndex = [x \in DOMAIN LoadedIndex |-> LoadedIndex[x]]
<1> DEFINE at(p) == {i \in DOMAIN LoadOrder : p \in DOMAIN segs[LoadOrder[i]].rows}
           D == {q \in Points : \E s \in Installed : q \in DOMAIN segs[s].rows}
<1>1. LoadedIndex = [p \in D |-> Max(at(p))]
  BY DEF LoadedIndex
<1>2. LoadOrder \in Seq(Installed) /\ ToSet(LoadOrder) = Installed
  BY LoadOrderIs DEF Opens
<1>3. ASSUME NEW p \in D PROVE Max(at(p)) \in at(p) /\ \A y \in at(p) : y <= Max(at(p))
  <2>1. at(p) # {}
    <3>1. PICK s \in Installed : p \in DOMAIN segs[s].rows
      OBVIOUS
    <3>2. PICK i \in DOMAIN LoadOrder : LoadOrder[i] = s
      BY <1>2, <3>1 DEF ToSet
    <3> QED BY <3>1, <3>2
  <2>2. at(p) \in SUBSET Nat /\ Len(LoadOrder) \in Nat /\ \A x \in at(p) : x <= Len(LoadOrder)
    BY <1>2
  <2> HIDE DEF at
  <2> QED BY <2>1, <2>2, MaxOf
<1>4. \A p : p \in D <=> p \in Points /\ \E s \in Installed : p \in DOMAIN segs[s].rows
  OBVIOUS
<1>5. \A p \in D : \A i : i \in at(p) <=> i \in DOMAIN LoadOrder /\ p \in DOMAIN segs[LoadOrder[i]].rows
  OBVIOUS
<1> HIDE DEF at, D
<1>6. DOMAIN LoadedIndex = D /\ \A p \in D : LoadedIndex[p] = Max(at(p))
  BY <1>1
<1>7. ASSUME NEW p \in D
      PROVE  /\ LoadedIndex[p] \in DOMAIN LoadOrder /\ p \in DOMAIN segs[LoadOrder[LoadedIndex[p]]].rows
             /\ \A i \in DOMAIN LoadOrder : p \in DOMAIN segs[LoadOrder[i]].rows => i <= LoadedIndex[p]
  BY <1>3, <1>5, <1>6
<1> QED BY <1>1, <1>4, <1>6, <1>7

\* The first k records of the replay leave p alone; the record i of them is its last.
Spared(p, k) == \A i \in 1 .. k : log[ReplayFrom + i].id # p
LastOf(p, i, k) ==
  /\ i \in 1 .. k /\ log[ReplayFrom + i].id = p
  /\ \A j \in 1 .. k : log[ReplayFrom + j].id = p => j <= i

\* The state after the first k records.
ReplayedTo(st, k) ==
  /\ st.streamer \in RowMaps /\ DOMAIN st.index \subseteq Points
  /\ st.index = [x \in DOMAIN st.index |-> st.index[x]]
  /\ \A p \in Points : Spared(p, k) =>
       /\ p \notin DOMAIN st.streamer
       /\ p \in DOMAIN st.index <=> p \in DOMAIN LoadedIndex
       /\ p \in DOMAIN st.index => st.index[p] = LoadedIndex[p]
  /\ \A p \in Points, i \in 1 .. k : LastOf(p, i, k) =>
       /\ log[ReplayFrom + i].op = "put" =>
            /\ p \in DOMAIN st.streamer /\ st.streamer[p] = ReplayFrom + i
            /\ p \in DOMAIN st.index /\ st.index[p] = Streamer
       /\ log[ReplayFrom + i].op # "put" => p \notin DOMAIN st.streamer /\ p \notin DOMAIN st.index
  /\ \A h : h \in st.hidden <=>
       \/ h \in OpenedPoints
       \/ \E p \in DOMAIN LoadedIndex : ~Spared(p, k) /\ h = <<LoadOrder[LoadedIndex[p]], p>>

LEMMA ReplayStarts ==
  ASSUME Opens
  PROVE  ReplayedTo(ReplayStart, 0)
<1>1. ReplayStart.streamer = NoRows /\ ReplayStart.index = LoadedIndex /\ ReplayStart.hidden = OpenedPoints
  BY DEF ReplayStart
<1>2. NoRows \in RowMaps /\ DOMAIN NoRows = {}
  BY EmptyRows
<1>3. \A p : Spared(p, 0) /\ \A i : ~LastOf(p, i, 0)
  BY DEF Spared, LastOf
<1>4. DOMAIN LoadedIndex \subseteq Points /\ LoadedIndex = [x \in DOMAIN LoadedIndex |-> LoadedIndex[x]]
  BY LoadedIs
<1> QED BY <1>1, <1>2, <1>3, <1>4 DEF ReplayedTo

\* A point that one more record is about, and one it is not about.
LEMMA OneMore ==
  ASSUME NEW k \in Nat, NEW p
  PROVE  /\ log[ReplayFrom + (k + 1)].id = p =>
              ~Spared(p, k + 1) /\ \A i : LastOf(p, i, k + 1) => i = k + 1
         /\ log[ReplayFrom + (k + 1)].id # p =>
              /\ Spared(p, k + 1) <=> Spared(p, k)
              /\ \A i : LastOf(p, i, k + 1) => LastOf(p, i, k)
<1>1. \A i : i \in 1 .. k + 1 <=> i \in 1 .. k \/ i = k + 1
  OBVIOUS
<1>2. k + 1 \in 1 .. k + 1 /\ \A i \in 1 .. k + 1 : k + 1 <= i => i = k + 1
  OBVIOUS
<1> QED BY <1>1, <1>2 DEF Spared, LastOf

\* A point that some record is about has a last one.
LEMMA HasLast ==
  ASSUME NEW k \in Nat, NEW p, ~Spared(p, k)
  PROVE  \E i \in 1 .. k : LastOf(p, i, k)
<1> DEFINE S == {i \in 1 .. k : log[ReplayFrom + i].id = p}
<1>1. S \in SUBSET Nat /\ S # {} /\ \A x \in S : x <= k
  BY DEF Spared
<1>2. \A i : i \in S <=> i \in 1 .. k /\ log[ReplayFrom + i].id = p
  OBVIOUS
<1> HIDE DEF S
<1>3. Max(S) \in S /\ \A y \in S : y <= Max(S)
  BY <1>1, MaxOf
<1> QED BY <1>2, <1>3 DEF LastOf

LEMMA ReplaySteps ==
  ASSUME Opens, NEW k \in Nat, ReplayFrom + (k + 1) <= Len(log), NEW st, ReplayedTo(st, k)
  PROVE  ReplayedTo(ReplayStep(st, ReplayFrom + (k + 1)), k + 1)
<1> DEFINE lsn == ReplayFrom + (k + 1)
           r == log[lsn]
           a == ReplayStep(st, lsn)
<1>1. lsn \in DOMAIN log /\ lsn \in Nat /\ r \in Records
  BY DEF Opens
<1>2. CASE r = CompactRecord
  <2>1. a = st
    BY <1>2, RecordIs DEF ReplayStep, Applied, CompactRecord
  <2>2. \A p \in Points : r.id # p
    BY <1>1, <1>2, RecordIs
  <2>3. \A p \in Points : (Spared(p, k + 1) <=> Spared(p, k)) /\ \A i : LastOf(p, i, k + 1) => LastOf(p, i, k)
    BY <2>2, OneMore
  <2>4. \A p \in Points : \A i : LastOf(p, i, k) => i \in 1 .. k
    BY DEF LastOf
  <2>5. DOMAIN LoadedIndex \subseteq Points
    BY LoadedIs
  <2>6. ReplayedTo(st, k + 1)
    <3> HIDE DEF r, a, lsn
    <3> QED BY <2>3, <2>4, <2>5, Zenon DEF ReplayedTo
  <2> QED BY <2>1, <2>6
<1>3. CASE r # CompactRecord
  <2>1. Follows(a, st, r, lsn, LoadOrder)
    <3>1. st.streamer \in RowMaps
      BY DEF ReplayedTo
    <3> HIDE DEF lsn, r
    <3>2. Follows(Applied(st, r, lsn, LoadOrder), st, r, lsn, LoadOrder)
      BY <1>1, <1>3, <3>1, AppliedIs
    <3> QED BY <3>2 DEF ReplayStep, r
  <2>2. r.op \in {"put", "del"} /\ r.id \in Points
    BY <1>1, <1>3, RecordIs
  <2>3. \A p : r.id = p => ~Spared(p, k + 1) /\ \A i : LastOf(p, i, k + 1) => i = k + 1
    BY OneMore
  <2>4. \A p : r.id # p => (Spared(p, k + 1) <=> Spared(p, k)) /\ \A i : LastOf(p, i, k + 1) => LastOf(p, i, k)
    BY OneMore
  <2>5. \A p \in Points : \A i : LastOf(p, i, k) => i \in 1 .. k
    BY DEF LastOf
  <2>6. DOMAIN LoadedIndex \subseteq Points /\ \A p \in DOMAIN LoadedIndex : LoadedIndex[p] > 0
    <3>1. LoadOrder \in Seq(Installed)
      BY LoadOrderIs DEF Opens
    <3> QED BY <3>1, LoadedIs
  <2>7. ReplayFrom + (k + 1) = lsn /\ log[lsn] = r
    OBVIOUS
  <2> HIDE DEF a, r, lsn
  <2>8. /\ a.streamer \in RowMaps /\ DOMAIN a.index \subseteq Points
        /\ a.index = [x \in DOMAIN a.index |-> a.index[x]]
    BY <2>1, <2>2 DEF Follows, ReplayedTo
  <2>9. ASSUME NEW p \in Points, Spared(p, k + 1)
        PROVE  /\ p \notin DOMAIN a.streamer
               /\ p \in DOMAIN a.index <=> p \in DOMAIN LoadedIndex
               /\ p \in DOMAIN a.index => a.index[p] = LoadedIndex[p]
    <3>1. p # r.id /\ Spared(p, k)
      BY <2>3, <2>4, <2>9
    <3> QED BY <3>1, <2>1, Zenon DEF Follows, ReplayedTo
  <2>10. ASSUME NEW p \in Points, NEW i \in 1 .. k + 1, LastOf(p, i, k + 1)
         PROVE  /\ log[ReplayFrom + i].op = "put" =>
                     /\ p \in DOMAIN a.streamer /\ a.streamer[p] = ReplayFrom + i
                     /\ p \in DOMAIN a.index /\ a.index[p] = Streamer
                /\ log[ReplayFrom + i].op # "put" => p \notin DOMAIN a.streamer /\ p \notin DOMAIN a.index
    <3>1. CASE p = r.id
      <4>1. i = k + 1
        BY <2>3, <2>10, <3>1
      <4>2. ReplayFrom + i = lsn /\ log[ReplayFrom + i] = r
        BY <2>7, <4>1
      <4> QED BY <2>1, <3>1, <4>2, Zenon DEF Follows
    <3>2. CASE p # r.id
      <4>1. LastOf(p, i, k) /\ i \in 1 .. k
        BY <2>4, <2>5, <2>10, <3>2
      <4>2. /\ log[ReplayFrom + i].op = "put" =>
                 /\ p \in DOMAIN st.streamer /\ st.streamer[p] = ReplayFrom + i
                 /\ p \in DOMAIN st.index /\ st.index[p] = Streamer
            /\ log[ReplayFrom + i].op # "put" => p \notin DOMAIN st.streamer /\ p \notin DOMAIN st.index
        BY <4>1, Zenon DEF ReplayedTo
      <4> QED BY <2>1, <3>2, <4>2, Zenon DEF Follows
    <3> QED BY <3>1, <3>2
  <2>11. \A h : h \in a.hidden <=>
           \/ h \in OpenedPoints
           \/ \E p \in DOMAIN LoadedIndex : ~Spared(p, k + 1) /\ h = <<LoadOrder[LoadedIndex[p]], p>>
    <3> DEFINE X(h) == r.id \in DOMAIN st.index /\ st.index[r.id] > 0 /\ h = <<LoadOrder[st.index[r.id]], r.id>>
               Y(h, m) == \E p \in DOMAIN LoadedIndex : ~Spared(p, m) /\ h = <<LoadOrder[LoadedIndex[p]], p>>
    <3>1. \A h : h \in a.hidden <=> h \in st.hidden \/ X(h)
      BY <2>1 DEF Follows
    <3>2. \A h : h \in st.hidden <=> h \in OpenedPoints \/ Y(h, k)
      BY DEF ReplayedTo
    <3>3. \A h : Y(h, k + 1) <=> Y(h, k) \/ (r.id \in DOMAIN LoadedIndex /\ h = <<LoadOrder[LoadedIndex[r.id]], r.id>>)
      <4>1. \A p : ~Spared(p, k + 1) <=> ~Spared(p, k) \/ p = r.id
        <5>1. \A p : ~Spared(p, k) => ~Spared(p, k + 1)
          BY DEF Spared
        <5> QED BY <2>3, <2>4, <5>1
      <4> QED BY <4>1
    <3>4. \A h : X(h) => Y(h, k) \/ (r.id \in DOMAIN LoadedIndex /\ h = <<LoadOrder[LoadedIndex[r.id]], r.id>>)
      <4>1. CASE Spared(r.id, k)
        <5>1. r.id \in DOMAIN st.index => r.id \in DOMAIN LoadedIndex /\ st.index[r.id] = LoadedIndex[r.id]
          BY <2>2, <4>1 DEF ReplayedTo
        <5> QED BY <5>1
      <4>2. CASE ~Spared(r.id, k)
        <5>1. PICK i \in 1 .. k : LastOf(r.id, i, k)
          BY <4>2, HasLast
        <5>2. r.id \in DOMAIN st.index => st.index[r.id] = Streamer
          BY <2>2, <5>1 DEF ReplayedTo
        <5>3. \A h : ~X(h)
          BY <5>2 DEF Streamer
        <5> QED BY <5>3
      <4> QED BY <4>1, <4>2
    <3>5. \A h : r.id \in DOMAIN LoadedIndex /\ h = <<LoadOrder[LoadedIndex[r.id]], r.id>> => X(h) \/ Y(h, k)
      <4>1. CASE Spared(r.id, k)
        <5>1. r.id \in DOMAIN LoadedIndex => r.id \in DOMAIN st.index /\ st.index[r.id] = LoadedIndex[r.id]
          BY <2>2, <4>1 DEF ReplayedTo
        <5> QED BY <2>6, <5>1
      <4>2. CASE ~Spared(r.id, k)
        BY <4>2
      <4> QED BY <4>1, <4>2
    <3>6. \A h : h \in a.hidden <=> h \in OpenedPoints \/ Y(h, k + 1)
      <4> HIDE DEF X, Y
      <4> QED BY <3>1, <3>2, <3>3, <3>4, <3>5
    <3> QED BY <3>6
  <2>12. ReplayedTo(a, k + 1)
    <3> QED BY <2>8, <2>9, <2>10, <2>11, Zenon DEF ReplayedTo
  <2> QED BY <2>12 DEF a, lsn
<1> QED BY <1>2, <1>3

LEMMA ReplayEnds ==
  ASSUME Opens
  PROVE  ReplayedTo(Replayed, Len(log) - ReplayFrom)
<1> DEFINE n == Len(log) - ReplayFrom
<1>1. n \in Nat /\ Len(log) \in Nat /\ ReplayFrom \in Nat /\ ReplayFrom + n = Len(log)
  BY DEF Opens
<1>2. PICK f : /\ f[0] = ReplayStart /\ f[n] = Replayed
               /\ \A k \in 0 .. n - 1 : f[k + 1] = ReplayStep(f[k], ReplayFrom + (k + 1))
  BY <1>1, ReplayChain
<1> DEFINE T == {k \in Nat : k <= n => ReplayedTo(f[k], k)}
<1>3. 0 \in T
  BY <1>2, ReplayStarts
<1> HIDE DEF n
<1>4. \A k \in Nat : k \in T => k + 1 \in T
  <2> SUFFICES ASSUME NEW k \in Nat, k \in T, k + 1 <= n PROVE ReplayedTo(f[k + 1], k + 1)
    OBVIOUS
  <2>1. k \in 0 .. n - 1 /\ k <= n /\ ReplayFrom + (k + 1) <= Len(log)
    BY <1>1
  <2>2. f[k + 1] = ReplayStep(f[k], ReplayFrom + (k + 1)) /\ ReplayedTo(f[k], k)
    BY <1>2, <2>1
  <2> HIDE DEF T
  <2> QED BY <2>1, <2>2, ReplaySteps
<1>5. \A k \in Nat : k \in T
  <2> HIDE DEF T
  <2> QED BY <1>3, <1>4, EveryNumber
<1>6. ReplayedTo(f[n], n)
  BY <1>1, <1>5
<1> QED BY <1>2, <1>6 DEF n

\* What a replay of the whole log leaves, in terms of the last records.
LEMMA ReplayIs ==
  ASSUME Opens
  PROVE  /\ Replayed.streamer \in RowMaps /\ DOMAIN Replayed.index \subseteq Points
         /\ \A p \in Points : LastRecord(p) <= ReplayFrom =>
              /\ p \notin DOMAIN Replayed.streamer
              /\ p \in DOMAIN Replayed.index <=> p \in DOMAIN LoadedIndex
              /\ p \in DOMAIN Replayed.index => Replayed.index[p] = LoadedIndex[p]
         /\ \A p \in Points : LastRecord(p) > ReplayFrom =>
              /\ Latest(p) # 0 => /\ p \in DOMAIN Replayed.streamer /\ Replayed.streamer[p] = Latest(p)
                                  /\ p \in DOMAIN Replayed.index /\ Replayed.index[p] = Streamer
              /\ Latest(p) = 0 => p \notin DOMAIN Replayed.streamer /\ p \notin DOMAIN Replayed.index
         /\ \A h : h \in Replayed.hidden <=>
              \/ h \in OpenedPoints
              \/ \E p \in DOMAIN LoadedIndex : LastRecord(p) > ReplayFrom /\ h = <<LoadOrder[LoadedIndex[p]], p>>
<1> DEFINE n == Len(log) - ReplayFrom
<1>1. n \in Nat /\ Len(log) \in Nat /\ ReplayFrom \in Nat /\ ReplayFrom + n = Len(log)
      /\ log \in Seq(Records) /\ DOMAIN log = 1 .. Len(log)
  BY DEF Opens
<1>2. ReplayedTo(Replayed, n)
  BY ReplayEnds
<1> HIDE DEF n
<1>3. ASSUME NEW p PROVE LastRecord(p) <= ReplayFrom => Spared(p, n)
  <2> SUFFICES ASSUME LastRecord(p) <= ReplayFrom, NEW i \in 1 .. n, log[ReplayFrom + i].id = p PROVE FALSE
    BY DEF Spared
  <2>1. ReplayFrom + i \in DOMAIN log
    BY <1>1
  <2>2. LastRecord(p) \in Nat /\ ReplayFrom + i <= LastRecord(p)
    BY <1>1, <2>1, LastRecordIs
  <2> QED BY <1>1, <2>2
<1>4. ASSUME NEW p, LastRecord(p) > ReplayFrom
      PROVE  ~Spared(p, n) /\ \E i \in 1 .. n : LastOf(p, i, n) /\ ReplayFrom + i = LastRecord(p)
  <2> DEFINE i == LastRecord(p) - ReplayFrom
  <2>1. LastRecord(p) \in Nat /\ LastRecord(p) <= Len(log)
        /\ (LastRecord(p) # 0 => LastRecord(p) \in DOMAIN log /\ log[LastRecord(p)].id = p)
        /\ \A j \in DOMAIN log : log[j].id = p => j <= LastRecord(p)
    BY <1>1, LastRecordIs
  <2>2. i \in 1 .. n /\ ReplayFrom + i = LastRecord(p) /\ LastRecord(p) # 0
    BY <1>1, <1>4, <2>1
  <2>3. \A j \in 1 .. n : ReplayFrom + j \in DOMAIN log
    BY <1>1
  <2> HIDE DEF i
  <2>4. \A j \in 1 .. n : log[ReplayFrom + j].id = p => ReplayFrom + j <= ReplayFrom + i
    BY <2>1, <2>2, <2>3
  <2>5. \A j \in 1 .. n : log[ReplayFrom + j].id = p => j <= i
    BY <1>1, <2>2, <2>4
  <2>6. log[ReplayFrom + i].id = p
    BY <2>1, <2>2
  <2>7. LastOf(p, i, n) /\ ~Spared(p, n)
    BY <2>2, <2>5, <2>6 DEF LastOf, Spared
  <2> QED BY <2>2, <2>7
<1>5. ASSUME NEW p \in Points, LastRecord(p) > ReplayFrom
      PROVE  /\ Latest(p) # 0 => /\ p \in DOMAIN Replayed.streamer /\ Replayed.streamer[p] = Latest(p)
                                 /\ p \in DOMAIN Replayed.index /\ Replayed.index[p] = Streamer
             /\ Latest(p) = 0 => p \notin DOMAIN Replayed.streamer /\ p \notin DOMAIN Replayed.index
  <2>1. PICK i \in 1 .. n : LastOf(p, i, n) /\ ReplayFrom + i = LastRecord(p)
    BY <1>4, <1>5
  <2>2. /\ log[LastRecord(p)].op = "put" =>
             /\ p \in DOMAIN Replayed.streamer /\ Replayed.streamer[p] = LastRecord(p)
             /\ p \in DOMAIN Replayed.index /\ Replayed.index[p] = Streamer
        /\ log[LastRecord(p)].op # "put" => p \notin DOMAIN Replayed.streamer /\ p \notin DOMAIN Replayed.index
    <3>1. /\ log[ReplayFrom + i].op = "put" =>
               /\ p \in DOMAIN Replayed.streamer /\ Replayed.streamer[p] = ReplayFrom + i
               /\ p \in DOMAIN Replayed.index /\ Replayed.index[p] = Streamer
          /\ log[ReplayFrom + i].op # "put" => p \notin DOMAIN Replayed.streamer /\ p \notin DOMAIN Replayed.index
      BY <1>2, <2>1, Zenon DEF ReplayedTo
    <3> QED BY <2>1, <3>1
  <2>3. LastRecord(p) \in Nat /\ LastRecord(p) # 0
    BY <1>1, <1>5, LastRecordIs
  <2>4. /\ Latest(p) # 0 => Latest(p) = LastRecord(p) /\ log[Latest(p)].op = "put"
        /\ Latest(p) = 0 /\ LastRecord(p) # 0 => log[LastRecord(p)].op # "put"
    BY <1>1, LatestIs
  <2> QED BY <2>2, <2>3, <2>4
<1>6. \A p : LastRecord(p) > ReplayFrom <=> ~Spared(p, n)
  <2>1. \A p : LastRecord(p) \in Nat
    BY <1>1, LastRecordIs
  <2> QED BY <1>1, <1>3, <1>4, <2>1
<1>7. /\ Replayed.streamer \in RowMaps /\ DOMAIN Replayed.index \subseteq Points
      /\ \A p \in Points : LastRecord(p) <= ReplayFrom =>
              /\ p \notin DOMAIN Replayed.streamer
              /\ p \in DOMAIN Replayed.index <=> p \in DOMAIN LoadedIndex
              /\ p \in DOMAIN Replayed.index => Replayed.index[p] = LoadedIndex[p]
  BY <1>2, <1>3, Zenon DEF ReplayedTo
<1>8. \A h : h \in Replayed.hidden <=>
              \/ h \in OpenedPoints
              \/ \E p \in DOMAIN LoadedIndex : LastRecord(p) > ReplayFrom /\ h = <<LoadOrder[LoadedIndex[p]], p>>
  BY <1>2, <1>6, Zenon DEF ReplayedTo
<1> QED BY <1>5, <1>7, <1>8

-----------------------------------------------------------------------------
(***************************************************************************)
(* Flattening a sequence whose elements have at most one element.          *)
(***************************************************************************)
\* The first m values of the recursive function in FlattenSeq.
Flattens(f, seqs, m) == f = [i \in 1 .. m |-> IF i = 1 THEN seqs[i] ELSE f[i - 1] \o seqs[i]]

LEMMA FlattenMore ==
  ASSUME NEW seqs, NEW m \in Nat, NEW f, Flattens(f, seqs, m)
  PROVE  \E g : Flattens(g, seqs, m + 1)
<1> DEFINE g == [i \in 1 .. m + 1 |-> IF i = 1 THEN seqs[i] ELSE f[i - 1] \o seqs[i]]
           h == [i \in 1 .. m + 1 |-> IF i = 1 THEN seqs[i] ELSE g[i - 1] \o seqs[i]]
<1>1. \A i \in 1 .. m : f[i] = IF i = 1 THEN seqs[i] ELSE f[i - 1] \o seqs[i]
  BY DEF Flattens
<1>2. \A i \in 1 .. m : f[i] = g[i]
  BY <1>1
<1>3. \A i \in 1 .. m + 1 : i # 1 => i - 1 \in 1 .. m
  OBVIOUS
<1>4. \A i \in 1 .. m + 1 : (IF i = 1 THEN seqs[i] ELSE f[i - 1] \o seqs[i]) = IF i = 1 THEN seqs[i] ELSE g[i - 1] \o seqs[i]
  <2> HIDE DEF g
  <2> QED BY <1>2, <1>3, Zenon
<1>5. g = h
  <2> DEFINE F(i) == IF i = 1 THEN seqs[i] ELSE f[i - 1] \o seqs[i]
             G(i) == IF i = 1 THEN seqs[i] ELSE g[i - 1] \o seqs[i]
  <2>1. \A i \in 1 .. m + 1 : F(i) = G(i)
    BY <1>4
  <2>2. g = [i \in 1 .. m + 1 |-> F(i)] /\ h = [i \in 1 .. m + 1 |-> G(i)]
    OBVIOUS
  <2> HIDE DEF F, G, g, h
  <2> QED BY <2>1, <2>2
<1>6. Flattens(g, seqs, m + 1)
  <2>1. g = [i \in 1 .. m + 1 |-> IF i = 1 THEN seqs[i] ELSE g[i - 1] \o seqs[i]]
    BY <1>5
  <2> HIDE DEF g
  <2> QED BY <2>1 DEF Flattens
<1> HIDE DEF g
<1> QED BY <1>6

LEMMA FlattenExists ==
  ASSUME NEW seqs, NEW n \in Nat
  PROVE  \E f : Flattens(f, seqs, n)
<1> DEFINE T == {k \in Nat : \E f : Flattens(f, seqs, k)}
<1>1. 0 \in T
  <2> DEFINE f == [i \in 1 .. 0 |-> seqs[i]]
  <2>1. f = [i \in 1 .. 0 |-> IF i = 1 THEN seqs[i] ELSE f[i - 1] \o seqs[i]]
    OBVIOUS
  <2>2. Flattens(f, seqs, 0)
    BY <2>1, Zenon DEF Flattens
  <2> QED BY <2>2
<1>2. \A k \in Nat : k \in T => k + 1 \in T
  BY FlattenMore
<1> HIDE DEF T
<1>3. \A k \in Nat : k \in T
  BY <1>1, <1>2, EveryNumber
<1> QED BY <1>3 DEF T

\* The chain of the concatenations.
LEMMA FlattenChain ==
  ASSUME NEW seqs, NEW n \in Nat \ {0}, Len(seqs) = n
  PROVE  \E f : /\ f[1] = seqs[1] /\ f[n] = FlattenSeq(seqs)
                /\ \A i \in 1 .. n - 1 : f[i + 1] = f[i] \o seqs[i + 1]
<1> DEFINE f == CHOOSE g : Flattens(g, seqs, n)
           h == CHOOSE g : g = [i \in 1 .. n |-> IF i = 1 THEN seqs[i] ELSE g[i - 1] \o seqs[i]]
<1>1. Flattens(f, seqs, n)
  <2>1. \E g : Flattens(g, seqs, n)
    BY FlattenExists
  <2> QED BY <2>1, Zenon
<1>2. FlattenSeq(seqs) = h[n]
  BY DEF FlattenSeq
<1>3. h = f
  BY DEF Flattens
<1> HIDE DEF f, h
<1>4. f = [i \in 1 .. n |-> IF i = 1 THEN seqs[i] ELSE f[i - 1] \o seqs[i]]
  BY <1>1 DEF Flattens
<1>5. f[1] = seqs[1]
  BY <1>4, 1 \in 1 .. n
<1>6. ASSUME NEW i \in 1 .. n - 1 PROVE f[i + 1] = f[i] \o seqs[i + 1]
  <2>1. i + 1 \in 1 .. n /\ i + 1 # 1 /\ (i + 1) - 1 = i
    OBVIOUS
  <2>2. f[i + 1] = IF i + 1 = 1 THEN seqs[i + 1] ELSE f[(i + 1) - 1] \o seqs[i + 1]
    BY <1>4, <2>1, Zenon
  <2> QED BY <2>1, <2>2
<1> QED BY <1>2, <1>3, <1>5, <1>6

\* How many of the chosen positions are not after i.
Rank(Q, i) == Cardinality({j \in Q : j <= i})

LEMMA RankIs ==
  ASSUME NEW n \in Nat, NEW Q \in SUBSET (1 .. n), NEW i \in 0 .. n
  PROVE  /\ Rank(Q, i) \in Nat /\ Rank(Q, 0) = 0
         /\ i + 1 \in Q => Rank(Q, i + 1) = Rank(Q, i) + 1
         /\ i + 1 \notin Q => Rank(Q, i + 1) = Rank(Q, i)
         /\ Rank(Q, n) = Cardinality(Q)
<1> DEFINE A == {j \in Q : j <= i}
           B == {j \in Q : j <= i + 1}
<1>0. i \in Nat /\ \A j \in Q : j \in Nat /\ 1 <= j /\ j <= n
  OBVIOUS
<1>1. IsFiniteSet(1 .. n)
  BY FS_Interval
<1>2. IsFiniteSet(A)
  <2>1. A \subseteq 1 .. n
    OBVIOUS
  <2> HIDE DEF A
  <2> QED BY <1>1, <2>1, FS_Subset
<1>3. Rank(Q, 0) = 0
  <2>1. {j \in Q : j <= 0} = {}
    <3>1. \A j \in Q : ~(j <= 0)
      BY <1>0
    <3> QED BY <3>1, Zenon
  <2> QED BY <2>1, FS_EmptySet DEF Rank
<1>4. i + 1 \in Q => B = A \cup {i + 1} /\ i + 1 \notin A
  <2>1. \A j \in Q : j <= i + 1 <=> j <= i \/ j = i + 1
    BY <1>0
  <2>2. ~(i + 1 <= i)
    BY <1>0
  <2> QED BY <2>1, <2>2, Zenon
<1>5. i + 1 \notin Q => B = A
  <2>1. \A j \in Q : j <= i + 1 <=> j <= i \/ j = i + 1
    BY <1>0
  <2> QED BY <2>1
<1>6. {j \in Q : j <= n} = Q
  BY <1>0
<1>7. Rank(Q, i) = Cardinality(A) /\ Rank(Q, i + 1) = Cardinality(B)
  BY DEF Rank
<1> HIDE DEF A, B
<1>8. Cardinality(A) \in Nat
  BY <1>2, FS_CardinalityType
<1>9. i + 1 \in Q => Cardinality(B) = Cardinality(A) + 1
  BY <1>2, <1>4, FS_AddElement
<1> QED BY <1>3, <1>5, <1>6, <1>7, <1>8, <1>9 DEF Rank

\* The sequences at the positions Q have the one element v gives, the others none.
Holds(seqs, n, Q, v) ==
  /\ n \in Nat \ {0} /\ seqs \in Seq(Seq(Names)) /\ Len(seqs) = n
  /\ Q \in SUBSET (1 .. n) /\ v \in [Q -> Names]
  /\ \A i \in 1 .. n : seqs[i] = IF i \in Q THEN <<v[i]>> ELSE <<>>

\* m holds the elements of the positions up to i, each at its rank.
Ranked(m, Q, v, i) ==
  /\ m \in Seq(Names) /\ Len(m) = Rank(Q, i)
  /\ \A j \in Q : j <= i => Rank(Q, j) \in 1 .. Rank(Q, i) /\ m[Rank(Q, j)] = v[j]
  /\ \A k \in 1 .. Rank(Q, i) : \E j \in Q : j <= i /\ k = Rank(Q, j)

LEMMA OneElement ==
  ASSUME NEW S, NEW m \in Seq(S), NEW x \in S, NEW w, w = m \o <<x>>
  PROVE  /\ w \in Seq(S) /\ Len(w) = Len(m) + 1 /\ w[Len(m) + 1] = x
         /\ \A k \in 1 .. Len(m) : w[k] = m[k]
<1>1. <<x>> \in Seq(S) /\ Len(<<x>>) = 1 /\ Len(m) \in Nat /\ <<x>>[1] = x
  OBVIOUS
<1>2. w = Append(m, x)
  OBVIOUS
<1> QED BY <1>1, <1>2

LEMMA RankedMore ==
  ASSUME NEW seqs, NEW n, NEW Q, NEW v, Holds(seqs, n, Q, v), NEW i \in 0 .. n - 1,
         NEW m, Ranked(m, Q, v, i)
  PROVE  Ranked(m \o seqs[i + 1], Q, v, i + 1)
<1>1. n \in Nat /\ Q \in SUBSET (1 .. n) /\ i \in 0 .. n /\ i \in Nat /\ i + 1 \in 1 .. n
  BY DEF Holds
<1>2. /\ Rank(Q, i) \in Nat
      /\ i + 1 \in Q => Rank(Q, i + 1) = Rank(Q, i) + 1
      /\ i + 1 \notin Q => Rank(Q, i + 1) = Rank(Q, i)
  BY <1>1, RankIs
<1>3. \A j \in Q : j \in Nat /\ (j <= i + 1 <=> j <= i \/ j = i + 1)
  BY <1>1
<1>4. m \in Seq(Names) /\ Len(m) = Rank(Q, i) /\ v \in [Q -> Names]
      /\ seqs[i + 1] = IF i + 1 \in Q THEN <<v[i + 1]>> ELSE <<>>
  BY <1>1 DEF Ranked, Holds
<1>5. CASE i + 1 \notin Q
  <2>1. m \o seqs[i + 1] = m
    BY <1>4, <1>5
  <2>2. \A j \in Q : j <= i + 1 <=> j <= i
    BY <1>3, <1>5
  <2> QED BY <1>2, <1>5, <2>1, <2>2 DEF Ranked
<1>6. CASE i + 1 \in Q
  <2> DEFINE w == m \o seqs[i + 1]
  <2>1. w \in Seq(Names) /\ Len(w) = Rank(Q, i) + 1 /\ w[Rank(Q, i) + 1] = v[i + 1]
        /\ \A k \in 1 .. Rank(Q, i) : w[k] = m[k]
    <3>1. v[i + 1] \in Names /\ seqs[i + 1] = <<v[i + 1]>>
      BY <1>4, <1>6
    <3>2. w = m \o <<v[i + 1]>>
      BY <3>1
    <3> HIDE DEF w
    <3>3. w \in Seq(Names) /\ Len(w) = Len(m) + 1 /\ w[Len(m) + 1] = v[i + 1]
          /\ \A k \in 1 .. Len(m) : w[k] = m[k]
      BY <1>4, <3>1, <3>2, OneElement
    <3> QED BY <1>4, <3>3
  <2> HIDE DEF w
  <2>2. Len(w) = Rank(Q, i + 1)
    BY <1>2, <1>6, <2>1
  <2>3. ASSUME NEW j \in Q, j <= i + 1 PROVE Rank(Q, j) \in 1 .. Rank(Q, i + 1) /\ w[Rank(Q, j)] = v[j]
    <3>1. CASE j <= i
      <4>1. Rank(Q, j) \in 1 .. Rank(Q, i) /\ m[Rank(Q, j)] = v[j]
        BY <3>1 DEF Ranked
      <4> QED BY <1>2, <1>6, <2>1, <4>1
    <3>2. CASE j = i + 1
      BY <1>2, <1>6, <2>1, <3>2
    <3> QED BY <1>3, <2>3, <3>1, <3>2
  <2>4. ASSUME NEW k \in 1 .. Rank(Q, i + 1) PROVE \E j \in Q : j <= i + 1 /\ k = Rank(Q, j)
    <3>1. CASE k \in 1 .. Rank(Q, i)
      <4>1. PICK j \in Q : j <= i /\ k = Rank(Q, j)
        BY <3>1 DEF Ranked
      <4> QED BY <1>3, <4>1
    <3>2. CASE k = Rank(Q, i) + 1
      BY <1>1, <1>2, <1>6, <3>2
    <3> QED BY <1>2, <1>6, <3>1, <3>2
  <2>5. Ranked(w, Q, v, i + 1)
    BY <2>1, <2>2, <2>3, <2>4 DEF Ranked
  <2> QED BY <2>5 DEF w
<1> QED BY <1>5, <1>6

LEMMA FlattenIs ==
  ASSUME NEW seqs, NEW n, NEW Q, NEW v, Holds(seqs, n, Q, v)
  PROVE  Ranked(FlattenSeq(seqs), Q, v, n)
<1>1. n \in Nat \ {0} /\ Len(seqs) = n /\ Q \in SUBSET (1 .. n) /\ seqs[1] \in Seq(Names)
  BY DEF Holds
<1>2. PICK f : /\ f[1] = seqs[1] /\ f[n] = FlattenSeq(seqs)
               /\ \A i \in 1 .. n - 1 : f[i + 1] = f[i] \o seqs[i + 1]
  BY <1>1, FlattenChain
<1>3. Ranked(<<>>, Q, v, 0)
  <2>1. Rank(Q, 0) = 0
    BY <1>1, 0 \in 0 .. n, RankIs
  <2>2. \A j \in Q : ~(j <= 0)
    BY <1>1
  <2> QED BY <2>1, <2>2 DEF Ranked
<1>4. Ranked(f[1], Q, v, 1)
  <2>1. 0 \in 0 .. n - 1 /\ 0 + 1 = 1
    BY <1>1
  <2>2. Ranked(<<>> \o seqs[0 + 1], Q, v, 0 + 1)
    BY <1>3, <2>1, RankedMore
  <2>3. <<>> \o seqs[1] = seqs[1]
    BY <1>1
  <2> QED BY <1>2, <2>1, <2>2, <2>3
<1> DEFINE T == {k \in Nat : k + 1 <= n => Ranked(f[k + 1], Q, v, k + 1)}
<1>5. 0 \in T
  BY <1>4
<1>6. ASSUME NEW k \in Nat, k \in T PROVE k + 1 \in T
  <2> SUFFICES ASSUME (k + 1) + 1 <= n PROVE Ranked(f[(k + 1) + 1], Q, v, (k + 1) + 1)
    OBVIOUS
  <2>1. k + 1 \in 1 .. n - 1 /\ k + 1 \in 0 .. n - 1 /\ k + 1 <= n
    BY <1>1
  <2>2. Ranked(f[k + 1], Q, v, k + 1)
    BY <1>6, <2>1
  <2> HIDE DEF T
  <2>3. Ranked(f[k + 1] \o seqs[(k + 1) + 1], Q, v, (k + 1) + 1)
    BY <2>1, <2>2, RankedMore
  <2> QED BY <1>2, <2>1, <2>3
<1>7. \A k \in Nat : k \in T
  <2> HIDE DEF T
  <2> QED BY <1>5, <1>6, EveryNumber
<1>8. n - 1 \in Nat /\ (n - 1) + 1 = n /\ n <= n
  BY <1>1
<1>9. Ranked(f[n], Q, v, n)
  <2>1. n - 1 \in T
    BY <1>7, <1>8
  <2> QED BY <1>8, <2>1
<1> QED BY <1>2, <1>9

-----------------------------------------------------------------------------
(***************************************************************************)
(* The searchers after a merge.                                            *)
(***************************************************************************)
Mergeable ==
  /\ searchers \in Seq(Names) /\ compact.selected \subseteq DOMAIN searchers /\ compact.name \in Names
  /\ compact.name \notin ToSet(searchers)
  /\ \A i, j \in DOMAIN searchers : searchers[i] = searchers[j] => i = j

LEMMA PlaceIs ==
  ASSUME Mergeable
  PROVE  /\ Place \in Nat \ {0} /\ Place <= Len(searchers) + 1 /\ Place \notin Kept
         /\ \A j \in 1 .. Len(searchers) : j < Place => j \in Kept
<1>1. searchers \in Seq(Names) /\ Len(searchers) \in Nat /\ DOMAIN searchers = 1 .. Len(searchers)
      /\ compact.selected \subseteq 1 .. Len(searchers)
  BY DEF Mergeable
<1>2. CASE compact.selected = {}
  BY <1>1, <1>2 DEF Place, Kept
<1>3. CASE compact.selected # {}
  <2> DEFINE S == compact.selected
  <2>1. S \in SUBSET Nat /\ S # {} /\ S \subseteq 1 .. Len(searchers)
    BY <1>1, <1>3
  <2>2. Place = Min(S)
    BY <1>3 DEF Place
  <2> HIDE DEF S
  <2>3. Min(S) \in S /\ \A y \in S : Min(S) <= y
    BY <2>1, MinOf
  <2>4. Place \in 1 .. Len(searchers) /\ Place \in S /\ \A y \in S : y \in Nat /\ Place <= y
    BY <2>1, <2>2, <2>3
  <2>5. \A j \in 1 .. Len(searchers) : j < Place => j \notin S
    BY <2>4
  <2> QED BY <1>1, <2>4, <2>5 DEF Kept, S
<1> QED BY <1>2, <1>3

LEMMA MergedIs ==
  ASSUME Mergeable
  PROVE  /\ Merged \in Seq(Names) /\ Place \in DOMAIN Merged /\ Merged[Place] = compact.name
         /\ \A i \in Kept : NewPosition(i) \in DOMAIN Merged /\ Merged[NewPosition(i)] = searchers[i]
         /\ \A k \in DOMAIN Merged : k = Place \/ \E i \in Kept : k = NewPosition(i)
<1> DEFINE l == Len(searchers)
           n == Max({Place, l})
           Q == Kept \cup {Place}
           v == [i \in Q |-> IF i = Place THEN compact.name ELSE searchers[i]]
           seqs == [i \in 1 .. n |-> IF i \in Q THEN <<v[i]>> ELSE <<>>]
<1>1. searchers \in Seq(Names) /\ l \in Nat /\ DOMAIN searchers = 1 .. l /\ compact.name \in Names
  BY DEF Mergeable
<1>2. Place \in Nat /\ Place # 0 /\ Place <= l + 1 /\ Place \notin Kept /\ Kept \subseteq 1 .. l
      /\ \A j \in 1 .. l : j < Place => j \in Kept
  BY <1>1, PlaceIs DEF Kept
<1> HIDE DEF l
<1>3. n \in Nat \ {0} /\ n = IF Place >= l THEN Place ELSE l
  BY <1>1, <1>2, PairMax
<1> HIDE DEF n
<1>4. Q \in SUBSET (1 .. n)
  BY <1>1, <1>2, <1>3
<1>5. v \in [Q -> Names] /\ v[Place] = compact.name /\ \A i \in Kept : v[i] = searchers[i]
  <2>1. \A i \in Kept : searchers[i] \in Names
    BY <1>1, <1>2
  <2> QED BY <1>1, <1>2, <2>1
<1>6. Holds(seqs, n, Q, v)
  <2> HIDE DEF Q, v
  <2>1. \A i \in 1 .. n : seqs[i] \in Seq(Names)
    BY <1>5
  <2>2. seqs \in Seq(Seq(Names)) /\ Len(seqs) = n
    <3>1. seqs \in [1 .. n -> Seq(Names)]
      BY <2>1
    <3> HIDE DEF seqs
    <3>2. seqs \in Seq(Seq(Names)) /\ DOMAIN seqs = 1 .. n
      BY <1>3, <3>1
    <3> QED BY <1>3, <3>2
  <2> QED BY <1>3, <1>4, <1>5, <2>2 DEF Holds
<1>7. Merged = FlattenSeq(seqs)
  <2> DEFINE at(i) == CASE i = Place -> <<compact.name>>
                        [] i # Place /\ i \in Kept -> <<searchers[i]>>
                        [] OTHER -> <<>>
             F(i) == IF i \in Q THEN <<v[i]>> ELSE <<>>
  <2>1. \A i \in 1 .. n : at(i) = F(i)
    BY <1>2
  <2>2. [i \in 1 .. n |-> at(i)] = [i \in 1 .. n |-> F(i)]
    <3> HIDE DEF at, F
    <3> QED BY <2>1
  <2>3. Merged = FlattenSeq([i \in 1 .. n |-> at(i)])
    BY DEF Merged, n, l
  <2> QED BY <2>2, <2>3
<1> HIDE DEF seqs
<1>8. Ranked(Merged, Q, v, n)
  BY <1>6, <1>7, FlattenIs
<1>9. Rank(Q, Place) = Place
  <2>1. \A j \in Q : j \in Nat /\ 1 <= j
    BY <1>4
  <2>2. \A j : j \in 1 .. Place => j \in Q /\ j <= Place
    BY <1>1, <1>2
  <2>3. {j \in Q : j <= Place} = 1 .. Place
    <3> HIDE DEF Q
    <3> QED BY <1>2, <2>1, <2>2
  <2>4. Cardinality(1 .. Place) = Place
    BY <1>2, FS_Interval
  <2> QED BY <2>3, <2>4 DEF Rank
<1>10. ASSUME NEW i \in Kept PROVE Rank(Q, i) = NewPosition(i)
  <2> DEFINE A == {j \in Kept : j <= i}
             B == {j \in Q : j <= i}
  <2>1. i \in Nat /\ i # Place /\ IsFiniteSet(A)
    <3>1. IsFiniteSet(1 .. l)
      BY <1>1, FS_Interval
    <3>2. A \subseteq 1 .. l
      BY <1>2
    <3> HIDE DEF A
    <3>3. IsFiniteSet(A)
      BY <3>1, <3>2, FS_Subset
    <3> QED BY <1>1, <1>2, <3>3
  <2>2. Place \notin A
    BY <1>2
  <2>3. CASE i > Place
    <3>1. B = A \cup {Place}
      BY <1>2, <2>1, <2>3
    <3>2. NewPosition(i) = Cardinality(A) + 1
      BY <2>3 DEF NewPosition
    <3> HIDE DEF A
    <3>3. Cardinality(A \cup {Place}) = Cardinality(A) + 1
      BY <2>1, <2>2, FS_AddElement
    <3> QED BY <3>1, <3>2, <3>3 DEF Rank
  <2>4. CASE ~(i > Place)
    <3>1. B = A
      BY <1>2, <2>1, <2>4
    <3>2. NewPosition(i) = Cardinality(A) + 0
      BY <2>4 DEF NewPosition
    <3>3. Cardinality(A) \in Nat
      <4> HIDE DEF A
      <4> QED BY <2>1, FS_CardinalityType
    <3> HIDE DEF A
    <3> QED BY <3>1, <3>2, <3>3 DEF Rank
  <2> QED BY <2>3, <2>4
<1>11. \A j \in Q : j <= n
  BY <1>3, <1>4
<1>12. Place \in Q /\ Kept \subseteq Q /\ \A j \in Q : j = Place \/ j \in Kept
  OBVIOUS
<1>13. Merged \in Seq(Names) /\ DOMAIN Merged = 1 .. Rank(Q, n)
  <2> HIDE DEF Q, v
  <2> QED BY <1>8 DEF Ranked
<1> HIDE DEF Q, v
<1>14. \A j \in Q : Rank(Q, j) \in DOMAIN Merged /\ Merged[Rank(Q, j)] = v[j]
  BY <1>8, <1>11, <1>13 DEF Ranked
<1>15. \A k \in DOMAIN Merged : \E j \in Q : k = Rank(Q, j)
  BY <1>8, <1>13 DEF Ranked
<1> QED BY <1>5, <1>9, <1>10, <1>12, <1>13, <1>14, <1>15

LEMMA MergedNames ==
  ASSUME Mergeable
  PROVE  /\ \A j, k \in DOMAIN Merged : Merged[j] = Merged[k] => j = k
         /\ \A s : s \in ToSet(Merged) <=> s = compact.name \/ \E i \in Kept : s = searchers[i]
         /\ \A i, j \in Kept : NewPosition(i) = NewPosition(j) => i = j
         /\ \A i \in Kept : NewPosition(i) # Place
         /\ \A i \in DOMAIN searchers : i \notin Kept => NewPosition(i) = Place /\ i \in compact.selected
<1>1. /\ Merged \in Seq(Names) /\ Place \in DOMAIN Merged /\ Merged[Place] = compact.name
      /\ \A i \in Kept : NewPosition(i) \in DOMAIN Merged /\ Merged[NewPosition(i)] = searchers[i]
      /\ \A k \in DOMAIN Merged : k = Place \/ \E i \in Kept : k = NewPosition(i)
  BY MergedIs
<1>2. /\ \A i \in Kept : i \in DOMAIN searchers /\ searchers[i] # compact.name
      /\ \A i, j \in Kept : searchers[i] = searchers[j] => i = j
  BY DEF Mergeable, Kept, ToSet
<1>3. \A i \in DOMAIN searchers : i \notin Kept => NewPosition(i) = Place /\ i \in compact.selected
  BY DEF NewPosition, Kept
<1>4. \A j, k \in DOMAIN Merged : Merged[j] = Merged[k] => j = k
  BY <1>1, <1>2
<1>5. \A s : s \in ToSet(Merged) <=> \E j \in DOMAIN Merged : s = Merged[j]
  BY DEF ToSet
<1>6. \A s : s \in ToSet(Merged) <=> s = compact.name \/ \E i \in Kept : s = searchers[i]
  BY <1>1, <1>5
<1> QED BY <1>1, <1>2, <1>3, <1>4, <1>6

-----------------------------------------------------------------------------
(***************************************************************************)
(* What the types say of the parts the steps use.                          *)
(***************************************************************************)
LEMMA ReplayFromIs ==
  ASSUME Types
  PROVE  /\ ReplayFrom \in Nat /\ ReplayFrom <= Len(log) /\ Len(log) \in Nat
         /\ base <= ReplayFrom /\ checkpoint.watermark <= ReplayFrom
         /\ ReplayFrom = base \/ ReplayFrom = checkpoint.watermark
<1>1. base \in Nat /\ checkpoint.watermark \in Nat /\ Len(log) \in Nat
      /\ base <= Len(log) /\ checkpoint.watermark <= Len(log)
  BY DEF Types, DiskTypes
<1>2. ReplayFrom = IF base >= checkpoint.watermark THEN base ELSE checkpoint.watermark
  BY <1>1, PairMax DEF ReplayFrom
<1> QED BY <1>1, <1>2

LEMMA SegTypes ==
  ASSUME Types
  PROVE  /\ DOMAIN segs \subseteq Names
         /\ \A s \in DOMAIN segs : /\ segs[s] \in [rows : RowMaps, tomb : SUBSET Points]
                                   /\ segs[s].rows \in RowMaps /\ segs[s].tomb \subseteq Points
                                   /\ DOMAIN segs[s].rows \subseteq Points
                                   /\ \A p \in DOMAIN segs[s].rows : segs[s].rows[p] \in Nat
<1>1. segs \in [DOMAIN segs -> [rows : RowMaps, tomb : SUBSET Points]] /\ DOMAIN segs \subseteq Names
  BY DEF Types, DiskTypes
<1>2. \A s \in DOMAIN segs : segs[s] \in [rows : RowMaps, tomb : SUBSET Points]
  BY <1>1
<1>3. \A s \in DOMAIN segs : segs[s].rows \in RowMaps /\ segs[s].tomb \subseteq Points
  BY <1>2
<1>4. \A f \in RowMaps : DOMAIN f \subseteq Points /\ \A p \in DOMAIN f : f[p] \in Nat
  BY RowsAre DEF IsRows
<1> QED BY <1>1, <1>2, <1>3, <1>4

\* After a failed compaction the one installed segment is enough.
LEMMA BehindIsLoadable ==
  ASSUME Types, manifest.exists, Behind
  PROVE  Loadable
<1>1. Installed = ToSet(manifest.segments)
  BY DEF Installed
<1>2. \A s \in Installed : \A p : <<s, p>> \in OpenedPoints => p \in segs[s].tomb \/ <<s, p>> \in published.points
  BY DEF OpenedPoints, CurrentPoints, SidecarPoints, Hide
<1>3. manifest.segments # <<>> => \E s : s \in Installed
  BY <1>1 DEF Types, DiskTypes, ToSet
<1> SUFFICES ASSUME NEW p \in Points
             PROVE  /\ \A s, t \in Installed : Found(s, p) /\ Found(t, p) => s = t
                    /\ LastRecord(p) <= ReplayFrom =>
                         /\ Latest(p) = 0 => \A s \in Installed : ~Found(s, p)
                         /\ Latest(p) # 0 => \E s \in Installed : Found(s, p) /\ segs[s].rows[p] = Latest(p)
  BY DEF Loadable
<1>4. \A s, t \in Installed : s = t
  BY <1>1 DEF Behind
<1>5. ASSUME LastRecord(p) <= ReplayFrom
      PROVE  /\ Latest(p) # 0 => manifest.segments # <<>>
             /\ \A s \in Installed :
                  /\ p \in DOMAIN segs[s].rows <=> Latest(p) # 0
                  /\ p \in DOMAIN segs[s].rows => segs[s].rows[p] = Latest(p)
                  /\ <<s, p>> \notin OpenedPoints
  BY <1>1, <1>2, <1>5 DEF Behind
<1> QED BY <1>3, <1>4, <1>5 DEF Found, Row

\* What a load would find, in the terms of what the collection shows.
LEMMA DiskIsLoadable ==
  ASSUME Inv, up, ~Emptying, ~Missing, ~OverlayIgnored
  PROVE  Loadable
<1> SUFFICES ASSUME manifest.exists => ~Behind
             PROVE  Loadable
  BY BehindIsLoadable DEF Inv
<1> SUFFICES ASSUME NEW p \in Points
             PROVE  /\ \A s, t \in Installed : Found(s, p) /\ Found(t, p) => s = t
                    /\ LastRecord(p) <= ReplayFrom =>
                         /\ Latest(p) = 0 => \A s \in Installed : ~Found(s, p)
                         /\ Latest(p) # 0 => \E s \in Installed : Found(s, p) /\ segs[s].rows[p] = Latest(p)
  BY DEF Loadable
<1>1. Shape /\ Content /\ Unlisted /\ (manifest.exists => ToSet(manifest.segments) = ToSet(searchers)) /\ (Current => Covered)
  BY DEF Inv, Memory, Linked, Switched
<1>2. log \in Seq(Records) /\ ReplayFrom \in Nat
  BY ReplayFromIs DEF Inv, Types, DiskTypes
<1>3. LastRecord(p) \in Nat /\ Latest(p) \in Nat /\ Latest(p) <= LastRecord(p)
  BY <1>2, LastRecordIs, LatestIs
<1>4. searchers \in Seq(Names) /\ \A s : s \in ToSet(searchers) <=> \E i \in DOMAIN searchers : s = searchers[i]
  BY DEF Inv, Types, MemoryTypes, ToSet
<1>5. \A h : h \in SidecarPoints <=> \E s \in Installed : \E q \in segs[s].tomb : h = <<s, q>>
  BY DEF SidecarPoints, Hide
<1>6. \A s, q : s \in Installed =>
        (<<s, q>> \in OpenedPoints <=> (Current /\ <<s, q>> \in published.points) \/ <<s, q>> \in SidecarPoints)
  BY DEF OpenedPoints, CurrentPoints, Current
<1>7. \A s \in Installed : s \in ToSet(searchers) \/ (SealActive /\ segs[s].rows = sealing.rows)
  <2>1. CASE manifest.exists
    BY <1>1, <2>1 DEF Installed
  <2>2. CASE ~manifest.exists
    BY <1>1, <2>2 DEF Installed, Unlisted
  <2> QED BY <2>1, <2>2
<1>8. ToSet(searchers) \subseteq Installed
  <2>1. CASE manifest.exists
    BY <1>1, <2>1 DEF Installed
  <2>2. CASE ~manifest.exists
    BY <1>1, <2>2 DEF Installed, Unlisted
  <2> QED BY <2>1, <2>2
<1>9. SealActive /\ p \in DOMAIN sealing.rows =>
        /\ LastRecord(p) > ReplayFrom
        /\ \A i \in DOMAIN searchers : p \in DOMAIN RowsOf(i) => <<searchers[i], p>> \in overlay.points
  <2>1. sealing.rows \in RowMaps
    BY DEF Inv, Types, MemoryTypes
  <2>2. SealActive /\ p \in DOMAIN sealing.rows => sealing.rows[p] \in Nat
    BY <2>1, RowsAre DEF IsRows
  <2>3. SealActive /\ p \in DOMAIN sealing.rows =>
        /\ sealing.rows[p] > ReplayFrom /\ sealing.rows[p] <= LastRecord(p)
        /\ \A i \in DOMAIN searchers : p \in DOMAIN RowsOf(i) => <<searchers[i], p>> \in overlay.points
    BY DEF Inv, SealRows
  <2> QED BY <1>2, <1>3, <2>2, <2>3
\* A copy found in a searcher is shown.
<1>10. ASSUME NEW i \in DOMAIN searchers, Found(searchers[i], p), ~Current \/ LastRecord(p) <= ReplayFrom
       PROVE  Shown(i, p)
  <2>1. searchers[i] \in Installed /\ p \in DOMAIN RowsOf(i) /\ <<searchers[i], p>> \notin OpenedPoints
    BY <1>10 DEF Found, Row, RowsOf
  <2>2. CASE ~Current
    <3>1. \A h \in overlay.points : h[1] \in Installed => h \in SidecarPoints
      BY <2>2 DEF OverlayIgnored, Current
    <3> QED BY <1>6, <2>1, <3>1 DEF Shown
  <2>3. CASE Current /\ LastRecord(p) <= ReplayFrom
    <3>1. \A h \in overlay.points : h[1] \in Installed => h \in published.points \/ LastRecord(h[2]) > ReplayFrom
      BY <1>1, <2>3 DEF Covered
    <3> QED BY <1>2, <1>3, <1>6, <2>1, <2>3, <3>1 DEF Shown
  <2> QED BY <1>10, <2>2, <2>3
<1>11. \A i \in DOMAIN searchers : Shown(i, p) <=> p \in DOMAIN id_index /\ id_index[p] = i
  BY <1>1 DEF Content
<1>12. p \in DOMAIN id_index <=> Latest(p) # 0
  BY <1>1 DEF Content
<1>13. ASSUME NEW s \in Installed, NEW t \in Installed, Found(s, p), Found(t, p) PROVE s = t
  <2>1. CASE Current
    BY <1>1, <1>6, <1>13, <2>1 DEF Covered, Found
  <2>2. CASE ~Current
    <3>1. ASSUME NEW u \in Installed, Found(u, p), u \notin ToSet(searchers)
          PROVE  SealActive /\ p \in DOMAIN sealing.rows
      BY <1>7, <3>1 DEF Found, Row
    <3>2. ASSUME NEW i \in DOMAIN searchers, Found(searchers[i], p) PROVE ~(SealActive /\ p \in DOMAIN sealing.rows)
      BY <1>9, <1>10, <2>2, <3>2 DEF Shown
    <3>3. CASE s \in ToSet(searchers) /\ t \in ToSet(searchers)
      <4>1. PICK i \in DOMAIN searchers : s = searchers[i]
        BY <1>4, <3>3
      <4>2. PICK j \in DOMAIN searchers : t = searchers[j]
        BY <1>4, <3>3
      <4>3. Shown(i, p) /\ Shown(j, p)
        BY <1>10, <1>13, <2>2, <4>1, <4>2
      <4> QED BY <1>11, <4>1, <4>2, <4>3
    <3>4. CASE s \notin ToSet(searchers) /\ t \notin ToSet(searchers)
      <4>1. CASE manifest.exists
        BY <1>1, <3>4, <4>1 DEF Installed
      <4>2. CASE ~manifest.exists
        BY <1>1, <3>4, <4>2 DEF Unlisted, Installed
      <4> QED BY <4>1, <4>2
    <3>5. CASE s \in ToSet(searchers) /\ t \notin ToSet(searchers)
      BY <1>4, <1>13, <3>1, <3>2, <3>5
    <3>6. CASE s \notin ToSet(searchers) /\ t \in ToSet(searchers)
      BY <1>4, <1>13, <3>1, <3>2, <3>6
    <3> QED BY <3>3, <3>4, <3>5, <3>6
  <2> QED BY <2>1, <2>2
<1>14. ASSUME LastRecord(p) <= ReplayFrom, Latest(p) = 0, NEW s \in Installed, Found(s, p) PROVE FALSE
  <2>1. s \in ToSet(searchers)
    BY <1>2, <1>3, <1>7, <1>9, <1>14 DEF Found, Row
  <2>2. PICK i \in DOMAIN searchers : s = searchers[i]
    BY <1>4, <2>1
  <2> QED BY <1>10, <1>11, <1>12, <1>14, <2>2
<1>15. ASSUME LastRecord(p) <= ReplayFrom, Latest(p) # 0
       PROVE  \E s \in Installed : Found(s, p) /\ segs[s].rows[p] = Latest(p)
  <2>1. p \in DOMAIN id_index /\ id_index[p] \in {Streamer, Sealing} \cup DOMAIN searchers
    BY <1>12, <1>15 DEF Inv, Types, MemoryTypes, Emptying
  <2>2. ~InMemory(p)
    <3>1. After(ReplayFrom)
      BY DEF Inv, Retained, Emptying
    <3> QED BY <1>2, <1>3, <1>15, <3>1 DEF After
  <2> DEFINE i == id_index[p]
  <2>3. i \in DOMAIN searchers /\ RowsOf(i)[p] = Latest(p) /\ Shown(i, p)
    <3>1. i \in DOMAIN searchers
      BY <2>1, <2>2 DEF InMemory
    <3>2. RowsOf(i)[p] = Latest(p)
      BY <1>1, <2>1, <3>1 DEF Content
    <3> QED BY <1>11, <2>1, <3>1, <3>2
  <2> HIDE DEF i
  <2>4. searchers[i] \in Installed
    BY <1>4, <1>8, <2>3
  <2>5. <<searchers[i], p>> \notin OpenedPoints
    <3>1. <<searchers[i], p>> \notin overlay.points
      BY <2>3 DEF Shown
    <3>2. <<searchers[i], p>> \notin SidecarPoints
      BY <1>1, <1>5, <2>3, <3>1 DEF Shape
    <3>3. Current => <<searchers[i], p>> \notin published.points
      BY <1>1, <2>4, <3>1 DEF Covered
    <3> QED BY <1>6, <2>4, <3>2, <3>3
  <2>6. Found(searchers[i], p) /\ segs[searchers[i]].rows[p] = Latest(p)
    BY <2>3, <2>4, <2>5 DEF Found, Row, Shown, RowsOf
  <2> QED BY <2>4, <2>6
<1> QED BY <1>13, <1>14, <1>15

-----------------------------------------------------------------------------
(***************************************************************************)
(* A load shows what the log says.                                         *)
(***************************************************************************)
\* The state that a load reads, and what it leaves in memory.
LEMMA OpensWhenDown ==
  ASSUME Inv, ~up
  PROVE  /\ Opens /\ Installed \subseteq DOMAIN segs /\ ~Misordered /\ Loadable
         /\ LoadOrder \in Seq(Names) /\ ToSet(LoadOrder) = Installed
         /\ \A i, j \in DOMAIN LoadOrder : LoadOrder[i] = LoadOrder[j] => i = j
         /\ \A s : s \in Installed <=> \E i \in DOMAIN LoadOrder : s = LoadOrder[i]
         /\ \A i \in DOMAIN LoadOrder : LoadOrder[i] \in Installed
<1>1. Types /\ ~Missing /\ ~Misordered /\ Loadable /\ IsFiniteSet(Installed)
  BY DEF Inv, Down
<1>2. Installed \subseteq DOMAIN segs /\ DOMAIN segs \subseteq Names
  BY <1>1, SegTypes DEF Missing
<1>3. log \in Seq(Records) /\ ReplayFrom \in Nat /\ ReplayFrom <= Len(log)
  BY <1>1, ReplayFromIs DEF Types, DiskTypes
<1>4. Opens
  BY <1>1, <1>2, <1>3 DEF Opens
<1>5. /\ LoadOrder \in Seq(Installed) /\ ToSet(LoadOrder) = Installed
      /\ \A i, j \in DOMAIN LoadOrder : LoadOrder[i] = LoadOrder[j] => i = j
  BY <1>1, <1>2, LoadOrderIs
<1>6. LoadOrder \in Seq(Names) /\ \A i \in DOMAIN LoadOrder : LoadOrder[i] \in Installed
  BY <1>2, <1>5
<1>7. \A s : s \in Installed <=> \E i \in DOMAIN LoadOrder : s = LoadOrder[i]
  <2>1. \A s : s \in ToSet(LoadOrder) <=> \E i \in DOMAIN LoadOrder : s = LoadOrder[i]
    BY DEF ToSet
  <2> QED BY <1>5, <2>1
<1> QED BY <1>1, <1>2, <1>4, <1>5, <1>6, <1>7

\* The last copy of a point is the one a load finds, when it finds one.
LEMMA LastIsFound ==
  ASSUME Inv, ~up, NEW p \in Points, NEW i \in DOMAIN LoadOrder, Found(LoadOrder[i], p)
  PROVE  p \in DOMAIN LoadedIndex /\ LoadedIndex[p] = i
<1>1. /\ Opens /\ ~Misordered /\ Loadable
      /\ \A j, k \in DOMAIN LoadOrder : LoadOrder[j] = LoadOrder[k] => j = k
      /\ \A j \in DOMAIN LoadOrder : LoadOrder[j] \in Installed
      /\ LoadOrder \in Seq(Names)
  BY OpensWhenDown
<1>2. p \in DOMAIN segs[LoadOrder[i]].rows /\ <<LoadOrder[i], p>> \notin OpenedPoints
  BY DEF Found, Row
<1>3. p \in DOMAIN LoadedIndex
  BY <1>1, <1>2, LoadedIs
<1> DEFINE m == LoadedIndex[p]
           copies == {j \in DOMAIN LoadOrder : p \in DOMAIN segs[LoadOrder[j]].rows}
           visible == {j \in copies : ~HiddenAt(OpenedPoints, LoadOrder[j], p)}
<1>4. m \in copies /\ \A j \in copies : j <= m
  BY <1>1, <1>3, LoadedIs
<1>5. i \in visible
  BY <1>2 DEF HiddenAt
<1>6. Max(copies) \in visible
  BY <1>1, <1>5 DEF Misordered
<1>7. Max(copies) = m
  <2>1. copies \in SUBSET Nat
    BY <1>1
  <2>2. \A j \in copies : j <= Len(LoadOrder)
    BY <1>1
  <2>3. Len(LoadOrder) \in Nat
    BY <1>1
  <2> HIDE DEF copies, m, visible
  <2>4. Max(copies) \in copies /\ \A y \in copies : y <= Max(copies)
    BY <1>4, <2>1, <2>2, <2>3, MaxOf
  <2>5. m \in Nat /\ Max(copies) \in Nat /\ m <= Max(copies) /\ Max(copies) <= m
    BY <1>4, <2>1, <2>4
  <2> QED BY <2>5
<1>8. Found(LoadOrder[m], p) /\ m \in DOMAIN LoadOrder
  BY <1>1, <1>6, <1>7 DEF HiddenAt, Found, Row
<1>9. LoadOrder[m] = LoadOrder[i]
  BY <1>1, <1>8 DEF Loadable
<1> QED BY <1>1, <1>3, <1>8, <1>9

\* The index a load ends with.
LoadHidden ==
  {p \in DOMAIN Replayed.index :
     Replayed.index[p] > 0 /\ <<LoadOrder[Replayed.index[p]], p>> \in OpenedPoints}

LEMMA LoadIs ==
  ASSUME Inv, Load
  PROVE  /\ up' = TRUE /\ segs' = Restrict(segs, Installed) /\ searchers' = LoadOrder
         /\ streamer' = Replayed.streamer
         /\ id_index' = [p \in DOMAIN Replayed.index \ LoadHidden |-> Replayed.index[p]]
         /\ overlay' = [generation |-> manifest.generation, points |-> Replayed.hidden]
         /\ published' = overlay' /\ last_segment' = checkpoint.segment
  BY DEF Load, LoadHidden, Restrict

\* Where a load leaves each point.
LEMMA LoadPlaces ==
  ASSUME Inv, ~up, NEW p \in Points
  PROVE  /\ LastRecord(p) > ReplayFrom =>
              /\ p \notin LoadHidden
              /\ p \in DOMAIN Replayed.index <=> Latest(p) # 0
              /\ p \in DOMAIN Replayed.index => Replayed.index[p] = Streamer
         /\ LastRecord(p) <= ReplayFrom =>
              /\ p \in DOMAIN Replayed.index \ LoadHidden <=> Latest(p) # 0
              /\ p \in DOMAIN Replayed.index \ LoadHidden =>
                   /\ Replayed.index[p] \in DOMAIN LoadOrder /\ Found(LoadOrder[Replayed.index[p]], p)
                   /\ segs[LoadOrder[Replayed.index[p]]].rows[p] = Latest(p)
         /\ \A i \in DOMAIN LoadOrder :
              Found(LoadOrder[i], p) /\ LastRecord(p) <= ReplayFrom =>
                p \in DOMAIN Replayed.index \ LoadHidden /\ Replayed.index[p] = i
<1>1. /\ Opens /\ Installed \subseteq DOMAIN segs /\ ~Misordered /\ Loadable
      /\ \A s : s \in Installed <=> \E i \in DOMAIN LoadOrder : s = LoadOrder[i]
      /\ \A j \in DOMAIN LoadOrder : LoadOrder[j] \in Installed
      /\ LoadOrder \in Seq(Names)
  BY OpensWhenDown
<1>2. \A q : q \in LoadHidden <=>
        q \in DOMAIN Replayed.index /\ Replayed.index[q] > 0 /\ <<LoadOrder[Replayed.index[q]], q>> \in OpenedPoints
  BY DEF LoadHidden
<1>3. ASSUME LastRecord(p) > ReplayFrom
      PROVE  /\ p \notin LoadHidden
             /\ p \in DOMAIN Replayed.index <=> Latest(p) # 0
             /\ p \in DOMAIN Replayed.index => Replayed.index[p] = Streamer
  <2>1. /\ Latest(p) # 0 => p \in DOMAIN Replayed.index /\ Replayed.index[p] = Streamer
        /\ Latest(p) = 0 => p \notin DOMAIN Replayed.index
    BY <1>1, <1>3, ReplayIs
  <2>2. ~(Streamer > 0)
    BY DEF Streamer
  <2> QED BY <1>2, <2>1, <2>2
<1>4. ASSUME LastRecord(p) <= ReplayFrom
      PROVE  /\ p \in DOMAIN Replayed.index <=> p \in DOMAIN LoadedIndex
             /\ p \in DOMAIN Replayed.index => Replayed.index[p] = LoadedIndex[p]
  BY <1>1, <1>4, ReplayIs
<1>5. p \in DOMAIN LoadedIndex =>
        /\ LoadedIndex[p] \in DOMAIN LoadOrder /\ p \in DOMAIN segs[LoadOrder[LoadedIndex[p]]].rows
        /\ LoadedIndex[p] > 0
  BY <1>1, LoadedIs
<1>6. ASSUME LastRecord(p) <= ReplayFrom, NEW i \in DOMAIN LoadOrder, Found(LoadOrder[i], p)
      PROVE  p \in DOMAIN Replayed.index \ LoadHidden /\ Replayed.index[p] = i
  <2>1. p \in DOMAIN LoadedIndex /\ LoadedIndex[p] = i
    BY <1>6, LastIsFound
  <2>2. <<LoadOrder[i], p>> \notin OpenedPoints
    BY <1>6 DEF Found
  <2> QED BY <1>2, <1>4, <1>6, <2>1, <2>2
<1>7. ASSUME LastRecord(p) <= ReplayFrom, p \in DOMAIN Replayed.index \ LoadHidden
      PROVE  Replayed.index[p] \in DOMAIN LoadOrder /\ Found(LoadOrder[Replayed.index[p]], p)
  BY <1>1, <1>2, <1>4, <1>5, <1>7 DEF Found, Row
<1>8. ASSUME LastRecord(p) <= ReplayFrom, Latest(p) # 0
      PROVE  /\ p \in DOMAIN Replayed.index \ LoadHidden
             /\ segs[LoadOrder[Replayed.index[p]]].rows[p] = Latest(p)
  <2>1. PICK s \in Installed : Found(s, p) /\ segs[s].rows[p] = Latest(p)
    BY <1>1, <1>8 DEF Loadable
  <2>2. PICK i \in DOMAIN LoadOrder : s = LoadOrder[i]
    BY <1>1
  <2> QED BY <1>6, <1>8, <2>1, <2>2
<1>9. ASSUME LastRecord(p) <= ReplayFrom, Latest(p) = 0 PROVE p \notin DOMAIN Replayed.index \ LoadHidden
  <2>1. \A s \in Installed : ~Found(s, p)
    BY <1>1, <1>9 DEF Loadable
  <2> QED BY <1>1, <1>7, <1>9, <2>1
<1> QED BY <1>3, <1>6, <1>7, <1>8, <1>9

LEMMA LoadShows ==
  ASSUME Inv, Load
  PROVE  Shape' /\ Content' /\ \A h \in overlay'.points : h[1] \in Installed
<1>0. ~up /\ UNCHANGED <<log, sealing>>
  BY DEF Load, wal
<1>1. /\ Opens /\ Installed \subseteq DOMAIN segs
      /\ \A s : s \in Installed <=> \E i \in DOMAIN LoadOrder : s = LoadOrder[i]
      /\ \A j \in DOMAIN LoadOrder : LoadOrder[j] \in Installed
      /\ \A i, j \in DOMAIN LoadOrder : LoadOrder[i] = LoadOrder[j] => i = j
      /\ LoadOrder \in Seq(Names) /\ ToSet(LoadOrder) = Installed
  BY <1>0, OpensWhenDown
<1>2. /\ searchers' = LoadOrder /\ streamer' = Replayed.streamer
      /\ DOMAIN id_index' = DOMAIN Replayed.index \ LoadHidden
      /\ \A p \in DOMAIN id_index' : id_index'[p] = Replayed.index[p]
      /\ overlay'.points = Replayed.hidden
      /\ DOMAIN segs' = Installed /\ \A s \in Installed : segs'[s] = segs[s]
  BY LoadIs DEF Restrict
<1>3. \A i \in DOMAIN LoadOrder : RowsOf(i)' = segs[LoadOrder[i]].rows
  BY <1>1, <1>2 DEF RowsOf
<1>4. \A h : h \in Replayed.hidden <=>
              \/ h \in OpenedPoints
              \/ \E p \in DOMAIN LoadedIndex : LastRecord(p) > ReplayFrom /\ h = <<LoadOrder[LoadedIndex[p]], p>>
  BY <1>1, ReplayIs
<1>5. \A h \in OpenedPoints : h[1] \in Installed
  BY DEF OpenedPoints, CurrentPoints, SidecarPoints, Hide
<1>6. \A s \in Installed : \A p \in segs[s].tomb : <<s, p>> \in OpenedPoints
  BY DEF OpenedPoints, SidecarPoints, Hide
<1>7. \A p \in DOMAIN LoadedIndex : LoadedIndex[p] \in DOMAIN LoadOrder /\ p \in Points
  BY <1>1, LoadedIs
<1>0a. \A h \in overlay'.points : h[1] \in Installed
  BY <1>1, <1>2, <1>4, <1>5, <1>7
<1>8. Shape'
  <2>2. \A i \in DOMAIN LoadOrder : LoadOrder[i] \in DOMAIN segs'
    BY <1>1, <1>2
  <2>3. \A i \in DOMAIN LoadOrder : \A p \in segs'[LoadOrder[i]].tomb : <<LoadOrder[i], p>> \in Replayed.hidden
    BY <1>1, <1>2, <1>4, <1>6
  <2> QED BY <1>1, <1>2, <2>2, <2>3 DEF Shape
<1>9. \A p \in Points : LastRecord(p) \in Nat /\ LastRecord(p)' = LastRecord(p) /\ Latest(p)' = Latest(p)
  BY <1>0, <1>1, LastRecordIs, NotLogged DEF Opens
<1>10. ReplayFrom \in Nat
  BY <1>1 DEF Opens
<1>11. \A p \in DOMAIN id_index' : p \in Points
  BY <1>1, <1>2, ReplayIs
\* Each point, by whether the replay has a record of it.
<1>12. ASSUME NEW p \in Points, LastRecord(p) > ReplayFrom
       PROVE  /\ p \in DOMAIN streamer' <=> Latest(p) # 0
              /\ p \in DOMAIN id_index' <=> Latest(p) # 0
              /\ Latest(p) # 0 => id_index'[p] = Streamer /\ streamer'[p] = Latest(p)
  <2>1. /\ Latest(p) # 0 => p \in DOMAIN Replayed.streamer /\ Replayed.streamer[p] = Latest(p)
        /\ Latest(p) = 0 => p \notin DOMAIN Replayed.streamer
    BY <1>1, <1>12, ReplayIs
  <2>2. /\ p \notin LoadHidden
        /\ p \in DOMAIN Replayed.index <=> Latest(p) # 0
        /\ p \in DOMAIN Replayed.index => Replayed.index[p] = Streamer
    BY <1>0, <1>12, LoadPlaces
  <2> QED BY <1>2, <2>1, <2>2
<1>13. ASSUME NEW p \in Points, LastRecord(p) <= ReplayFrom
       PROVE  /\ p \notin DOMAIN streamer'
              /\ p \in DOMAIN id_index' <=> Latest(p) # 0
              /\ p \in DOMAIN id_index' => 
                   /\ id_index'[p] \in DOMAIN LoadOrder /\ Found(LoadOrder[id_index'[p]], p)
                   /\ segs[LoadOrder[id_index'[p]]].rows[p] = Latest(p)
              /\ \A i \in DOMAIN LoadOrder : 
                   Found(LoadOrder[i], p) => p \in DOMAIN id_index' /\ id_index'[p] = i
  <2>1. p \notin DOMAIN Replayed.streamer
    BY <1>1, <1>13, ReplayIs
  <2>2. /\ p \in DOMAIN Replayed.index \ LoadHidden <=> Latest(p) # 0
        /\ p \in DOMAIN Replayed.index \ LoadHidden =>
             /\ Replayed.index[p] \in DOMAIN LoadOrder /\ Found(LoadOrder[Replayed.index[p]], p)
             /\ segs[LoadOrder[Replayed.index[p]]].rows[p] = Latest(p)
        /\ \A i \in DOMAIN LoadOrder :
             Found(LoadOrder[i], p) => p \in DOMAIN Replayed.index \ LoadHidden /\ Replayed.index[p] = i
    BY <1>0, <1>13, LoadPlaces
  <2> QED BY <1>2, <2>1, <2>2
<1>14. ASSUME NEW i \in DOMAIN LoadOrder, NEW p \in Points
       PROVE  Shown(i, p)' <=> Found(LoadOrder[i], p) /\ LastRecord(p) <= ReplayFrom
  <2>1. Shown(i, p)' <=> p \in DOMAIN segs[LoadOrder[i]].rows /\ <<LoadOrder[i], p>> \notin Replayed.hidden
    BY <1>2, <1>3 DEF Shown
  <2>2. Found(LoadOrder[i], p) <=> p \in DOMAIN segs[LoadOrder[i]].rows /\ <<LoadOrder[i], p>> \notin OpenedPoints
    BY <1>1 DEF Found, Row
  <2>3. ASSUME Found(LoadOrder[i], p), LastRecord(p) > ReplayFrom PROVE <<LoadOrder[i], p>> \in Replayed.hidden
    <3>1. p \in DOMAIN LoadedIndex /\ LoadedIndex[p] = i
      BY <1>0, <2>3, LastIsFound
    <3> QED BY <1>4, <2>3, <3>1
  <2>4. ASSUME LastRecord(p) <= ReplayFrom PROVE <<LoadOrder[i], p>> \in Replayed.hidden => <<LoadOrder[i], p>> \in OpenedPoints
    <3>1. ~(LastRecord(p) > ReplayFrom)
      BY <1>9, <1>10, <2>4
    <3> QED BY <1>4, <3>1
  <2> QED BY <1>4, <1>9, <1>10, <2>1, <2>2, <2>3, <2>4
<1>15. DOMAIN LoadOrder \subseteq Nat \ {0} /\ Streamer \notin DOMAIN LoadOrder /\ Sealing \notin DOMAIN LoadOrder
       /\ Streamer # Sealing
  BY <1>1 DEF Streamer, Sealing
<1>16. \A p \in Points : LastRecord(p) > ReplayFrom \/ LastRecord(p) <= ReplayFrom
  BY <1>9, <1>10
<1>17. ASSUME NEW p \in Points
       PROVE  /\ p \in DOMAIN streamer' <=> p \in DOMAIN id_index' /\ id_index'[p] = Streamer
              /\ \A i \in DOMAIN LoadOrder : Shown(i, p)' <=> p \in DOMAIN id_index' /\ id_index'[p] = i
              /\ p \in DOMAIN id_index' <=> Latest(p) # 0
              /\ p \in DOMAIN id_index' =>
                   /\ id_index'[p] # Sealing
                   /\ id_index'[p] = Streamer => streamer'[p] = Latest(p)
                   /\ id_index'[p] \in DOMAIN LoadOrder => segs[LoadOrder[id_index'[p]]].rows[p] = Latest(p)
  <2>1. CASE LastRecord(p) > ReplayFrom
    <3>1. ~(LastRecord(p) <= ReplayFrom)
      BY <1>9, <1>10, <2>1
    <3> QED BY <1>12, <1>14, <1>15, <2>1, <3>1
  <2>2. CASE LastRecord(p) <= ReplayFrom
    BY <1>13, <1>14, <1>15, <2>2
  <2> QED BY <1>16, <2>1, <2>2
<1>18. Content'
  BY <1>2, <1>3, <1>9, <1>11, <1>17 DEF Content
<1> QED BY <1>0a, <1>8, <1>18

\* Only the types of what a step changes need an argument.
LEMMA Rest ==
  ASSUME Inv, ~up
  PROVE  /\ seal = NoSeal /\ compact = NoCompact /\ sealing = NotSealing /\ ~building
         /\ ~SealActive /\ ~SealEnding /\ ~Merging /\ ~Ending /\ compact.pc = "idle" /\ seal.pc = "idle"
         /\ seal.end = 0 /\ sealing.owner = "none" /\ ~Emptying
<1>1. seal = NoSeal /\ compact = NoCompact /\ sealing = NotSealing /\ building \in BOOLEAN /\ ~building
  BY DEF Inv, Owners, Types, MemoryTypes, Emptying
<1> QED BY <1>1 DEF NoSeal, NoCompact, NotSealing, SealActive, SealEnding, Merging, Ending, Emptying

LEMMA LoadTypes ==
  ASSUME Inv, Load
  PROVE  Types'
<1>0. ~up /\ UNCHANGED <<log, base, manifest, checkpoint, sealing, building, seal, compact, used>>
  BY DEF Load, wal
<1>1. /\ Opens /\ Installed \subseteq DOMAIN segs
      /\ \A j \in DOMAIN LoadOrder : LoadOrder[j] \in Installed
      /\ LoadOrder \in Seq(Names)
  BY <1>0, OpensWhenDown
<1>2. /\ up' = TRUE /\ segs' = [s \in Installed |-> segs[s]] /\ searchers' = LoadOrder
      /\ streamer' = Replayed.streamer
      /\ id_index' = [p \in DOMAIN Replayed.index \ LoadHidden |-> Replayed.index[p]]
      /\ overlay' = [generation |-> manifest.generation, points |-> Replayed.hidden]
      /\ published' = overlay' /\ last_segment' = checkpoint.segment
  BY LoadIs DEF Restrict
<1>3. Types
  BY DEF Inv
<1>4. /\ Installed \subseteq Names
      /\ \A s \in Installed : segs[s] \in [rows : RowMaps, tomb : SUBSET Points]
      /\ \A s \in Installed : segs[s].tomb \subseteq Points
  BY <1>1, <1>3, SegTypes
<1>5. segs' \in [DOMAIN segs' -> [rows : RowMaps, tomb : SUBSET Points]] /\ DOMAIN segs' \subseteq Names
  BY <1>2, <1>4
<1>6. Replayed.hidden \subseteq Names \X Points
  <2>1. OpenedPoints \subseteq Names \X Points
    <3>1. published.points \subseteq Names \X Points
      BY <1>3 DEF Types, DiskTypes
    <3> QED BY <1>4, <3>1 DEF OpenedPoints, CurrentPoints, SidecarPoints, Hide
  <2>2. \A p \in DOMAIN LoadedIndex : <<LoadOrder[LoadedIndex[p]], p>> \in Names \X Points
    BY <1>1, LoadedIs
  <2> QED BY <1>1, <2>1, <2>2, ReplayIs
<1>7. overlay' \in [generation : Nat, points : SUBSET (Names \X Points)]
  <2>1. manifest.generation \in Nat
    BY <1>3 DEF Types, DiskTypes
  <2> QED BY <1>2, <1>6, <2>1
<1>8. Replayed.streamer \in RowMaps /\ DOMAIN Replayed.index \subseteq Points
  BY <1>1, ReplayIs
<1>9. \A p \in DOMAIN Replayed.index \ LoadHidden : Replayed.index[p] \in {Streamer, Sealing} \cup DOMAIN LoadOrder
  <2> SUFFICES ASSUME NEW p \in DOMAIN Replayed.index \ LoadHidden
               PROVE  Replayed.index[p] \in {Streamer, Sealing} \cup DOMAIN LoadOrder
    OBVIOUS
  <2>1. p \in Points
    BY <1>8
  <2>2. LastRecord(p) > ReplayFrom \/ LastRecord(p) <= ReplayFrom
    BY <1>1, LastRecordIs DEF Opens
  <2> QED BY <1>0, <2>1, <2>2, LoadPlaces
<1>10. id_index' \in [DOMAIN id_index' -> {Streamer, Sealing} \cup DOMAIN searchers'] /\ DOMAIN id_index' \subseteq Points
  BY <1>2, <1>8, <1>9
<1>11. last_segment' \in BOOLEAN /\ up' \in BOOLEAN
  BY <1>2, <1>3 DEF Types, DiskTypes
<1>12. DiskTypes'
  BY <1>0, <1>2, <1>3, <1>5, <1>7 DEF Types, DiskTypes
<1>13. MemoryTypes'
  <2>1. id_index' \in [DOMAIN id_index' -> Int]
    <3>1. {Streamer, Sealing} \cup DOMAIN searchers' \subseteq Int
      BY <1>1, <1>2 DEF Streamer, Sealing
    <3> QED BY <1>10, <3>1
  <2> QED BY <1>0, <1>1, <1>2, <1>3, <1>7, <1>8, <1>10, <1>11, <2>1 DEF Types, MemoryTypes
<1>14. WorkTypes'
  BY <1>0, <1>3 DEF Types, WorkTypes
<1> QED BY <1>12, <1>13, <1>14 DEF Types

LEMMA LoadKeeps ==
  ASSUME Inv, Dated, Load
  PROVE  Inv'
<1>0. ~up /\ UNCHANGED <<log, base, manifest, checkpoint, sealing, building, seal, compact, used>>
  BY DEF Load, wal
<1>1. /\ Opens /\ Installed \subseteq DOMAIN segs /\ Loadable
      /\ \A j \in DOMAIN LoadOrder : LoadOrder[j] \in Installed
      /\ LoadOrder \in Seq(Names) /\ ToSet(LoadOrder) = Installed
  BY <1>0, OpensWhenDown
<1>2. /\ up' = TRUE /\ segs' = [s \in Installed |-> segs[s]] /\ searchers' = LoadOrder
      /\ overlay'.generation = manifest.generation /\ overlay'.points = Replayed.hidden
      /\ published' = overlay'
  BY LoadIs DEF Restrict
<1>3. Types' /\ Shape' /\ Content'
  BY LoadTypes, LoadShows
<1>4. /\ ~SealActive' /\ ~SealEnding' /\ ~Merging' /\ ~Ending' /\ ~Emptying' /\ compact'.pc = "idle" /\ seal'.pc = "idle"
      /\ seal' = NoSeal /\ compact' = NoCompact /\ sealing' = NotSealing /\ sealing'.owner = "none" /\ ~building'
  <2>1. /\ ~SealActive /\ ~SealEnding /\ ~Merging /\ ~Ending /\ compact.pc = "idle" /\ seal.pc = "idle"
        /\ seal = NoSeal /\ compact = NoCompact /\ sealing = NotSealing /\ sealing.owner = "none" /\ ~building
    BY <1>0, Rest
  <2> QED BY <1>0, <2>1 DEF SealActive, SealEnding, Merging, Ending, Emptying
<1>5. ReplayFrom' = ReplayFrom /\ \A p : LastRecord(p)' = LastRecord(p) /\ Latest(p)' = Latest(p)
  BY <1>0, NotLogged DEF ReplayFrom
<1>6. Installed' = Installed
  <2>1. CASE manifest.exists
    BY <1>0, <2>1 DEF Installed
  <2>2. CASE ~manifest.exists
    BY <1>0, <1>2, <2>2 DEF Installed
  <2> QED BY <2>1, <2>2
<1>7. \A s \in Installed : Bounded(s)
  BY DEF Inv, Named, Installed
<1>8. \A h : h \in Replayed.hidden => h[1] \in Installed
  BY <1>2, LoadShows
<1>9. Owners'
  BY <1>2, <1>4 DEF Owners, Ending, CompactLocks, Emptying
<1>10. Named'
  <2>1. \A s \in Installed : Bounded(s)'
    BY <1>0, <1>7 DEF Bounded, Dated, NextGeneration
  <2>2. \A s \in ToSet(searchers') : Bounded(s)'
    BY <1>1, <1>2, <2>1
  <2>3. \A s \in ToSet(manifest'.segments) : Bounded(s)'
    <3>1. CASE manifest.exists
      BY <1>0, <2>1, <3>1 DEF Installed
    <3>2. CASE ~manifest.exists
      <4>1. manifest'.segments = <<>>
        BY <1>0, <3>2 DEF Inv, Down, NoManifest
      <4> QED BY <4>1 DEF ToSet
    <3> QED BY <3>1, <3>2
  <2>4. ~manifest'.exists => \A s \in DOMAIN segs' : Bounded(s)'
    BY <1>2, <2>1
  <2>5. \A h \in published'.points \cup overlay'.points : Bounded(h[1])'
    BY <1>2, <1>8, <2>1
  <2> QED BY <1>4, <2>2, <2>3, <2>4, <2>5 DEF Named
<1>11. Memory'
  BY <1>3 DEF Memory, Emptying
<1>12. Retained'
  <2>1. \A p \in Points : InMemory(p)' => LastRecord(p) > ReplayFrom /\ Latest(p) # 0
    <3> SUFFICES ASSUME NEW p \in Points, InMemory(p)' PROVE LastRecord(p) > ReplayFrom /\ Latest(p) # 0
      OBVIOUS
    <3>1. Latest(p) # 0
      BY <1>3, <1>5 DEF InMemory, Content
    <3>2. LastRecord(p) > ReplayFrom \/ LastRecord(p) <= ReplayFrom
      BY <1>1, LastRecordIs DEF Opens
    <3>3. DOMAIN LoadOrder \subseteq Nat \ {0}
      BY <1>1
    <3>4. LastRecord(p) <= ReplayFrom => id_index'[p] \in DOMAIN LoadOrder
      <4>1. LastRecord(p) <= ReplayFrom => Replayed.index[p] \in DOMAIN LoadOrder /\ p \in DOMAIN Replayed.index \ LoadHidden
        BY <1>0, <3>1, LoadPlaces
      <4>2. id_index' = [q \in DOMAIN Replayed.index \ LoadHidden |-> Replayed.index[q]]
        BY LoadIs
      <4> QED BY <4>1, <4>2
    <3> QED BY <3>1, <3>2, <3>3, <3>4 DEF InMemory, Streamer, Sealing
  <2>2. After(ReplayFrom)'
    <3>1. \A p \in Points : Latest(p) # 0 => Latest(p) = LastRecord(p)
      BY <1>1, LatestIs DEF Opens
    <3> QED BY <1>5, <2>1, <3>1 DEF After
  <2> QED BY <1>4, <2>2 DEF Retained, Emptying
<1>13. SealRows' /\ Staged' /\ Rewritten' /\ Down'
  BY <1>2, <1>4 DEF SealRows, Staged, Rewritten, Down, Emptying
<1>14. Linked'
  <2>1. Unlisted'
    <3> SUFFICES ASSUME ~manifest'.exists PROVE Unlisted'
      BY DEF Unlisted
    <3>1. manifest = NoManifest
      BY <1>0 DEF Inv, Down
    <3>2. DOMAIN segs' = ToSet(searchers')
      BY <1>1, <1>2
    <3> QED BY <1>0, <1>2, <3>1, <3>2 DEF Unlisted, NoManifest
  <2>2. manifest'.exists => Switched'
    BY <1>0, <1>1, <1>2 DEF Switched, Installed
  <2>3. Finishing'
    BY <1>4 DEF Finishing
  <2>4. Covered'
    <3>1. ASSUME NEW s \in Installed, NEW t \in Installed, NEW p \in Points, Row(s, p)', Row(t, p)',
                 <<s, p>> \notin published'.points, <<t, p>> \notin published'.points
          PROVE  s = t
      <4>1. Row(s, p) /\ Row(t, p)
        BY <1>2, <1>6, <3>1 DEF Row
      <4>2. OpenedPoints \subseteq Replayed.hidden
        BY <1>1, ReplayIs
      <4>3. Found(s, p) /\ Found(t, p)
        BY <1>2, <3>1, <4>1, <4>2 DEF Found
      <4> QED BY <1>1, <4>3 DEF Loadable
    <3> QED BY <1>2, <1>6, <3>1 DEF Covered
  <2> QED BY <1>4, <2>1, <2>2, <2>3, <2>4 DEF Linked, Emptying
<1> QED BY <1>3, <1>9, <1>10, <1>11, <1>12, <1>13, <1>14 DEF Inv

-----------------------------------------------------------------------------
(***************************************************************************)
(* The initial state and a crash.                                          *)
(***************************************************************************)
LEMMA IdleTypes ==
  /\ NoSeal \in [pc : SealPcs, end : Nat] /\ NoSeal.end = 0 /\ NoSeal.pc = "idle"
  /\ NoCompact \in [pc : CompactPcs, staged : BOOLEAN, name : Names, end : Nat,
                    entries : RowMaps, rows : RowMaps, selected : SUBSET Nat, mark : Nat, segment : BOOLEAN]
  /\ NoCompact.end = 0 /\ NoCompact.mark = 0 /\ NoCompact.pc = "idle" /\ NoCompact.staged = FALSE
  /\ NotSealing \in [owner : {"none", "seal", "compact"}, rows : RowMaps] /\ NotSealing.owner = "none"
  /\ NotSealing.rows = NoRows
<1>1. NoRows \in RowMaps
  BY EmptyRows
<1>2. <<0, 0, 0>> \in Names
  BY DEF Names
<1> QED BY <1>1, <1>2 DEF NoSeal, NoCompact, NotSealing, SealPcs, CompactPcs

LEMMA InitInv ==
  ASSUME Init
  PROVE  Inv
<1>1. /\ log = <<>> /\ base = 0 /\ DOMAIN segs = {} /\ segs = [s \in {} |-> 0] /\ manifest = NoManifest
      /\ published = [generation |-> 0, points |-> {}]
      /\ checkpoint = [watermark |-> 0, segment |-> FALSE]
      /\ up = TRUE /\ streamer = NoRows /\ sealing = NotSealing /\ searchers = <<>>
      /\ id_index = NoRows /\ overlay = published /\ last_segment = FALSE /\ building = FALSE
      /\ seal = NoSeal /\ compact = NoCompact
  BY DEF Init
<1>2. NoRows \in RowMaps /\ DOMAIN NoRows = {}
  BY EmptyRows
<1>3. Len(log) = 0 /\ log \in Seq(Records) /\ DOMAIN searchers = {} /\ searchers \in Seq(Names)
      /\ ToSet(searchers) = {} /\ manifest.segments = <<>> /\ ~manifest.exists /\ manifest.generation = 0
      /\ ToSet(<<>>) = {}
  BY <1>1 DEF ToSet, NoManifest
<1>4. Types
  <2>1. DiskTypes
    <3>1. manifest \in [exists : BOOLEAN, generation : Nat, segments : Seq(Names)]
      BY <1>1 DEF NoManifest
    <3>2. segs \in [DOMAIN segs -> [rows : RowMaps, tomb : SUBSET Points]]
      BY <1>1
    <3> QED BY <1>1, <1>3, <3>1, <3>2 DEF DiskTypes
  <2>2. MemoryTypes
    <3>1. id_index \in [DOMAIN id_index -> {Streamer, Sealing} \cup DOMAIN searchers]
      BY <1>1 DEF NoRows
    <3>2. id_index \in [DOMAIN id_index -> Int]
      BY <1>1 DEF NoRows
    <3> QED BY <1>1, <1>2, <1>3, <3>1, <3>2, IdleTypes DEF MemoryTypes
  <2>3. WorkTypes
    BY <1>1, <1>3, IdleTypes DEF WorkTypes
  <2> QED BY <2>1, <2>2, <2>3 DEF Types
<1>5. \A p : LastRecord(p) = 0 /\ Latest(p) = 0
  <2> SUFFICES ASSUME NEW p PROVE LastRecord(p) = 0 /\ Latest(p) = 0
    OBVIOUS
  <2>1. LastRecord(p) = 0
    <3>1. LastRecord(p) \in Nat /\ LastRecord(p) <= 0
      BY <1>3, LastRecordIs
    <3> QED BY <3>1
  <2> QED BY <2>1 DEF Latest
<1>6. seal.pc = "idle" /\ compact.pc = "idle" /\ ~compact.staged /\ sealing.owner = "none"
  BY <1>1, IdleTypes
<1>7. Owners
  BY <1>1, <1>6 DEF Owners, SealActive, SealEnding, Merging, CompactLocks, Emptying
<1>8. Named
  BY <1>1, <1>3, <1>6 DEF Named, SealActive, Merging
<1>9. Memory
  BY <1>1, <1>2, <1>3, <1>5 DEF Memory, Shape, Content, Emptying
<1>10. Retained
  BY <1>1, <1>2, <1>6 DEF Retained, After, InMemory, SealActive, SealEnding, Merging, Emptying
<1>11. SealRows /\ Staged /\ Rewritten /\ Down
  BY <1>1, <1>6 DEF SealRows, SealActive, Staged, Merging, Rewritten, Down, Emptying
<1>12. Linked
  <2>1. Covered
    BY <1>1, <1>3 DEF Covered, Installed
  <2> QED BY <1>1, <1>3, <1>6, <2>1 DEF Linked, Unlisted, Finishing, SealActive, SealEnding, Ending, Emptying
<1> QED BY <1>4, <1>7, <1>8, <1>9, <1>10, <1>11, <1>12 DEF Inv

\* The range of a sequence is finite.
LEMMA RangeFinite ==
  ASSUME NEW S, NEW q \in Seq(S)
  PROVE  IsFiniteSet(ToSet(q))
<1>1. IsFiniteSet(1 .. Len(q)) /\ DOMAIN q = 1 .. Len(q)
  BY FS_Interval
<1> DEFINE I == DOMAIN q
           T == ToSet(q)
<1>2. q \in Surjection(I, T)
  <2>1. q \in [I -> T] /\ \A t \in T : \E i \in I : q[i] = t
    BY DEF ToSet
  <2> HIDE DEF I, T
  <2> QED BY <2>1 DEF Surjection
<1>3. IsFiniteSet(I)
  BY <1>1
<1> HIDE DEF I, T
<1>4. IsFiniteSet(T)
  BY <1>2, <1>3, FS_Surjection
<1> QED BY <1>4 DEF T

LEMMA CrashKeeps ==
  ASSUME Inv, Dated, Crash, Calm
  PROVE  Inv'
<1>1. /\ up /\ up' = FALSE /\ streamer' = NoRows /\ sealing' = NotSealing /\ searchers' = <<>> /\ id_index' = NoRows
      /\ overlay' = [generation |-> 0, points |-> {}] /\ last_segment' = FALSE /\ building' = FALSE
      /\ seal' = NoSeal /\ compact' = NoCompact
      /\ UNCHANGED <<log, base, segs, manifest, published, checkpoint>>
  BY DEF Crash, wal, disk
<1>2. ~Missing /\ ~Misordered /\ ~OverlayIgnored
  BY DEF Crash, Calm
<1>3. Loadable
  <2>1. CASE Emptying
    BY <1>2, <2>1 DEF Inv, Rewritten, Emptying
  <2>2. CASE ~Emptying
    BY <1>1, <1>2, <2>2, DiskIsLoadable
  <2> QED BY <2>1, <2>2
<1>4. Installed' = Installed /\ OpenedPoints' = OpenedPoints /\ ReplayFrom' = ReplayFrom
      /\ \A p : LastRecord(p)' = LastRecord(p) /\ Latest(p)' = Latest(p)
  BY <1>1, NotLogged DEF Installed, OpenedPoints, CurrentPoints, SidecarPoints, ReplayFrom
<1>5. Types'
  <2>1. DiskTypes' 
    BY <1>1 DEF Inv, Types, DiskTypes
  <2>2. NoRows \in RowMaps /\ DOMAIN NoRows = {} /\ NoRows \in [DOMAIN NoRows -> {Streamer, Sealing} \cup DOMAIN searchers']
    BY EmptyRows DEF NoRows
  <2>3. MemoryTypes'
    <3>1. id_index' \in [DOMAIN id_index' -> {Streamer, Sealing} \cup DOMAIN searchers'] /\ DOMAIN id_index' \subseteq Points
      BY <1>1, <2>2
    <3>2. searchers' \in Seq(Names) /\ streamer' \in RowMaps
          /\ overlay' \in [generation : Nat, points : SUBSET (Names \X Points)]
      BY <1>1, <2>2
    <3>3. sealing' \in [owner : {"none", "seal", "compact", "gone"}, rows : RowMaps]
          /\ up' \in BOOLEAN /\ building' \in BOOLEAN /\ last_segment' \in BOOLEAN
      BY <1>1, IdleTypes
    <3>4. id_index' \in [DOMAIN id_index' -> Int]
      BY <1>1, <2>2 DEF NoRows
    <3> QED BY <3>1, <3>2, <3>3, <3>4 DEF MemoryTypes
  <2>4. WorkTypes' 
    <3>1. Len(log) \in Nat
      BY DEF Inv, Types, DiskTypes
    <3> QED BY <1>1, <3>1, IdleTypes DEF WorkTypes
  <2> QED BY <2>1, <2>3, <2>4 DEF Types
<1>6. seal'.pc = "idle" /\ compact'.pc = "idle" /\ ~compact'.staged /\ sealing'.owner = "none"
  BY <1>1, IdleTypes
<1>7. Owners'
  BY <1>1, <1>6 DEF Owners, SealActive, SealEnding, Merging, CompactLocks, Emptying
<1>8. Named'
  <2>1. \A s \in Installed : Bounded(s) => Bounded(s)'
    BY <1>1 DEF Bounded, Dated, NextGeneration
  <2>2. ToSet(<<>>) = {}
    BY DEF ToSet
  <2>3. \A s \in ToSet(manifest.segments) : Bounded(s)'
    <3>1. CASE manifest.exists
      BY <2>1, <3>1 DEF Inv, Named, Installed
    <3>2. CASE ~manifest.exists
      <4>1. manifest = NoManifest
        <5>1. CASE Emptying
          BY <3>2, <5>1 DEF Inv, Owners, Emptying
        <5>2. CASE ~Emptying
          BY <1>1, <3>2, <5>2 DEF Inv, Linked, Unlisted
        <5> QED BY <5>1, <5>2
      <4> QED BY <2>2, <4>1 DEF NoManifest
    <3> QED BY <3>1, <3>2
  <2>4. ~manifest.exists => \A s \in DOMAIN segs : Bounded(s)'
    BY <2>1 DEF Inv, Named, Installed
  <2> QED BY <1>1, <1>6, <2>2, <2>3, <2>4 DEF SealActive, Merging, Named
<1>9. Memory' /\ Retained' /\ SealRows' /\ Staged' /\ Rewritten' /\ Linked'
  BY <1>1, <1>6 DEF Memory, Retained, SealRows, SealActive, Staged, Rewritten, Linked, Emptying
<1>10. Down'
  <2>1. ~Missing' /\ ~Misordered'
    <3>1. LoadOrder' = LoadOrder
      BY <1>4 DEF LoadOrder
    <3> QED BY <1>1, <1>2, <1>4, <3>1 DEF Missing, Misordered
  <2>2. Loadable'
    BY <1>1, <1>3, <1>4 DEF Loadable, Found, Row
  <2>3. IsFiniteSet(Installed)
    <3>1. CASE manifest.exists
      BY <3>1, RangeFinite DEF Installed, Inv, Types, DiskTypes
    <3>2. CASE ~manifest.exists
      <4>1. compact.pc = "idle"
        BY <3>2 DEF Inv, Owners, Emptying
      <4>2. DOMAIN segs \subseteq ToSet(searchers) \cup {Sealed}
        BY <1>1, <3>2, <4>1 DEF Inv, Linked, Unlisted, Emptying
      <4>3. IsFiniteSet(ToSet(searchers))
        BY RangeFinite DEF Inv, Types, MemoryTypes
      <4>4. IsFiniteSet(ToSet(searchers) \cup {Sealed})
        BY <4>3, FS_AddElement
      <4>5. IsFiniteSet(DOMAIN segs)
        BY <4>2, <4>4, FS_Subset
      <4> QED BY <3>2, <4>5 DEF Installed
    <3> QED BY <3>1, <3>2
  <2>4. ~manifest.exists => manifest = NoManifest
    BY <1>1 DEF Inv, Owners, Linked, Unlisted, Emptying
  <2> QED BY <1>1, <1>4, <2>1, <2>2, <2>3, <2>4 DEF Down
<1> QED BY <1>5, <1>7, <1>8, <1>9, <1>10 DEF Inv

-----------------------------------------------------------------------------
(***************************************************************************)
(* Steps that leave what the collection shows as it is.                    *)
(***************************************************************************)
Loaded == up /\ ~Emptying

LEMMA LiveParts ==
  ASSUME Inv, Loaded
  PROVE  /\ Shape /\ Content /\ After(ReplayFrom) /\ Unlisted /\ (manifest.exists => Switched) /\ Finishing
         /\ Current => Covered
         /\ Current /\ SealActive => Guarded
  BY DEF Inv, Loaded, Memory, Retained, Linked, Emptying

\* The installed segments are there, and are those of memory or the one being sealed.
LEMMA InstalledThere ==
  ASSUME Inv, Loaded
  PROVE  /\ Installed \subseteq DOMAIN segs
         /\ \/ \A s \in Installed : s \in ToSet(searchers) \/ (SealActive /\ s = Sealed /\ segs[s].rows = sealing.rows)
            \/ manifest.exists /\ Behind
         /\ manifest.exists => Installed \subseteq ToSet(searchers) \/ Behind
         /\ \A s : s \in ToSet(searchers) <=> \E i \in DOMAIN searchers : s = searchers[i]
         /\ ToSet(searchers) \subseteq DOMAIN segs
<1>0. \A s : s \in ToSet(searchers) <=> \E i \in DOMAIN searchers : s = searchers[i]
  BY DEF ToSet
<1>1. Shape /\ Unlisted /\ (manifest.exists => Switched)
  BY LiveParts
<1>2. ToSet(searchers) \subseteq DOMAIN segs
  BY <1>0, <1>1 DEF Shape
<1>3. CASE manifest.exists
  <2>1. Installed = ToSet(manifest.segments)
    BY <1>3 DEF Installed
  <2>2. CASE Behind
    <3>1. Installed \subseteq DOMAIN segs
      BY <2>1, <2>2 DEF Behind
    <3> QED BY <1>0, <1>2, <1>3, <2>2, <3>1
  <2>3. CASE ToSet(manifest.segments) = ToSet(searchers)
    BY <1>0, <1>2, <1>3, <2>1, <2>3
  <2> QED BY <1>1, <1>3, <2>2, <2>3 DEF Switched
<1>4. CASE ~manifest.exists
  <2>1. Installed = DOMAIN segs
    BY <1>4 DEF Installed
  <2>2. \A s \in DOMAIN segs : s \in ToSet(searchers) \/ (SealActive /\ s = Sealed /\ segs[s].rows = sealing.rows)
    BY <1>1, <1>4 DEF Unlisted
  <2> QED BY <1>0, <1>2, <1>4, <2>1, <2>2
<1> QED BY <1>3, <1>4

LEMMA ListedThere ==
  ASSUME Inv, Loaded
  PROVE  ToSet(manifest.segments) \subseteq DOMAIN segs
<1>1. CASE manifest.exists
  BY <1>1, InstalledThere DEF Installed
<1>2. CASE ~manifest.exists
  <2>1. manifest.segments = <<>>
    BY <1>2, LiveParts DEF Unlisted, NoManifest
  <2> QED BY <2>1 DEF ToSet
<1> QED BY <1>1, <1>2

\* The log has at most one more record, of no point.
SameHistory == log' = log \/ log' = Append(log, CompactRecord)

LEMMA Histories ==
  ASSUME Types, SameHistory
  PROVE  /\ log' \in Seq(Records) /\ Len(log) \in Nat /\ Len(log') \in Nat
         /\ Len(log') = Len(log) \/ Len(log') = Len(log) + 1
         /\ \A p \in Points : /\ LastRecord(p)' = LastRecord(p) /\ Latest(p)' = Latest(p)
                              /\ LastRecord(p) \in Nat /\ Latest(p) \in Nat
<1>1. log \in Seq(Records) /\ CompactRecord \in Records /\ Len(log) \in Nat
  BY DEF Types, DiskTypes, Records
<1>2. \A p \in Points : LastRecord(p) \in Nat /\ Latest(p) \in Nat
  BY <1>1, LastRecordIs, LatestIs
<1>3. CASE log' = log
  BY <1>1, <1>2, <1>3, NotLogged
<1>4. CASE log' = Append(log, CompactRecord)
  <2>1. \A p \in Points : CompactRecord.id # p
    BY <1>1, RecordIs
  <2>2. log' \in Seq(Records) /\ Len(log') = Len(log) + 1
    BY <1>1, <1>4
  <2>3. \A p \in Points : LastRecord(p)' = LastRecord(p) /\ Latest(p)' = Latest(p)
    BY <1>1, <1>4, <2>1, Logged
  <2> QED BY <1>1, <1>2, <2>2, <2>3
<1> QED BY <1>3, <1>4 DEF SameHistory

\* What a failed compaction has left stays enough for a load: the points that
\* are not replayed are not touched.
LEMMA BehindStays ==
  ASSUME Types, Behind, UNCHANGED <<base, checkpoint>>, manifest'.segments = manifest.segments,
         Len(log') \in Nat, Len(log') >= Len(log),
         \A s \in ToSet(manifest.segments) :
           /\ s \in DOMAIN segs' /\ segs'[s].rows = segs[s].rows
           /\ \A p \in segs'[s].tomb : p \in segs[s].tomb \/ <<s, p>> \in overlay.points,
         \A p \in Points : LastRecord(p)' <= ReplayFrom =>
           /\ LastRecord(p)' = LastRecord(p) /\ Latest(p)' = Latest(p)
           /\ \A s \in ToSet(manifest.segments) :
                <<s, p>> \in published'.points \cup overlay'.points =>
                  <<s, p>> \in published.points \cup overlay.points
  PROVE  Behind'
<1>1. ReplayFrom' = ReplayFrom /\ base' < Len(log')
  BY DEF ReplayFrom, Behind, Types, DiskTypes
<1>2. ToSet(manifest'.segments) = ToSet(manifest.segments)
  OBVIOUS
<1>3. /\ \A s, t \in ToSet(manifest'.segments) : s = t
      /\ ToSet(manifest'.segments) \subseteq DOMAIN segs'
  BY <1>2 DEF Behind
<1> SUFFICES ASSUME NEW p \in Points, LastRecord(p)' <= ReplayFrom
             PROVE  /\ Latest(p)' # 0 => manifest'.segments # <<>>
                    /\ \A s \in ToSet(manifest'.segments) :
                         /\ p \in DOMAIN segs'[s].rows <=> Latest(p)' # 0
                         /\ p \in DOMAIN segs'[s].rows => segs'[s].rows[p] = Latest(p)'
                         /\ p \notin segs'[s].tomb /\ <<s, p>> \notin published'.points \cup overlay'.points
  BY <1>1, <1>3 DEF Behind
<1>4. /\ LastRecord(p) <= ReplayFrom /\ Latest(p)' = Latest(p)
      /\ \A s \in ToSet(manifest.segments) :
           <<s, p>> \in published'.points \cup overlay'.points =>
             <<s, p>> \in published.points \cup overlay.points
  OBVIOUS
<1>5. /\ Latest(p) # 0 => manifest.segments # <<>>
      /\ \A s \in ToSet(manifest.segments) :
           /\ p \in DOMAIN segs[s].rows <=> Latest(p) # 0
           /\ p \in DOMAIN segs[s].rows => segs[s].rows[p] = Latest(p)
           /\ p \notin segs[s].tomb /\ <<s, p>> \notin published.points \cup overlay.points
  BY <1>4 DEF Behind
<1> QED BY <1>2, <1>4, <1>5

\* Memory, manifest and WAL positions stay, and so do the rows of the segments in use.
Steady ==
  /\ up /\ ~Emptying /\ SameHistory
  /\ UNCHANGED <<up, base, checkpoint, manifest, overlay, streamer, sealing, searchers, id_index>>
  /\ \A s \in ToSet(searchers) \cup Installed : s \in DOMAIN segs' /\ segs'[s].rows = segs[s].rows
  /\ \A s \in ToSet(searchers) : \A p \in segs'[s].tomb : <<s, p>> \in overlay.points
  /\ \A s \in ToSet(manifest.segments) : \A p \in segs'[s].tomb : p \in segs[s].tomb \/ <<s, p>> \in overlay.points
  /\ \A h \in published'.points : h[1] \in ToSet(manifest.segments) => h \in published.points \cup overlay.points

LEMMA SteadyShows ==
  ASSUME Inv, Steady
  PROVE  /\ Shape' /\ Content' /\ After(ReplayFrom)' /\ ReplayFrom' = ReplayFrom
         /\ manifest'.exists => Switched'
         /\ \A i \in DOMAIN searchers : RowsOf(i)' = RowsOf(i)
         /\ \A n : After(n) => After(n)'
<1>1. Shape /\ Content /\ After(ReplayFrom) /\ (manifest.exists => Switched) /\ Types
  BY LiveParts DEF Steady, Loaded, Inv, Emptying
<1>2. /\ Len(log) \in Nat /\ Len(log') \in Nat /\ (Len(log') = Len(log) \/ Len(log') = Len(log) + 1)
      /\ \A p \in Points : LastRecord(p)' = LastRecord(p) /\ Latest(p)' = Latest(p)
  BY <1>1, Histories DEF Steady
<1>3. UNCHANGED <<up, base, checkpoint, manifest, overlay, streamer, sealing, searchers, id_index>>
  BY DEF Steady
<1>4. \A i \in DOMAIN searchers : /\ searchers[i] \in DOMAIN segs' /\ segs'[searchers[i]].rows = segs[searchers[i]].rows
                                  /\ \A p \in segs'[searchers[i]].tomb : <<searchers[i], p>> \in overlay.points
  <2>1. \A i \in DOMAIN searchers : searchers[i] \in ToSet(searchers)
    BY DEF ToSet
  <2> QED BY <2>1 DEF Steady
<1>5. \A i \in DOMAIN searchers : RowsOf(i)' = RowsOf(i)
  BY <1>3, <1>4 DEF RowsOf
<1>6. Shape'
  BY <1>1, <1>3, <1>4 DEF Shape
<1>7. \A i, p : i \in DOMAIN searchers => (Shown(i, p)' <=> Shown(i, p))
  BY <1>3, <1>5 DEF Shown
<1>8. DOMAIN id_index \subseteq Points
  BY <1>1 DEF Types, MemoryTypes
<1>9. Content'
  BY <1>1, <1>2, <1>3, <1>5, <1>7, <1>8 DEF Content
<1>10. ReplayFrom' = ReplayFrom
  BY <1>3 DEF ReplayFrom
<1>11. \A n : After(n) => After(n)'
  BY <1>2, <1>3 DEF After, InMemory
<1>12. manifest'.exists => Switched'
  <2> SUFFICES ASSUME manifest.exists PROVE Switched'
    BY <1>3
  <2>1. CASE ToSet(manifest.segments) = ToSet(searchers) /\ overlay.generation = manifest.generation
    BY <1>3, <2>1 DEF Switched
  <2>2. CASE Behind
    <3>1. Installed = ToSet(manifest.segments)
      BY DEF Installed
    <3>2. Behind'
      BY <1>1, <1>2, <1>3, <2>2, <3>1, BehindStays DEF Steady
    <3> QED BY <3>2 DEF Switched
  <2> QED BY <1>1, <2>1, <2>2 DEF Switched
<1>13. After(ReplayFrom)'
  BY <1>1, <1>10, <1>11
<1> QED BY <1>5, <1>6, <1>9, <1>10, <1>11, <1>12, <1>13

\* The overlay on disk after such a step.
LEMMA SteadyOverlay ==
  ASSUME Inv, Steady, Installed' = Installed,
         published' = published \/ published' = overlay \/ published'.generation # manifest.generation
  PROVE  /\ Current' => Covered'
         /\ Current' /\ SealActive => Guarded'
<1>1. Shape /\ Content /\ (Current => Covered) /\ (Current /\ SealActive => Guarded) /\ Types /\ SealRows
  BY LiveParts DEF Steady, Loaded, Inv, Emptying
<1>2. \A p \in Points : LastRecord(p)' = LastRecord(p) /\ LastRecord(p) \in Nat
  BY <1>1, Histories DEF Steady
<1>3. UNCHANGED <<up, base, checkpoint, manifest, overlay, streamer, sealing, searchers, id_index>>
  BY DEF Steady
<1>4. ReplayFrom' = ReplayFrom /\ \A i \in DOMAIN searchers : RowsOf(i)' = RowsOf(i)
  BY SteadyShows
<1>5. \A s, p : Row(s, p)' <=> Row(s, p)
  BY DEF Row, Steady
<1>6. \A h \in overlay.points : h[2] \in Points
  BY <1>1 DEF Types, MemoryTypes
<1>7. CASE published' = published
  <2>1. Current' <=> Current
    BY <1>3, <1>7 DEF Current
  <2>2. Covered => Covered'
    BY <1>2, <1>3, <1>4, <1>5, <1>6, <1>7 DEF Covered
  <2>3. Guarded => Guarded'
    BY <1>3, <1>4, <1>7 DEF Guarded
  <2> QED BY <1>1, <2>1, <2>2, <2>3
<1>8. CASE published' = overlay
  <2>1. ASSUME NEW s \in Installed, NEW t \in Installed, NEW p \in Points, Row(s, p), Row(t, p),
               <<s, p>> \notin overlay.points, <<t, p>> \notin overlay.points
        PROVE  s = t
    <3>0. CASE manifest.exists /\ Behind
      BY <2>1, <3>0 DEF Behind, Installed
    <3> SUFFICES ASSUME ~(manifest.exists /\ Behind) PROVE s = t
      BY <3>0
    <3>1. \A u \in Installed : u \in ToSet(searchers) \/ (SealActive /\ u = Sealed /\ segs[u].rows = sealing.rows)
      BY InstalledThere DEF Steady, Loaded, Emptying
    <3>2. \A u \in ToSet(searchers) : \E i \in DOMAIN searchers : u = searchers[i]
      BY DEF ToSet
    <3>3. \A i \in DOMAIN searchers :
            p \in DOMAIN RowsOf(i) /\ <<searchers[i], p>> \notin overlay.points => p \in DOMAIN id_index /\ id_index[p] = i
      BY <1>1 DEF Content, Shown
    <3>4. SealActive /\ p \in DOMAIN sealing.rows =>
            \A i \in DOMAIN searchers : p \in DOMAIN RowsOf(i) => <<searchers[i], p>> \in overlay.points
      BY <1>1 DEF SealRows
    <3> QED BY <2>1, <3>1, <3>2, <3>3, <3>4 DEF Row, RowsOf
  <2>2. Covered'
    BY <1>3, <1>5, <1>8, <2>1 DEF Covered
  <2>3. SealActive => Guarded'
    BY <1>1, <1>3, <1>4, <1>8 DEF Guarded, SealRows
  <2> QED BY <2>2, <2>3
<1>9. CASE published'.generation # manifest.generation
  BY <1>3, <1>9 DEF Current
<1> QED BY <1>7, <1>8, <1>9

\* The names in use stay within their bounds.
LEMMA SteadyNames ==
  ASSUME Inv, Steady
  PROVE  /\ \A s \in ToSet(searchers') \cup ToSet(manifest'.segments) : Bounded(s)'
         /\ \A s \in Names : Bounded(s) => Bounded(s)'
         /\ \A h \in published.points \cup overlay.points : Bounded(h[1])'
         /\ \A s : Fresh(s)' <=> Fresh(s)
<1>1. Named /\ Types /\ Shape /\ up
  BY LiveParts DEF Inv, Steady, Loaded, Emptying
<1>2. Len(log) \in Nat /\ Len(log') \in Nat /\ Len(log) <= Len(log') /\ UNCHANGED <<manifest, searchers>>
  BY <1>1, Histories DEF Steady
<1>3. \A s \in Names : Bounded(s) => Bounded(s)'
  <2> SUFFICES ASSUME NEW s \in Names, Bounded(s) PROVE Bounded(s)'
    OBVIOUS
  <2>1. s[1] \in {0, 1, 2} /\ s[2] \in Nat /\ s[3] \in Nat
    BY DEF Names
  <2> QED BY <1>2, <2>1 DEF Bounded, NextGeneration
<1>4. ToSet(searchers) \subseteq Names /\ ToSet(manifest.segments) \subseteq Names
  BY <1>1 DEF Types, MemoryTypes, DiskTypes, ToSet
<1>5. \A h \in published.points \cup overlay.points : h[1] \in Names
  BY <1>1 DEF Types, MemoryTypes, DiskTypes
<1>6. \A h \in published.points \cup overlay.points : Bounded(h[1])
  BY <1>1 DEF Named, Shape
<1>7. \A s : Fresh(s)' <=> Fresh(s)
  BY <1>2 DEF Fresh, Steady
<1>8. \A s \in ToSet(searchers') \cup ToSet(manifest'.segments) : Bounded(s)'
  BY <1>1, <1>2, <1>3, <1>4 DEF Named
<1> QED BY <1>3, <1>5, <1>6, <1>7, <1>8

-----------------------------------------------------------------------------
(***************************************************************************)
(* The steps of the seal that leave memory as it is.                       *)
(***************************************************************************)
\* A seal that is under way: what the owners say of the rest.
LEMMA SealRuns ==
  ASSUME Inv, seal.pc # "idle"
  PROVE  /\ up /\ ~CompactLocks /\ ~Emptying /\ compact.pc # "empty"
         /\ compact.pc \notin {"advance", "manifest", "overlay", "checkpoint", "cut", "remove"} /\ ~Ending
         /\ SealActive => ~building /\ ~Merging /\ sealing.owner = "seal"
<1>1. ~CompactLocks /\ ~Emptying /\ (~up => seal = NoSeal) /\ (building => sealing.owner # "seal")
      /\ (Merging => building) /\ (SealActive <=> sealing.owner = "seal")
  BY DEF Inv, Owners, Emptying
<1>2. up
  BY <1>1 DEF NoSeal
<1> QED BY <1>1, <1>2 DEF CompactLocks, Ending, Emptying

\* A step from one point of a seal before its manifest to another.
SealStays ==
  /\ SealActive /\ seal' \in [pc : {"build", "publish", "manifest", "failed"}, end : {seal.end}]
  /\ UNCHANGED <<log, base, manifest, checkpoint, up, streamer, sealing, searchers, id_index, overlay,
                 last_segment, building, compact>>
  /\ segs' \in [DOMAIN segs -> [rows : RowMaps, tomb : SUBSET Points]]
  /\ \A s \in DOMAIN segs : segs'[s].rows = segs[s].rows
  /\ \A s \in ToSet(searchers) : \A p \in segs'[s].tomb : <<s, p>> \in overlay.points
  /\ \A s \in ToSet(manifest.segments) : \A p \in segs'[s].tomb : p \in segs[s].tomb \/ <<s, p>> \in overlay.points
  /\ published' = published \/ published' = overlay \/ published' = SealOverlay
  /\ seal'.pc \in {"publish", "manifest"} => Sealed \in DOMAIN segs /\ segs[Sealed].rows = sealing.rows
  /\ seal'.pc = "manifest" => segs'[Sealed].tomb = Superseded /\ published' = SealOverlay

\* The overlay a seal publishes.
LEMMA SealOverlayIs ==
  ASSUME Inv, SealActive, up, ~Emptying
  PROVE  /\ SealOverlay \in [generation : Nat, points : SUBSET (Names \X Points)]
         /\ SealOverlay.generation = manifest.generation + 1 /\ SealOverlay.generation # manifest.generation
         /\ \A h \in SealOverlay.points : h \in overlay.points \/ (h[1] = Sealed /\ h[2] \in Superseded)
         /\ \A h \in overlay.points : h \in SealOverlay.points
         /\ \A p \in Superseded : <<Sealed, p>> \in SealOverlay.points
         /\ Sealed \in Names /\ Bounded(Sealed) /\ Superseded \subseteq Points /\ ~IsLegacy(Sealed)
<1>1. Types
  BY DEF Inv
<1>2. seal.end \in Nat /\ seal.end <= Len(log) /\ manifest.generation \in Nat /\ sealing.rows \in RowMaps
      /\ overlay.points \subseteq Names \X Points
  BY <1>1 DEF Types, DiskTypes, MemoryTypes, WorkTypes
<1>3. Sealed \in Names /\ Bounded(Sealed) /\ ~IsLegacy(Sealed)
  BY <1>2 DEF Sealed, SealName, Names, Bounded, IsLegacy, NextGeneration
<1>4. Superseded \subseteq Points
  <2>1. DOMAIN sealing.rows \subseteq Points
    BY <1>2, RowsAre DEF IsRows
  <2> QED BY <2>1 DEF Superseded
<1>5. SealOverlay.generation = manifest.generation + 1
      /\ SealOverlay.points = overlay.points \cup Hide(Sealed, Superseded)
      /\ SealOverlay = [generation |-> manifest.generation + 1, points |-> overlay.points \cup Hide(Sealed, Superseded)]
  BY DEF SealOverlay, NextGeneration
<1>6. \A h : h \in Hide(Sealed, Superseded) <=> \E p \in Superseded : h = <<Sealed, p>>
  BY DEF Hide
<1>7. overlay.points \cup Hide(Sealed, Superseded) \in SUBSET (Names \X Points)
  BY <1>2, <1>3, <1>4, <1>6
<1> QED BY <1>2, <1>3, <1>4, <1>5, <1>6, <1>7

LEMMA SealStaysKeeps ==
  ASSUME Inv, SealStays
  PROVE  Inv'
<1>1. /\ seal'.pc \in {"build", "publish", "manifest", "failed"} /\ seal'.end = seal.end
      /\ UNCHANGED <<log, base, manifest, checkpoint, up, streamer, sealing, searchers, id_index, overlay,
                     last_segment, building, compact>>
      /\ DOMAIN segs' = DOMAIN segs /\ \A s \in DOMAIN segs : segs'[s].rows = segs[s].rows
      /\ segs' \in [DOMAIN segs' -> [rows : RowMaps, tomb : SUBSET Points]]
  BY DEF SealStays
<1>2. /\ up /\ ~Emptying /\ ~CompactLocks /\ ~building /\ ~Merging /\ sealing.owner = "seal" /\ ~Ending
      /\ SealActive /\ compact.pc \notin {"advance", "manifest", "overlay", "checkpoint", "cut", "remove"}
      /\ ~SealEnding
  BY SealRuns DEF SealStays, SealActive, SealEnding
<1>3. Types /\ Owners /\ Named /\ Retained /\ SealRows /\ Staged /\ Shape /\ Unlisted
  BY <1>2, LiveParts DEF Inv, Loaded, Emptying
<1>4. seal' \in [pc : SealPcs, end : Nat] /\ Sealed' = Sealed
      /\ SealActive' /\ ~SealEnding' /\ ~Ending' /\ ~CompactLocks' /\ ~Merging' /\ seal'.pc # "idle"
  <2>1. seal' \in [pc : {"build", "publish", "manifest", "failed"}, end : {seal.end}]
    BY DEF SealStays
  <2>2. seal.end \in Nat
    BY <1>3 DEF Types, WorkTypes
  <2> QED BY <1>1, <1>2, <2>1, <2>2 DEF SealPcs, Sealed, SealName, SealActive, SealEnding, Ending, CompactLocks, Merging, Emptying
<1>5. Types'
  <2>1. published' \in [generation : Nat, points : SUBSET (Names \X Points)]
    <3>1. published \in [generation : Nat, points : SUBSET (Names \X Points)]
          /\ overlay \in [generation : Nat, points : SUBSET (Names \X Points)]
      BY <1>3 DEF Types, DiskTypes, MemoryTypes
    <3> QED BY <1>2, <3>1, SealOverlayIs DEF SealStays
  <2>2. DiskTypes'
    BY <1>1, <1>3, <2>1 DEF Types, DiskTypes
  <2>3. MemoryTypes' /\ WorkTypes'
    BY <1>1, <1>3, <1>4 DEF Types, MemoryTypes, WorkTypes
  <2> QED BY <2>2, <2>3 DEF Types
<1>6. Steady /\ Installed' = Installed
  <2>1. Installed \subseteq DOMAIN segs /\ ToSet(searchers) \subseteq DOMAIN segs
    BY <1>2, InstalledThere DEF Loaded, Emptying
  <2>2. \A s \in ToSet(searchers) : \A p \in segs'[s].tomb : <<s, p>> \in overlay.points
    BY DEF SealStays
  <2>3. \A s \in ToSet(manifest.segments) : \A p \in segs'[s].tomb : p \in segs[s].tomb \/ <<s, p>> \in overlay.points
    BY DEF SealStays
  <2>4. \A h \in published'.points : h[1] \in ToSet(manifest.segments) => h \in published.points \cup overlay.points
    <3>1. Sealed \notin ToSet(manifest.segments)
      BY <1>2, <1>3 DEF Named, Fresh
    <3> QED BY <1>2, <3>1, SealOverlayIs DEF SealStays
  <2> QED BY <1>1, <1>2, <2>1, <2>2, <2>3, <2>4 DEF Steady, SameHistory, Installed
<1>7. /\ Shape' /\ Content' /\ After(ReplayFrom)' /\ ReplayFrom' = ReplayFrom
      /\ manifest'.exists => Switched'
      /\ \A i \in DOMAIN searchers : RowsOf(i)' = RowsOf(i)
  BY <1>6, SteadyShows
<1>8. (Current' => Covered') /\ (Current' /\ SealActive => Guarded')
  BY <1>2, <1>6, SteadyOverlay, SealOverlayIs DEF SealStays
<1>9. \A p : LastRecord(p)' = LastRecord(p)
  BY <1>1, NotLogged
<1>10. Owners'
  BY <1>1, <1>2, <1>3, <1>4 DEF Owners, SealActive, SealEnding, Merging, CompactLocks, Emptying
<1>11. Named'
  <2>1. \A s : Bounded(s)' <=> Bounded(s)
    BY <1>1 DEF Bounded, NextGeneration
  <2>2. \A s : Fresh(s)' <=> Fresh(s)
    BY <1>1 DEF Fresh
  <2>3. \A h \in published'.points \cup overlay'.points : Bounded(h[1])
    <3>1. \A h \in published.points \cup overlay.points : Bounded(h[1])
      BY <1>2, <1>3 DEF Named
    <3> QED BY <1>1, <1>2, <3>1, SealOverlayIs DEF SealStays
  <2>4. compact.pc \notin {"migrate", "write", "clear", "install", "rewrite"}
    BY <1>2 DEF CompactLocks
  <2> QED BY <1>1, <1>2, <1>3, <1>4, <2>1, <2>2, <2>3, <2>4 DEF Named
<1>12. Memory'
  BY <1>7 DEF Memory, Emptying
<1>13. Retained'
  BY <1>1, <1>2, <1>3, <1>4, <1>7 DEF Retained, Emptying
<1>14. SealRows'
  <2>1. Superseded' = Superseded /\ SealOverlay' = SealOverlay
    BY <1>1, <1>4 DEF Superseded, SealOverlay, NextGeneration
  <2>2. /\ seal'.pc \in {"publish", "manifest"} => Sealed' \in DOMAIN segs' /\ segs'[Sealed'].rows = sealing'.rows
        /\ seal'.pc = "manifest" => segs'[Sealed'].tomb = Superseded' /\ published' = SealOverlay'
    BY <1>1, <1>4, <2>1 DEF SealStays
  <2> QED BY <1>1, <1>2, <1>3, <1>4, <1>7, <1>9, <2>2 DEF SealRows
<1>15. Linked'
  <2>1. Unlisted'
    BY <1>1, <1>2, <1>3, <1>4 DEF Unlisted
  <2> QED BY <1>1, <1>2, <1>4, <1>7, <1>8, <2>1 DEF Linked, Finishing, Emptying
<1>16. Staged' /\ Rewritten' /\ Down'
  BY <1>1, <1>2, <1>4 DEF Staged, Rewritten, Down, Emptying, CompactLocks
<1> QED BY <1>5, <1>10, <1>11, <1>12, <1>13, <1>14, <1>15, <1>16 DEF Inv

\* The sidecars a worker persists say no more than the overlay.
LEMMA PersistedIs ==
  ASSUME Inv, Loaded
  PROVE  /\ Persisted \in [DOMAIN segs -> [rows : RowMaps, tomb : SUBSET Points]]
         /\ \A s \in DOMAIN segs : Persisted[s].rows = segs[s].rows
         /\ \A s \in ToSet(searchers) : \A p \in Persisted[s].tomb : <<s, p>> \in overlay.points
         /\ \A s \in DOMAIN segs : \A p \in Persisted[s].tomb : p \in segs[s].tomb \/ <<s, p>> \in overlay.points
<1>1. \A s \in DOMAIN segs : segs[s] \in [rows : RowMaps, tomb : SUBSET Points]
  BY SegTypes DEF Inv
<1> DEFINE H(s) == {p \in Points : HiddenAt(overlay.points, s, p)}
           P(s) == IF IsLegacy(s) THEN [segs[s] EXCEPT !.tomb = @ \cup H(s)] ELSE segs[s]
<1>2. Persisted = [s \in DOMAIN segs |-> P(s)]
  BY DEF Persisted
<1>3. ASSUME NEW s \in DOMAIN segs
      PROVE  /\ P(s) \in [rows : RowMaps, tomb : SUBSET Points] /\ P(s).rows = segs[s].rows
             /\ \A p \in P(s).tomb : p \in segs[s].tomb \/ <<s, p>> \in overlay.points
  <2>1. segs[s] \in [rows : RowMaps, tomb : SUBSET Points]
    BY <1>1
  <2>2. H(s) \subseteq Points /\ \A p \in H(s) : <<s, p>> \in overlay.points
    BY DEF HiddenAt
  <2> HIDE DEF H
  <2> QED BY <2>1, <2>2
<1>4. ToSet(searchers) \subseteq DOMAIN segs /\ \A s \in ToSet(searchers) : \A p \in segs[s].tomb : <<s, p>> \in overlay.points
  <2>1. Shape
    BY LiveParts
  <2> QED BY <2>1 DEF Shape, ToSet
<1> HIDE DEF P
<1> QED BY <1>2, <1>3, <1>4

LEMMA SealStaysSteps ==
  ASSUME Inv, SealFails \/ SealPublish \/ SealPublishFails \/ SealManifestFails
  PROVE  SealStays
<1>0. SealActive /\ up /\ ~Emptying /\ seal.pc \in {"build", "publish", "manifest"}
  <2>1. seal.pc \in {"build", "publish", "manifest"}
    BY DEF SealFails, SealPublish, SealPublishFails, SealManifestFails
  <2> QED BY <2>1, SealRuns DEF SealActive
<1>1. Types /\ SealRows /\ Named
  BY DEF Inv
<1>2. seal \in [pc : SealPcs, end : Nat]
  BY <1>1 DEF Types, WorkTypes
<1>3. \A s \in ToSet(searchers) : s \in DOMAIN segs /\ \A p \in segs[s].tomb : <<s, p>> \in overlay.points
  <2>1. Shape
    BY <1>0, LiveParts DEF Loaded, Emptying
  <2> QED BY <2>1 DEF Shape, ToSet
<1>4. segs \in [DOMAIN segs -> [rows : RowMaps, tomb : SUBSET Points]]
  BY <1>1 DEF Types, DiskTypes
<1>5. \A c : seal' = [seal EXCEPT !.pc = c] => seal'.pc = c /\ seal' = [pc |-> c, end |-> seal.end]
  BY <1>2
<1>6. CASE SealFails
  BY <1>0, <1>1, <1>3, <1>4, <1>5, <1>6 DEF SealFails, wal, disk, memory, content, SealStays
<1>7. CASE SealManifestFails
  <2>1. published' = published \/ published' = overlay
    BY <1>7 DEF SealManifestFails
  <2> QED BY <1>0, <1>1, <1>3, <1>4, <1>5, <1>7, <2>1 DEF SealManifestFails, wal, memory, content, SealStays
<1>8. CASE SealPublish \/ SealPublishFails
  <2> DEFINE S == [Persisted EXCEPT ![Sealed].tomb = Superseded]
  <2>1. /\ seal.pc = "publish" /\ segs' = S
        /\ published' = published \/ published' = overlay \/ published' = SealOverlay
        /\ UNCHANGED <<log, base, manifest, checkpoint, up, streamer, sealing, searchers, id_index, overlay,
                       last_segment, building, compact>>
        /\ (seal' = [seal EXCEPT !.pc = "manifest"] /\ published' = SealOverlay) \/ seal' = [seal EXCEPT !.pc = "failed"]
    BY <1>8 DEF SealPublish, SealPublishFails, wal, memory, content
  <2>2. Sealed \in DOMAIN segs /\ segs[Sealed].rows = sealing.rows /\ Sealed \notin ToSet(searchers)
    BY <1>0, <1>1, <2>1 DEF SealRows, Named, Fresh
  <2>3. /\ Persisted \in [DOMAIN segs -> [rows : RowMaps, tomb : SUBSET Points]]
        /\ \A s \in DOMAIN segs : Persisted[s].rows = segs[s].rows
        /\ \A s \in ToSet(searchers) : \A p \in Persisted[s].tomb : <<s, p>> \in overlay.points
        /\ \A s \in DOMAIN segs : \A p \in Persisted[s].tomb : p \in segs[s].tomb \/ <<s, p>> \in overlay.points
    BY <1>0, PersistedIs DEF Loaded, Emptying
  <2>4. Superseded \subseteq Points
    BY <1>0, SealOverlayIs
  <2>5. /\ S \in [DOMAIN segs -> [rows : RowMaps, tomb : SUBSET Points]]
        /\ \A s \in DOMAIN segs : S[s].rows = segs[s].rows
        /\ \A s \in ToSet(searchers) : \A p \in S[s].tomb : <<s, p>> \in overlay.points
        /\ S[Sealed].tomb = Superseded
        /\ \A s \in DOMAIN segs : s # Sealed =>
             \A p \in S[s].tomb : p \in segs[s].tomb \/ <<s, p>> \in overlay.points
    BY <1>3, <2>2, <2>3, <2>4
  <2> HIDE DEF S
  <2>6. seal' \in [pc : {"build", "publish", "manifest", "failed"}, end : {seal.end}]
        /\ seal'.pc \in {"manifest", "failed"} /\ (seal'.pc = "manifest" => published' = SealOverlay)
    BY <1>5, <2>1
  <2>7. ToSet(manifest.segments) \subseteq DOMAIN segs /\ Sealed \notin ToSet(manifest.segments)
    BY <1>0, <1>1, ListedThere DEF Named, Fresh, Loaded
  <2> QED BY <1>0, <2>1, <2>2, <2>5, <2>6, <2>7 DEF SealStays
<1> QED BY <1>6, <1>7, <1>8

LEMMA SealBuildKeeps ==
  ASSUME Inv, SealBuild
  PROVE  Inv'
<1> DEFINE new == [rows |-> sealing.rows, tomb |-> {}]
<1>0. seal.pc = "build" /\ segs' = Put(segs, Sealed, new) /\ seal' = [seal EXCEPT !.pc = "publish"]
  BY DEF SealBuild
<1>1. /\ UNCHANGED <<log, base, manifest, published, checkpoint, up, streamer, sealing, searchers,
                     id_index, overlay, last_segment, building, compact>>
  BY DEF SealBuild, wal, memory, content
<1>2. /\ up /\ ~Emptying /\ ~CompactLocks /\ ~building /\ ~Merging /\ sealing.owner = "seal" /\ ~Ending
      /\ SealActive /\ compact.pc \notin {"advance", "manifest", "overlay", "checkpoint", "cut", "remove"}
  BY <1>0, SealRuns DEF SealActive
<1>3. /\ Types /\ Owners /\ Named /\ Retained /\ SealRows /\ Shape /\ Unlisted
      /\ (Current => Covered) /\ (Current => Guarded)
  BY <1>2, LiveParts DEF Inv, Loaded, Emptying
<1>4. seal'.pc = "publish" /\ seal'.end = seal.end /\ seal' \in [pc : SealPcs, end : Nat] /\ Sealed' = Sealed
      /\ SealActive' /\ ~SealEnding' /\ ~Ending' /\ ~CompactLocks' /\ ~Merging'
  BY <1>0, <1>1, <1>2, <1>3 DEF Types, WorkTypes, SealPcs, Sealed, SealName, SealActive, SealEnding, Ending, CompactLocks, Merging, Emptying
<1>5. Sealed \in Names /\ Bounded(Sealed) /\ Fresh(Sealed)
  BY <1>2, <1>3, SealOverlayIs DEF Named
<1>6. /\ DOMAIN segs' = DOMAIN segs \cup {Sealed} /\ segs'[Sealed] = new
      /\ \A s \in DOMAIN segs : s # Sealed => segs'[s] = segs[s]
      /\ segs' = [s \in DOMAIN segs' |-> segs'[s]]
  BY <1>0 DEF Put
<1>7. segs'[Sealed].rows = sealing.rows
  BY <1>6
<1> HIDE DEF new
<1>8. Types'
  <2>1. new \in [rows : RowMaps, tomb : SUBSET Points]
    BY <1>3 DEF Types, MemoryTypes, new
  <2>2. \A s \in DOMAIN segs : segs[s] \in [rows : RowMaps, tomb : SUBSET Points]
    BY <1>3, SegTypes
  <2>3. \A s \in DOMAIN segs' : segs'[s] \in [rows : RowMaps, tomb : SUBSET Points]
    BY <1>6, <2>1, <2>2
  <2>4. segs' \in [DOMAIN segs' -> [rows : RowMaps, tomb : SUBSET Points]] /\ DOMAIN segs' \subseteq Names
    BY <1>3, <1>5, <1>6, <2>3, SegTypes
  <2>5. DiskTypes'
    BY <1>1, <1>3, <2>4 DEF Types, DiskTypes
  <2>6. MemoryTypes' /\ WorkTypes'
    BY <1>1, <1>3, <1>4 DEF Types, MemoryTypes, WorkTypes
  <2> QED BY <2>5, <2>6 DEF Types
<1>9. /\ Installed \subseteq DOMAIN segs /\ ToSet(searchers) \subseteq DOMAIN segs
      /\ ~manifest.exists =>
           \A s \in Installed : s \in ToSet(searchers) \/ (s = Sealed /\ segs[s].rows = sealing.rows)
      /\ \A s : s \in ToSet(searchers) <=> \E i \in DOMAIN searchers : s = searchers[i]
  BY <1>2, InstalledThere DEF Loaded, Emptying
<1>9a. Sealed \notin ToSet(manifest.segments) /\ ToSet(manifest.segments) \subseteq DOMAIN segs
       /\ \A s \in ToSet(manifest.segments) : segs'[s] = segs[s]
  <2>1. Sealed \notin ToSet(manifest.segments) /\ ToSet(manifest.segments) \subseteq DOMAIN segs
    BY <1>2, <1>5, ListedThere DEF Loaded, Fresh
  <2> QED BY <1>6, <2>1
<1>10. \A s \in ToSet(searchers) : s # Sealed /\ segs'[s] = segs[s]
  BY <1>5, <1>6, <1>9 DEF Fresh
<1>11. Steady
  <2>1. \A s \in ToSet(searchers) : \A p \in segs[s].tomb : <<s, p>> \in overlay.points
    BY <1>3, <1>9 DEF Shape
  <2>2. \A s \in ToSet(searchers) \cup Installed : s \in DOMAIN segs' /\ segs'[s].rows = segs[s].rows
    <3>1. CASE manifest.exists
      <4>1. Installed = ToSet(manifest.segments)
        BY <3>1 DEF Installed
      <4> QED BY <1>6, <1>9, <1>9a, <1>10, <4>1
    <3>2. CASE ~manifest.exists
      BY <1>6, <1>7, <1>9, <1>10, <3>2
    <3> QED BY <3>1, <3>2
  <2> QED BY <1>1, <1>2, <1>9a, <1>10, <2>1, <2>2 DEF Steady, SameHistory
<1>12. /\ Shape' /\ Content' /\ After(ReplayFrom)' /\ ReplayFrom' = ReplayFrom
       /\ manifest'.exists => Switched'
       /\ \A i \in DOMAIN searchers : RowsOf(i)' = RowsOf(i)
  BY <1>11, SteadyShows
<1>13. Current' <=> Current
  BY <1>1 DEF Current
<1>14. Current' => Covered'
  <2>1. CASE manifest.exists
    <3>1. Installed' = Installed
      BY <1>1, <2>1 DEF Installed
    <3> QED BY <1>1, <1>11, <3>1, SteadyOverlay
  <2>2. CASE ~manifest.exists
    <3> SUFFICES ASSUME Current PROVE Covered'
      BY <1>13
    <3>1. Installed' = DOMAIN segs' /\ Installed = DOMAIN segs
      BY <1>1, <2>2 DEF Installed
    <3>2. \A p : LastRecord(p)' = LastRecord(p)
      BY <1>1, NotLogged
    <3>3. \A h \in published.points : h \in overlay.points
      BY <1>3 DEF Guarded
    <3>4. \A h \in overlay.points : h[1] \in Installed' => h \in published.points \/ LastRecord(h[2]) > ReplayFrom
      <4>1. \A h \in overlay.points : h[1] # Sealed
        BY <1>5 DEF Fresh
      <4> QED BY <1>3, <1>6, <3>1, <4>1 DEF Covered
    <3>5. ASSUME NEW s \in Installed', NEW t \in Installed', NEW p \in Points, Row(s, p)', Row(t, p)',
                 <<s, p>> \notin published.points, <<t, p>> \notin published.points
          PROVE  s = t
      <4>1. s \in ToSet(searchers) \/ s = Sealed
        BY <1>6, <1>9, <2>2, <3>1
      <4>2. t \in ToSet(searchers) \/ t = Sealed
        BY <1>6, <1>9, <2>2, <3>1
      <4>3. \A i \in DOMAIN searchers : p \in DOMAIN sealing.rows /\ p \in DOMAIN segs[searchers[i]].rows =>
              <<searchers[i], p>> \in published.points
        BY <1>3 DEF Guarded, RowsOf
      <4>4. \A u \in ToSet(searchers) : Row(u, p)' => p \in DOMAIN segs[u].rows /\ u \in Installed
        BY <1>9, <1>10, <3>1 DEF Row
      <4>5. \A u : u = Sealed /\ Row(u, p)' => p \in DOMAIN sealing.rows
        BY <1>7 DEF Row
      <4>6. CASE s \in ToSet(searchers) /\ t \in ToSet(searchers)
        BY <1>3, <3>5, <4>4, <4>6 DEF Covered, Row
      <4>7. CASE s = Sealed /\ t \in ToSet(searchers)
        BY <1>9, <3>5, <4>3, <4>4, <4>5, <4>7
      <4>8. CASE s \in ToSet(searchers) /\ t = Sealed
        BY <1>9, <3>5, <4>3, <4>4, <4>5, <4>8
      <4> QED BY <4>1, <4>2, <4>6, <4>7, <4>8
    <3> QED BY <1>1, <1>12, <3>2, <3>3, <3>4, <3>5 DEF Covered
  <2> QED BY <2>1, <2>2
<1>15. Current' => Guarded'
  BY <1>1, <1>3, <1>12, <1>13 DEF Guarded
<1>16. \A p : LastRecord(p)' = LastRecord(p)
  BY <1>1, NotLogged
<1>17. Owners'
  BY <1>1, <1>2, <1>3, <1>4 DEF Owners, SealActive, SealEnding, Merging, CompactLocks, Emptying
<1>18. Named'
  <2>1. \A s : Bounded(s)' <=> Bounded(s)
    BY <1>1 DEF Bounded, NextGeneration
  <2>2. \A s : Fresh(s)' <=> Fresh(s)
    BY <1>1 DEF Fresh
  <2>3. ~manifest'.exists => \A s \in DOMAIN segs' : Bounded(s)
    BY <1>1, <1>3, <1>5, <1>6 DEF Named
  <2>4. compact.pc \notin {"migrate", "write", "clear", "install", "rewrite"}
    BY <1>2 DEF CompactLocks
  <2> QED BY <1>1, <1>2, <1>3, <1>4, <2>1, <2>2, <2>3, <2>4 DEF Named
<1>19. Memory'
  BY <1>12 DEF Memory, Emptying
<1>20. Retained'
  BY <1>1, <1>2, <1>3, <1>4, <1>12 DEF Retained, Emptying
<1>21. SealRows'
  BY <1>1, <1>2, <1>3, <1>4, <1>6, <1>7, <1>12, <1>16 DEF SealRows
<1>22. Linked'
  <2>1. Unlisted'
    BY <1>1, <1>2, <1>3, <1>4, <1>6, <1>7, <1>9, <1>10 DEF Unlisted
  <2> QED BY <1>1, <1>2, <1>4, <1>12, <1>14, <1>15, <2>1 DEF Linked, Finishing, Emptying
<1>23. Staged' /\ Rewritten' /\ Down'
  BY <1>1, <1>2, <1>4 DEF Staged, Rewritten, Down, Emptying, CompactLocks
<1> QED BY <1>8, <1>17, <1>18, <1>19, <1>20, <1>21, <1>22, <1>23 DEF Inv

\* A step that changes neither the log nor a segment nor the seal.
Still ==
  /\ up /\ ~Emptying
  /\ published' = published \/ published' = overlay \/ published'.generation # manifest.generation
  /\ UNCHANGED <<log, base, segs, manifest, checkpoint, up, streamer, sealing, searchers, id_index, overlay, seal>>
  /\ seal.pc = "manifest" => published' = published
  /\ \A h \in published'.points : Bounded(h[1])
  /\ \A h \in published'.points : h[1] \in ToSet(manifest.segments) => h \in published.points \cup overlay.points

LEMMA StillDisk ==
  ASSUME Inv, Still
  PROVE  /\ Shape' /\ Content' /\ After(ReplayFrom)' /\ (manifest'.exists => Switched') /\ Unlisted'
         /\ SealRows' /\ ReplayFrom' = ReplayFrom
         /\ Current' => Covered'
         /\ Current' /\ SealActive' => Guarded'
         /\ \A n : After(n) => After(n)'
         /\ \A s : (Bounded(s)' <=> Bounded(s)) /\ (Fresh(s)' <=> Fresh(s))
         /\ \A s \in ToSet(searchers') \cup ToSet(manifest'.segments) : Bounded(s)'
         /\ ~manifest'.exists => \A s \in DOMAIN segs' : Bounded(s)'
         /\ \A h \in published'.points \cup overlay'.points : Bounded(h[1])'
         /\ SealActive' => Fresh(Sealed)'
         /\ (SealActive' <=> SealActive) /\ (SealEnding' <=> SealEnding)
         /\ \A i \in DOMAIN searchers : RowsOf(i)' = RowsOf(i)
<1> USE DEF Still
<1>1. Types /\ SealRows /\ Named /\ Shape /\ Unlisted
  BY LiveParts DEF Inv, Loaded, Emptying
<1>2. Installed' = Installed
  BY DEF Installed
<1>3. Steady
  <2>1. \A s \in ToSet(searchers) \cup Installed : s \in DOMAIN segs
    BY InstalledThere DEF Loaded, Emptying
  <2>2. \A s \in ToSet(searchers) : \A p \in segs[s].tomb : <<s, p>> \in overlay.points
    BY <1>1 DEF Shape, ToSet
  <2> QED BY <2>1, <2>2 DEF Steady, SameHistory
<1>4. /\ Shape' /\ Content' /\ After(ReplayFrom)' /\ ReplayFrom' = ReplayFrom
      /\ manifest'.exists => Switched'
      /\ \A i \in DOMAIN searchers : RowsOf(i)' = RowsOf(i)
      /\ \A n : After(n) => After(n)'
  BY <1>3, SteadyShows
<1>5. (SealActive' <=> SealActive) /\ (SealEnding' <=> SealEnding) /\ Sealed' = Sealed
  BY DEF SealActive, SealEnding, Sealed, SealName
<1>6. (Current' => Covered') /\ (Current' /\ SealActive => Guarded')
  BY <1>2, <1>3, SteadyOverlay
<1>7. \A p : LastRecord(p)' = LastRecord(p)
  BY NotLogged
<1>8. SealRows'
  <2>1. seal.pc = "manifest" => Superseded' = Superseded /\ SealOverlay' = SealOverlay /\ published' = published
    BY <1>5 DEF Superseded, SealOverlay, NextGeneration
  <2> QED BY <1>1, <1>4, <1>5, <1>7, <2>1 DEF SealRows
<1>9. Unlisted'
  BY <1>1, <1>5 DEF Unlisted
<1>10. \A s : (Bounded(s)' <=> Bounded(s)) /\ (Fresh(s)' <=> Fresh(s))
  BY DEF Bounded, Fresh, NextGeneration
<1>11. /\ \A s \in ToSet(searchers') \cup ToSet(manifest'.segments) : Bounded(s)'
       /\ ~manifest'.exists => \A s \in DOMAIN segs' : Bounded(s)'
       /\ \A h \in published'.points \cup overlay'.points : Bounded(h[1])'
       /\ SealActive' => Fresh(Sealed)'
  BY <1>1, <1>5, <1>10 DEF Named
<1> QED BY <1>4, <1>5, <1>6, <1>8, <1>9, <1>10, <1>11

-----------------------------------------------------------------------------
(***************************************************************************)
(* The steps of a compaction that change nothing but its own state and the *)
(* published overlay, and the flusher's.                                   *)
(***************************************************************************)
LEMMA FlushOverlayKeeps ==
  ASSUME Inv, FlushOverlay
  PROVE  Inv'
<1>1. /\ published' = overlay
      /\ UNCHANGED <<log, base, segs, manifest, checkpoint, up, streamer, sealing, searchers,
                     id_index, overlay, last_segment, building, seal, compact>>
  BY DEF FlushOverlay, wal, memory, content
<1>2. up /\ ~CompactLocks /\ ~Emptying
      /\ seal.pc \notin {"manifest", "checkpoint", "drop"} /\ ~SealEnding /\ ~Ending
      /\ compact.pc \notin {"advance", "manifest", "migrate", "write", "clear", "install", "rewrite",
                            "overlay", "checkpoint", "cut"}
  <2>1. up /\ ~Locked /\ compact.pc # "lost"
    BY DEF FlushOverlay
  <2> QED BY <2>1 DEF Locked, SealEnding, CompactLocks, Ending, Emptying
<1>3. Types /\ Owners /\ Named /\ Retained /\ Staged /\ Shape
  BY <1>2, LiveParts DEF Inv, Loaded, Emptying
<1>4. /\ Shape' /\ Content' /\ After(ReplayFrom)' /\ (manifest'.exists => Switched') /\ Unlisted' /\ SealRows'
      /\ ReplayFrom' = ReplayFrom
      /\ (Current' => Covered') /\ (Current' /\ SealActive' => Guarded')
      /\ \A s : (Bounded(s)' <=> Bounded(s)) /\ (Fresh(s)' <=> Fresh(s))
      /\ \A s \in ToSet(searchers') \cup ToSet(manifest'.segments) : Bounded(s)'
      /\ ~manifest'.exists => \A s \in DOMAIN segs' : Bounded(s)'
      /\ \A h \in published'.points \cup overlay'.points : Bounded(h[1])'
      /\ SealActive' => Fresh(Sealed)'
      /\ (SealActive' <=> SealActive) /\ (SealEnding' <=> SealEnding)
      /\ \A i \in DOMAIN searchers : RowsOf(i)' = RowsOf(i)
  <2>1. \A h \in overlay.points : Bounded(h[1])
    BY <1>2, <1>3 DEF Named
  <2>2. Still
    BY <1>1, <1>2, <2>1 DEF Still
  <2> QED BY <2>2, StillDisk
<1>5. Types'
  BY <1>1, <1>3 DEF Types, DiskTypes, MemoryTypes, WorkTypes
<1>6. (Merging' <=> Merging) /\ (CompactLocks' <=> CompactLocks) /\ (Ending' <=> Ending)
  BY <1>1 DEF Merging, CompactLocks, Ending, Emptying
<1>7. Owners'
  BY <1>1, <1>3, <1>4, <1>6 DEF Owners, Emptying
<1>8. Named'
  BY <1>1, <1>2, <1>3, <1>4, <1>6 DEF Named, NextGeneration
<1>9. Memory'
  BY <1>4 DEF Memory, Emptying
<1>10. Retained'
  BY <1>1, <1>2, <1>3, <1>4, <1>6 DEF Retained, Emptying
<1>11. Linked'
  BY <1>1, <1>2, <1>4, <1>6 DEF Linked, Finishing, Emptying
<1>12. Staged'
  BY <1>1, <1>2, <1>3, <1>4, <1>6 DEF Staged
<1>13. Rewritten' /\ Down'
  BY <1>1, <1>2 DEF Rewritten, Down, Emptying
<1> QED BY <1>4, <1>5, <1>7, <1>8, <1>9, <1>10, <1>11, <1>12, <1>13 DEF Inv

\* A compaction that gives up staging, or ends.
Idles ==
  /\ compact.pc \in {"stage", "overlay", "checkpoint", "cut", "remove"}
  /\ \/ compact.pc = "stage" /\ compact' = [compact EXCEPT !.pc = "commit"]
     \/ compact.pc # "stage" /\ compact' = NoCompact
  /\ UNCHANGED <<log, base, segs, manifest, published, checkpoint, up, streamer, sealing, searchers,
                 id_index, overlay, last_segment, building, seal>>

LEMMA IdlesKeeps ==
  ASSUME Inv, Idles
  PROVE  Inv'
<1>1. UNCHANGED <<log, base, segs, manifest, published, checkpoint, up, streamer, sealing, searchers,
                  id_index, overlay, last_segment, building, seal>>
  BY DEF Idles
<1>2. Types /\ Owners /\ Named /\ Retained /\ Staged /\ Shape /\ Finishing /\ up /\ ~Merging /\ ~Emptying
  <2>1. Types /\ Owners /\ Named /\ Retained /\ Staged /\ ~Emptying /\ compact.pc # "idle" /\ ~Merging
    BY DEF Inv, Idles, Merging, Emptying
  <2>2. up
    BY <2>1 DEF Owners, NoCompact, Emptying
  <2> QED BY <2>1, <2>2, LiveParts DEF Loaded, Emptying
<1>3. compact \in [pc : CompactPcs, staged : BOOLEAN, name : Names, end : Nat, entries : RowMaps, rows : RowMaps,
                   selected : SUBSET Nat, mark : Nat, segment : BOOLEAN]
  BY <1>2 DEF Types, WorkTypes
<1>4. /\ compact' \in [pc : CompactPcs, staged : BOOLEAN, name : Names, end : Nat, entries : RowMaps, rows : RowMaps,
                       selected : SUBSET Nat, mark : Nat, segment : BOOLEAN]
      /\ compact'.end <= Len(log) /\ compact'.mark <= Len(log)
      /\ (compact'.pc = "commit" /\ compact.pc = "stage") \/ (compact'.pc = "idle" /\ compact' = NoCompact)
      /\ compact'.staged = FALSE
  <2>1. CASE compact.pc = "stage" /\ compact' = [compact EXCEPT !.pc = "commit"]
    <3>1. ~compact.staged
      BY <1>2, <2>1 DEF Owners, Emptying
    <3> QED BY <1>2, <1>3, <2>1, <3>1 DEF CompactPcs, Types, WorkTypes
  <2>2. CASE compact' = NoCompact
    <3>1. Len(log) \in Nat
      BY <1>2 DEF Types, DiskTypes
    <3> QED BY <2>2, <3>1, IdleTypes
  <2> QED BY <2>1, <2>2 DEF Idles
<1>5. /\ Shape' /\ Content' /\ After(ReplayFrom)' /\ (manifest'.exists => Switched') /\ Unlisted' /\ SealRows'
      /\ (Current' => Covered') /\ (Current' /\ SealActive' => Guarded')
      /\ \A s \in ToSet(searchers') \cup ToSet(manifest'.segments) : Bounded(s)'
      /\ ~manifest'.exists => \A s \in DOMAIN segs' : Bounded(s)'
      /\ \A h \in published'.points \cup overlay'.points : Bounded(h[1])'
      /\ SealActive' => Fresh(Sealed)'
      /\ (SealActive' <=> SealActive) /\ (SealEnding' <=> SealEnding)
  <2>1. \A h \in published.points : Bounded(h[1])
    BY <1>2 DEF Named
  <2>2. Still
    BY <1>1, <1>2, <2>1 DEF Still
  <2> QED BY <2>2, StillDisk
<1>6. Types'
  BY <1>1, <1>2, <1>4 DEF Types, DiskTypes, MemoryTypes, WorkTypes, Emptying
<1>7. ~Merging' /\ ~CompactLocks' /\ ~Ending'
  BY <1>4 DEF Merging, CompactLocks, Ending, Emptying
<1>8. Owners'
  BY <1>1, <1>2, <1>4, <1>5, <1>7 DEF Owners, Idles, Emptying
<1>9. Named'
  BY <1>4, <1>5, <1>7 DEF Named
<1>10. Memory'
  BY <1>5 DEF Memory, Emptying
<1>11. Retained'
  BY <1>1, <1>2, <1>4, <1>5, <1>7 DEF Retained, Emptying
<1>12. Linked'
  BY <1>1, <1>2, <1>4, <1>5, <1>7 DEF Linked, Finishing, Emptying
<1>13. Staged' /\ Rewritten' /\ Down'
  BY <1>1, <1>2, <1>4, <1>7 DEF Staged, Rewritten, Down, Emptying
<1> QED BY <1>5, <1>6, <1>8, <1>9, <1>10, <1>11, <1>12, <1>13 DEF Inv

LEMMA IdlesSteps ==
  ASSUME CompactStageNothing \/ CompactRetireFails
  PROVE  Idles
<1>1. CASE CompactStageNothing
  BY <1>1 DEF CompactStageNothing, Idles, wal, disk, memory, content
<1>2. CASE CompactRetireFails
  BY <1>2 DEF CompactRetireFails, Idles, wal, disk, memory, content
<1> QED BY <1>1, <1>2

\* A compaction that holds the lock runs alone.
LEMMA CompactRuns ==
  ASSUME Inv, CompactLocks
  PROVE  /\ up /\ seal.pc = "idle" /\ ~SealActive /\ ~SealEnding /\ manifest.exists /\ sealing.owner # "seal"
         /\ compact.pc # "idle" /\ compact.pc # "stage"
<1>1. Owners /\ compact.pc # "idle" /\ compact.pc # "stage"
  BY DEF Inv, CompactLocks, Emptying
<1>2. up
  BY <1>1 DEF Owners, NoCompact, Emptying
<1>3. seal.pc = "idle"
  BY <1>1 DEF Owners, Emptying
<1> QED BY <1>1, <1>2, <1>3 DEF Owners, SealActive, SealEnding, Emptying

\* A compaction about to take the lock finds no seal.
LEMMA CommitRuns ==
  ASSUME Inv, AtCommit
  PROVE  /\ up /\ compact.pc = "commit" /\ seal.pc = "idle" /\ ~SealActive /\ ~SealEnding /\ ~Ending /\ manifest.exists
         /\ Merging <=> compact.staged
         /\ ~compact.staged => ~building /\ sealing.owner = "none" /\ sealing = NotSealing
         /\ ~Emptying
<1>1. Owners /\ Types /\ compact.pc = "commit" /\ ~Locked /\ (sealing.owner = "none" \/ sealing.owner = "compact")
      /\ (building => compact.staged)
  BY DEF Inv, AtCommit
<1>2. up
  BY <1>1 DEF Owners, NoCompact, Emptying
<1>3. ~SealActive /\ ~SealEnding /\ seal.pc \in SealPcs
  BY <1>1 DEF Owners, Locked, SealEnding, Types, WorkTypes, Emptying
<1>4. seal.pc = "idle"
  BY <1>3 DEF SealActive, SealEnding, SealPcs
<1> QED BY <1>1, <1>2, <1>3, <1>4 DEF Owners, Merging, Ending, Emptying

\* Only the compaction's own state changes, from one point under the lock to another.
Advances ==
  /\ UNCHANGED <<log, base, segs, manifest, checkpoint, up, streamer, sealing, searchers,
                 id_index, overlay, last_segment, building, seal>>
  /\ compact' \in [pc : CompactPcs, staged : {compact.staged}, name : {compact.name}, end : {compact.end},
                   entries : {compact.entries}, rows : {compact.rows}, selected : {compact.selected},
                   mark : {compact.mark, 0}, segment : BOOLEAN]
  /\ \/ /\ AtCommit /\ Unchanged /\ compact'.pc = "checkpoint" /\ published' = published /\ compact'.mark = 0
     \/ /\ compact.pc = "overlay" /\ compact'.pc = "checkpoint" /\ published' = overlay /\ compact'.mark = compact.mark
     \/ /\ compact.pc = "advance" /\ compact'.pc = "manifest" /\ published' = MergedOverlay /\ compact'.mark = compact.mark

LEMMA MergedOverlayIs ==
  ASSUME Inv, compact.pc \in {"advance", "manifest"}
  PROVE  /\ MergedOverlay \in [generation : Nat, points : SUBSET (Names \X Points)]
         /\ MergedOverlay.generation = manifest.generation + 1 /\ MergedOverlay.generation # manifest.generation
         /\ \A h : h \in MergedOverlay.points <=>
              \/ h \in overlay.points /\ \E i \in Kept : searchers[i] = h[1]
              \/ \E p \in Moved : h = <<compact.name, p>>
         /\ Bounded(compact.name) /\ Moved \subseteq Points
         /\ compact.name = MergeName(compact.end, NextGeneration) /\ compact.name \in Names /\ compact.end < Len(log)
         /\ Fresh(compact.name) /\ Merging /\ compact.staged /\ compact.name[3] = manifest.generation + 1
<1>1. Types /\ Owners /\ Named
  BY DEF Inv
<1>2. Merging /\ compact.staged
  BY <1>1 DEF Owners, Merging, Emptying
<1>3. manifest.generation \in Nat /\ compact.end \in Nat /\ compact.entries \in RowMaps /\ overlay.points \subseteq Names \X Points
      /\ compact.name \in Names
  BY <1>1 DEF Types, DiskTypes, MemoryTypes, WorkTypes
<1>4. compact.name = MergeName(compact.end, NextGeneration) /\ compact.end < Len(log) /\ Fresh(compact.name)
  BY <1>1, <1>2 DEF Named
<1>5. compact.name[3] = manifest.generation + 1 /\ Bounded(compact.name)
  BY <1>4 DEF MergeName, NextGeneration, Bounded
<1>6. Moved \subseteq Points
  <2>1. DOMAIN compact.entries \subseteq Points
    BY <1>3, RowsAre DEF IsRows
  <2> QED BY <2>1 DEF Moved
<1> DEFINE P == {h \in overlay.points : \E i \in Kept : searchers[i] = h[1]} \cup Hide(compact.name, Moved)
<1>7. MergedOverlay = [generation |-> compact.name[3], points |-> P]
  BY DEF MergedOverlay
<1>8. \A h : h \in P <=> \/ h \in overlay.points /\ \E i \in Kept : searchers[i] = h[1]
                         \/ \E p \in Moved : h = <<compact.name, p>>
  BY DEF Hide
<1> HIDE DEF P
<1>9. P \in SUBSET (Names \X Points)
  BY <1>3, <1>6, <1>8
<1>10. MergedOverlay.generation = manifest.generation + 1 /\ MergedOverlay.points = P
  BY <1>5, <1>7
<1>11. MergedOverlay \in [generation : Nat, points : SUBSET (Names \X Points)]
  BY <1>3, <1>5, <1>7, <1>9
<1> QED BY <1>2, <1>3, <1>4, <1>5, <1>6, <1>8, <1>10, <1>11

\* What is left in memory when a compaction finds nothing to do.
LEMMA NothingInMemory ==
  ASSUME Inv, AtCommit, Unchanged
  PROVE  \A n : After(n)
<1>1. streamer = NoRows /\ ~compact.staged
  BY DEF Unchanged
<1>2. sealing.owner = "none" /\ up /\ ~Emptying
  BY <1>1, CommitRuns
<1>3. Content
  BY <1>2, LiveParts DEF Loaded, Emptying
<1>4. \A p : p \notin DOMAIN streamer
  BY <1>1, EmptyRows
<1>5. \A p \in Points : ~InMemory(p)
  BY <1>2, <1>3, <1>4 DEF Content, InMemory
<1> QED BY <1>5 DEF After

LEMMA AdvancesKeeps ==
  ASSUME Inv, Advances
  PROVE  Inv'
<1>1. UNCHANGED <<log, base, segs, manifest, checkpoint, up, streamer, sealing, searchers,
                  id_index, overlay, last_segment, building, seal>>
  BY DEF Advances
<1>2. /\ up /\ seal.pc = "idle" /\ ~SealActive /\ ~SealEnding /\ manifest.exists /\ compact.pc # "idle" /\ ~Emptying
      /\ compact.pc \in {"commit", "overlay", "advance"}
  <2>1. CASE AtCommit
    BY <2>1, CommitRuns
  <2>2. CASE compact.pc \in {"overlay", "advance"}
    BY <2>2, CompactRuns DEF CompactLocks, Emptying
  <2> QED BY <2>1, <2>2 DEF Advances
<1>3. Types /\ Owners /\ Named /\ Retained /\ Staged /\ Shape /\ Finishing /\ Switched
  BY <1>2, LiveParts DEF Inv, Loaded, Emptying
<1>4. /\ compact'.pc \in CompactPcs /\ compact'.staged = compact.staged /\ compact'.name = compact.name
      /\ compact'.end = compact.end /\ compact'.entries = compact.entries /\ compact'.rows = compact.rows
      /\ compact'.selected = compact.selected /\ compact'.mark \in {compact.mark, 0}
      /\ compact'.pc \in {"checkpoint", "manifest"}
  BY DEF Advances
<1>5. compact' \in [pc : CompactPcs, staged : BOOLEAN, name : Names, end : Nat, entries : RowMaps, rows : RowMaps,
                    selected : SUBSET Nat, mark : Nat, segment : BOOLEAN]
      /\ compact'.end <= Len(log) /\ compact'.mark <= Len(log)
  <2>1. compact \in [pc : CompactPcs, staged : BOOLEAN, name : Names, end : Nat, entries : RowMaps, rows : RowMaps,
                     selected : SUBSET Nat, mark : Nat, segment : BOOLEAN]
        /\ compact.end <= Len(log) /\ compact.mark <= Len(log) /\ Len(log) \in Nat
    BY <1>3 DEF Types, WorkTypes, DiskTypes
  <2>2. compact' \in [pc : CompactPcs, staged : {compact.staged}, name : {compact.name}, end : {compact.end},
                   entries : {compact.entries}, rows : {compact.rows}, selected : {compact.selected},
                   mark : {compact.mark, 0}, segment : BOOLEAN]
    BY DEF Advances
  <2>3. /\ compact.staged \in BOOLEAN /\ compact.name \in Names /\ compact.end \in Nat /\ compact.entries \in RowMaps
        /\ compact.rows \in RowMaps /\ compact.selected \in SUBSET Nat /\ compact.mark \in Nat
    BY <2>1
  <2> QED BY <1>4, <2>1, <2>2, <2>3
<1>6. /\ published' \in [generation : Nat, points : SUBSET (Names \X Points)]
      /\ \A h \in published'.points : Bounded(h[1])
      /\ (published' = published \/ published' = overlay \/ published'.generation # manifest.generation)
      /\ \A h \in published'.points : h[1] \in ToSet(manifest.segments) => h \in published.points \cup overlay.points
  <2>1. published \in [generation : Nat, points : SUBSET (Names \X Points)]
        /\ overlay \in [generation : Nat, points : SUBSET (Names \X Points)]
        /\ \A h \in published.points \cup overlay.points : Bounded(h[1])
    BY <1>2, <1>3 DEF Types, DiskTypes, MemoryTypes, Named
  <2>2. CASE compact.pc = "advance"
    <3>1. compact.name \notin ToSet(manifest.segments) /\ published' = MergedOverlay
      BY <2>2, MergedOverlayIs DEF Advances, AtCommit, Fresh
    <3> QED BY <2>1, <2>2, <3>1, MergedOverlayIs
  <2>3. CASE compact.pc # "advance"
    BY <2>1, <2>3 DEF Advances
  <2> QED BY <2>2, <2>3
<1>7. /\ Shape' /\ Content' /\ After(ReplayFrom)' /\ (manifest'.exists => Switched') /\ Unlisted' /\ SealRows'
      /\ (Current' => Covered') /\ (Current' /\ SealActive' => Guarded')
      /\ \A n : After(n) => After(n)'
      /\ \A s : (Bounded(s)' <=> Bounded(s)) /\ (Fresh(s)' <=> Fresh(s))
      /\ \A s \in ToSet(searchers') \cup ToSet(manifest'.segments) : Bounded(s)'
      /\ ~manifest'.exists => \A s \in DOMAIN segs' : Bounded(s)'
      /\ \A h \in published'.points \cup overlay'.points : Bounded(h[1])'
      /\ (SealActive' <=> SealActive) /\ (SealEnding' <=> SealEnding)
      /\ \A i \in DOMAIN searchers : RowsOf(i)' = RowsOf(i)
  <2>1. Still
    BY <1>1, <1>2, <1>6 DEF Still
  <2> QED BY <2>1, StillDisk
<1>8. Types'
  BY <1>1, <1>2, <1>3, <1>5, <1>6 DEF Types, DiskTypes, MemoryTypes, WorkTypes
<1>9. (Merging' <=> compact'.pc = "manifest" /\ compact.staged) /\ CompactLocks' /\ (Ending' <=> compact'.pc = "checkpoint")
  BY <1>4 DEF Merging, CompactLocks, Ending, Emptying
<1>10. compact'.pc = "manifest" => compact.pc = "advance" /\ Merging /\ published' = MergedOverlay /\ compact.staged
                                   /\ compact'.mark = compact.mark
  BY MergedOverlayIs DEF Advances
<1>11. Owners'
  <2>1. compact'.pc = "manifest" => compact.staged
    BY <1>10
  <2> QED BY <1>1, <1>2, <1>3, <1>4, <1>7, <1>9, <1>10 DEF Owners, Emptying
<1>12. Named'
  <2>1. compact'.pc = "manifest" => /\ Fresh(compact.name) /\ compact.name = MergeName(compact.end, NextGeneration)
                                    /\ compact.end < Len(log)
    BY <1>10, MergedOverlayIs
  <2>2. NextGeneration' = NextGeneration /\ \A g : MergeName(compact'.end, g) = MergeName(compact.end, g)
    BY <1>1, <1>4 DEF NextGeneration, MergeName
  <2> QED BY <1>1, <1>2, <1>4, <1>7, <1>9, <2>1, <2>2 DEF Named
<1>13. Memory'
  BY <1>7 DEF Memory, Emptying
<1>14. compact'.pc = "checkpoint" =>
         /\ After(CutTo)' /\ (published' = overlay \/ base = Len(log))
         /\ ToSet(manifest.segments) = ToSet(searchers) /\ overlay.generation = manifest.generation
  <2> SUFFICES ASSUME compact'.pc = "checkpoint"
               PROVE  /\ After(CutTo)' /\ (published' = overlay \/ base = Len(log))
                      /\ ToSet(manifest.segments) = ToSet(searchers) /\ overlay.generation = manifest.generation
    OBVIOUS
  <2>1. CASE compact.pc = "overlay" /\ published' = overlay /\ compact'.mark = compact.mark
    <3>1. CutTo' = CutTo
      BY <1>1, <2>1 DEF CutTo
    <3>2. After(CutTo)
      BY <1>2, <1>3, <2>1 DEF Retained, Emptying
    <3>3. After(CutTo)'
      BY <1>7, <3>1, <3>2
    <3> QED BY <1>3, <2>1, <3>3 DEF Finishing, Ending
  <2>2. CASE AtCommit /\ Unchanged
    <3>1. \A n : After(n)'
      BY <1>7, <2>2, NothingInMemory
    <3>2. base = Len(log) /\ Len(log) \in Nat
      BY <1>3, <2>2 DEF Unchanged, Types, DiskTypes
    <3> QED BY <1>3, <3>1, <3>2 DEF Switched, Behind
  <2> QED BY <2>1, <2>2 DEF Advances
<1>15. Retained'
  <2>1. Merging' => Merging
    BY <1>9, <1>10
  <2>2. compact'.pc = "manifest" => /\ compact.mark = (IF Len(log) > compact.end + 1 THEN compact.end ELSE 0)
                                     /\ log[Len(log)] = CompactRecord
    BY <1>2, <1>3, <1>10 DEF Retained, Emptying
  <2>3. Merging => compact.end > 0 /\ \A p \in DOMAIN streamer : streamer[p] > compact.end
    BY <1>2, <1>3 DEF Retained, Emptying
  <2> QED BY <1>1, <1>2, <1>4, <1>7, <1>10, <1>14, <2>1, <2>2, <2>3 DEF Retained, Emptying
<1>16. Linked'
  <2>1. Finishing'
    BY <1>1, <1>2, <1>4, <1>7, <1>9, <1>14 DEF Finishing
  <2> QED BY <1>2, <1>7, <2>1 DEF Linked, Emptying
<1>17. Staged'
  <2> SUFFICES ASSUME compact'.pc = "manifest" PROVE Staged'
    BY <1>9 DEF Staged
  <2>1. compact.pc = "advance" /\ Merging /\ published' = MergedOverlay
    BY <1>10
  <2>2. Kept' = Kept /\ Moved' = Moved /\ MergedOverlay' = MergedOverlay
    BY <1>1, <1>4 DEF Kept, Moved, MergedOverlay
  <2>3. Staged
    BY <1>3
  <2> QED BY <1>1, <1>2, <1>4, <1>7, <2>1, <2>2, <2>3 DEF Staged
<1>18. Rewritten' /\ Down'
  BY <1>1, <1>2, <1>4 DEF Rewritten, Down, Emptying
<1> QED BY <1>7, <1>8, <1>11, <1>12, <1>13, <1>15, <1>16, <1>17, <1>18 DEF Inv

LEMMA AdvancesSteps ==
  ASSUME Inv, CompactUnchanged \/ CompactOverlay \/ CompactAdvance
  PROVE  Advances
<1>1. compact \in [pc : CompactPcs, staged : BOOLEAN, name : Names, end : Nat, entries : RowMaps, rows : RowMaps,
                   selected : SUBSET Nat, mark : Nat, segment : BOOLEAN]
  BY DEF Inv, Types, WorkTypes
<1>2. {"checkpoint", "manifest"} \subseteq CompactPcs
  BY DEF CompactPcs
<1>3. CASE CompactUnchanged
  <2>1. compact' = [compact EXCEPT !.pc = "checkpoint", !.mark = 0, !.segment = TRUE]
    BY <1>3 DEF CompactUnchanged
  <2> QED BY <1>1, <1>2, <1>3, <2>1 DEF CompactUnchanged, Advances, wal, disk, memory, content
<1>4. CASE CompactOverlay
  <2>1. compact' = [compact EXCEPT !.pc = "checkpoint"]
    BY <1>4 DEF CompactOverlay
  <2> QED BY <1>1, <1>2, <1>4, <2>1 DEF CompactOverlay, Advances, wal, memory, content
<1>5. CASE CompactAdvance
  <2>1. compact' = [compact EXCEPT !.pc = "manifest"]
    BY <1>5 DEF CompactAdvance
  <2> QED BY <1>1, <1>2, <1>5, <2>1 DEF CompactAdvance, Advances, wal, memory, content
<1> QED BY <1>3, <1>4, <1>5

-----------------------------------------------------------------------------
(***************************************************************************)
(* The steps that move what a replay starts from.                          *)
(***************************************************************************)
LEMMA ReplayFromNext ==
  ASSUME Types'
  PROVE  /\ ReplayFrom' \in Nat /\ base' \in Nat /\ checkpoint'.watermark \in Nat
         /\ base' <= ReplayFrom' /\ checkpoint'.watermark <= ReplayFrom'
         /\ ReplayFrom' = base' \/ ReplayFrom' = checkpoint'.watermark
<1>1. base' \in Nat /\ checkpoint'.watermark \in Nat
  BY DEF Types, DiskTypes
<1>2. ReplayFrom' = IF base' >= checkpoint'.watermark THEN base' ELSE checkpoint'.watermark
  BY <1>1, PairMax DEF ReplayFrom
<1> QED BY <1>1, <1>2

Moves ==
  /\ up /\ ~Emptying /\ ~SealActive
  /\ UNCHANGED <<log, segs, manifest, published, up, streamer, sealing, searchers, id_index, overlay, building>>
  /\ Types'
  /\ ToSet(manifest.segments) = ToSet(searchers) /\ overlay.generation = manifest.generation
  /\ After(base') /\ After(checkpoint'.watermark)
  /\ published = overlay \/ ReplayFrom' <= ReplayFrom

LEMMA MovesDisk ==
  ASSUME Inv, Moves
  PROVE  /\ Shape' /\ Content' /\ After(ReplayFrom)' /\ Switched' /\ (Current' => Covered')
         /\ (~SealActive' => Unlisted')
         /\ \A n : After(n) => After(n)'
         /\ \A s : (Bounded(s)' <=> Bounded(s)) /\ (Fresh(s)' <=> Fresh(s))
         /\ \A i \in DOMAIN searchers : RowsOf(i)' = RowsOf(i)
<1>1. /\ Types /\ Shape /\ Content /\ (Current => Covered) /\ Unlisted
  BY LiveParts DEF Inv, Moves, Loaded, Emptying
<1>2. UNCHANGED <<log, segs, manifest, published, up, streamer, sealing, searchers, id_index, overlay>>
  BY DEF Moves
<1>3. \A p : LastRecord(p)' = LastRecord(p) /\ Latest(p)' = Latest(p)
  BY <1>2, NotLogged
<1>4. \A i : RowsOf(i)' = RowsOf(i)
  BY <1>2 DEF RowsOf
<1>5. Shape'
  BY <1>1, <1>2 DEF Shape
<1>6. \A i, p : Shown(i, p)' <=> Shown(i, p)
  BY <1>2, <1>4 DEF Shown
<1>7. Content'
  BY <1>1, <1>2, <1>3, <1>4, <1>6 DEF Content
<1>8. \A n : After(n) => After(n)'
  BY <1>2, <1>3 DEF After, InMemory
<1>9. After(ReplayFrom)'
  <2>1. ReplayFrom' = base' \/ ReplayFrom' = checkpoint'.watermark
    BY ReplayFromNext DEF Moves
  <2>2. \A n : After(n) => \A p \in Points : InMemory(p)' => Latest(p)' > n
    BY <1>2, <1>3 DEF After, InMemory
  <2>3. After(base') /\ After(checkpoint'.watermark)
    BY DEF Moves
  <2> QED BY <2>1, <2>2, <2>3 DEF After
<1>10. Switched'
  BY <1>2 DEF Switched, Moves
<1>11. Current' => Covered'
  <2>1. Installed' = Installed /\ (Current' <=> Current) /\ \A s, p : Row(s, p)' <=> Row(s, p)
    BY <1>2 DEF Installed, Current, Row
  <2>2. ReplayFrom \in Nat /\ ReplayFrom' \in Nat /\ \A p : LastRecord(p) \in Nat
    BY <1>1, ReplayFromIs, ReplayFromNext, LastRecordIs DEF Moves, Types, DiskTypes
  <2>3. Current => \A h \in overlay.points :
          h[1] \in Installed => h \in published.points \/ LastRecord(h[2]) > ReplayFrom'
    BY <1>1, <2>2 DEF Covered, Moves
  <2> QED BY <1>1, <1>2, <1>3, <2>1, <2>3 DEF Covered
<1>12. ~SealActive' => Unlisted'
  BY <1>1, <1>2 DEF Unlisted, Moves
<1>13. \A s : (Bounded(s)' <=> Bounded(s)) /\ (Fresh(s)' <=> Fresh(s))
  BY <1>2 DEF Bounded, Fresh, NextGeneration
<1> QED BY <1>4, <1>5, <1>7, <1>8, <1>9, <1>10, <1>11, <1>12, <1>13

\* The end of a seal.
Retires ==
  /\ SealEnding
  /\ UNCHANGED <<log, segs, manifest, published, up, streamer, sealing, searchers, id_index, overlay,
                 last_segment, building, compact>>
  /\ base' \in {base, seal.end}
  /\ checkpoint' \in {checkpoint, [watermark |-> seal.end, segment |-> TRUE]}
  /\ seal' \in {NoSeal, [pc |-> "drop", end |-> seal.end]}

LEMMA RetiresKeeps ==
  ASSUME Inv, Retires
  PROVE  Inv'
<1>1. UNCHANGED <<log, segs, manifest, published, up, streamer, sealing, searchers, id_index, overlay,
                  last_segment, building, compact>>
  BY DEF Retires
<1>2. /\ up /\ ~CompactLocks /\ ~Emptying /\ compact.pc # "empty" /\ ~Ending
      /\ compact.pc \notin {"advance", "manifest", "migrate", "write", "clear", "install", "rewrite",
                            "overlay", "checkpoint", "cut", "remove"}
      /\ ~SealActive /\ seal.pc # "idle"
  BY SealRuns DEF Retires, SealEnding, SealActive, CompactLocks
<1>3. /\ Types /\ Owners /\ Named /\ Retained /\ Staged /\ Shape /\ Content /\ Finishing /\ After(ReplayFrom)
  BY <1>2, LiveParts DEF Inv, Loaded, Emptying
<1>4. seal' \in [pc : SealPcs, end : Nat] /\ seal'.end <= Len(log) /\ ~SealActive' /\ (SealEnding' => seal'.end = seal.end)
  <2>1. seal.end \in Nat /\ seal.end <= Len(log) /\ Len(log) \in Nat
    BY <1>3 DEF Types, WorkTypes, DiskTypes
  <2>2. CASE seal' = NoSeal
    BY <2>1, <2>2, IdleTypes DEF SealActive, SealEnding
  <2>3. CASE seal' = [pc |-> "drop", end |-> seal.end]
    BY <2>1, <2>3 DEF SealActive, SealEnding, SealPcs
  <2> QED BY <2>2, <2>3 DEF Retires
<1>5. Types'
  <2>1. seal.end \in Nat /\ seal.end <= Len(log) /\ base \in Nat /\ base <= Len(log)
        /\ checkpoint \in [watermark : Nat, segment : BOOLEAN] /\ checkpoint.watermark <= Len(log)
    BY <1>3 DEF Types, DiskTypes, WorkTypes
  <2>2. base' \in Nat /\ base' <= Len(log)
    BY <2>1 DEF Retires
  <2>3. checkpoint' \in [watermark : Nat, segment : BOOLEAN] /\ checkpoint'.watermark <= Len(log)
    <3>1. CASE checkpoint' = checkpoint
      BY <2>1, <3>1
    <3>2. CASE checkpoint' = [watermark |-> seal.end, segment |-> TRUE]
      BY <2>1, <3>2
    <3> QED BY <3>1, <3>2 DEF Retires
  <2> QED BY <1>1, <1>3, <1>4, <2>2, <2>3 DEF Types, DiskTypes, MemoryTypes, WorkTypes
<1>6. After(base) /\ After(checkpoint.watermark) /\ After(seal.end)
  <2>1. ReplayFrom \in Nat /\ base <= ReplayFrom /\ checkpoint.watermark <= ReplayFrom /\ base \in Nat /\ checkpoint.watermark \in Nat
        /\ log \in Seq(Records)
    BY <1>3, ReplayFromIs DEF Types, DiskTypes
  <2>2. \A p \in Points : Latest(p) \in Nat
    BY <2>1, LatestIs
  <2>3. After(base) /\ After(checkpoint.watermark)
    BY <1>3, <2>1, <2>2 DEF After
  <2>4. sealing.owner = "none" /\ \A p \in DOMAIN streamer : streamer[p] > seal.end
    BY <1>2, <1>3 DEF Retained, Retires, Emptying
  <2>5. \A p \in Points : InMemory(p) => Latest(p) > seal.end
    BY <1>3, <2>4 DEF InMemory, Content
  <2> QED BY <2>3, <2>5 DEF After
<1>7. Moves
  <2>1. /\ ToSet(manifest.segments) = ToSet(searchers) /\ overlay.generation = manifest.generation /\ published = overlay
    BY <1>3 DEF Finishing, Retires
  <2>2. After(base') /\ After(checkpoint'.watermark)
    <3>1. checkpoint'.watermark = checkpoint.watermark \/ checkpoint'.watermark = seal.end
      BY DEF Retires
    <3> QED BY <1>6, <3>1 DEF Retires
  <2> QED BY <1>1, <1>2, <1>5, <2>1, <2>2 DEF Moves
<1>8. /\ Shape' /\ Content' /\ After(ReplayFrom)' /\ Switched' /\ (Current' => Covered') /\ (~SealActive' => Unlisted')
      /\ \A s : (Bounded(s)' <=> Bounded(s)) /\ (Fresh(s)' <=> Fresh(s))
      /\ \A i \in DOMAIN searchers : RowsOf(i)' = RowsOf(i)
  BY <1>7, MovesDisk
<1>9. (Merging' <=> Merging) /\ (CompactLocks' <=> CompactLocks) /\ (Ending' <=> Ending)
  BY <1>1 DEF Merging, CompactLocks, Ending, Emptying
<1>10. ~building /\ ~Merging /\ sealing.owner = "none"
  BY <1>2, <1>3 DEF Owners, Retires, Retained, Emptying
<1>11. Owners'
  BY <1>1, <1>2, <1>3, <1>4, <1>9, <1>10 DEF Owners, Emptying
<1>12. Named'
  BY <1>1, <1>2, <1>3, <1>4, <1>8, <1>9, <1>10 DEF Named
<1>13. Memory'
  BY <1>8 DEF Memory, Emptying
<1>14. Retained'
  BY <1>1, <1>2, <1>3, <1>4, <1>8, <1>9, <1>10 DEF Retained, Retires, Emptying
<1>15. SealRows'
  BY <1>4 DEF SealRows
<1>16. Linked'
  <2>1. Finishing'
    BY <1>1, <1>2, <1>3, <1>9 DEF Finishing, Retires
  <2> QED BY <1>4, <1>8, <2>1 DEF Linked, Emptying
<1>17. Staged' /\ Rewritten' /\ Down'
  BY <1>1, <1>2, <1>9, <1>10 DEF Staged, Rewritten, Down, Emptying
<1> QED BY <1>5, <1>11, <1>12, <1>13, <1>14, <1>15, <1>16, <1>17 DEF Inv

LEMMA RetiresSteps ==
  ASSUME Inv, SealCheckpoint \/ SealDrop \/ SealRetireFails
  PROVE  Retires
<1>1. seal \in [pc : SealPcs, end : Nat]
  BY DEF Inv, Types, WorkTypes
<1>2. CASE SealCheckpoint
  <2>1. seal' = [pc |-> "drop", end |-> seal.end]
    BY <1>1, <1>2 DEF SealCheckpoint
  <2> QED BY <1>2, <2>1 DEF SealCheckpoint, SealMark, Retires, SealEnding, wal, memory, content
<1>3. CASE SealDrop
  BY <1>3 DEF SealDrop, SealMark, Retires, SealEnding, disk, memory, content
<1>4. CASE SealRetireFails
  BY <1>4 DEF SealRetireFails, SealMark, Retires, SealEnding, wal, memory, content
<1> QED BY <1>2, <1>3, <1>4

\* The end of a compaction: its checkpoint, and the WAL it drops.
Cuts ==
  /\ compact.pc \in {"checkpoint", "cut"} /\ last_segment' \in BOOLEAN
  /\ UNCHANGED <<log, segs, manifest, published, up, streamer, sealing, searchers, id_index, overlay,
                 building, seal>>
  /\ \/ /\ compact.pc = "checkpoint" /\ compact' = [compact EXCEPT !.pc = "cut"] /\ base' = base
        /\ checkpoint' = [watermark |-> compact.mark, segment |-> compact.segment]
     \/ /\ compact.pc = "cut" /\ compact' = [compact EXCEPT !.pc = "remove"] /\ base' = CutTo
        /\ checkpoint' = checkpoint

LEMMA CutsKeeps ==
  ASSUME Inv, Cuts
  PROVE  Inv'
<1>1. last_segment' \in BOOLEAN
      /\ UNCHANGED <<log, segs, manifest, published, up, streamer, sealing, searchers, id_index, overlay,
                     building, seal>>
  BY DEF Cuts
<1>2. /\ up /\ seal.pc = "idle" /\ ~SealActive /\ ~SealEnding /\ manifest.exists /\ Ending /\ ~Merging
      /\ ~Emptying /\ compact.pc \in {"checkpoint", "cut"}
  BY CompactRuns DEF CompactLocks, Cuts, Ending, Merging, Emptying
<1>3. /\ Types /\ Owners /\ Named /\ Retained /\ Shape /\ Content /\ Finishing /\ After(ReplayFrom)
  BY <1>2, LiveParts DEF Inv, Loaded, Emptying
<1>4. compact \in [pc : CompactPcs, staged : BOOLEAN, name : Names, end : Nat, entries : RowMaps, rows : RowMaps,
                   selected : SUBSET Nat, mark : Nat, segment : BOOLEAN]
      /\ compact.end <= Len(log) /\ compact.mark <= Len(log) /\ Len(log) \in Nat /\ compact.mark \in Nat
      /\ compact.segment \in BOOLEAN /\ base \in Nat /\ base <= Len(log)
      /\ checkpoint \in [watermark : Nat, segment : BOOLEAN] /\ checkpoint.watermark <= Len(log)
  BY <1>3 DEF Types, WorkTypes, DiskTypes
<1>5. /\ compact' \in [pc : CompactPcs, staged : BOOLEAN, name : Names, end : Nat, entries : RowMaps, rows : RowMaps,
                       selected : SUBSET Nat, mark : Nat, segment : BOOLEAN]
      /\ compact'.end = compact.end /\ compact'.mark = compact.mark
      /\ (compact.pc = "checkpoint" /\ compact'.pc = "cut") \/ (compact.pc = "cut" /\ compact'.pc = "remove")
  <2>1. {"cut", "remove"} \subseteq CompactPcs
    BY DEF CompactPcs
  <2> QED BY <1>4, <2>1 DEF Cuts
<1>6. CutTo \in Nat /\ CutTo <= Len(log) /\ CutTo' = CutTo /\ (compact.mark = 0 \/ compact.mark = CutTo)
  BY <1>1, <1>4, <1>5 DEF CutTo
<1>7. Types'
  <2>1. base' \in Nat /\ base' <= Len(log)
    BY <1>4, <1>6 DEF Cuts
  <2>2. checkpoint' \in [watermark : Nat, segment : BOOLEAN] /\ checkpoint'.watermark <= Len(log)
    <3>1. CASE checkpoint' = checkpoint
      BY <1>4, <3>1
    <3>2. CASE checkpoint' = [watermark |-> compact.mark, segment |-> compact.segment]
      BY <1>4, <3>2
    <3> QED BY <3>1, <3>2 DEF Cuts
  <2> QED BY <1>1, <1>2, <1>3, <1>4, <1>5, <2>1, <2>2 DEF Types, DiskTypes, MemoryTypes, WorkTypes, Emptying
<1>8. After(base) /\ After(checkpoint.watermark) /\ After(CutTo) /\ After(compact.mark)
  <2>1. ReplayFrom \in Nat /\ base <= ReplayFrom /\ checkpoint.watermark <= ReplayFrom /\ base \in Nat /\ checkpoint.watermark \in Nat
        /\ log \in Seq(Records)
    BY <1>3, ReplayFromIs DEF Types, DiskTypes
  <2>2. \A p \in Points : Latest(p) \in Nat
    BY <2>1, LatestIs
  <2>3. After(base) /\ After(checkpoint.watermark)
    BY <1>3, <2>1, <2>2 DEF After
  <2>4. After(CutTo)
    BY <1>2, <1>3 DEF Retained, Emptying
  <2>5. \A p \in Points : InMemory(p) => Latest(p) > 0
    BY <1>3, <2>2 DEF InMemory, Content
  <2>6. After(0)
    BY <2>5 DEF After
  <2> QED BY <1>6, <2>3, <2>4, <2>6
<1>9. Moves
  <2>1. /\ ToSet(manifest.segments) = ToSet(searchers) /\ overlay.generation = manifest.generation
        /\ published = overlay \/ base = Len(log)
    BY <1>2, <1>3 DEF Finishing
  <2>2. After(base') /\ After(checkpoint'.watermark)
    BY <1>8 DEF Cuts
  <2>3. ASSUME base = Len(log) PROVE ReplayFrom' <= ReplayFrom
    <3>1. ReplayFrom' \in Nat /\ (ReplayFrom' = base' \/ ReplayFrom' = checkpoint'.watermark)
      BY <1>7, ReplayFromNext
    <3>2. base' <= Len(log) /\ checkpoint'.watermark <= Len(log)
      BY <1>1, <1>7 DEF Types, DiskTypes
    <3>3. base <= ReplayFrom /\ ReplayFrom \in Nat
      BY <1>3, ReplayFromIs
    <3> QED BY <1>4, <2>3, <3>1, <3>2, <3>3
  <2> QED BY <1>1, <1>2, <1>7, <2>1, <2>2, <2>3 DEF Moves
<1>10. /\ Shape' /\ Content' /\ After(ReplayFrom)' /\ Switched' /\ (Current' => Covered') /\ (~SealActive' => Unlisted')
       /\ \A s : (Bounded(s)' <=> Bounded(s)) /\ (Fresh(s)' <=> Fresh(s))
       /\ \A n : After(n) => After(n)'
  BY <1>9, MovesDisk
<1>11. ~Merging' /\ CompactLocks' /\ Ending' /\ ~SealActive' /\ ~SealEnding'
  BY <1>1, <1>2, <1>5 DEF Merging, CompactLocks, Ending, SealActive, SealEnding, Emptying
<1>12. Owners'
  BY <1>1, <1>2, <1>3, <1>5, <1>11 DEF Owners, Emptying
<1>13. Named'
  BY <1>1, <1>3, <1>5, <1>10, <1>11 DEF Named
<1>14. Memory'
  BY <1>10 DEF Memory, Emptying
<1>15. Retained'
  <2>1. After(CutTo)'
    BY <1>6, <1>8, <1>10
  <2> QED BY <1>5, <1>10, <1>11, <2>1 DEF Retained, Emptying
<1>16. SealRows'
  BY <1>11 DEF SealRows
<1>17. Linked'
  <2>1. Finishing'
    BY <1>1, <1>2, <1>3, <1>5, <1>11 DEF Finishing, Cuts
  <2> QED BY <1>10, <1>11, <2>1 DEF Linked, Emptying
<1>18. Staged' /\ Rewritten' /\ Down'
  BY <1>1, <1>2, <1>5, <1>11 DEF Staged, Rewritten, Down, Emptying
<1> QED BY <1>7, <1>12, <1>13, <1>14, <1>15, <1>16, <1>17, <1>18 DEF Inv

LEMMA CutsSteps ==
  ASSUME Inv, CompactCheckpoint \/ CompactCut
  PROVE  Cuts
<1>1. CASE CompactCheckpoint
  <2>1. compact.segment \in BOOLEAN
    BY DEF Inv, Types, WorkTypes
  <2> QED BY <1>1, <2>1 DEF CompactCheckpoint, Cuts, wal, content
<1>2. CASE CompactCut
  <2>1. last_segment \in BOOLEAN
    BY DEF Inv, Types, MemoryTypes
  <2> QED BY <1>2, <2>1 DEF CompactCut, Cuts, CutTo, disk, memory, content
<1> QED BY <1>1, <1>2

-----------------------------------------------------------------------------
(***************************************************************************)
(* The steps of a compaction that write segments and leave memory alone.   *)
(***************************************************************************)
CompactTypes ==
  [pc : CompactPcs, staged : BOOLEAN, name : Names, end : Nat, entries : RowMaps, rows : RowMaps,
   selected : SUBSET Nat, mark : Nat, segment : BOOLEAN]
SegmentTypes == [rows : RowMaps, tomb : SUBSET Points]

Works ==
  /\ Steady /\ manifest.exists /\ seal.pc = "idle"
  /\ UNCHANGED <<seal, published, building, last_segment>>
  /\ segs' \in [DOMAIN segs' -> SegmentTypes] /\ DOMAIN segs' \subseteq Names
  /\ compact' \in CompactTypes /\ compact'.end <= Len(log') /\ compact'.mark <= Len(log')
  /\ compact'.pc \in {"idle", "commit", "advance", "empty", "migrate"}

LEMMA WorksDisk ==
  ASSUME Inv, Works
  PROVE  /\ Types' /\ Shape' /\ Content' /\ After(ReplayFrom)' /\ Switched' /\ Unlisted' /\ SealRows' /\ Memory' /\ Down'
         /\ Current' => Covered'
         /\ ~SealActive /\ ~SealEnding /\ ~SealActive' /\ ~SealEnding'
         /\ \A s : Fresh(s)' <=> Fresh(s)
         /\ \A i \in DOMAIN searchers : RowsOf(i)' = RowsOf(i)
         /\ \A n : After(n) => After(n)'
         /\ UNCHANGED <<up, base, checkpoint, manifest, overlay, streamer, sealing, searchers, id_index>>
         /\ up /\ manifest.exists /\ seal.pc = "idle" /\ seal'.pc = "idle" /\ published' = published /\ building' = building
         /\ \A s \in ToSet(searchers') \cup ToSet(manifest'.segments) : Bounded(s)'
         /\ \A h \in published'.points \cup overlay'.points : Bounded(h[1])'
         /\ Types /\ Owners /\ Named /\ Retained /\ Staged /\ Finishing /\ Shape
<1>1. UNCHANGED <<up, base, checkpoint, manifest, overlay, streamer, sealing, searchers, id_index, seal, published, building,
                  last_segment>> /\ up /\ seal.pc = "idle" /\ ~Emptying /\ manifest.exists
  BY DEF Works, Steady
<1>2. Types /\ Owners /\ Named /\ Retained /\ Staged /\ Finishing /\ Shape
  BY <1>1, LiveParts DEF Inv, Loaded, Emptying
<1>3. log' \in Seq(Records) /\ Len(log') \in Nat /\ Len(log) \in Nat /\ Len(log) <= Len(log')
  <2>1. /\ log' \in Seq(Records) /\ Len(log) \in Nat /\ Len(log') \in Nat
        /\ Len(log') = Len(log) \/ Len(log') = Len(log) + 1
    BY <1>2, Histories DEF Works, Steady
  <2> QED BY <2>1
<1>4. Types'
  <2>1. base' <= Len(log') /\ checkpoint'.watermark <= Len(log') /\ seal'.end <= Len(log')
    <3>1. base \in Nat /\ base <= Len(log) /\ checkpoint.watermark \in Nat /\ checkpoint.watermark <= Len(log)
          /\ seal.end \in Nat /\ seal.end <= Len(log)
      BY <1>2 DEF Types, DiskTypes, WorkTypes
    <3> QED BY <1>1, <1>3, <3>1
  <2>2. DiskTypes'
    BY <1>1, <1>2, <1>3, <2>1 DEF Types, DiskTypes, Works, SegmentTypes
  <2>3. MemoryTypes'
    BY <1>1, <1>2 DEF Types, MemoryTypes, Works, Emptying
  <2>4. WorkTypes'
    BY <1>1, <1>2, <2>1 DEF Types, WorkTypes, Works, CompactTypes
  <2> QED BY <2>2, <2>3, <2>4 DEF Types
<1>5. /\ Shape' /\ Content' /\ After(ReplayFrom)' /\ ReplayFrom' = ReplayFrom
      /\ manifest'.exists => Switched'
      /\ \A i \in DOMAIN searchers : RowsOf(i)' = RowsOf(i)
      /\ \A n : After(n) => After(n)'
  BY SteadyShows DEF Works
<1>6. Current' => Covered'
  <2>1. Installed' = Installed
    BY <1>1 DEF Installed
  <2> QED BY <1>1, <2>1, SteadyOverlay DEF Works
<1>7. ~SealActive /\ ~SealEnding /\ ~SealActive' /\ ~SealEnding'
  BY <1>1 DEF SealActive, SealEnding
<1>8. /\ \A s \in ToSet(searchers') \cup ToSet(manifest'.segments) : Bounded(s)'
      /\ \A h \in published.points \cup overlay.points : Bounded(h[1])'
      /\ \A s : Fresh(s)' <=> Fresh(s)
  BY SteadyNames DEF Works
<1>9. \A h \in published'.points \cup overlay'.points : Bounded(h[1])'
  BY <1>1, <1>8
<1>10. Unlisted' /\ SealRows' /\ Down'
  BY <1>1, <1>7 DEF Unlisted, SealRows, Down
<1>11. Memory'
  BY <1>5 DEF Memory, Emptying
<1>12. Switched'
  BY <1>1, <1>5
<1> QED BY <1>1, <1>2, <1>4, <1>5, <1>6, <1>7, <1>8, <1>9, <1>10, <1>11, <1>12

LEMMA CompactRemoveKeeps ==
  ASSUME Inv, CompactRemove
  PROVE  Inv'
<1>0. compact.pc = "remove" /\ segs' = Restrict(segs, ToSet(manifest.segments)) /\ compact' = NoCompact
  BY DEF CompactRemove
<1>1. UNCHANGED <<log, base, manifest, published, checkpoint, up, streamer, sealing, searchers, id_index, overlay,
                  last_segment, building, seal>>
  BY DEF CompactRemove, wal, memory, content
<1>2. up /\ seal.pc = "idle" /\ manifest.exists /\ ~Emptying /\ Ending /\ ~Merging /\ sealing.owner # "seal"
  BY <1>0, CompactRuns DEF CompactLocks, Ending, Merging, Emptying
<1>3. Types /\ Finishing /\ Shape
  BY <1>2, LiveParts DEF Inv, Loaded, Emptying
<1>4. /\ ToSet(manifest.segments) = ToSet(searchers) /\ ToSet(searchers) \subseteq DOMAIN segs
      /\ Installed = ToSet(searchers)
  <2>1. ToSet(manifest.segments) = ToSet(searchers)
    BY <1>2, <1>3 DEF Finishing
  <2>2. ToSet(searchers) \subseteq DOMAIN segs
    BY <1>2, InstalledThere DEF Loaded, Emptying
  <2> QED BY <1>2, <2>1, <2>2 DEF Installed
<1>5. /\ DOMAIN segs' = ToSet(searchers)
      /\ \A s \in ToSet(searchers) : segs'[s] = segs[s]
      /\ segs' = [s \in DOMAIN segs' |-> segs'[s]]
  BY <1>0, <1>4 DEF Restrict
<1>6. Works
  <2>1. \A s \in DOMAIN segs : segs[s] \in SegmentTypes
    BY <1>3, SegTypes DEF SegmentTypes
  <2>2. segs' \in [DOMAIN segs' -> SegmentTypes] /\ DOMAIN segs' \subseteq Names
    <3>1. DOMAIN segs' \subseteq Names
      BY <1>3, <1>4, <1>5, SegTypes
    <3>2. \A s \in DOMAIN segs' : segs'[s] \in SegmentTypes
      BY <1>4, <1>5, <2>1
    <3>3. segs' = [s \in DOMAIN segs' |-> segs'[s]]
      BY <1>5
    <3> QED BY <3>1, <3>2, <3>3
  <2>3. Len(log) \in Nat
    BY <1>3 DEF Types, DiskTypes
  <2>4. compact' \in CompactTypes /\ compact'.end <= Len(log') /\ compact'.mark <= Len(log')
    BY <1>0, <1>1, <2>3, IdleTypes DEF CompactTypes
  <2>5. Steady
    <3>1. \A s \in ToSet(searchers) : \A p \in segs[s].tomb : <<s, p>> \in overlay.points
      BY <1>3 DEF Shape, ToSet
    <3> QED BY <1>1, <1>2, <1>4, <1>5, <3>1 DEF Steady, SameHistory
  <2> QED BY <1>0, <1>1, <1>2, <2>2, <2>4, <2>5, IdleTypes DEF Works
<1> HIDE DEF Works
<1>7. /\ Types' /\ Shape' /\ Content' /\ After(ReplayFrom)' /\ Switched' /\ Unlisted' /\ SealRows' /\ Memory' /\ Down'
      /\ Current' => Covered'
      /\ ~SealActive' /\ ~SealEnding'
      /\ \A s \in ToSet(searchers') \cup ToSet(manifest'.segments) : Bounded(s)'
      /\ \A h \in published'.points \cup overlay'.points : Bounded(h[1])'
      /\ Owners
  BY <1>6, WorksDisk
<1>8. compact'.pc = "idle" /\ compact'.staged = FALSE /\ ~Merging' /\ ~CompactLocks' /\ ~Ending'
  BY <1>0 DEF NoCompact, Merging, CompactLocks, Ending, Emptying
<1>9. Owners'
  BY <1>0, <1>1, <1>2, <1>7, <1>8 DEF Owners, Emptying
<1>10. Named'
  BY <1>1, <1>2, <1>7, <1>8 DEF Named
<1>11. Retained'
  BY <1>7, <1>8 DEF Retained, Emptying
<1>12. Linked'
  BY <1>7, <1>8 DEF Linked, Finishing, Emptying
<1>13. Staged' /\ Rewritten'
  BY <1>8 DEF Staged, Rewritten, Emptying
<1> QED BY <1>7, <1>9, <1>10, <1>11, <1>12, <1>13 DEF Inv

\* A merge that is built, and one whose place in the history is written.
LEMMA CompactBuildKeeps ==
  ASSUME Inv, CompactBuild
  PROVE  Inv'
<1> DEFINE new == [rows |-> compact.rows, tomb |-> {}]
<1>0. compact.pc = "build" /\ segs' = Put(segs, compact.name, new) /\ compact' = [compact EXCEPT !.pc = "commit"]
  BY DEF CompactBuild
<1>1. UNCHANGED <<log, base, manifest, published, checkpoint, up, streamer, sealing, searchers, id_index, overlay,
                  last_segment, building, seal>>
  BY DEF CompactBuild, wal, memory, content
<1>2. /\ up /\ seal.pc = "idle" /\ manifest.exists /\ ~Emptying /\ Merging /\ sealing.owner # "seal"
      /\ compact.staged /\ building
  <2>1. Owners /\ compact.pc # "idle" /\ seal.pc \in SealPcs
    BY <1>0 DEF Inv, Types, WorkTypes
  <2>2. up /\ compact.staged /\ manifest.exists
    BY <1>0, <2>1 DEF Owners, NoCompact, Emptying
  <2>3. Merging
    BY <1>0, <2>2 DEF Merging
  <2>4. building /\ ~SealActive /\ ~SealEnding /\ sealing.owner # "seal"
    BY <2>1, <2>3 DEF Owners, Emptying
  <2>5. seal.pc = "idle"
    BY <2>1, <2>4 DEF SealActive, SealEnding, SealPcs
  <2> QED BY <1>0, <2>2, <2>3, <2>4, <2>5 DEF Emptying
<1>3. Types /\ Shape /\ Named
  BY <1>2, LiveParts DEF Inv, Loaded, Emptying
<1>4. compact \in CompactTypes /\ compact.end <= Len(log) /\ compact.mark <= Len(log) /\ compact.rows \in RowMaps
      /\ compact.name \in Names
  BY <1>3 DEF Types, WorkTypes, CompactTypes
<1>5. /\ compact' \in CompactTypes /\ compact'.pc = "commit" /\ compact'.staged = compact.staged /\ compact'.name = compact.name
      /\ compact'.end = compact.end /\ compact'.entries = compact.entries /\ compact'.rows = compact.rows
      /\ compact'.selected = compact.selected /\ compact'.mark = compact.mark
  <2>1. "commit" \in CompactPcs
    BY DEF CompactPcs
  <2> QED BY <1>0, <1>4, <2>1 DEF CompactTypes
<1>6. Fresh(compact.name) /\ compact.name = MergeName(compact.end, NextGeneration)
  BY <1>2, <1>3 DEF Named
<1>7. /\ DOMAIN segs' = DOMAIN segs \cup {compact.name} /\ segs'[compact.name] = new
      /\ \A s \in DOMAIN segs : s # compact.name => segs'[s] = segs[s]
      /\ segs' = [s \in DOMAIN segs' |-> segs'[s]]
  BY <1>0 DEF Put
<1>8. segs'[compact.name].rows = compact.rows
  BY <1>7
<1>9. new \in SegmentTypes
  BY <1>4 DEF SegmentTypes
<1> HIDE DEF new
<1>10. Works
  <2>1. segs' \in [DOMAIN segs' -> SegmentTypes] /\ DOMAIN segs' \subseteq Names
    <3>1. DOMAIN segs' \subseteq Names
      BY <1>3, <1>4, <1>7, SegTypes
    <3>2. \A s \in DOMAIN segs : segs[s] \in SegmentTypes
      BY <1>3, SegTypes DEF SegmentTypes
    <3>3. \A s \in DOMAIN segs' : segs'[s] \in SegmentTypes
      BY <1>7, <1>9, <3>2
    <3> QED BY <1>7, <3>1, <3>3
  <2>2. Steady
    <3>1. \A s \in ToSet(searchers) : \A p \in segs[s].tomb : <<s, p>> \in overlay.points
      BY <1>3 DEF Shape, ToSet
    <3>2. Installed = ToSet(manifest.segments) /\ Installed \subseteq DOMAIN segs /\ ToSet(searchers) \subseteq DOMAIN segs
      BY <1>2, InstalledThere DEF Loaded, Emptying, Installed
    <3>3. \A s \in ToSet(searchers) \cup ToSet(manifest.segments) : s # compact.name
      BY <1>6 DEF Fresh
    <3> QED BY <1>1, <1>2, <1>7, <3>1, <3>2, <3>3 DEF Steady, SameHistory
  <2> QED BY <1>1, <1>2, <1>4, <1>5, <2>1, <2>2 DEF Works
<1>11. /\ Types' /\ Shape' /\ Content' /\ After(ReplayFrom)' /\ Switched' /\ Unlisted' /\ SealRows' /\ Memory' /\ Down'
       /\ Current' => Covered'
       /\ ~SealActive' /\ ~SealEnding'
       /\ \A s : Fresh(s)' <=> Fresh(s)
       /\ \A i \in DOMAIN searchers : RowsOf(i)' = RowsOf(i)
       /\ \A s \in ToSet(searchers') \cup ToSet(manifest'.segments) : Bounded(s)'
       /\ \A h \in published'.points \cup overlay'.points : Bounded(h[1])'
       /\ Owners /\ Retained /\ Staged
  BY <1>10, WorksDisk
<1>12. Merging' /\ ~CompactLocks' /\ ~Ending'
  BY <1>2, <1>5 DEF Merging, CompactLocks, Ending, Emptying
<1>13. Owners'
  BY <1>1, <1>2, <1>5, <1>11, <1>12 DEF Owners, Emptying
<1>14. Named'
  <2>1. NextGeneration' = NextGeneration /\ \A g : MergeName(compact'.end, g) = MergeName(compact.end, g)
    BY <1>1, <1>5 DEF NextGeneration, MergeName
  <2> QED BY <1>1, <1>2, <1>5, <1>6, <1>11, <2>1 DEF Named
<1>15. Retained'
  BY <1>1, <1>2, <1>5, <1>11 DEF Retained, Emptying
<1>16. Linked'
  BY <1>5, <1>11, <1>12 DEF Linked, Finishing, Emptying
<1>17. Staged'
  BY <1>1, <1>2, <1>5, <1>7, <1>8, <1>11 DEF Staged
<1>18. Rewritten'
  BY <1>5 DEF Rewritten, Emptying
<1> QED BY <1>11, <1>13, <1>14, <1>15, <1>16, <1>17, <1>18 DEF Inv

LEMMA CompactCommitKeeps ==
  ASSUME Inv, CompactCommit
  PROVE  Inv'
<1> DEFINE S == [Persisted EXCEPT ![compact.name].tomb = Moved]
<1>0. /\ AtCommit /\ compact.staged /\ segs' = S /\ log' = Append(log, CompactRecord)
      /\ compact' = [compact EXCEPT !.pc = "advance",
                       !.mark = IF Len(log) > compact.end THEN compact.end ELSE 0, !.segment = TRUE]
  BY DEF CompactCommit
<1>1. UNCHANGED <<base, manifest, published, checkpoint, up, streamer, sealing, searchers, id_index, overlay,
                  last_segment, building, seal>>
  BY DEF CompactCommit, memory, content
<1>2. /\ up /\ seal.pc = "idle" /\ manifest.exists /\ ~Emptying /\ Merging /\ ~SealActive /\ compact.pc = "commit"
  BY <1>0, CommitRuns
<1>3. Types /\ Shape /\ Named /\ Staged /\ Owners
  BY <1>2, LiveParts DEF Inv, Loaded, Emptying
<1>4. compact \in CompactTypes /\ compact.end <= Len(log) /\ compact.mark <= Len(log) /\ compact.end \in Nat
      /\ Len(log) \in Nat /\ Len(log') = Len(log) + 1 /\ compact.entries \in RowMaps
  <2>1. compact \in CompactTypes /\ compact.end <= Len(log) /\ compact.mark <= Len(log) /\ log \in Seq(Records)
        /\ compact.end \in Nat /\ compact.entries \in RowMaps
    BY <1>3 DEF Types, WorkTypes, CompactTypes, DiskTypes
  <2>2. SameHistory
    BY <1>0 DEF SameHistory
  <2>3. CompactRecord \in Records
    BY DEF Records
  <2> QED BY <1>0, <2>1, <2>3
<1>5. /\ compact' \in CompactTypes /\ compact'.pc = "advance" /\ compact'.staged = compact.staged /\ compact'.name = compact.name
      /\ compact'.end = compact.end /\ compact'.entries = compact.entries /\ compact'.rows = compact.rows
      /\ compact'.selected = compact.selected /\ compact'.mark = (IF Len(log) > compact.end THEN compact.end ELSE 0)
  <2>1. "advance" \in CompactPcs
    BY DEF CompactPcs
  <2> QED BY <1>0, <1>4, <2>1 DEF CompactTypes
<1>6. Fresh(compact.name) /\ compact.name = MergeName(compact.end, NextGeneration)
  BY <1>2, <1>3 DEF Named
<1>7. compact.name \in DOMAIN segs /\ segs[compact.name].rows = compact.rows /\ Moved \subseteq Points
  <2>1. DOMAIN compact.entries \subseteq Points
    BY <1>4, RowsAre DEF IsRows
  <2> QED BY <1>2, <1>3, <2>1 DEF Staged, Moved
<1>8. /\ Persisted \in [DOMAIN segs -> [rows : RowMaps, tomb : SUBSET Points]]
      /\ \A s \in DOMAIN segs : Persisted[s].rows = segs[s].rows
      /\ \A s \in ToSet(searchers) : \A p \in Persisted[s].tomb : <<s, p>> \in overlay.points
      /\ \A s \in DOMAIN segs : \A p \in Persisted[s].tomb : p \in segs[s].tomb \/ <<s, p>> \in overlay.points
  BY <1>2, PersistedIs DEF Loaded, Emptying
<1>9. /\ Installed \subseteq DOMAIN segs /\ ToSet(searchers) \subseteq DOMAIN segs /\ compact.name \notin ToSet(searchers)
      /\ ToSet(manifest.segments) \subseteq DOMAIN segs /\ compact.name \notin ToSet(manifest.segments)
  BY <1>2, <1>6, InstalledThere, ListedThere DEF Loaded, Fresh, Emptying
<1>10. /\ segs' \in [DOMAIN segs -> SegmentTypes] /\ segs' \in [DOMAIN segs' -> SegmentTypes] /\ DOMAIN segs' = DOMAIN segs
       /\ \A s \in DOMAIN segs : segs'[s].rows = segs[s].rows
       /\ \A s \in ToSet(searchers) : \A p \in segs'[s].tomb : <<s, p>> \in overlay.points
       /\ \A s \in ToSet(manifest.segments) : \A p \in segs'[s].tomb : p \in segs[s].tomb \/ <<s, p>> \in overlay.points
       /\ segs'[compact.name].tomb = Moved
  BY <1>0, <1>7, <1>8, <1>9 DEF SegmentTypes
<1> HIDE DEF S
<1>11. Works
  <2>1. DOMAIN segs' \subseteq Names
    BY <1>3, <1>10, SegTypes
  <2>2. Steady
    BY <1>0, <1>1, <1>2, <1>9, <1>10 DEF Steady, SameHistory
  <2>3. compact'.end <= Len(log') /\ compact'.mark <= Len(log')
    BY <1>4, <1>5
  <2> QED BY <1>1, <1>2, <1>5, <1>10, <2>1, <2>2, <2>3 DEF Works
<1>12. /\ Types' /\ Shape' /\ Content' /\ After(ReplayFrom)' /\ Switched' /\ Unlisted' /\ SealRows' /\ Memory' /\ Down'
       /\ Current' => Covered'
       /\ ~SealActive' /\ ~SealEnding'
       /\ \A s : Fresh(s)' <=> Fresh(s)
       /\ \A i \in DOMAIN searchers : RowsOf(i)' = RowsOf(i)
       /\ \A s \in ToSet(searchers') \cup ToSet(manifest'.segments) : Bounded(s)'
       /\ \A h \in published'.points \cup overlay'.points : Bounded(h[1])'
       /\ Owners /\ Retained /\ Staged
  BY <1>11, WorksDisk
<1>13. Merging' /\ CompactLocks' /\ ~Ending'
  BY <1>0, <1>5 DEF Merging, CompactLocks, Ending, Emptying
<1>14. Owners'
  BY <1>0, <1>1, <1>2, <1>5, <1>12, <1>13 DEF Owners, Emptying
<1>15. Named'
  <2>1. NextGeneration' = NextGeneration /\ \A g : MergeName(compact'.end, g) = MergeName(compact.end, g)
    BY <1>1, <1>5 DEF NextGeneration, MergeName
  <2>2. compact'.end < Len(log')
    BY <1>4, <1>5
  <2> QED BY <1>1, <1>2, <1>5, <1>6, <1>12, <2>1, <2>2 DEF Named
<1>16. Retained'
  <2>1. compact'.mark = (IF Len(log') > compact'.end + 1 THEN compact'.end ELSE 0)
        /\ log'[Len(log')] = CompactRecord
    <3>1. log \in Seq(Records) /\ CompactRecord \in Records
      BY <1>3 DEF Types, DiskTypes, Records
    <3> QED BY <1>0, <1>4, <1>5, <3>1
  <2> QED BY <1>1, <1>2, <1>5, <1>12, <2>1 DEF Retained, Emptying
<1>17. Linked'
  BY <1>5, <1>12, <1>13 DEF Linked, Finishing, Emptying
<1>18. Staged'
  <2>1. Moved' = Moved
    BY <1>1, <1>5 DEF Moved
  <2> QED BY <1>1, <1>2, <1>5, <1>7, <1>10, <1>12, <2>1 DEF Staged
<1>19. Rewritten'
  BY <1>5 DEF Rewritten, Emptying
<1> QED BY <1>12, <1>14, <1>15, <1>16, <1>17, <1>18, <1>19 DEF Inv

LEMMA CompactEmptyKeeps ==
  ASSUME Inv, CompactEmpty
  PROVE  Inv'
<1>0. AtCommit /\ id_index = NoRows /\ log' = Append(log, CompactRecord) /\ compact' = [compact EXCEPT !.pc = "empty"]
  BY DEF CompactEmpty, Emptied
<1>1. UNCHANGED <<base, segs, manifest, published, checkpoint, up, streamer, sealing, searchers, id_index, overlay,
                  last_segment, building, seal>>
  BY DEF CompactEmpty, disk, memory, content
<1>2. /\ up /\ seal.pc = "idle" /\ manifest.exists /\ ~Emptying /\ ~SealActive /\ compact.pc = "commit"
  BY <1>0, CommitRuns
<1>3. Types /\ Shape
  BY <1>2, LiveParts DEF Inv, Loaded, Emptying
<1>4. compact \in CompactTypes /\ compact.end <= Len(log) /\ compact.mark <= Len(log) /\ compact.end \in Nat /\ compact.mark \in Nat
      /\ Len(log) \in Nat /\ Len(log') = Len(log) + 1
  <2>1. compact \in CompactTypes /\ compact.end <= Len(log) /\ compact.mark <= Len(log) /\ log \in Seq(Records)
        /\ compact.end \in Nat /\ compact.mark \in Nat
    BY <1>3 DEF Types, WorkTypes, CompactTypes, DiskTypes
  <2>2. CompactRecord \in Records
    BY DEF Records
  <2> QED BY <1>0, <2>1, <2>2
<1>5. compact' \in CompactTypes /\ compact'.pc = "empty" /\ compact'.end = compact.end /\ compact'.mark = compact.mark
  <2>1. "empty" \in CompactPcs
    BY DEF CompactPcs
  <2> QED BY <1>0, <1>4, <2>1 DEF CompactTypes
<1>6. Works
  <2>1. segs' \in [DOMAIN segs' -> SegmentTypes] /\ DOMAIN segs' \subseteq Names
    BY <1>1, <1>3 DEF Types, DiskTypes, SegmentTypes
  <2>2. Steady
    <3>1. \A s \in ToSet(searchers) : \A p \in segs[s].tomb : <<s, p>> \in overlay.points
      BY <1>3 DEF Shape, ToSet
    <3>2. Installed \subseteq DOMAIN segs /\ ToSet(searchers) \subseteq DOMAIN segs
      BY <1>2, InstalledThere DEF Loaded, Emptying
    <3> QED BY <1>0, <1>1, <1>2, <3>1, <3>2 DEF Steady, SameHistory
  <2>3. compact'.end <= Len(log') /\ compact'.mark <= Len(log')
    BY <1>4, <1>5
  <2> QED BY <1>1, <1>2, <1>5, <2>1, <2>2, <2>3 DEF Works
<1>7. /\ Types' /\ Shape' /\ Content' /\ After(ReplayFrom)' /\ Switched' /\ Unlisted' /\ SealRows' /\ Memory' /\ Down'
      /\ Current' => Covered'
      /\ ~SealActive' /\ ~SealEnding'
      /\ \A s \in ToSet(searchers') \cup ToSet(manifest'.segments) : Bounded(s)'
      /\ \A h \in published'.points \cup overlay'.points : Bounded(h[1])'
      /\ Owners
  BY <1>6, WorksDisk
<1>8. ~Merging' /\ CompactLocks' /\ ~Ending'
  BY <1>5 DEF Merging, CompactLocks, Ending, Emptying
<1>9. Owners'
  <2>1. base' < Len(log')
    BY <1>1, <1>3, <1>4 DEF Types, DiskTypes
  <2> QED BY <1>0, <1>1, <1>2, <1>5, <1>7, <1>8, <2>1 DEF Owners, Emptying
<1>10. Named'
  BY <1>1, <1>2, <1>5, <1>7, <1>8 DEF Named
<1>11. Retained'
  BY <1>5, <1>7, <1>8 DEF Retained, Emptying
<1>12. Linked'
  BY <1>5, <1>7, <1>8 DEF Linked, Finishing, Emptying
<1>13. Staged' /\ Rewritten'
  BY <1>5, <1>8 DEF Staged, Rewritten, Emptying
<1> QED BY <1>7, <1>9, <1>10, <1>11, <1>12, <1>13 DEF Inv

-----------------------------------------------------------------------------
(***************************************************************************)
(* A compaction begins and fixes its inputs.                               *)
(***************************************************************************)
\* Rows of one point in two installed segments of which the overlay hides none.
LEMMA OneIsShown ==
  ASSUME Content, NEW s \in ToSet(searchers), NEW t \in ToSet(searchers), NEW p \in Points,
         p \in DOMAIN segs[s].rows, p \in DOMAIN segs[t].rows,
         <<s, p>> \notin overlay.points, <<t, p>> \notin overlay.points
  PROVE  s = t
<1>1. PICK i \in DOMAIN searchers : s = searchers[i]
  BY DEF ToSet
<1>2. PICK j \in DOMAIN searchers : t = searchers[j]
  BY DEF ToSet
<1>3. Shown(i, p) /\ Shown(j, p)
  BY <1>1, <1>2 DEF Shown, RowsOf
<1> QED BY <1>1, <1>2, <1>3 DEF Content

LEMMA CompactBeginKeeps ==
  ASSUME Inv, CompactBegin
  PROVE  Inv'
<1>0. /\ up /\ ~Locked /\ compact.pc = "idle" /\ sealing.owner = "none" /\ ~building
      /\ published' = overlay /\ compact' = [compact EXCEPT !.pc = "stage"]
      /\ manifest' = IF manifest.exists THEN manifest
                     ELSE [exists |-> TRUE, generation |-> 0, segments |-> searchers]
  BY DEF CompactBegin
<1>1. UNCHANGED <<log, base, segs, checkpoint, up, streamer, sealing, searchers, id_index, overlay,
                  last_segment, building, seal>>
  BY DEF CompactBegin, wal, memory, content
<1>2. /\ Types /\ Owners /\ Named /\ Retained /\ Shape /\ Content /\ After(ReplayFrom) /\ Unlisted /\ (manifest.exists => Switched)
  BY <1>0, LiveParts DEF Inv, Loaded, Emptying
<1>3. /\ seal.pc = "idle" /\ ~SealActive /\ ~SealEnding
  <2>1. ~SealActive /\ ~SealEnding /\ seal.pc \in SealPcs
    BY <1>0, <1>2 DEF Owners, Locked, SealEnding, Types, WorkTypes, Emptying
  <2> QED BY <2>1 DEF SealActive, SealEnding, SealPcs
<1>4. compact = NoCompact /\ Len(log) \in Nat
  BY <1>0, <1>2 DEF Owners, Types, DiskTypes, Emptying
<1>5. compact' \in CompactTypes /\ compact'.pc = "stage" /\ compact'.staged = FALSE /\ compact'.end = 0 /\ compact'.mark = 0
  <2>1. "stage" \in CompactPcs
    BY DEF CompactPcs
  <2>2. NoCompact \in CompactTypes
    BY IdleTypes DEF CompactTypes
  <2> QED BY <1>0, <1>4, <2>1, <2>2, IdleTypes DEF CompactTypes
<1>6. /\ manifest' \in [exists : BOOLEAN, generation : Nat, segments : Seq(Names)] /\ manifest'.exists
      /\ manifest'.generation = manifest.generation
      /\ Installed' = Installed /\ (Installed \subseteq ToSet(searchers) \/ (manifest.exists /\ Behind))
      /\ ToSet(manifest'.segments) \subseteq ToSet(searchers) \cup ToSet(manifest.segments)
      /\ Switched'
  <2>1. CASE manifest.exists
    <3>1. manifest' = manifest
      BY <1>0, <2>1
    <3>2. \A p : LastRecord(p)' = LastRecord(p) /\ Latest(p)' = Latest(p)
      BY <1>1, NotLogged
    <3>3. Switched'
      <4>1. CASE Behind
        <5>1. ToSet(manifest.segments) \subseteq DOMAIN segs
          BY <4>1 DEF Behind
        <5>2. Behind'
          BY <1>0, <1>1, <1>2, <1>4, <3>1, <3>2, <4>1, <5>1, BehindStays
        <5> QED BY <5>2 DEF Switched
      <4>2. CASE ~Behind
        BY <1>1, <1>2, <2>1, <3>1, <4>2 DEF Switched
      <4> QED BY <4>1, <4>2
    <3>4. Installed \subseteq ToSet(searchers) \/ Behind
      BY <1>0, <2>1, InstalledThere DEF Loaded, Emptying
    <3>5. Installed' = Installed
      BY <1>1, <3>1 DEF Installed
    <3> QED BY <1>2, <2>1, <3>1, <3>3, <3>4, <3>5 DEF Types, DiskTypes
  <2>2. CASE ~manifest.exists
    <3>1. manifest' = [exists |-> TRUE, generation |-> 0, segments |-> searchers]
      BY <1>0, <2>2
    <3>2. manifest = NoManifest /\ overlay.generation = 0 /\ DOMAIN segs = ToSet(searchers)
      BY <1>2, <1>3, <2>2 DEF Unlisted
    <3>3. manifest.generation = 0
      BY <3>2 DEF NoManifest
    <3>4. Installed' = ToSet(searchers) /\ Installed = DOMAIN segs
      BY <1>1, <2>2, <3>1 DEF Installed
    <3>5. Switched'
      BY <1>1, <3>1, <3>2 DEF Switched
    <3>6. searchers \in Seq(Names)
      BY <1>2 DEF Types, MemoryTypes
    <3> QED BY <3>1, <3>2, <3>3, <3>4, <3>5, <3>6
  <2> QED BY <2>1, <2>2
<1>7. Types'
  <2>1. overlay \in [generation : Nat, points : SUBSET (Names \X Points)]
    BY <1>2 DEF Types, MemoryTypes
  <2>2. DiskTypes'
    BY <1>0, <1>1, <1>2, <1>6, <2>1 DEF Types, DiskTypes
  <2>3. MemoryTypes'
    BY <1>0, <1>1, <1>2 DEF Types, MemoryTypes
  <2>4. WorkTypes'
    BY <1>1, <1>2, <1>4, <1>5 DEF Types, WorkTypes, CompactTypes
  <2> QED BY <2>2, <2>3, <2>4 DEF Types
<1>8. ~SealActive' /\ ~SealEnding' /\ ~Merging' /\ ~CompactLocks' /\ ~Ending'
  BY <1>1, <1>3, <1>5 DEF SealActive, SealEnding, Merging, CompactLocks, Ending, Emptying
<1>9. (\A p : LastRecord(p)' = LastRecord(p) /\ Latest(p)' = Latest(p)) /\ ReplayFrom' = ReplayFrom
      /\ \A i : RowsOf(i)' = RowsOf(i)
  BY <1>1, NotLogged DEF ReplayFrom, RowsOf
<1>10. Shape'
  BY <1>1, <1>2 DEF Shape
<1>11. Content'
  <2>1. \A i, p : Shown(i, p)' <=> Shown(i, p)
    BY <1>1, <1>9 DEF Shown
  <2> QED BY <1>1, <1>2, <1>9, <2>1 DEF Content
<1>12. After(ReplayFrom)'
  BY <1>1, <1>2, <1>9 DEF After, InMemory
<1>13. Covered'
  <2>1. \A s \in Installed', t \in Installed', p \in Points :
          Row(s, p)' /\ Row(t, p)' /\ <<s, p>> \notin overlay.points /\ <<t, p>> \notin overlay.points => s = t
    <3>1. CASE Installed \subseteq ToSet(searchers)
      BY <1>1, <1>2, <1>6, <3>1, OneIsShown DEF Row
    <3>2. CASE manifest.exists /\ Behind
      BY <1>6, <3>2 DEF Behind, Installed
    <3> QED BY <1>6, <3>1, <3>2
  <2> QED BY <1>0, <1>1, <2>1 DEF Covered
<1>14. Owners'
  BY <1>0, <1>1, <1>2, <1>3, <1>5, <1>6, <1>8 DEF Owners, Emptying
<1>15. Named'
  <2>1. \A s : Bounded(s)' <=> Bounded(s)
    BY <1>1, <1>6 DEF Bounded, NextGeneration
  <2>2. \A h \in overlay.points : Bounded(h[1])
    BY <1>0, <1>2 DEF Named
  <2> QED BY <1>0, <1>1, <1>2, <1>5, <1>6, <1>8, <2>1, <2>2 DEF Named
<1>16. Memory'
  BY <1>10, <1>11 DEF Memory, Emptying
<1>17. Retained'
  BY <1>5, <1>8, <1>12 DEF Retained, Emptying
<1>18. Linked'
  BY <1>5, <1>6, <1>8, <1>13 DEF Linked, Finishing, Unlisted, Emptying
<1>19. SealRows' /\ Staged' /\ Rewritten' /\ Down'
  BY <1>0, <1>1, <1>5, <1>8 DEF SealRows, Staged, Rewritten, Down, Emptying
<1> QED BY <1>7, <1>14, <1>15, <1>16, <1>17, <1>18, <1>19 DEF Inv

LEMMA SelectedIs ==
  ASSUME Types
  PROVE  select_size_tier \subseteq DOMAIN searchers
<1> DEFINE dead == {i \in DOMAIN searchers : Physical(i) > 0 /\ Live(i) = 0}
           live == {i \in DOMAIN searchers : Live(i) > 0}
           sparse == {i \in live : 100 * (Physical(i) - Live(i)) >= 20 * Physical(i) /\ Physical(i) > Live(i)}
           full == {k \in 0 .. Cardinality(Points) : Cardinality(TierOf(k)) >= MinFanIn}
<1>1. DOMAIN searchers \in SUBSET Nat
  BY DEF Types, MemoryTypes
<1>2. dead \subseteq DOMAIN searchers /\ live \subseteq DOMAIN searchers /\ sparse \subseteq DOMAIN searchers
  OBVIOUS
<1>3. \A k : TierOf(k) \subseteq DOMAIN searchers
  BY DEF TierOf
<1>4. select_size_tier = IF dead # {} /\ live # {} THEN {Min(dead), Min(live)}
                         ELSE IF sparse # {} THEN {Min(sparse)}
                         ELSE IF full # {} THEN TierOf(Min(full)) ELSE {}
  BY DEF select_size_tier
<1> HIDE DEF dead, live, sparse, full
<1>5. \A S \in SUBSET DOMAIN searchers : S # {} => Min(S) \in S
  BY <1>1, MinOf
<1>6. /\ dead # {} => Min(dead) \in DOMAIN searchers
      /\ live # {} => Min(live) \in DOMAIN searchers
      /\ sparse # {} => Min(sparse) \in DOMAIN searchers
  BY <1>2, <1>5
<1> QED BY <1>3, <1>4, <1>6

LEMMA CompactStageKeeps ==
  ASSUME Inv, CompactStage
  PROVE  Inv'
<1> DEFINE selected == select_size_tier
           entries == {p \in DOMAIN id_index : id_index[p] = Streamer \/ id_index[p] \in selected}
           rows == [p \in entries |-> Resolve(p)]
           places == Restrict(Frozen(id_index), entries)
<1>0. /\ compact.pc = "stage" /\ ~Locked /\ sealing.owner = "none" /\ ~building /\ building' = TRUE
      /\ compact' = [compact EXCEPT !.pc = "build", !.staged = TRUE, !.end = Len(log),
                       !.name = MergeName(Len(log), NextGeneration), !.rows = rows, !.entries = places,
                       !.selected = selected]
      /\ sealing' = (IF streamer # NoRows THEN [owner |-> "compact", rows |-> streamer] ELSE sealing)
      /\ streamer' = NoRows /\ id_index' = Frozen(id_index)
  BY DEF CompactStage, Stageable
<1>1. UNCHANGED <<log, base, segs, manifest, published, checkpoint, up, searchers, overlay, last_segment, seal>>
  BY DEF CompactStage, wal, disk
<1>2. /\ up /\ manifest.exists /\ ~compact.staged /\ Types /\ Owners /\ sealing = NotSealing
  <2>1. Owners /\ Types
    BY DEF Inv
  <2> QED BY <1>0, <2>1 DEF Owners, NoCompact, Emptying
<1>3. /\ Named /\ Retained /\ Shape /\ Content /\ After(ReplayFrom) /\ Switched /\ (Current => Covered)
  BY <1>0, <1>2, LiveParts DEF Inv, Loaded, Emptying
<1>4. seal.pc = "idle" /\ ~SealActive /\ ~SealEnding
  <2>1. ~SealActive /\ ~SealEnding /\ seal.pc \in SealPcs
    BY <1>0, <1>2 DEF Owners, Locked, SealEnding, Types, WorkTypes, Emptying
  <2> QED BY <2>1 DEF SealActive, SealEnding, SealPcs
<1>5. /\ Len(log) \in Nat /\ log \in Seq(Records) /\ manifest.generation \in Nat /\ streamer \in RowMaps
      /\ DOMAIN id_index \subseteq Points /\ DOMAIN searchers \subseteq Nat \ {0}
      /\ compact \in CompactTypes /\ compact.mark <= Len(log) /\ searchers \in Seq(Names)
  BY <1>2 DEF Types, DiskTypes, MemoryTypes, WorkTypes, CompactTypes
<1>6. \A p \in DOMAIN id_index : id_index[p] \in {Streamer} \cup DOMAIN searchers
  <2>1. id_index \in [DOMAIN id_index -> {Streamer, Sealing} \cup DOMAIN searchers]
    BY <1>0, <1>2 DEF Types, MemoryTypes
  <2> QED BY <1>0, <1>3, <2>1 DEF Content
<1>7. /\ DOMAIN Frozen(id_index) = DOMAIN id_index
      /\ \A p \in DOMAIN id_index : Frozen(id_index)[p] = (IF id_index[p] = Streamer THEN Sealing ELSE id_index[p])
      /\ Frozen(id_index) \in [DOMAIN id_index -> {Streamer, Sealing} \cup DOMAIN searchers]
  BY <1>6 DEF Frozen
<1>8. selected \subseteq DOMAIN searchers /\ selected \in SUBSET Nat
  BY <1>2, <1>5, SelectedIs
<1>9. /\ DOMAIN places = entries /\ DOMAIN rows = entries
      /\ \A p \in entries : places[p] = Frozen(id_index)[p] /\ rows[p] = Resolve(p)
  BY DEF Restrict
<1>10. entries \subseteq DOMAIN id_index /\ \A p \in DOMAIN id_index : p \in entries <=> id_index[p] = Streamer \/ id_index[p] \in selected
  OBVIOUS
<1>11. Streamer = -1 /\ Sealing = 0
  BY DEF Streamer, Sealing
<1>12. \A p \in DOMAIN id_index :
         /\ id_index[p] = Streamer => p \in DOMAIN streamer /\ Resolve(p) = streamer[p]
         /\ id_index[p] \in DOMAIN searchers =>
              p \in DOMAIN RowsOf(id_index[p]) /\ Resolve(p) = RowsOf(id_index[p])[p]
  <2>1. \A p \in DOMAIN id_index : id_index[p] \in DOMAIN searchers => Shown(id_index[p], p) /\ id_index[p] # Streamer
                                     /\ id_index[p] # Sealing
    BY <1>3, <1>5, <1>11 DEF Content
  <2> QED BY <1>3, <1>5, <2>1 DEF Content, Resolve, Shown
<1>13. \A p \in entries : Resolve(p) \in Nat
  <2>1. \A p \in DOMAIN streamer : streamer[p] \in Nat
    BY <1>5, RowsAre DEF IsRows
  <2>2. \A i \in DOMAIN searchers : \A p \in DOMAIN RowsOf(i) : RowsOf(i)[p] \in Nat
    BY <1>2, <1>3, SegTypes DEF Shape, RowsOf
  <2> QED BY <1>6, <1>10, <1>12, <2>1, <2>2
<1> HIDE DEF selected, entries
<1>14. rows \in RowMaps /\ places \in RowMaps
  <2>1. IsRows(rows)
    BY <1>5, <1>9, <1>10, <1>13 DEF IsRows
  <2>2. \A p \in entries : places[p] \in Nat
    BY <1>5, <1>6, <1>7, <1>9, <1>10, <1>11
  <2>3. places = [p \in DOMAIN places |-> places[p]]
    BY DEF Restrict
  <2>4. IsRows(places)
    BY <1>5, <1>9, <1>10, <2>2, <2>3 DEF IsRows
  <2> QED BY <2>1, <2>4, RowsAre
<1> HIDE DEF rows, places
<1>15. MergeName(Len(log), NextGeneration) \in Names
  BY <1>5 DEF MergeName, NextGeneration, Names
<1>16. /\ compact' \in CompactTypes /\ compact'.pc = "build" /\ compact'.staged = TRUE /\ compact'.end = Len(log)
       /\ compact'.name = MergeName(Len(log), NextGeneration) /\ compact'.rows = rows /\ compact'.entries = places
       /\ compact'.selected = selected /\ compact'.mark = compact.mark
  <2>1. "build" \in CompactPcs
    BY DEF CompactPcs
  <2> QED BY <1>0, <1>5, <1>8, <1>14, <1>15, <2>1 DEF CompactTypes
<1>17. /\ sealing' \in [owner : {"none", "seal", "compact", "gone"}, rows : RowMaps]
       /\ sealing'.owner \in {"none", "compact"} /\ (sealing'.owner = "none" => sealing' = NotSealing)
       /\ \A p \in DOMAIN streamer : sealing'.owner = "compact" /\ p \in DOMAIN sealing'.rows /\ sealing'.rows[p] = streamer[p]
  <2>1. CASE streamer # NoRows
    BY <1>0, <1>5, <2>1
  <2>2. CASE streamer = NoRows
    BY <1>0, <1>2, <2>2, EmptyRows, IdleTypes
  <2> QED BY <2>1, <2>2
<1>18. Types'
  <2>1. DiskTypes'
    BY <1>1, <1>2 DEF Types, DiskTypes
  <2>2. MemoryTypes'
    <3>1. id_index' \in [DOMAIN id_index' -> {Streamer, Sealing} \cup DOMAIN searchers] /\ DOMAIN id_index' \subseteq Points
      BY <1>0, <1>5, <1>7
    <3>2. \A p \in DOMAIN id_index' : id_index'[p] \in Int
      BY <1>5, <1>11, <3>1
    <3>3. id_index' \in [DOMAIN id_index' -> Int]
      BY <3>1, <3>2
    <3> QED BY <1>0, <1>1, <1>2, <1>17, <3>1, <3>3, EmptyRows DEF Types, MemoryTypes
  <2>3. WorkTypes'
    BY <1>1, <1>2, <1>5, <1>16 DEF Types, WorkTypes, CompactTypes
  <2> QED BY <2>1, <2>2, <2>3 DEF Types
<1>19. /\ \A p : LastRecord(p)' = LastRecord(p) /\ Latest(p)' = Latest(p)
       /\ ReplayFrom' = ReplayFrom
       /\ \A i : RowsOf(i)' = RowsOf(i)
       /\ \A i, p : Shown(i, p)' <=> Shown(i, p)
       /\ \A s : (Bounded(s)' <=> Bounded(s)) /\ (Fresh(s)' <=> Fresh(s))
  BY <1>1, NotLogged DEF ReplayFrom, RowsOf, Shown, Bounded, Fresh, NextGeneration
<1>20. Shape'
  BY <1>1, <1>3 DEF Shape
<1>21. \A p : p \notin DOMAIN streamer'
  BY <1>0, EmptyRows
<1>22. /\ DOMAIN id_index' = DOMAIN id_index
       /\ \A p \in DOMAIN id_index : /\ id_index'[p] # Streamer
                                     /\ id_index'[p] = Sealing <=> id_index[p] = Streamer
                                     /\ \A i \in DOMAIN searchers : id_index'[p] = i <=> id_index[p] = i
  BY <1>0, <1>5, <1>6, <1>7, <1>11
<1>23. Content'
  <2>1. \A p \in Points : p \in DOMAIN streamer' <=> p \in DOMAIN id_index' /\ id_index'[p] = Streamer
    BY <1>21, <1>22
  <2>2. \A p \in DOMAIN id_index' :
          id_index'[p] = Sealing => p \in DOMAIN sealing'.rows /\ sealing'.owner # "none" /\ sealing'.rows[p] = Latest(p)
    BY <1>3, <1>12, <1>17, <1>22 DEF Content
  <2>3. \A i \in DOMAIN searchers, p \in Points : Shown(i, p) <=> p \in DOMAIN id_index' /\ id_index'[p] = i
    BY <1>3, <1>22 DEF Content
  <2>4. \A p \in DOMAIN id_index' : id_index'[p] \in DOMAIN searchers => RowsOf(id_index'[p])[p] = Latest(p)
    BY <1>3, <1>22 DEF Content
  <2>5. \A p \in Points : p \in DOMAIN id_index' <=> Latest(p) # 0
    BY <1>3, <1>22 DEF Content
  <2> QED BY <1>1, <1>19, <1>22, <2>1, <2>2, <2>3, <2>4, <2>5 DEF Content
<1>24. After(ReplayFrom)'
  <2>1. \A p : InMemory(p)' => InMemory(p)
    BY <1>22 DEF InMemory
  <2> QED BY <1>3, <1>19, <2>1 DEF After
<1>25. ~SealActive' /\ ~SealEnding' /\ Merging' /\ ~CompactLocks' /\ ~Ending'
  BY <1>1, <1>4, <1>16 DEF SealActive, SealEnding, Merging, CompactLocks, Ending, Emptying
<1>26. Owners'
  BY <1>0, <1>1, <1>2, <1>16, <1>17, <1>25 DEF Owners, Emptying
<1>27. Named'
  <2>1. Fresh(compact'.name)
    <3>1. ~Bounded(compact'.name)
      BY <1>5, <1>16 DEF Bounded, MergeName, NextGeneration
    <3> QED BY <1>2, <1>3, <3>1 DEF Named, Fresh
  <2>2. NextGeneration' = NextGeneration /\ compact'.name = MergeName(compact'.end, NextGeneration)
    BY <1>1, <1>16 DEF NextGeneration
  <2> QED BY <1>1, <1>2, <1>3, <1>16, <1>19, <1>25, <2>1, <2>2 DEF Named
<1>28. Memory'
  BY <1>20, <1>23 DEF Memory, Emptying
<1>29. Retained'
  <2>1. Len(log) > 0
    <3>1. DOMAIN id_index # {}
      <4>1. id_index # NoRows
        BY DEF CompactStage, Stageable
      <4>2. id_index = [p \in DOMAIN id_index |-> id_index[p]]
        BY <1>2 DEF Types, MemoryTypes
      <4> QED BY <4>1, <4>2 DEF NoRows
    <3>2. PICK p \in DOMAIN id_index : TRUE
      BY <3>1
    <3>3. Latest(p) # 0 /\ Latest(p) \in Nat /\ Latest(p) <= LastRecord(p) /\ LastRecord(p) \in Nat /\ LastRecord(p) <= Len(log)
      BY <1>3, <1>5, LatestIs, LastRecordIs DEF Content
    <3> QED BY <1>5, <3>3
  <2> QED BY <1>16, <1>21, <1>24, <1>25, <2>1 DEF Retained, Emptying
<1>30. Linked'
  <2>1. Switched'
    <3>1. CASE Behind
      <4>1. ToSet(manifest.segments) \subseteq DOMAIN segs
        BY <3>1 DEF Behind
      <4>2. Behind'
        BY <1>1, <1>2, <1>5, <1>19, <3>1, <4>1, BehindStays
      <4> QED BY <4>2 DEF Switched
    <3>2. CASE ~Behind
      BY <1>1, <1>3, <3>2 DEF Switched
    <3> QED BY <3>1, <3>2
  <2>2. Current' => Covered'
    <3>1. (Current' <=> Current) /\ Installed' = Installed /\ \A s, p : Row(s, p)' <=> Row(s, p)
      BY <1>1 DEF Current, Installed, Row
    <3> QED BY <1>1, <1>3, <1>19, <3>1 DEF Covered
  <2> QED BY <1>1, <1>2, <1>16, <1>25, <2>1, <2>2 DEF Linked, Finishing, Unlisted, Emptying
<1>31. Staged'
  <2>1. DOMAIN compact'.entries = DOMAIN compact'.rows /\ compact'.selected \subseteq DOMAIN searchers
    BY <1>8, <1>9, <1>16
  <2>2. ASSUME NEW p \in entries
        PROVE  /\ places[p] \in {Sealing} \cup selected
               /\ places[p] = Sealing => p \in DOMAIN sealing'.rows /\ sealing'.rows[p] = rows[p]
               /\ places[p] # Sealing => p \in DOMAIN RowsOf(places[p]) /\ RowsOf(places[p])[p] = rows[p]
    <3>1. p \in DOMAIN id_index /\ (id_index[p] = Streamer \/ id_index[p] \in selected)
      BY <1>10
    <3>2. CASE id_index[p] = Streamer
      BY <1>7, <1>9, <1>12, <1>17, <3>1, <3>2
    <3>3. CASE id_index[p] \in selected
      <4>1. id_index[p] \in DOMAIN searchers /\ id_index[p] # Streamer /\ id_index[p] # Sealing
        BY <1>5, <1>8, <1>11, <3>3
      <4> QED BY <1>7, <1>9, <1>12, <3>1, <3>3, <4>1
    <3> QED BY <3>1, <3>2, <3>3
  <2>3. \A p \in DOMAIN id_index' :
          id_index'[p] \in {Sealing} \cup selected => p \in entries /\ places[p] = id_index'[p]
    BY <1>0, <1>8, <1>9, <1>10, <1>22
  <2> QED BY <1>1, <1>9, <1>16, <1>19, <2>1, <2>2, <2>3 DEF Staged
<1>32. SealRows' /\ Rewritten' /\ Down'
  BY <1>1, <1>2, <1>16, <1>25 DEF SealRows, Rewritten, Down, Emptying
<1> QED BY <1>18, <1>26, <1>27, <1>28, <1>29, <1>30, <1>31, <1>32 DEF Inv

-----------------------------------------------------------------------------
(***************************************************************************)
(* A build that fails gives the frozen rows back.                          *)
(***************************************************************************)
Restored ==
  /\ sealing' = NotSealing /\ streamer' \in RowMaps
  /\ id_index' \in [DOMAIN id_index -> {Streamer, Sealing} \cup DOMAIN searchers]
  /\ \A p \in DOMAIN id_index : id_index'[p] = IF id_index[p] = Sealing THEN Streamer ELSE id_index[p]
  /\ \A p \in DOMAIN id_index : id_index'[p] = Streamer => p \in DOMAIN streamer' /\ streamer'[p] = Latest(p)
  /\ \A p \in DOMAIN streamer' : p \in DOMAIN id_index /\ id_index'[p] = Streamer

LEMMA RestoredIs ==
  ASSUME Types, Owners, Content, NEW o \in {"seal", "compact"}, sealing.owner \in {"none", o},
         restore_failed_seal(o), ~Emptying
  PROVE  Restored
<1>1. /\ streamer \in RowMaps /\ sealing.rows \in RowMaps /\ DOMAIN id_index \subseteq Points
      /\ id_index \in [DOMAIN id_index -> {Streamer, Sealing} \cup DOMAIN searchers]
      /\ Streamer # Sealing
  BY DEF Types, MemoryTypes, Streamer, Sealing, Emptying
<1>2. CASE sealing.owner = "none"
  <2>1. UNCHANGED <<streamer, sealing, id_index>> /\ sealing = NotSealing
    BY <1>2 DEF restore_failed_seal, Owners, Emptying
  <2>2. \A p \in DOMAIN id_index : id_index[p] # Sealing
    BY <1>2 DEF Content
  <2>3. DOMAIN streamer \subseteq Points
    BY <1>1, RowsAre DEF IsRows
  <2> QED BY <1>1, <2>1, <2>2, <2>3 DEF Restored, Content
<1>3. CASE sealing.owner = o
  <2> DEFINE back == {p \in DOMAIN sealing.rows \cap DOMAIN id_index : id_index[p] = Sealing}
             f == Restrict(sealing.rows, back)
             g == [p \in back |-> Streamer]
  <2>1. streamer' = Completed(f, streamer) /\ id_index' = Completed(g, id_index) /\ sealing' = NotSealing
    BY <1>3 DEF restore_failed_seal
  <2>2. \A p : p \in back <=> p \in DOMAIN id_index /\ id_index[p] = Sealing
    BY DEF Content
  <2>3. back \in SUBSET DOMAIN sealing.rows
    OBVIOUS
  <2> HIDE DEF back
  <2>4. f \in RowMaps /\ DOMAIN f = back /\ \A q \in back : f[q] = sealing.rows[q]
    BY <1>1, <2>3, RestrictRows
  <2>5. DOMAIN g = back /\ \A q \in back : g[q] = Streamer
    OBVIOUS
  <2> HIDE DEF f, g
  <2>6. /\ streamer' \in RowMaps
        /\ \A q : q \in DOMAIN streamer' <=> q \in back \/ q \in DOMAIN streamer
        /\ \A q \in back : streamer'[q] = sealing.rows[q]
        /\ \A q \in DOMAIN streamer : q \notin back => streamer'[q] = streamer[q]
    BY <1>1, <2>1, <2>4, CompletedRows
  <2>7. /\ DOMAIN id_index' = DOMAIN id_index
        /\ \A p \in DOMAIN id_index : id_index'[p] = IF id_index[p] = Sealing THEN Streamer ELSE id_index[p]
        /\ id_index' = [p \in DOMAIN id_index' |-> id_index'[p]]
    BY <2>1, <2>2, <2>5 DEF Completed
  <2>8. id_index' \in [DOMAIN id_index -> {Streamer, Sealing} \cup DOMAIN searchers]
    <3>1. \A p \in DOMAIN id_index : id_index'[p] \in {Streamer, Sealing} \cup DOMAIN searchers
      BY <1>1, <2>7
    <3> QED BY <2>7, <3>1
  <2>9. \A p \in DOMAIN streamer : p \in Points
    BY <1>1, RowsAre DEF IsRows
  <2>10. \A p \in DOMAIN id_index : id_index'[p] = Streamer => p \in DOMAIN streamer' /\ streamer'[p] = Latest(p)
    BY <1>1, <2>2, <2>6, <2>7 DEF Content
  <2>11. \A p \in DOMAIN streamer' : p \in DOMAIN id_index /\ id_index'[p] = Streamer
    BY <1>1, <2>2, <2>6, <2>7, <2>9 DEF Content
  <2> QED BY <2>1, <2>6, <2>7, <2>8, <2>10, <2>11 DEF Restored
<1> QED BY <1>2, <1>3

GivesUp ==
  /\ up /\ ~Emptying /\ Restored
  /\ UNCHANGED <<log, base, manifest, checkpoint, up, searchers, overlay, last_segment>>
  /\ \E s : Fresh(s) /\ segs' = Restrict(segs, DOMAIN segs \ {s}) /\ (SealActive => s = Sealed)
  /\ SealActive \/ manifest.exists
  /\ published' = published \/ published' = overlay \/ published'.generation # manifest.generation
  /\ published' \in [generation : Nat, points : SUBSET (Names \X Points)]
  /\ \A h \in published'.points : Bounded(h[1])
  /\ \A h \in published'.points : h[1] \in ToSet(manifest.segments) => h \in published.points \cup overlay.points
  /\ seal' \in [pc : {"idle"}, end : Nat] /\ seal'.end <= Len(log)
  /\ compact' = NoCompact \/ (compact' = compact /\ ~Merging /\ ~CompactLocks)
  /\ building' = FALSE

LEMMA GivesUpKeeps ==
  ASSUME Inv, GivesUp
  PROVE  Inv'
<1>0. PICK u : Fresh(u) /\ segs' = Restrict(segs, DOMAIN segs \ {u}) /\ (SealActive => u = Sealed)
  BY DEF GivesUp
<1>1. /\ up /\ ~Emptying /\ UNCHANGED <<log, base, manifest, checkpoint, up, searchers, overlay, last_segment>>
      /\ building' = FALSE
  BY DEF GivesUp
<1>2. /\ Types /\ Owners /\ Named /\ Shape /\ Content /\ After(ReplayFrom) /\ Unlisted /\ (manifest.exists => Switched)
      /\ (Current => Covered)
  BY <1>1, LiveParts DEF Inv, Loaded, Emptying
<1>3. /\ DOMAIN segs' = DOMAIN segs \ {u} /\ segs' = [s \in DOMAIN segs' |-> segs'[s]]
      /\ \A s \in DOMAIN segs' : s \in DOMAIN segs /\ segs'[s] = segs[s]
  BY <1>0 DEF Restrict
<1>4. /\ ToSet(searchers) \subseteq DOMAIN segs'
      /\ Installed' \subseteq ToSet(searchers) \/ (manifest.exists /\ Behind)
      /\ Installed' \subseteq Installed /\ Installed' \subseteq DOMAIN segs'
      /\ ~manifest.exists => DOMAIN segs' \subseteq ToSet(searchers)
  <2>0. Installed \subseteq DOMAIN segs /\ u \notin ToSet(manifest.segments)
    BY <1>0, <1>1, InstalledThere DEF Loaded, Fresh, Emptying
  <2>5. manifest.exists => Installed = ToSet(manifest.segments)
    BY DEF Installed
  <2>1. ToSet(searchers) \subseteq DOMAIN segs /\ u \notin ToSet(searchers) /\ (manifest.exists => Installed \subseteq ToSet(searchers) \/ Behind)
    BY <1>0, <1>1, InstalledThere DEF Loaded, Fresh, Emptying
  <2>2. ~manifest.exists => DOMAIN segs' \subseteq ToSet(searchers)
    BY <1>0, <1>2, <1>3 DEF Unlisted, GivesUp
  <2>3. manifest.exists => Installed' = Installed
    BY <1>1 DEF Installed
  <2>4. ~manifest.exists => Installed' = DOMAIN segs' /\ Installed = DOMAIN segs
    BY <1>1 DEF Installed
  <2> QED BY <1>3, <2>0, <2>1, <2>2, <2>3, <2>4, <2>5
<1>5. /\ sealing' = NotSealing /\ streamer' \in RowMaps
      /\ id_index' \in [DOMAIN id_index -> {Streamer, Sealing} \cup DOMAIN searchers]
      /\ \A p \in DOMAIN id_index : id_index'[p] = IF id_index[p] = Sealing THEN Streamer ELSE id_index[p]
      /\ \A p \in DOMAIN id_index : id_index'[p] = Streamer => p \in DOMAIN streamer' /\ streamer'[p] = Latest(p)
      /\ \A p \in DOMAIN streamer' : p \in DOMAIN id_index /\ id_index'[p] = Streamer
  BY DEF GivesUp, Restored
<1>6. /\ DOMAIN id_index \subseteq Points /\ DOMAIN searchers \subseteq Nat \ {0} /\ Streamer = -1 /\ Sealing = 0
      /\ Len(log) \in Nat
  BY <1>2 DEF Types, MemoryTypes, DiskTypes, Streamer, Sealing
<1>7. /\ compact' \in CompactTypes /\ compact'.end <= Len(log) /\ compact'.mark <= Len(log)
      /\ ~Merging' /\ ~CompactLocks' /\ ~Ending' /\ ~Emptying'
      /\ compact'.pc \notin {"advance", "manifest", "empty", "migrate", "overlay", "checkpoint", "cut", "remove"}
      /\ compact'.pc = "idle" => compact' = NoCompact
      /\ compact'.pc \in {"build", "advance", "manifest"} => compact'.staged
      /\ compact'.pc = "stage" => ~compact'.staged
      /\ compact'.pc # "idle" => manifest.exists
  <2>1. CASE compact' = NoCompact
    <3>1. compact' \in CompactTypes /\ compact'.end <= Len(log) /\ compact'.mark <= Len(log) /\ compact'.pc = "idle"
      BY <1>6, <2>1, IdleTypes DEF CompactTypes
    <3> QED BY <2>1, <3>1 DEF Merging, CompactLocks, Ending, Emptying
  <2>2. CASE compact' = compact /\ ~Merging /\ ~CompactLocks
    <3>1. compact \in CompactTypes /\ compact.end <= Len(log) /\ compact.mark <= Len(log)
      BY <1>2 DEF Types, WorkTypes, CompactTypes
    <3> QED BY <1>1, <1>2, <2>2, <3>1 DEF Owners, Merging, CompactLocks, Ending, Emptying
  <2> QED BY <2>1, <2>2 DEF GivesUp
<1>8. seal' \in [pc : SealPcs, end : Nat] /\ seal'.end <= Len(log) /\ seal'.pc = "idle" /\ ~SealActive' /\ ~SealEnding'
  <2>1. seal' \in [pc : {"idle"}, end : Nat] /\ seal'.end <= Len(log)
    BY DEF GivesUp
  <2> QED BY <2>1 DEF SealPcs, SealActive, SealEnding
<1>9. Types'
  <2>1. segs' \in [DOMAIN segs' -> [rows : RowMaps, tomb : SUBSET Points]] /\ DOMAIN segs' \subseteq Names
    <3>1. \A s \in DOMAIN segs' : segs'[s] \in [rows : RowMaps, tomb : SUBSET Points]
      BY <1>2, <1>3, SegTypes
    <3>2. DOMAIN segs' \subseteq Names
      BY <1>2, <1>3, SegTypes
    <3> QED BY <1>3, <3>1, <3>2
  <2>2. DiskTypes'
    BY <1>1, <1>2, <2>1 DEF Types, DiskTypes, GivesUp
  <2>3. MemoryTypes'
    <3>1. DOMAIN id_index' = DOMAIN id_index /\ \A p \in DOMAIN id_index' : id_index'[p] \in {Streamer, Sealing} \cup DOMAIN searchers
      BY <1>5
    <3>2. \A p \in DOMAIN id_index' : id_index'[p] \in Int
      BY <1>6, <3>1
    <3>3. id_index' \in [DOMAIN id_index' -> Int] /\ id_index' \in [DOMAIN id_index' -> {Streamer, Sealing} \cup DOMAIN searchers]
      BY <1>5, <3>1, <3>2
    <3> QED BY <1>1, <1>2, <1>5, <3>1, <3>3, IdleTypes DEF Types, MemoryTypes
  <2>4. WorkTypes'
    BY <1>1, <1>7, <1>8 DEF WorkTypes, CompactTypes
  <2> QED BY <2>2, <2>3, <2>4 DEF Types
<1>10. /\ \A p : LastRecord(p)' = LastRecord(p) /\ Latest(p)' = Latest(p)
       /\ ReplayFrom' = ReplayFrom
       /\ \A s : (Bounded(s)' <=> Bounded(s)) /\ (Fresh(s)' <=> Fresh(s))
  BY <1>1, NotLogged DEF ReplayFrom, Bounded, Fresh, NextGeneration
<1>11. \A i \in DOMAIN searchers : searchers[i] \in DOMAIN segs' /\ RowsOf(i)' = RowsOf(i)
  <2>1. \A i \in DOMAIN searchers : searchers[i] \in DOMAIN segs'
    BY <1>4 DEF ToSet
  <2> QED BY <1>1, <1>3, <2>1 DEF RowsOf
<1>12. Shape'
  BY <1>1, <1>2, <1>3, <1>11 DEF Shape
<1>13. /\ DOMAIN id_index' = DOMAIN id_index
       /\ \A p \in DOMAIN id_index : /\ id_index'[p] # Sealing
                                     /\ \A i \in DOMAIN searchers : id_index'[p] = i <=> id_index[p] = i
  BY <1>5, <1>6
<1>14. Content'
  <2>1. \A p \in Points : p \in DOMAIN streamer' <=> p \in DOMAIN id_index' /\ id_index'[p] = Streamer
    BY <1>5, <1>13
  <2>2. \A i \in DOMAIN searchers, p \in Points : Shown(i, p)' <=> p \in DOMAIN id_index' /\ id_index'[p] = i
    <3>1. \A i \in DOMAIN searchers : \A p : Shown(i, p)' <=> Shown(i, p)
      BY <1>1, <1>11 DEF Shown
    <3> QED BY <1>2, <1>13, <3>1 DEF Content
  <2>3. \A p \in DOMAIN id_index' : id_index'[p] \in DOMAIN searchers => segs'[searchers[id_index'[p]]].rows[p] = Latest(p)
    <3>1. \A i \in DOMAIN searchers : segs'[searchers[i]].rows = RowsOf(i)
      BY <1>1, <1>11 DEF RowsOf
    <3>2. \A i \in DOMAIN searchers : \A p \in DOMAIN id_index : id_index[p] = i => RowsOf(i)[p] = Latest(p)
      BY <1>2 DEF Content
    <3> QED BY <1>13, <3>1, <3>2
  <2>4. \A p \in Points : p \in DOMAIN id_index' <=> Latest(p) # 0
    BY <1>2, <1>13 DEF Content
  <2>5. \A p \in DOMAIN id_index' : id_index'[p] = Streamer => streamer'[p] = Latest(p)
    BY <1>5, <1>13
  <2> QED BY <1>1, <1>10, <1>13, <2>1, <2>2, <2>3, <2>4, <2>5 DEF Content, RowsOf
<1>15. After(ReplayFrom)'
  <2>1. \A p : InMemory(p)' => InMemory(p)
    BY <1>5, <1>13 DEF InMemory
  <2> QED BY <1>2, <1>10, <2>1 DEF After
<1>16. Current' => Covered'
  <2>1. \A s, p : Row(s, p)' => Row(s, p) /\ s \in Installed'
    BY <1>3, <1>4 DEF Row
  <2>2. CASE published' = published
    <3>1. Current' => Current
      BY <1>1, <2>2 DEF Current
    <3>2. Covered => Covered'
      BY <1>1, <1>4, <1>10, <2>1, <2>2 DEF Covered
    <3> QED BY <1>2, <3>1, <3>2
  <2>3. CASE published' = overlay
    <3>1. \A s \in Installed', t \in Installed', p \in Points :
          Row(s, p)' /\ Row(t, p)' /\ <<s, p>> \notin overlay.points /\ <<t, p>> \notin overlay.points => s = t
      <4>1. CASE Installed' \subseteq ToSet(searchers)
        BY <1>2, <2>1, <4>1, OneIsShown DEF Row
      <4>2. CASE manifest.exists /\ Behind
        BY <1>4, <4>2 DEF Behind, Installed
      <4> QED BY <1>4, <4>1, <4>2
    <3> QED BY <1>1, <2>3, <3>1 DEF Covered
  <2>4. CASE published'.generation # manifest.generation
    BY <1>1, <2>4 DEF Current
  <2> QED BY <2>2, <2>3, <2>4 DEF GivesUp
<1>17. Owners'
  BY <1>1, <1>5, <1>7, <1>8, IdleTypes DEF Owners, Emptying, CompactLocks
<1>18. Named'
  <2>1. ~manifest.exists => \A s \in DOMAIN segs' : Bounded(s)
    BY <1>2, <1>3 DEF Named
  <2>2. \A h \in published'.points \cup overlay'.points : Bounded(h[1])
    BY <1>1, <1>2 DEF GivesUp, Named
  <2> QED BY <1>1, <1>2, <1>7, <1>8, <1>10, <2>1, <2>2 DEF Named, Emptying
<1>19. Memory'
  BY <1>12, <1>14 DEF Memory, Emptying
<1>20. Retained'
  BY <1>7, <1>8, <1>15 DEF Retained, Emptying
<1>21. Linked'
  <2>1. manifest'.exists => Switched'
    <3> SUFFICES ASSUME manifest.exists PROVE Switched'
      BY <1>1
    <3>1. CASE Behind
      <4>1. ToSet(manifest.segments) \subseteq DOMAIN segs /\ u \notin ToSet(manifest.segments)
        BY <1>0, <3>1 DEF Behind, Fresh
      <4>2. \A s \in ToSet(manifest.segments) : s \in DOMAIN segs' /\ segs'[s] = segs[s]
        BY <1>3, <4>1
      <4>3. \A h \in published'.points : h[1] \in ToSet(manifest.segments) => h \in published.points \cup overlay.points
        BY DEF GivesUp
      <4>4. Behind'
        BY <1>1, <1>2, <1>6, <1>10, <3>1, <4>2, <4>3, BehindStays
      <4> QED BY <4>4 DEF Switched
    <3>2. CASE ~Behind
      BY <1>1, <1>2, <3>2 DEF Switched
    <3> QED BY <3>1, <3>2
  <2>2. Unlisted'
    BY <1>1, <1>2, <1>4, <1>8 DEF Unlisted
  <2> QED BY <1>7, <1>8, <1>16, <2>1, <2>2 DEF Linked, Finishing, Emptying
<1>22. SealRows' /\ Staged' /\ Rewritten' /\ Down'
  BY <1>1, <1>7, <1>8 DEF SealRows, Staged, Rewritten, Down, Emptying, CompactLocks
<1> QED BY <1>9, <1>17, <1>18, <1>19, <1>20, <1>21, <1>22 DEF Inv

LEMMA SealAbandonKeeps ==
  ASSUME Inv, SealAbandon
  PROVE  Inv'
<1>1. seal.pc = "failed" /\ SealActive
  BY DEF SealAbandon, SealActive
<1>2. up /\ ~Emptying /\ ~building /\ ~Merging /\ ~CompactLocks /\ sealing.owner = "seal"
  BY <1>1, SealRuns
<1>3. Types /\ Owners /\ Named /\ Content
  BY <1>2, LiveParts DEF Inv, Loaded, Emptying
<1>4. Restored
  BY <1>2, <1>3, RestoredIs DEF SealAbandon
<1>5. Fresh(Sealed)
  BY <1>1, <1>3 DEF Named
<1>6. published \in [generation : Nat, points : SUBSET (Names \X Points)] /\ Len(log) \in Nat
  BY <1>3 DEF Types, DiskTypes
<1>7. \A h \in published.points : Bounded(h[1])
  BY <1>2, <1>3 DEF Named
<1>8. NoSeal \in [pc : {"idle"}, end : Nat] /\ NoSeal.end <= Len(log)
  BY <1>6 DEF NoSeal
<1>9. /\ UNCHANGED <<log, base, manifest, published, checkpoint, up, searchers, overlay, last_segment, building, compact>>
      /\ seal' = NoSeal
  BY DEF SealAbandon, wal
<1>10. \E s : Fresh(s) /\ segs' = Restrict(segs, DOMAIN segs \ {s}) /\ (SealActive => s = Sealed)
  BY <1>5 DEF SealAbandon
<1>11. building \in BOOLEAN
  BY <1>3 DEF Types, MemoryTypes
<1>12. building' = FALSE
  BY <1>2, <1>9, <1>11
<1>13. GivesUp
  BY <1>1, <1>2, <1>4, <1>6, <1>7, <1>8, <1>9, <1>10, <1>12 DEF GivesUp
<1> QED BY <1>13, GivesUpKeeps

LEMMA CompactAbandonedKeeps ==
  ASSUME Inv, CompactBuildFails \/ CompactPublishFails
  PROVE  Inv'
<1>1. compact.pc \in {"build", "commit", "advance", "manifest"} /\ (compact.pc = "commit" => compact.staged)
  BY DEF CompactBuildFails, CompactPublishFails, Publishing, AtCommit
<1>2. PICK S : CompactAbandoned(S) /\ S \in {published, overlay}
  BY DEF CompactBuildFails, CompactPublishFails
<1>3. Types /\ Owners /\ Named
  BY DEF Inv
<1>4. up /\ compact.staged /\ Merging /\ building /\ sealing.owner # "seal" /\ ~SealActive /\ ~SealEnding /\ manifest.exists
      /\ seal.pc = "idle"
  <2>1. up /\ compact.staged /\ manifest.exists
    BY <1>1, <1>3 DEF Owners, NoCompact, Emptying
  <2>2. Merging
    BY <1>1, <2>1 DEF Merging
  <2>3. building /\ ~SealActive /\ ~SealEnding /\ sealing.owner # "seal"
    BY <1>3, <2>2 DEF Owners, Emptying
  <2>4. seal.pc = "idle"
    BY <1>3, <2>3 DEF Types, WorkTypes, SealActive, SealEnding, SealPcs
  <2> QED BY <2>1, <2>2, <2>3, <2>4
<1>5. Content /\ Shape /\ ~Emptying
  BY <1>1, <1>4, LiveParts DEF Loaded, Emptying
<1>6. sealing.owner \in {"none", "compact"}
  BY <1>3, <1>4 DEF Types, MemoryTypes, Owners
<1>7. Restored
  BY <1>2, <1>3, <1>5, <1>6, RestoredIs DEF CompactAbandoned
<1>8. Fresh(compact.name)
  BY <1>3, <1>4 DEF Named
<1>9. /\ published' \in [generation : Nat, points : SUBSET (Names \X Points)]
      /\ \A h \in published'.points : Bounded(h[1])
      /\ published' = published \/ published' = overlay \/ published'.generation # manifest.generation
  <2>1. published \in [generation : Nat, points : SUBSET (Names \X Points)]
        /\ overlay \in [generation : Nat, points : SUBSET (Names \X Points)]
        /\ \A h \in published.points \cup overlay.points : Bounded(h[1])
    BY <1>3, <1>4 DEF Types, DiskTypes, MemoryTypes, Named
  <2>2. published' = published \/ published' = overlay
    BY <1>2 DEF CompactAbandoned
  <2> QED BY <2>1, <2>2
<1>10. seal \in [pc : {"idle"}, end : Nat] /\ seal.end <= Len(log)
  BY <1>3, <1>4 DEF Types, WorkTypes
<1>11. /\ UNCHANGED <<log, base, manifest, checkpoint, up, searchers, overlay, last_segment, seal>> /\ building' = FALSE
       /\ compact' = NoCompact /\ segs' = Restrict(segs, DOMAIN segs \ {compact.name})
  BY <1>2 DEF CompactAbandoned, wal
<1>12. GivesUp
  <2>1. \A h \in published'.points : h[1] \in ToSet(manifest.segments) => h \in published.points \cup overlay.points
    BY <1>2 DEF CompactAbandoned
  <2> QED BY <1>1, <1>4, <1>5, <1>7, <1>8, <1>9, <1>10, <1>11, <2>1 DEF GivesUp
<1> QED BY <1>12, GivesUpKeeps

\* A compaction that returns without cleaning up leaves its flag and the frozen
\* rows, which the collection goes on to read.
LEMMA DropsKeeps ==
  ASSUME Inv, Still, compact' = NoCompact, UNCHANGED <<last_segment, building>>,
         published' \in [generation : Nat, points : SUBSET (Names \X Points)], ~SealEnding
  PROVE  Inv'
<1>1. /\ UNCHANGED <<log, base, segs, manifest, checkpoint, up, streamer, sealing, searchers, id_index, overlay,
                     last_segment, building, seal>>
      /\ up /\ ~Emptying
  BY DEF Still
<1>2. Types /\ Owners /\ Named /\ Retained
  BY DEF Inv
<1>3. /\ compact' \in CompactTypes /\ compact'.pc = "idle" /\ compact'.staged = FALSE
      /\ compact'.end <= Len(log) /\ compact'.mark <= Len(log)
      /\ ~Merging' /\ ~CompactLocks' /\ ~Ending' /\ ~Emptying'
  <2>1. Len(log) \in Nat
    BY <1>2 DEF Types, DiskTypes
  <2> QED BY <2>1, IdleTypes DEF CompactTypes, Merging, CompactLocks, Ending, Emptying
<1>4. /\ Shape' /\ Content' /\ After(ReplayFrom)' /\ (manifest'.exists => Switched') /\ Unlisted' /\ SealRows'
      /\ (Current' => Covered') /\ (Current' /\ SealActive' => Guarded')
      /\ \A s \in ToSet(searchers') \cup ToSet(manifest'.segments) : Bounded(s)'
      /\ ~manifest'.exists => \A s \in DOMAIN segs' : Bounded(s)'
      /\ \A h \in published'.points \cup overlay'.points : Bounded(h[1])'
      /\ SealActive' => Fresh(Sealed)'
      /\ (SealActive' <=> SealActive) /\ (SealEnding' <=> SealEnding)
  BY StillDisk
<1>5. Types'
  BY <1>1, <1>2, <1>3 DEF Types, DiskTypes, MemoryTypes, WorkTypes, CompactTypes, Emptying
<1>6. Owners'
  BY <1>1, <1>2, <1>3, <1>4 DEF Owners
<1>7. Named'
  BY <1>3, <1>4 DEF Named
<1>8. Memory'
  BY <1>4 DEF Memory
<1>9. Retained'
  BY <1>1, <1>2, <1>3, <1>4 DEF Retained
<1>10. Linked'
  BY <1>3, <1>4 DEF Linked, Finishing
<1>11. Staged' /\ Rewritten' /\ Down'
  BY <1>1, <1>3 DEF Staged, Rewritten, Down
<1> QED BY <1>4, <1>5, <1>6, <1>7, <1>8, <1>9, <1>10, <1>11 DEF Inv

LEMMA CompactReturnsKeeps ==
  ASSUME Inv, CompactCommitFails \/ CompactRestoreFails
  PROVE  Inv'
<1>1. /\ UNCHANGED <<log, base, segs, manifest, checkpoint, up, streamer, sealing, searchers, id_index, overlay,
                     last_segment, building, seal>>
      /\ compact' = NoCompact
      /\ \/ published' = published \/ published' = overlay
         \/ compact.pc \in {"advance", "manifest"} /\ published' = MergedOverlay
  <2>1. CASE CompactCommitFails
    BY <2>1 DEF CompactCommitFails, wal, disk, memory, content
  <2>2. CASE CompactRestoreFails
    BY <2>2 DEF CompactRestoreFails, Publishing, AtCommit, wal, memory, content
  <2> QED BY <2>1, <2>2
<1>2. up /\ ~Emptying /\ seal.pc = "idle" /\ ~SealEnding
  <2>1. AtCommit \/ compact.pc \in {"advance", "manifest"}
    BY DEF CompactCommitFails, CompactRestoreFails, Publishing
  <2>2. CASE AtCommit
    BY <2>2, CommitRuns
  <2>3. CASE compact.pc \in {"advance", "manifest"}
    BY <2>3, CompactRuns DEF CompactLocks, Emptying
  <2> QED BY <2>1, <2>2, <2>3
<1>3. published \in [generation : Nat, points : SUBSET (Names \X Points)]
      /\ overlay \in [generation : Nat, points : SUBSET (Names \X Points)]
      /\ \A h \in published.points \cup overlay.points : Bounded(h[1])
  BY <1>2 DEF Inv, Types, DiskTypes, MemoryTypes, Named
<1>4. /\ published' \in [generation : Nat, points : SUBSET (Names \X Points)]
      /\ \A h \in published'.points : Bounded(h[1])
      /\ \A h \in published'.points : h[1] \in ToSet(manifest.segments) => h \in published.points \cup overlay.points
      /\ published' = published \/ published' = overlay \/ published'.generation # manifest.generation
  <2>1. CASE published' = published \/ published' = overlay
    BY <1>3, <2>1
  <2>2. CASE compact.pc \in {"advance", "manifest"} /\ published' = MergedOverlay
    <3>1. compact.name \notin ToSet(manifest.segments)
      BY <2>2, MergedOverlayIs DEF Fresh
    <3> QED BY <1>3, <2>2, <3>1, MergedOverlayIs
  <2> QED BY <1>1, <2>1, <2>2
<1>5. Still
  BY <1>1, <1>2, <1>4 DEF Still
<1> QED BY <1>1, <1>2, <1>4, <1>5, DropsKeeps

-----------------------------------------------------------------------------
(***************************************************************************)
(* The manifest switches the generation: the seal, and an empty collection.*)
(***************************************************************************)
LEMMA OneIsShownNext ==
  ASSUME Content', NEW s \in ToSet(searchers'), NEW t \in ToSet(searchers'), NEW p \in Points,
         p \in DOMAIN segs'[s].rows, p \in DOMAIN segs'[t].rows,
         <<s, p>> \notin overlay'.points, <<t, p>> \notin overlay'.points
  PROVE  s = t
<1>1. PICK i \in DOMAIN searchers' : s = searchers'[i]
  BY DEF ToSet
<1>2. PICK j \in DOMAIN searchers' : t = searchers'[j]
  BY DEF ToSet
<1>3. Shown(i, p)' /\ Shown(j, p)'
  BY <1>1, <1>2 DEF Shown, RowsOf
<1> QED BY <1>1, <1>2, <1>3 DEF Content

LEMMA AppendedIs ==
  ASSUME searchers \in Seq(Names), NEW u \in Names, searchers' = Append(searchers, u)
  PROVE  /\ searchers' \in Seq(Names) /\ Len(searchers) \in Nat /\ Len(searchers') = Len(searchers) + 1
         /\ DOMAIN searchers = 1 .. Len(searchers) /\ DOMAIN searchers' = 1 .. Len(searchers) + 1
         /\ \A i \in DOMAIN searchers : i \in DOMAIN searchers' /\ searchers'[i] = searchers[i]
         /\ searchers'[Len(searchers) + 1] = u /\ Len(searchers) + 1 \notin DOMAIN searchers
         /\ \A i \in DOMAIN searchers' : i \in DOMAIN searchers \/ i = Len(searchers) + 1
         /\ \A s : s \in ToSet(searchers') <=> s \in ToSet(searchers) \/ s = u
<1>1. /\ searchers' \in Seq(Names) /\ Len(searchers) \in Nat /\ Len(searchers') = Len(searchers) + 1
      /\ DOMAIN searchers = 1 .. Len(searchers) /\ DOMAIN searchers' = 1 .. Len(searchers) + 1
      /\ \A i \in 1 .. Len(searchers) : searchers'[i] = searchers[i]
      /\ searchers'[Len(searchers) + 1] = u
  OBVIOUS
<1>2. /\ \A i \in DOMAIN searchers : i \in DOMAIN searchers' /\ searchers'[i] = searchers[i]
      /\ Len(searchers) + 1 \notin DOMAIN searchers
      /\ \A i \in DOMAIN searchers' : i \in DOMAIN searchers \/ i = Len(searchers) + 1
      /\ Len(searchers) + 1 \in DOMAIN searchers'
  BY <1>1
<1>3. \A s : s \in ToSet(searchers') <=> s \in ToSet(searchers) \/ s = u
  <2>1. \A s : s \in ToSet(searchers) <=> \E i \in DOMAIN searchers : s = searchers[i]
    BY DEF ToSet
  <2>2. \A s : s \in ToSet(searchers') <=> \E i \in DOMAIN searchers' : s = searchers'[i]
    BY DEF ToSet
  <2> QED BY <1>1, <1>2, <2>1, <2>2
<1> QED BY <1>1, <1>2, <1>3

LEMMA SealManifestKeeps ==
  ASSUME Inv, SealManifest \/ SealInstallStuck
  PROVE  Inv'
<1>n. PICK n : n = Len(searchers) + 1
  OBVIOUS
<1>0. /\ seal.pc = "manifest" /\ searchers' = Append(searchers, Sealed)
      /\ manifest' = [exists |-> TRUE, generation |-> NextGeneration, segments |-> searchers']
      /\ overlay' = published
      /\ id_index' = [p \in DOMAIN id_index |-> IF id_index[p] = Sealing THEN Len(searchers') ELSE id_index[p]]
      /\ \/ sealing' = NotSealing /\ last_segment' = TRUE /\ seal' = [seal EXCEPT !.pc = "checkpoint"]
         \/ sealing' = [sealing EXCEPT !.owner = "gone"] /\ last_segment' = last_segment /\ seal' = NoSeal
  BY DEF SealManifest, SealInstallStuck, SealSwitch
<1>1. UNCHANGED <<log, base, segs, published, checkpoint, up, streamer, building, compact>>
  BY DEF SealManifest, SealInstallStuck, SealSwitch, wal
<1>2. /\ up /\ ~Emptying /\ ~CompactLocks /\ ~building /\ ~Merging /\ sealing.owner = "seal" /\ ~Ending
      /\ SealActive /\ compact.pc \notin {"advance", "manifest", "empty", "migrate", "overlay", "checkpoint", "cut", "remove"}
  BY <1>0, SealRuns DEF SealActive, CompactLocks
<1>3. /\ Types /\ Owners /\ Named /\ Retained /\ SealRows /\ Shape /\ Content /\ After(ReplayFrom)
  BY <1>2, LiveParts DEF Inv, Loaded, Emptying
<1>4. /\ published = SealOverlay /\ segs[Sealed].tomb = Superseded /\ segs[Sealed].rows = sealing.rows
      /\ Sealed \in DOMAIN segs
  BY <1>0, <1>2, <1>3 DEF SealRows
<1>5. /\ SealOverlay.generation = manifest.generation + 1
      /\ \A h \in SealOverlay.points : h \in overlay.points \/ (h[1] = Sealed /\ h[2] \in Superseded)
      /\ \A h \in overlay.points : h \in SealOverlay.points
      /\ \A p \in Superseded : <<Sealed, p>> \in SealOverlay.points
      /\ Sealed \in Names /\ Bounded(Sealed)
  BY <1>2, SealOverlayIs
<1>6. Fresh(Sealed) /\ Sealed \notin ToSet(searchers)
  BY <1>2, <1>3 DEF Named, Fresh
<1>7. /\ manifest.generation \in Nat /\ searchers \in Seq(Names) /\ DOMAIN id_index \subseteq Points
      /\ id_index \in [DOMAIN id_index -> {Streamer, Sealing} \cup DOMAIN searchers]
      /\ seal \in [pc : SealPcs, end : Nat] /\ seal.end <= Len(log)
      /\ Streamer = -1 /\ Sealing = 0
      /\ sealing \in [owner : {"none", "seal", "compact", "gone"}, rows : RowMaps]
  BY <1>2, <1>3 DEF Types, DiskTypes, MemoryTypes, WorkTypes, Streamer, Sealing, Emptying
<1>8. /\ searchers' \in Seq(Names) /\ Len(searchers) \in Nat /\ Len(searchers') = n
      /\ DOMAIN searchers = 1 .. Len(searchers) /\ DOMAIN searchers' = 1 .. n
      /\ \A i \in DOMAIN searchers : i \in DOMAIN searchers' /\ searchers'[i] = searchers[i]
      /\ searchers'[n] = Sealed /\ n \notin DOMAIN searchers
      /\ \A i \in DOMAIN searchers' : i \in DOMAIN searchers \/ i = n
      /\ \A s : s \in ToSet(searchers') <=> s \in ToSet(searchers) \/ s = Sealed
  <2>1. searchers' = Append(searchers, Sealed) /\ Sealed \in Names /\ searchers \in Seq(Names)
    BY <1>0, <1>5, <1>7
  <2> QED BY <1>n, <2>1, AppendedIs
<1>9. \A s : s \in ToSet(searchers) <=> \E i \in DOMAIN searchers : s = searchers[i]
  BY DEF ToSet
<1>10. /\ DOMAIN id_index' = DOMAIN id_index
       /\ \A p \in DOMAIN id_index : id_index'[p] = IF id_index[p] = Sealing THEN n ELSE id_index[p]
       /\ id_index' \in [DOMAIN id_index' -> {Streamer, Sealing} \cup DOMAIN searchers']
  <2>1. DOMAIN id_index' = DOMAIN id_index /\ \A p \in DOMAIN id_index : id_index'[p] = IF id_index[p] = Sealing THEN n ELSE id_index[p]
    BY <1>0, <1>8
  <2>2. n \in DOMAIN searchers'
    BY <1>n, <1>8
  <2>3. \A p \in DOMAIN id_index : id_index'[p] \in {Streamer, Sealing} \cup DOMAIN searchers'
    BY <1>7, <1>8, <2>1, <2>2
  <2>4. id_index' = [p \in DOMAIN id_index' |-> id_index'[p]]
    BY <1>0
  <2> QED BY <2>1, <2>3, <2>4
<1>11. /\ \A p \in DOMAIN id_index : /\ id_index'[p] = Streamer <=> id_index[p] = Streamer
                                     /\ id_index'[p] # Sealing
                                     /\ \A i \in DOMAIN searchers : id_index'[p] = i <=> id_index[p] = i
                                     /\ id_index'[p] = n <=> id_index[p] = Sealing
  <2>1. n > 0 /\ n \in Nat /\ \A i \in DOMAIN searchers : i # n /\ i > 0 /\ i \in Nat
    BY <1>n, <1>8
  <2>2. \A p \in DOMAIN id_index : id_index[p] \in {Streamer, Sealing} \cup DOMAIN searchers
    BY <1>7
  <2> QED BY <1>7, <1>10, <2>1, <2>2
<1>12. manifest'.exists /\ manifest'.generation = manifest.generation + 1 /\ manifest'.segments = searchers'
       /\ manifest' \in [exists : BOOLEAN, generation : Nat, segments : Seq(Names)] /\ Installed' = ToSet(searchers')
  BY <1>0, <1>7, <1>8 DEF NextGeneration, Installed
<1>13. /\ seal' \in [pc : SealPcs, end : Nat] /\ seal'.end <= Len(log) /\ ~SealActive' /\ ~Merging' /\ ~CompactLocks' /\ ~Ending'
       /\ SealEnding' => seal'.end = seal.end /\ sealing' = NotSealing
       /\ sealing' \in [owner : {"none", "gone"}, rows : RowMaps] /\ (sealing'.owner = "none" => sealing' = NotSealing)
       /\ ~Emptying' /\ last_segment' \in BOOLEAN
  <2>1. CASE sealing' = NotSealing /\ last_segment' = TRUE /\ seal' = [seal EXCEPT !.pc = "checkpoint"]
    <3>1. NotSealing \in [owner : {"none", "gone"}, rows : RowMaps]
      BY EmptyRows DEF NotSealing
    <3> QED BY <1>1, <1>2, <1>7, <2>1, <3>1 DEF SealPcs, SealActive, SealEnding, Merging, CompactLocks, Ending, Emptying
  <2>2. CASE sealing' = [sealing EXCEPT !.owner = "gone"] /\ last_segment' = last_segment /\ seal' = NoSeal
    <3>1. sealing' \in [owner : {"none", "gone"}, rows : RowMaps] /\ sealing'.owner = "gone"
      BY <1>7, <2>2
    <3>2. seal' \in [pc : SealPcs, end : Nat] /\ seal'.end <= Len(log) /\ seal'.pc = "idle" /\ last_segment \in BOOLEAN
      BY <1>3, <2>2, IdleTypes DEF Types, DiskTypes, MemoryTypes
    <3> QED BY <1>1, <1>2, <2>2, <3>1, <3>2 DEF SealActive, SealEnding, Merging, CompactLocks, Ending, Emptying
  <2> QED BY <1>0, <2>1, <2>2
<1>14. Types'
  <2>1. DiskTypes'
    BY <1>1, <1>3, <1>12 DEF Types, DiskTypes
  <2>2. MemoryTypes'
    <3>1. \A p \in DOMAIN id_index' : id_index'[p] \in Int
      BY <1>7, <1>8, <1>10
    <3>2. id_index' \in [DOMAIN id_index' -> Int]
      BY <1>10, <3>1
    <3>3. sealing' \in [owner : {"none", "seal", "compact", "gone"}, rows : RowMaps]
      BY <1>13
    <3> QED BY <1>0, <1>1, <1>3, <1>7, <1>8, <1>10, <1>13, <3>2, <3>3 DEF Types, MemoryTypes, DiskTypes
  <2>3. WorkTypes'
    BY <1>1, <1>3, <1>7, <1>13 DEF Types, WorkTypes
  <2> QED BY <2>1, <2>2, <2>3 DEF Types
<1>15. /\ \A p : LastRecord(p)' = LastRecord(p) /\ Latest(p)' = Latest(p)
       /\ ReplayFrom' = ReplayFrom
  BY <1>1, NotLogged DEF ReplayFrom
<1>16. /\ \A i \in DOMAIN searchers : RowsOf(i)' = RowsOf(i)
       /\ RowsOf(n)' = sealing.rows
       /\ \A i \in DOMAIN searchers : searchers[i] # Sealed
  BY <1>1, <1>4, <1>6, <1>8, <1>9 DEF RowsOf
<1>17. Shape'
  <2>1. \A i, j \in DOMAIN searchers' : searchers'[i] = searchers'[j] => i = j
    BY <1>3, <1>8, <1>16 DEF Shape
  <2>2. \A i \in DOMAIN searchers' : searchers'[i] \in DOMAIN segs'
    BY <1>1, <1>3, <1>4, <1>8 DEF Shape
  <2>3. \A i \in DOMAIN searchers' : \A p \in segs'[searchers'[i]].tomb : <<searchers'[i], p>> \in overlay'.points
    BY <1>0, <1>1, <1>3, <1>4, <1>5, <1>8 DEF Shape
  <2> QED BY <2>1, <2>2, <2>3 DEF Shape
<1>18. \A p \in Points : <<Sealed, p>> \in overlay'.points <=> p \in Superseded
  <2>1. \A p : <<Sealed, p>> \notin overlay.points
    BY <1>6 DEF Fresh
  <2> QED BY <1>0, <1>4, <1>5, <2>1
<1>19. \A i \in DOMAIN searchers, p \in Points : <<searchers[i], p>> \in overlay'.points <=> <<searchers[i], p>> \in overlay.points
  BY <1>0, <1>4, <1>5, <1>16
<1>20. Content'
  <2>1. \A p \in Points : p \in DOMAIN streamer' <=> p \in DOMAIN id_index' /\ id_index'[p] = Streamer
    BY <1>1, <1>3, <1>10, <1>11 DEF Content
  <2>2. ASSUME NEW i \in DOMAIN searchers', NEW p \in Points
        PROVE  Shown(i, p)' <=> p \in DOMAIN id_index' /\ id_index'[p] = i
    <3>1. CASE i \in DOMAIN searchers
      <4>1. Shown(i, p)' <=> Shown(i, p)
        BY <1>8, <1>16, <1>19, <3>1 DEF Shown
      <4> QED BY <1>3, <1>10, <1>11, <3>1, <4>1 DEF Content
    <3>2. CASE i = n
      <4>1. Shown(n, p)' <=> p \in DOMAIN sealing.rows /\ p \notin Superseded
        BY <1>8, <1>16, <1>18 DEF Shown
      <4>2. p \in DOMAIN sealing.rows /\ p \notin Superseded <=> p \in DOMAIN id_index /\ id_index[p] = Sealing
        BY <1>3 DEF Superseded, Content
      <4> QED BY <1>10, <1>11, <3>2, <4>1, <4>2
    <3> QED BY <1>8, <3>1, <3>2
  <2>3. \A p \in DOMAIN id_index' : id_index'[p] \in DOMAIN searchers' => segs'[searchers'[id_index'[p]]].rows[p] = Latest(p)
    <3>1. \A i \in DOMAIN searchers : segs'[searchers'[i]].rows = RowsOf(i)
      BY <1>16 DEF RowsOf
    <3>2. segs'[searchers'[n]].rows = sealing.rows
      BY <1>16 DEF RowsOf
    <3>3. \A p \in DOMAIN id_index : id_index[p] = Sealing => sealing.rows[p] = Latest(p)
      BY <1>3 DEF Content
    <3>4. \A i \in DOMAIN searchers : \A p \in DOMAIN id_index : id_index[p] = i => RowsOf(i)[p] = Latest(p)
      BY <1>3 DEF Content
    <3> QED BY <1>8, <1>10, <1>11, <3>1, <3>2, <3>3, <3>4
  <2>4. \A p \in Points : p \in DOMAIN id_index' <=> Latest(p) # 0
    BY <1>3, <1>10 DEF Content
  <2>5. \A p \in DOMAIN id_index' : (id_index'[p] = Streamer => streamer'[p] = Latest(p)) /\ id_index'[p] # Sealing
    BY <1>1, <1>3, <1>10, <1>11 DEF Content
  <2> QED BY <1>15, <2>1, <2>2, <2>3, <2>4, <2>5 DEF Content, RowsOf
<1>21. After(ReplayFrom)'
  <2>1. \A p : InMemory(p)' => InMemory(p)
    BY <1>10, <1>11 DEF InMemory
  <2> QED BY <1>3, <1>15, <2>1 DEF After
<1>22. Covered'
  <2>1. \A s \in Installed', t \in Installed', p \in Points :
          Row(s, p)' /\ Row(t, p)' /\ <<s, p>> \notin overlay'.points /\ <<t, p>> \notin overlay'.points => s = t
    BY <1>12, <1>20, OneIsShownNext DEF Row
  <2>2. published' = overlay'
    BY <1>0, <1>1
  <2> QED BY <2>1, <2>2 DEF Covered
<1>23. Owners'
  BY <1>1, <1>2, <1>3, <1>12, <1>13 DEF Owners
<1>24. Named'
  <2>1. \A s \in Names : Bounded(s) => Bounded(s)'
    <3> SUFFICES ASSUME NEW s \in Names, Bounded(s) PROVE Bounded(s)'
      OBVIOUS
    <3>1. s[1] \in {0, 1, 2} /\ s[2] \in Nat /\ s[3] \in Nat
      BY DEF Names
    <3> QED BY <1>1, <1>7, <1>12, <3>1 DEF Bounded, NextGeneration
  <2>2. ToSet(searchers) \subseteq Names /\ \A h \in published.points : h[1] \in Names
    BY <1>3, <1>7 DEF Types, DiskTypes, ToSet
  <2>3. \A s \in ToSet(searchers') \cup ToSet(manifest'.segments) : Bounded(s)'
    BY <1>3, <1>5, <1>8, <1>12, <2>1, <2>2 DEF Named
  <2>4. \A h \in published'.points \cup overlay'.points : Bounded(h[1])'
    BY <1>0, <1>1, <1>2, <1>3, <2>1, <2>2 DEF Named
  <2> QED BY <1>1, <1>2, <1>12, <1>13, <2>3, <2>4 DEF Named, Emptying
<1>25. Memory'
  BY <1>17, <1>20 DEF Memory, Emptying
<1>26. Retained'
  <2>1. SealEnding' => sealing'.owner = "none"
    BY <1>13, IdleTypes DEF NotSealing
  <2> QED BY <1>1, <1>2, <1>3, <1>13, <1>21, <2>1 DEF Retained
<1>27. Linked'
  <2>1. overlay'.generation = manifest'.generation
    BY <1>0, <1>4, <1>5, <1>12
  <2> QED BY <1>0, <1>1, <1>2, <1>12, <1>13, <1>22, <2>1 DEF Linked, Finishing, Unlisted, Switched, Emptying
<1>28. SealRows' /\ Staged' /\ Rewritten' /\ Down'
  BY <1>1, <1>2, <1>13 DEF SealRows, Staged, Rewritten, Down, Emptying, CompactLocks
<1> QED BY <1>14, <1>23, <1>24, <1>25, <1>26, <1>27, <1>28 DEF Inv

\* What the collection is when every point is gone.
LEMMA EmptyIs ==
  ASSUME Inv, compact.pc = "empty"
  PROVE  /\ up /\ seal.pc = "idle" /\ ~SealActive /\ ~SealEnding /\ manifest.exists /\ sealing.owner # "seal"
         /\ ~Emptying /\ Types /\ Owners /\ Content
         /\ DOMAIN id_index = {} /\ id_index = NoRows /\ base < Len(log)
         /\ \A p \in Points : Latest(p) = 0
<1>1. /\ up /\ seal.pc = "idle" /\ ~SealActive /\ ~SealEnding /\ manifest.exists /\ sealing.owner # "seal"
      /\ ~Emptying
  BY CompactRuns DEF CompactLocks, Emptying
<1>2. Types /\ Owners /\ Content
  BY <1>1, LiveParts DEF Inv, Loaded
<1>3. id_index = NoRows /\ base < Len(log) /\ DOMAIN id_index = {}
  BY <1>2, EmptyRows DEF Owners
<1>4. \A p \in Points : Latest(p) = 0
  BY <1>2, <1>3 DEF Content
<1> QED BY <1>1, <1>2, <1>3, <1>4

\* Names within their bounds stay so when log and generation grow.
LEMMA GrowsBounds ==
  ASSUME Inv, up, SameHistory, manifest'.generation \in Nat, manifest.generation <= manifest'.generation,
         manifest.generation < manifest'.generation \/ ToSet(searchers) \subseteq ToSet(searchers')
  PROVE  /\ \A s \in Names : Bounded(s) => Bounded(s)'
         /\ \A s \in ToSet(searchers) \cup ToSet(manifest.segments) : Bounded(s)'
         /\ \A h \in published.points \cup overlay.points : Bounded(h[1])'
<1>1. Types /\ Named
  BY DEF Inv
<1>2. manifest.generation \in Nat /\ Len(log) \in Nat /\ Len(log') \in Nat /\ Len(log) <= Len(log')
  <2>1. /\ Len(log) \in Nat /\ Len(log') \in Nat
        /\ Len(log') = Len(log) \/ Len(log') = Len(log) + 1
    BY <1>1, Histories
  <2> QED BY <1>1, <2>1 DEF Types, DiskTypes
<1>3. \A s \in Names : Bounded(s) => Bounded(s)'
  <2> SUFFICES ASSUME NEW s \in Names, Bounded(s) PROVE Bounded(s)'
    OBVIOUS
  <2>1. s[1] \in {0, 1, 2} /\ s[2] \in Nat /\ s[3] \in Nat
    BY DEF Names
  <2>2. s[1] = 0 => s[3] <= manifest'.generation \/ (s[3] = NextGeneration' /\ s \in ToSet(searchers'))
    BY <1>2, <2>1 DEF Bounded, NextGeneration
  <2>3. (s[1] = 1 => s[2] <= Len(log')) /\ (s[1] = 2 => s[2] < Len(log'))
    BY <1>2, <2>1 DEF Bounded
  <2> QED BY <2>2, <2>3 DEF Bounded
<1>4. ToSet(searchers) \cup ToSet(manifest.segments) \subseteq Names
  BY <1>1 DEF Types, MemoryTypes, DiskTypes, ToSet
<1>5. \A h \in published.points \cup overlay.points : h[1] \in Names /\ Bounded(h[1])
  BY <1>1 DEF Types, MemoryTypes, DiskTypes, Named
<1>6. \A s \in ToSet(searchers) \cup ToSet(manifest.segments) : Bounded(s)
  BY <1>1 DEF Named
<1> QED BY <1>3, <1>4, <1>5, <1>6

LEMMA EmptyManifestKeeps ==
  ASSUME Inv, EmptyManifest
  PROVE  Inv'
<1>0. /\ compact.pc = "empty"
      /\ manifest' = [exists |-> TRUE, generation |-> NextGeneration, segments |-> <<>>]
      /\ searchers' = <<>> /\ id_index' = NoRows /\ streamer' = NoRows /\ last_segment' = FALSE
      /\ overlay' = [generation |-> NextGeneration, points |-> {}]
      /\ compact' = [compact EXCEPT !.pc = "overlay", !.mark = 0, !.segment = FALSE]
  BY DEF EmptyManifest, SwitchedTo
<1>1. UNCHANGED <<log, base, segs, published, checkpoint, up, sealing, building, seal>>
  BY DEF EmptyManifest, wal
<1>2. /\ up /\ seal.pc = "idle" /\ ~SealActive /\ ~SealEnding /\ sealing.owner # "seal" /\ ~Emptying
      /\ Types /\ Owners /\ \A p \in Points : Latest(p) = 0
  BY <1>0, EmptyIs
<1>3. manifest.generation \in Nat /\ compact \in CompactTypes /\ compact.end <= Len(log) /\ Len(log) \in Nat
  BY <1>2 DEF Types, DiskTypes, WorkTypes, CompactTypes
<1>4. /\ manifest'.exists /\ manifest'.generation = manifest.generation + 1 /\ manifest'.segments = <<>>
      /\ manifest' \in [exists : BOOLEAN, generation : Nat, segments : Seq(Names)]
  BY <1>0, <1>3 DEF NextGeneration
<1>5. ToSet(searchers') = {} /\ ToSet(manifest'.segments) = {} /\ DOMAIN searchers' = {} /\ Installed' = {}
      /\ searchers' \in Seq(Names)
  <2>1. ToSet(<<>>) = {}
    BY DEF ToSet
  <2> QED BY <1>0, <1>4, <2>1 DEF Installed
<1>6. DOMAIN id_index' = {} /\ DOMAIN streamer' = {} /\ streamer' \in RowMaps
  BY <1>0, EmptyRows
<1>7. compact' \in CompactTypes /\ compact'.pc = "overlay" /\ compact'.end = compact.end /\ compact'.mark = 0
  <2>1. "overlay" \in CompactPcs
    BY DEF CompactPcs
  <2> QED BY <1>0, <1>3, <2>1 DEF CompactTypes
<1>8. overlay' \in [generation : Nat, points : SUBSET (Names \X Points)] /\ overlay'.points = {}
      /\ overlay'.generation = manifest'.generation
  BY <1>0, <1>3 DEF NextGeneration
<1>9. Types'
  <2>1. DiskTypes'
    BY <1>1, <1>2, <1>4 DEF Types, DiskTypes
  <2>2. MemoryTypes'
    <3>1. id_index' \in [DOMAIN id_index' -> {Streamer, Sealing} \cup DOMAIN searchers'] /\ id_index' \in [DOMAIN id_index' -> Int]
      BY <1>0 DEF NoRows
    <3> QED BY <1>0, <1>1, <1>2, <1>5, <1>6, <1>8, <3>1 DEF Types, MemoryTypes
  <2>3. WorkTypes'
    BY <1>1, <1>2, <1>3, <1>7 DEF Types, WorkTypes, CompactTypes
  <2> QED BY <2>1, <2>2, <2>3 DEF Types
<1>10. \A p \in Points : Latest(p)' = 0
  BY <1>1, <1>2, NotLogged
<1>11. Shape' /\ Content'
  BY <1>5, <1>6, <1>8, <1>10 DEF Shape, Content
<1>12. \A n : After(n)'
  BY <1>6 DEF After, InMemory
<1>13. ~SealActive' /\ ~SealEnding' /\ ~Merging' /\ CompactLocks' /\ Ending' /\ seal'.pc = "idle"
  BY <1>1, <1>2, <1>7 DEF SealActive, SealEnding, Merging, CompactLocks, Ending, Emptying
<1>14. Covered'
  BY <1>5, <1>8 DEF Covered
<1>15. Owners'
  BY <1>1, <1>2, <1>4, <1>7, <1>13 DEF Owners, Emptying
<1>16. Named'
  <2>1. manifest'.generation \in Nat /\ manifest.generation <= manifest'.generation /\ manifest.generation < manifest'.generation
    BY <1>3, <1>4
  <2>2. \A h \in published'.points \cup overlay'.points : Bounded(h[1])'
    BY <1>1, <1>2, <1>8, <2>1, GrowsBounds DEF SameHistory
  <2> QED BY <1>4, <1>5, <1>7, <1>13, <2>2 DEF Named
<1>17. Memory'
  BY <1>11 DEF Memory, Emptying
<1>18. Retained'
  BY <1>7, <1>12, <1>13 DEF Retained, Emptying
<1>19. Linked'
  BY <1>4, <1>5, <1>7, <1>8, <1>13, <1>14 DEF Linked, Finishing, Unlisted, Switched, Emptying
<1>20. SealRows' /\ Staged' /\ Rewritten' /\ Down'
  BY <1>1, <1>2, <1>7, <1>13 DEF SealRows, Staged, Rewritten, Down, Emptying
<1> QED BY <1>9, <1>15, <1>16, <1>17, <1>18, <1>19, <1>20 DEF Inv

-----------------------------------------------------------------------------
(***************************************************************************)
(* A compaction that fails on either side of its manifest.                 *)
(***************************************************************************)
\* The new manifest names nothing, or one whole segment that nothing hides.
SwitchesTo(names) ==
  /\ manifest' = SwitchedTo(names)
  /\ \/ names = <<>> /\ \A p \in Points : Latest(p) = 0
     \/ \E u \in DOMAIN segs :
          /\ names = <<u>> /\ segs[u].tomb = {} /\ Whole(segs[u].rows)
          /\ \A h \in published.points \cup overlay.points : h[1] # u

LEMMA SwitchesIs ==
  ASSUME Types, SameHistory, base < Len(log'), UNCHANGED <<base, segs, published, overlay, checkpoint>>,
         NEW names, SwitchesTo(names)
  PROVE  /\ Behind' /\ Covered' /\ manifest'.exists /\ manifest'.generation = manifest.generation + 1
         /\ manifest'.segments = names
         /\ manifest' \in [exists : BOOLEAN, generation : Nat, segments : Seq(Names)]
         /\ manifest'.generation \in Nat /\ manifest.generation < manifest'.generation
         /\ manifest.generation <= manifest'.generation
<1>1. manifest.generation \in Nat /\ DOMAIN segs \subseteq Names
  BY DEF Types, DiskTypes
<1>2. names \in Seq(Names)
  <2>1. names = <<>> \/ \E u \in DOMAIN segs : names = <<u>>
    BY DEF SwitchesTo
  <2>2. <<>> \in Seq(Names) /\ \A u \in Names : <<u>> \in Seq(Names)
    OBVIOUS
  <2> QED BY <1>1, <2>1, <2>2
<1>3. /\ manifest'.exists /\ manifest'.generation = manifest.generation + 1 /\ manifest'.segments = names
      /\ manifest' \in [exists : BOOLEAN, generation : Nat, segments : Seq(Names)]
      /\ manifest'.generation \in Nat /\ manifest.generation < manifest'.generation
      /\ manifest.generation <= manifest'.generation
  BY <1>1, <1>2 DEF SwitchesTo, SwitchedTo, NextGeneration
<1>4. /\ \A p \in Points : LastRecord(p)' = LastRecord(p) /\ Latest(p)' = Latest(p)
  BY Histories
<1>5. Installed' = ToSet(names)
  BY <1>3 DEF Installed
<1>6. CASE names = <<>> /\ \A p \in Points : Latest(p) = 0
  <2>1. ToSet(names) = {}
    BY <1>6 DEF ToSet
  <2>2. Behind'
    BY <1>3, <1>4, <1>6, <2>1 DEF Behind
  <2>3. Covered'
    BY <1>5, <2>1 DEF Covered
  <2> QED BY <1>3, <2>2, <2>3
<1>7. ASSUME NEW u \in DOMAIN segs, names = <<u>>, segs[u].tomb = {}, Whole(segs[u].rows),
             \A h \in published.points \cup overlay.points : h[1] # u
      PROVE  Behind' /\ Covered'
  <2>1. ToSet(names) = {u} /\ names # <<>>
    <3>1. DOMAIN names = {1} /\ names[1] = u
      BY <1>7
    <3> QED BY <3>1 DEF ToSet
  <2>2. \A p : <<u, p>> \notin published.points \cup overlay.points
    BY <1>7
  <2>3. \A p \in Points : /\ p \in DOMAIN segs[u].rows <=> Latest(p)' # 0
                          /\ p \in DOMAIN segs[u].rows => segs[u].rows[p] = Latest(p)'
    BY <1>4, <1>7 DEF Whole
  <2>4. Behind'
    BY <1>3, <1>7, <2>1, <2>2, <2>3 DEF Behind
  <2>5. Covered'
    BY <1>5, <1>7, <2>1 DEF Covered
  <2> QED BY <2>4, <2>5
<1> QED BY <1>3, <1>6, <1>7 DEF SwitchesTo

\* It ends there; memory shows what it has to.
LEMMA EndsKeeps ==
  ASSUME Inv, up, seal.pc = "idle", manifest.exists, SameHistory, compact' = NoCompact,
         UNCHANGED <<base, segs, published, checkpoint, up, streamer, sealing, searchers, id_index, overlay,
                     last_segment, building, seal>>,
         manifest' \in [exists : BOOLEAN, generation : Nat, segments : Seq(Names)], manifest'.exists,
         id_index \in [DOMAIN id_index -> {Streamer, Sealing} \cup DOMAIN searchers],
         Shape', Content', After(ReplayFrom)', Behind', Covered',
         \A s \in ToSet(searchers') \cup ToSet(manifest'.segments) : Bounded(s)',
         \A h \in published'.points \cup overlay'.points : Bounded(h[1])'
  PROVE  Inv'
<1>1. Types /\ Owners /\ ~SealActive /\ ~SealEnding
  BY DEF Inv, SealActive, SealEnding
<1>2. log' \in Seq(Records) /\ Len(log) \in Nat /\ Len(log') \in Nat /\ Len(log) <= Len(log')
  <2>1. /\ log' \in Seq(Records) /\ Len(log) \in Nat /\ Len(log') \in Nat
        /\ Len(log') = Len(log) \/ Len(log') = Len(log) + 1
    BY <1>1, Histories
  <2> QED BY <2>1
<1>3. /\ compact' \in CompactTypes /\ compact'.end <= Len(log') /\ compact'.mark <= Len(log') /\ compact'.pc = "idle"
      /\ compact'.staged = FALSE
      /\ ~SealActive' /\ ~SealEnding' /\ ~Merging' /\ ~CompactLocks' /\ ~Ending' /\ ~Emptying'
  BY <1>1, <1>2, IdleTypes DEF CompactTypes, SealActive, SealEnding, Merging, CompactLocks, Ending, Emptying
<1>4. Types'
  <2>1. base' <= Len(log') /\ checkpoint'.watermark <= Len(log') /\ seal'.end <= Len(log')
    <3>1. base \in Nat /\ base <= Len(log) /\ checkpoint.watermark \in Nat /\ checkpoint.watermark <= Len(log)
          /\ seal.end \in Nat /\ seal.end <= Len(log)
      BY <1>1 DEF Types, DiskTypes, WorkTypes
    <3> QED BY <1>2, <3>1
  <2>2. DiskTypes'
    BY <1>1, <1>2, <2>1 DEF Types, DiskTypes
  <2>3. MemoryTypes'
    BY <1>1 DEF Types, MemoryTypes
  <2>4. WorkTypes'
    BY <1>1, <1>3, <2>1 DEF Types, WorkTypes, CompactTypes
  <2> QED BY <2>2, <2>3, <2>4 DEF Types
<1>5. Owners'
  BY <1>1, <1>3 DEF Owners
<1>6. Named'
  BY <1>3 DEF Named
<1>7. Memory' /\ Retained'
  BY <1>3 DEF Memory, Retained
<1>8. Linked'
  BY <1>3 DEF Linked, Finishing, Unlisted, Switched
<1>9. SealRows' /\ Staged' /\ Rewritten' /\ Down'
  BY <1>3 DEF SealRows, Staged, Rewritten, Down
<1> QED BY <1>4, <1>5, <1>6, <1>7, <1>8, <1>9 DEF Inv

\* Memory is as before.
LEMMA BranchFailsKeeps ==
  ASSUME Inv, up, ~Emptying, seal.pc = "idle", manifest.exists, base < Len(log), compact' = NoCompact,
         UNCHANGED <<log, base, segs, published, checkpoint, up, streamer, sealing, searchers, id_index, overlay,
                     last_segment, building, seal>>,
         NEW names, manifest' = manifest \/ SwitchesTo(names), \A s \in ToSet(names) : Bounded(s) \/ Bounded(s)'
  PROVE  Inv'
<1>1. CASE manifest' = manifest
  <2>1. published \in [generation : Nat, points : SUBSET (Names \X Points)] /\ \A h \in published.points : Bounded(h[1])
    BY DEF Inv, Types, DiskTypes, Named
  <2>2. Still /\ ~SealEnding
    BY <1>1, <2>1 DEF Still, SealEnding
  <2> QED BY <2>1, <2>2, DropsKeeps
<1>2. CASE SwitchesTo(names)
  <2>1. SameHistory /\ Types
    BY DEF SameHistory, Inv
  <2>2. /\ Behind' /\ Covered' /\ manifest'.exists
        /\ manifest'.segments = names
        /\ manifest' \in [exists : BOOLEAN, generation : Nat, segments : Seq(Names)]
        /\ manifest'.generation \in Nat /\ manifest.generation < manifest'.generation
        /\ manifest.generation <= manifest'.generation
    BY <1>2, <2>1, SwitchesIs
  <2>3. Shape /\ Content /\ After(ReplayFrom)
    BY LiveParts DEF Loaded
  <2>4. (\A p : Latest(p)' = Latest(p)) /\ ReplayFrom' = ReplayFrom
    BY NotLogged DEF ReplayFrom
  <2>5. Shape' /\ Content' /\ After(ReplayFrom)'
    <3>1. \A i, p : Shown(i, p)' <=> Shown(i, p)
      BY DEF Shown, RowsOf
    <3> QED BY <2>3, <2>4, <3>1 DEF Shape, Content, RowsOf, After, InMemory
  <2>6. id_index \in [DOMAIN id_index -> {Streamer, Sealing} \cup DOMAIN searchers]
    BY <2>1 DEF Types, MemoryTypes, Emptying
  <2>7. /\ \A s \in Names : Bounded(s) => Bounded(s)'
        /\ \A s \in ToSet(searchers) : Bounded(s)'
        /\ \A h \in published.points \cup overlay.points : Bounded(h[1])'
    BY <2>1, <2>2, GrowsBounds
  <2>8. ToSet(names) \subseteq Names
    BY <2>2 DEF ToSet
  <2>9. \A s \in ToSet(searchers') \cup ToSet(manifest'.segments) : Bounded(s)'
    BY <2>2, <2>7, <2>8
  <2>10. \A h \in published'.points \cup overlay'.points : Bounded(h[1])'
    BY <2>7
  <2> QED BY <2>1, <2>2, <2>5, <2>6, <2>9, <2>10, EndsKeeps
<1> QED BY <1>1, <1>2

LEMMA EmptyManifestFailsKeeps ==
  ASSUME Inv, EmptyManifestFails
  PROVE  Inv'
<1>1. /\ compact.pc = "empty" /\ compact' = NoCompact /\ (manifest' = manifest \/ manifest' = SwitchedTo(<<>>))
      /\ UNCHANGED <<log, base, segs, published, checkpoint, up, streamer, sealing, searchers, id_index, overlay,
                     last_segment, building, seal>>
  BY DEF EmptyManifestFails, wal, memory, content
<1>2. /\ up /\ seal.pc = "idle" /\ manifest.exists /\ ~Emptying /\ base < Len(log)
      /\ \A p \in Points : Latest(p) = 0
  BY <1>1, EmptyIs
<1>3. manifest' = manifest \/ SwitchesTo(<<>>)
  BY <1>1, <1>2 DEF SwitchesTo
<1>4. \A s \in ToSet(<<>>) : Bounded(s) \/ Bounded(s)'
  BY DEF ToSet
<1> QED BY <1>1, <1>2, <1>3, <1>4, BranchFailsKeeps

-----------------------------------------------------------------------------
(***************************************************************************)
(* The rewrite of all rows under the lock.                                 *)
(***************************************************************************)
\* The rows a rewrite collects: the last version of every live point.
LEMMA RewriteRows ==
  ASSUME Inv, up, ~Emptying, sealing.owner = "none"
  PROVE  /\ \A f \in {UnionPoints, [p \in DOMAIN id_index |-> Resolve(p)]} :
              /\ f \in RowMaps
              /\ \A p \in Points : p \in DOMAIN f <=> Latest(p) # 0
              /\ \A p \in DOMAIN f : f[p] = Latest(p)
<1>1. Types /\ Content
  BY LiveParts DEF Inv, Loaded, Emptying
<1>2. /\ DOMAIN id_index \subseteq Points /\ log \in Seq(Records) /\ DOMAIN searchers \subseteq Nat \ {0}
      /\ Streamer = -1 /\ Sealing = 0 /\ streamer \in RowMaps
      /\ \A p \in DOMAIN id_index : id_index[p] \in {Streamer, Sealing} \cup DOMAIN searchers
  BY <1>1 DEF Types, DiskTypes, MemoryTypes, Streamer, Sealing, Emptying
<1>3. \A p \in DOMAIN id_index : id_index[p] = Streamer \/ id_index[p] \in DOMAIN searchers
  BY <1>1, <1>2 DEF Content
<1>4. \A p \in Points : Latest(p) \in Nat
  BY <1>2, LatestIs
<1>5. DOMAIN streamer \subseteq Points
  BY <1>2, RowsAre DEF IsRows
<1>6. \A p \in DOMAIN id_index : Resolve(p) = Latest(p)
  BY <1>1, <1>2, <1>3 DEF Resolve, Content
<1>7. \A f : f = [p \in DOMAIN f |-> f[p]] /\ DOMAIN f = DOMAIN id_index /\ (\A p \in DOMAIN f : f[p] = Latest(p)) =>
         /\ f \in RowMaps
         /\ \A p \in Points : p \in DOMAIN f <=> Latest(p) # 0
         /\ \A p \in DOMAIN f : f[p] = Latest(p)
  <2> SUFFICES ASSUME NEW f, f = [p \in DOMAIN f |-> f[p]], DOMAIN f = DOMAIN id_index, \A p \in DOMAIN f : f[p] = Latest(p)
               PROVE  f \in RowMaps /\ \A p \in Points : p \in DOMAIN f <=> Latest(p) # 0
    OBVIOUS
  <2>1. IsRows(f)
    BY <1>2, <1>4 DEF IsRows
  <2> QED BY <1>1, <2>1, RowsAre DEF Content
<1>8. ASSUME NEW p \in Points
      PROVE  /\ p \in DOMAIN id_index <=> p \in DOMAIN streamer \/ Copies(p) # {}
             /\ p \in DOMAIN streamer => streamer[p] = Latest(p)
             /\ Copies(p) # {} => RowsOf(Min(Copies(p)))[p] = Latest(p)
  <2>1. \A i : i \in Copies(p) <=> i \in DOMAIN searchers /\ p \in DOMAIN id_index /\ id_index[p] = i
    BY <1>1 DEF Copies, HiddenAt, Shown, Content
  <2>2. Copies(p) \in SUBSET Nat
    BY <1>2, <2>1
  <2>3. Copies(p) # {} => Min(Copies(p)) \in Copies(p)
    BY <2>2, MinOf
  <2> QED BY <1>1, <1>3, <2>1, <2>3 DEF Content
<1> DEFINE D == DOMAIN streamer \cup {q \in Points : Copies(q) # {}}
<1>9. UnionPoints = [p \in D |-> IF p \in DOMAIN streamer THEN streamer[p] ELSE RowsOf(Min(Copies(p)))[p]]
  BY DEF UnionPoints
<1>10. D = DOMAIN id_index
  BY <1>2, <1>5, <1>8
<1> HIDE DEF D
<1>11. /\ DOMAIN UnionPoints = DOMAIN id_index /\ UnionPoints = [p \in DOMAIN UnionPoints |-> UnionPoints[p]]
       /\ \A p \in DOMAIN UnionPoints : UnionPoints[p] = Latest(p)
  <2>1. \A p \in D : p \in Points /\ UnionPoints[p] = Latest(p)
    BY <1>2, <1>8, <1>9, <1>10
  <2> QED BY <1>9, <1>10, <2>1
<1> DEFINE g == [p \in DOMAIN id_index |-> Resolve(p)]
<1>12. /\ DOMAIN g = DOMAIN id_index /\ g = [p \in DOMAIN g |-> g[p]]
       /\ \A p \in DOMAIN g : g[p] = Latest(p)
  BY <1>6
<1> HIDE DEF g
<1>13. \A f \in {UnionPoints, g} :
              /\ f \in RowMaps
              /\ \A p \in Points : p \in DOMAIN f <=> Latest(p) # 0
              /\ \A p \in DOMAIN f : f[p] = Latest(p)
  BY <1>7, <1>11, <1>12
<1> QED BY <1>13 DEF g

\* What the last versions are does not change with a record of no point.
LEMMA WholeStays ==
  ASSUME Types, SameHistory, NEW f \in RowMaps, Whole(f)
  PROVE  /\ \A p \in Points : p \in DOMAIN f <=> Latest(p)' # 0
         /\ \A p \in DOMAIN f : f[p] = Latest(p)'
<1>1. \A p \in Points : Latest(p)' = Latest(p)
  BY Histories
<1>2. DOMAIN f \subseteq Points
  BY RowsAre DEF IsRows
<1> QED BY <1>1, <1>2 DEF Whole

\* A rewrite about to take the rows, and the name it takes for them.
LEMMA RewriteRuns ==
  ASSUME Inv, AtCommit, Rewrites
  PROVE  /\ up /\ compact.pc = "commit" /\ seal.pc = "idle" /\ manifest.exists /\ ~Emptying /\ ~Missing
         /\ ~compact.staged /\ ~building /\ sealing.owner = "none" /\ sealing = NotSealing
         /\ Types /\ Owners /\ Named /\ Shape /\ Content
         /\ OverlayIgnored \/ Loadable
         /\ \E p \in Points : Latest(p) # 0
         /\ \A s \in {Migrated, LegacyName(NextGeneration)} :
              s \in Names /\ (s = Migrated \/ exact_vectors_current =>
                /\ Fresh(s) /\ \A h \in published.points \cup overlay.points : h[1] # s)
<1>1. /\ up /\ compact.pc = "commit" /\ seal.pc = "idle" /\ manifest.exists /\ ~Emptying
      /\ ~compact.staged /\ ~building /\ sealing.owner = "none" /\ sealing = NotSealing
  BY CommitRuns DEF Rewrites
<1>2. Types /\ Owners /\ Named /\ Shape /\ Content
  BY <1>1, LiveParts DEF Inv, Loaded
<1>3. ~Missing
  BY <1>1, InstalledThere DEF Loaded, Missing
<1>4. OverlayIgnored \/ Loadable
  BY <1>1, <1>3, DiskIsLoadable
<1>5. \E p \in Points : Latest(p) # 0
  <2>1. id_index # NoRows /\ id_index \in [DOMAIN id_index -> Int] /\ DOMAIN id_index \subseteq Points
    BY <1>2 DEF Rewrites, Emptied, Types, MemoryTypes
  <2>2. DOMAIN id_index # {}
    BY <2>1 DEF NoRows
  <2> QED BY <1>2, <2>1, <2>2 DEF Content
<1>6. manifest.generation \in Nat /\ Len(log) \in Nat
  BY <1>2 DEF Types, DiskTypes
<1>7. \A s \in ToSet(searchers) \cup ToSet(manifest.segments) : Bounded(s)
  BY <1>2 DEF Named
<1>8. \A h \in published.points \cup overlay.points : Bounded(h[1])
  BY <1>1, <1>2 DEF Named
<1>9. Migrated \in Names /\ ~Bounded(Migrated)
  <2>1. Migrated = <<2, Len(log), manifest.generation + 1>>
    BY DEF Migrated, MergeName, NextGeneration
  <2> QED BY <1>6, <2>1 DEF Names, Bounded
<1>10. LegacyName(NextGeneration) \in Names /\ (exact_vectors_current => ~Bounded(LegacyName(NextGeneration)))
  <2>1. LegacyName(NextGeneration) = <<0, 0, manifest.generation + 1>>
    BY DEF LegacyName, NextGeneration
  <2>2. exact_vectors_current => \A s \in ToSet(searchers) : s[1] # 0
    BY DEF exact_vectors_current, IsLegacy, ToSet
  <2>3. LegacyName(NextGeneration) \in Names
    BY <1>6, <2>1 DEF Names
  <2>4. LegacyName(NextGeneration)[1] = 0 /\ LegacyName(NextGeneration)[3] = manifest.generation + 1
    BY <2>1
  <2> QED BY <1>6, <2>2, <2>3, <2>4 DEF Bounded
<1>11. \A s : ~Bounded(s) => Fresh(s) /\ \A h \in published.points \cup overlay.points : h[1] # s
  BY <1>7, <1>8 DEF Fresh
<1> QED BY <1>1, <1>2, <1>3, <1>4, <1>5, <1>9, <1>10, <1>11

\* The candidate of a migration is on disk and nothing names it.
LEMMA MigrateBuildKeeps ==
  ASSUME Inv, MigrateBuild \/ MigrateBuildFails
  PROVE  Inv'
<1>0. /\ AtCommit /\ Rewrites /\ (segs' = segs \/ segs' = Put(segs, Migrated, MigratedSegment))
      /\ \/ /\ segs' = Put(segs, Migrated, MigratedSegment)
            /\ log' = Append(log, CompactRecord) /\ compact' = [compact EXCEPT !.pc = "migrate", !.name = Migrated]
         \/ log' = log /\ compact' = NoCompact
  <2>1. CASE MigrateBuild
    BY <2>1 DEF MigrateBuild, Migrates
  <2>2. CASE MigrateBuildFails
    BY <2>2 DEF MigrateBuildFails, Migrates, wal
  <2> QED BY <2>1, <2>2
<1>1. UNCHANGED <<base, manifest, published, checkpoint, up, streamer, sealing, searchers, id_index, overlay,
                  last_segment, building, seal>>
  BY DEF MigrateBuild, MigrateBuildFails, wal, memory, content
<1>2. /\ up /\ compact.pc = "commit" /\ seal.pc = "idle" /\ manifest.exists /\ ~Emptying
      /\ ~compact.staged /\ ~building /\ sealing.owner = "none" /\ sealing = NotSealing
      /\ Types /\ Owners /\ Named /\ Shape
      /\ Migrated \in Names /\ Fresh(Migrated)
      /\ \A h \in published.points \cup overlay.points : h[1] # Migrated
  BY <1>0, RewriteRuns
<1>3. SameHistory
  BY <1>0 DEF SameHistory
<1>4. /\ log' \in Seq(Records) /\ Len(log) \in Nat /\ Len(log') \in Nat
      /\ Len(log') = Len(log) \/ Len(log') = Len(log) + 1
      /\ \A p \in Points : LastRecord(p)' = LastRecord(p) /\ Latest(p)' = Latest(p)
  BY <1>2, <1>3, Histories
<1>5. /\ MigratedSegment \in SegmentTypes /\ MigratedSegment.tomb = {} /\ Whole(MigratedSegment.rows)
  <2>1. /\ [p \in DOMAIN id_index |-> Resolve(p)] \in RowMaps /\ Whole([p \in DOMAIN id_index |-> Resolve(p)])
    BY <1>2, RewriteRows DEF Whole
  <2> QED BY <2>1 DEF MigratedSegment, SegmentTypes
<1>6. /\ \A s \in DOMAIN segs : s # Migrated => s \in DOMAIN segs' /\ segs'[s] = segs[s]
      /\ segs' \in [DOMAIN segs' -> SegmentTypes] /\ DOMAIN segs' \subseteq Names
      /\ segs' = Put(segs, Migrated, MigratedSegment) => Migrated \in DOMAIN segs' /\ segs'[Migrated] = MigratedSegment
  <2>1. segs \in [DOMAIN segs -> SegmentTypes] /\ DOMAIN segs \subseteq Names
    BY <1>2 DEF Types, DiskTypes, SegmentTypes
  <2> QED BY <1>0, <1>2, <1>5, <2>1 DEF Put
<1>7. /\ compact' \in CompactTypes /\ compact'.end <= Len(log') /\ compact'.mark <= Len(log') /\ compact'.staged = FALSE
      /\ compact'.pc \in {"idle", "migrate"} /\ (compact'.pc = "idle" => compact' = NoCompact)
      /\ compact'.pc = "migrate" => /\ compact'.name = Migrated /\ Len(log') = Len(log) + 1
                                    /\ segs' = Put(segs, Migrated, MigratedSegment)
  <2>1. CASE compact' = NoCompact
    BY <1>4, <2>1, IdleTypes DEF CompactTypes
  <2>2. CASE /\ segs' = Put(segs, Migrated, MigratedSegment)
             /\ log' = Append(log, CompactRecord) /\ compact' = [compact EXCEPT !.pc = "migrate", !.name = Migrated]
    <3>1. compact \in CompactTypes /\ compact.end <= Len(log) /\ compact.mark <= Len(log) /\ compact.end \in Nat
          /\ compact.mark \in Nat /\ log \in Seq(Records) /\ CompactRecord \in Records /\ "migrate" \in CompactPcs
      BY <1>2 DEF Types, WorkTypes, CompactTypes, DiskTypes, Records, CompactPcs
    <3>2. Len(log') = Len(log) + 1
      BY <2>2, <3>1
    <3>3. /\ compact' \in CompactTypes /\ compact'.end = compact.end /\ compact'.mark = compact.mark
          /\ compact'.pc = "migrate" /\ compact'.staged = compact.staged /\ compact'.name = Migrated
      BY <1>2, <2>2, <3>1 DEF CompactTypes
    <3>4. compact'.end <= Len(log') /\ compact'.mark <= Len(log')
      BY <3>1, <3>2, <3>3, <1>4
    <3> QED BY <1>2, <2>2, <3>2, <3>3, <3>4
  <2> QED BY <1>0, <2>1, <2>2
<1>8. Works
  <2>1. Steady
    <3>1. \A s \in ToSet(searchers) : \A p \in segs[s].tomb : <<s, p>> \in overlay.points
      BY <1>2 DEF Shape, ToSet
    <3>2. /\ Installed \subseteq DOMAIN segs /\ ToSet(searchers) \subseteq DOMAIN segs
          /\ ToSet(manifest.segments) \subseteq DOMAIN segs
      BY <1>2, InstalledThere, ListedThere DEF Loaded
    <3>3. Migrated \notin ToSet(searchers) /\ Migrated \notin ToSet(manifest.segments) /\ Installed = ToSet(manifest.segments)
      BY <1>2 DEF Fresh, Installed
    <3> QED BY <1>1, <1>2, <1>3, <1>6, <3>1, <3>2, <3>3 DEF Steady
  <2> QED BY <1>1, <1>2, <1>6, <1>7, <2>1 DEF Works
<1>9. /\ Types' /\ Shape' /\ Content' /\ After(ReplayFrom)' /\ Switched' /\ Unlisted' /\ SealRows' /\ Memory' /\ Down'
      /\ Current' => Covered'
      /\ ~SealActive' /\ ~SealEnding'
      /\ \A s : Fresh(s)' <=> Fresh(s)
      /\ \A s \in ToSet(searchers') \cup ToSet(manifest'.segments) : Bounded(s)'
      /\ \A h \in published'.points \cup overlay'.points : Bounded(h[1])'
  BY <1>8, WorksDisk
<1>10. ~Merging' /\ ~Ending' /\ ~Emptying' /\ (compact'.pc = "idle" => ~CompactLocks')
  BY <1>7 DEF Merging, CompactLocks, Ending, Emptying
<1>11. Owners'
  <2>1. compact'.pc = "migrate" => base' < Len(log')
    BY <1>1, <1>2, <1>4, <1>7 DEF Types, DiskTypes
  <2> QED BY <1>1, <1>2, <1>7, <1>9, <1>10, <2>1 DEF Owners
<1>12. Named'
  <2>1. compact'.pc = "migrate" => Migrated[1] = 2 /\ Migrated[2] < Len(log')
    BY <1>4, <1>7 DEF Migrated, MergeName
  <2>2. Migrated \notin ToSet(manifest'.segments) /\ \A h \in published'.points \cup overlay'.points : h[1] # Migrated
    BY <1>1, <1>2 DEF Fresh
  <2> QED BY <1>1, <1>2, <1>7, <1>9, <1>10, <2>1, <2>2 DEF Named
<1>13. Retained'
  BY <1>7, <1>9, <1>10 DEF Retained
<1>14. Linked'
  BY <1>7, <1>9, <1>10 DEF Linked, Finishing
<1>15. Rewritten'
  <2>1. MigratedSegment.rows \in RowMaps
    BY <1>5 DEF SegmentTypes
  <2>2. /\ \A p \in Points : p \in DOMAIN MigratedSegment.rows <=> Latest(p)' # 0
        /\ \A p \in DOMAIN MigratedSegment.rows : MigratedSegment.rows[p] = Latest(p)'
    BY <1>2, <1>3, <1>5, <2>1, WholeStays
  <2>3. compact'.pc = "migrate" => /\ compact'.name \in DOMAIN segs' /\ segs'[compact'.name].tomb = {}
                                   /\ segs'[compact'.name].rows = MigratedSegment.rows
    BY <1>5, <1>6, <1>7
  <2> QED BY <1>7, <1>10, <2>2, <2>3 DEF Rewritten, Whole
<1>16. Staged'
  BY <1>10 DEF Staged
<1> QED BY <1>9, <1>11, <1>12, <1>13, <1>14, <1>15, <1>16 DEF Inv

LEMMA MigrateManifestFailsKeeps ==
  ASSUME Inv, MigrateManifestFails
  PROVE  Inv'
<1>1. /\ compact.pc = "migrate" /\ compact' = NoCompact /\ (manifest' = manifest \/ manifest' = SwitchedTo(<<compact.name>>))
      /\ UNCHANGED <<log, base, segs, published, checkpoint, up, streamer, sealing, searchers, id_index, overlay,
                     last_segment, building, seal>>
  BY DEF MigrateManifestFails, wal, memory, content
<1>2. up /\ seal.pc = "idle" /\ manifest.exists /\ ~Emptying
  BY <1>1, CompactRuns DEF CompactLocks, Emptying
<1>3. Types /\ Owners /\ Named /\ Rewritten
  BY DEF Inv
<1>4. base < Len(log)
  BY <1>1, <1>3 DEF Owners
<1>5. /\ compact.name \in DOMAIN segs /\ segs[compact.name].tomb = {} /\ Whole(segs[compact.name].rows)
      /\ \A h \in published.points \cup overlay.points : h[1] # compact.name
      /\ compact.name[1] = 2 /\ compact.name[2] < Len(log)
  BY <1>1, <1>3 DEF Rewritten, Named
<1>6. manifest' = manifest \/ SwitchesTo(<<compact.name>>)
  BY <1>1, <1>5 DEF SwitchesTo
<1>7. \A s \in ToSet(<<compact.name>>) : Bounded(s)
  <2>1. Bounded(compact.name)
    BY <1>5 DEF Bounded
  <2> QED BY <2>1 DEF ToSet
<1> QED BY <1>1, <1>2, <1>4, <1>6, <1>7, BranchFailsKeeps

\* The manifest names the one segment of a rewrite, in either format.
LEMMA RewroteKeeps ==
  ASSUME Inv, MigrateManifest \/ LegacyManifest
  PROVE  Inv'
<1>n. PICK name : name = compact.name
  OBVIOUS
<1>3. Types /\ Owners /\ Named /\ Rewritten
  BY DEF Inv
<1>0. /\ compact.pc \in {"migrate", "rewrite"} /\ searchers' = <<name>>
      /\ manifest' = [exists |-> TRUE, generation |-> NextGeneration, segments |-> searchers']
      /\ id_index' = [p \in DOMAIN segs[name].rows |-> 1]
      /\ streamer' = NoRows /\ last_segment' \in BOOLEAN
      /\ overlay' = [generation |-> NextGeneration, points |-> {}]
      /\ compact' = [compact EXCEPT !.pc = "overlay", !.mark = 0, !.segment = TRUE]
      /\ log' = log \/ log' = Append(log, CompactRecord)
  <2>1. CASE MigrateManifest
    BY <1>n, <2>1 DEF MigrateManifest, SwitchedTo, wal
  <2>2. CASE LegacyManifest
    <3>1. /\ compact.pc = "rewrite" /\ log' = Append(log, CompactRecord) /\ manifest' = SwitchedTo(searchers)
          /\ overlay' = [generation |-> NextGeneration, points |-> {}]
          /\ compact' = [compact EXCEPT !.pc = "overlay", !.mark = 0, !.segment = TRUE]
          /\ UNCHANGED <<streamer, searchers, id_index, last_segment>>
      BY <2>2 DEF LegacyManifest, content
    <3>2. searchers = <<name>> /\ streamer = NoRows /\ id_index = [p \in DOMAIN segs[name].rows |-> 1]
      BY <1>n, <1>3, <3>1 DEF Rewritten, Emptying
    <3>3. last_segment \in BOOLEAN
      BY <1>3 DEF Types, MemoryTypes
    <3> QED BY <3>1, <3>2, <3>3 DEF SwitchedTo
  <2> QED BY <2>1, <2>2
<1>1. UNCHANGED <<base, segs, published, checkpoint, up, sealing, building, seal>>
  BY DEF MigrateManifest, LegacyManifest, wal, content
<1>2. /\ up /\ seal.pc = "idle" /\ ~SealActive /\ ~SealEnding /\ sealing.owner # "seal"
  BY <1>0, CompactRuns DEF CompactLocks
<1>h. /\ SameHistory /\ log' \in Seq(Records) /\ Len(log) \in Nat /\ Len(log') \in Nat /\ Len(log) <= Len(log')
      /\ \A p \in Points : Latest(p)' = Latest(p)
  <2>1. SameHistory
    BY <1>0 DEF SameHistory
  <2>2. /\ log' \in Seq(Records) /\ Len(log) \in Nat /\ Len(log') \in Nat
        /\ Len(log') = Len(log) \/ Len(log') = Len(log) + 1
        /\ \A p \in Points : Latest(p)' = Latest(p)
    BY <1>3, <2>1, Histories
  <2> QED BY <2>1, <2>2
<1>4. /\ manifest.generation \in Nat /\ compact \in CompactTypes /\ compact.end \in Nat /\ compact.end <= Len(log) /\ name \in Names
  BY <1>n, <1>3 DEF Types, DiskTypes, WorkTypes, CompactTypes
<1>5. /\ name \in DOMAIN segs /\ segs[name].tomb = {}
      /\ \A p \in Points : p \in DOMAIN segs[name].rows <=> Latest(p) # 0
      /\ \A p \in DOMAIN segs[name].rows : segs[name].rows[p] = Latest(p)
  BY <1>n, <1>0, <1>3 DEF Rewritten, Whole
<1>6. DOMAIN segs[name].rows \subseteq Points
  BY <1>3, <1>5, SegTypes
<1>7. /\ searchers' \in Seq(Names) /\ DOMAIN searchers' = {1} /\ searchers'[1] = name /\ ToSet(searchers') = {name}
  <2>1. searchers' \in Seq(Names) /\ DOMAIN searchers' = {1} /\ searchers'[1] = name
    BY <1>0, <1>4
  <2> QED BY <2>1 DEF ToSet
<1>8. /\ manifest'.exists /\ manifest'.generation = manifest.generation + 1 /\ manifest'.segments = searchers'
      /\ manifest' \in [exists : BOOLEAN, generation : Nat, segments : Seq(Names)] /\ Installed' = {name}
  BY <1>0, <1>4, <1>7 DEF NextGeneration, Installed
<1>9. DOMAIN id_index' = DOMAIN segs[name].rows /\ \A p \in DOMAIN id_index' : id_index'[p] = 1
  BY <1>0
<1>10. DOMAIN streamer' = {} /\ streamer' \in RowMaps
  BY <1>0, EmptyRows
<1>11. /\ compact' \in CompactTypes /\ compact'.pc = "overlay" /\ compact'.end = compact.end /\ compact'.mark = 0
       /\ compact'.staged = compact.staged
  <2>1. "overlay" \in CompactPcs
    BY DEF CompactPcs
  <2> QED BY <1>0, <1>4, <2>1 DEF CompactTypes
<1>12. /\ overlay' \in [generation : Nat, points : SUBSET (Names \X Points)] /\ overlay'.points = {}
       /\ overlay'.generation = manifest'.generation
  BY <1>0, <1>4 DEF NextGeneration
<1>13. Types'
  <2>0. base' <= Len(log') /\ checkpoint'.watermark <= Len(log') /\ seal'.end <= Len(log')
    <3>1. base \in Nat /\ base <= Len(log) /\ checkpoint.watermark \in Nat /\ checkpoint.watermark <= Len(log)
          /\ seal.end \in Nat /\ seal.end <= Len(log)
      BY <1>3 DEF Types, DiskTypes, WorkTypes
    <3> QED BY <1>1, <1>h, <3>1
  <2>1. DiskTypes'
    BY <1>1, <1>h, <1>3, <1>8, <2>0 DEF Types, DiskTypes
  <2>2. MemoryTypes'
    <3>1. id_index' \in [DOMAIN id_index' -> {Streamer, Sealing} \cup DOMAIN searchers'] /\ id_index' \in [DOMAIN id_index' -> Int]
      BY <1>0, <1>7
    <3> QED BY <1>0, <1>1, <1>3, <1>6, <1>7, <1>9, <1>10, <1>12, <3>1 DEF Types, MemoryTypes
  <2>3. WorkTypes'
    <3>1. compact'.end <= Len(log') /\ compact'.mark <= Len(log')
      BY <1>h, <1>4, <1>11
    <3> QED BY <1>1, <1>3, <1>11, <2>0, <3>1 DEF Types, WorkTypes, CompactTypes
  <2> QED BY <2>1, <2>2, <2>3 DEF Types
<1>15. Shape'
  BY <1>1, <1>5, <1>7, <1>12 DEF Shape
<1>16. Content'
  <2>1. RowsOf(1)' = segs[name].rows
    BY <1>1, <1>7 DEF RowsOf
  <2>2. \A p : Shown(1, p)' <=> p \in DOMAIN segs[name].rows
    BY <1>12, <2>1 DEF Shown
  <2>3. Streamer # 1 /\ Sealing # 1
    BY DEF Streamer, Sealing
  <2>4. \A p \in DOMAIN id_index' : p \in Points /\ segs'[searchers'[id_index'[p]]].rows[p] = Latest(p)
    BY <1>1, <1>5, <1>6, <1>7, <1>9
  <2> QED BY <1>5, <1>7, <1>9, <1>10, <1>h, <2>2, <2>3, <2>4 DEF Content, RowsOf
<1>17. \A n : After(n)'
  BY <1>9 DEF After, InMemory, Streamer, Sealing
<1>18. ~SealActive' /\ ~SealEnding' /\ ~Merging' /\ CompactLocks' /\ Ending' /\ seal'.pc = "idle" /\ ~Emptying'
  BY <1>1, <1>2, <1>11 DEF SealActive, SealEnding, Merging, CompactLocks, Ending, Emptying
<1>19. Covered'
  <2>1. \A h \in published.points : h[1] # name
    BY <1>n, <1>0, <1>3 DEF Named
  <2> QED BY <1>1, <1>8, <1>12, <2>1 DEF Covered
<1>20. Owners'
  BY <1>1, <1>2, <1>3, <1>8, <1>11, <1>18 DEF Owners
<1>21. Named'
  <2>1. manifest'.generation \in Nat /\ manifest.generation <= manifest'.generation /\ manifest.generation < manifest'.generation
    BY <1>4, <1>8
  <2>2. \A h \in published'.points \cup overlay'.points : Bounded(h[1])'
    BY <1>1, <1>2, <1>h, <1>12, <2>1, GrowsBounds
  <2>3. Bounded(name)'
    <3>1. CASE name = LegacyName(NextGeneration)
      <4>1. name = <<0, 0, manifest.generation + 1>>
        BY <3>1 DEF LegacyName, NextGeneration
      <4> QED BY <1>4, <1>8, <4>1 DEF Bounded
    <3>2. CASE name[1] = 2 /\ name[2] < Len(log)
      <4>1. name[2] \in Nat
        BY <1>4 DEF Names
      <4>2. name[2] < Len(log')
        BY <1>h, <3>2, <4>1
      <4> QED BY <3>2, <4>2 DEF Bounded
    <3> QED BY <1>n, <1>0, <1>3, <3>1, <3>2 DEF Named
  <2> QED BY <1>7, <1>8, <1>11, <1>18, <2>2, <2>3 DEF Named
<1>22. Memory'
  BY <1>15, <1>16 DEF Memory
<1>23. Retained'
  BY <1>11, <1>17, <1>18 DEF Retained
<1>24. Linked'
  BY <1>8, <1>11, <1>12, <1>18, <1>19 DEF Linked, Finishing, Unlisted, Switched
<1>25. SealRows' /\ Staged' /\ Rewritten' /\ Down'
  BY <1>1, <1>2, <1>11, <1>18 DEF SealRows, Staged, Rewritten, Down
<1> QED BY <1>13, <1>20, <1>21, <1>22, <1>23, <1>24, <1>25 DEF Inv

-----------------------------------------------------------------------------
(***************************************************************************)
(* The rewrite into the legacy format, between taking the rows and the     *)
(* manifest: memory is empty and the disk still loads, or has lost what    *)
(* the manifest names.                                                     *)
(***************************************************************************)
LEMMA LegacyTakeKeeps ==
  ASSUME Inv, LegacyTake
  PROVE  Inv'
<1>0. /\ AtCommit /\ Rewrites /\ exact_vectors_current
      /\ compact' = [compact EXCEPT !.pc = "write", !.name = LegacyName(NextGeneration), !.rows = UnionPoints]
      /\ streamer' = NoRows /\ searchers' = <<>>
  BY DEF LegacyTake
<1>1. UNCHANGED <<log, base, segs, manifest, published, checkpoint, up, sealing, id_index, overlay,
                  last_segment, building, seal>>
  BY DEF LegacyTake, wal, disk
<1>2. /\ up /\ compact.pc = "commit" /\ seal.pc = "idle" /\ manifest.exists /\ ~Emptying /\ ~Missing
      /\ ~compact.staged /\ ~building /\ sealing.owner = "none" /\ sealing = NotSealing
      /\ Types /\ Owners /\ Named
      /\ OverlayIgnored \/ Loadable
      /\ \E p \in Points : Latest(p) # 0
      /\ LegacyName(NextGeneration) \in Names /\ Fresh(LegacyName(NextGeneration))
      /\ \A h \in published.points \cup overlay.points : h[1] # LegacyName(NextGeneration)
  BY <1>0, RewriteRuns
<1>3. UnionPoints \in RowMaps /\ Whole(UnionPoints)
  BY <1>2, RewriteRows DEF Whole
<1>4. /\ compact \in CompactTypes /\ compact.end <= Len(log) /\ compact.mark <= Len(log) /\ "write" \in CompactPcs
  BY <1>2 DEF Types, WorkTypes, CompactTypes, CompactPcs
<1>5. /\ compact' \in CompactTypes /\ compact'.pc = "write" /\ compact'.name = LegacyName(NextGeneration)
      /\ compact'.rows = UnionPoints /\ compact'.end = compact.end /\ compact'.mark = compact.mark
      /\ compact'.staged = compact.staged
  BY <1>0, <1>2, <1>3, <1>4 DEF CompactTypes
<1>6. ~SealActive' /\ ~SealEnding' /\ ~Merging' /\ ~Ending' /\ Emptying'
  BY <1>1, <1>2, <1>5 DEF SealActive, SealEnding, Merging, Ending, Emptying
<1>7. Types'
  <2>1. DiskTypes'
    BY <1>1, <1>2 DEF Types, DiskTypes
  <2>2. MemoryTypes'
    <3>1. streamer' \in RowMaps /\ searchers' \in Seq(Names)
      BY <1>0, EmptyRows
    <3> QED BY <1>1, <1>2, <1>5, <3>1 DEF Types, MemoryTypes
  <2>3. WorkTypes'
    BY <1>1, <1>2, <1>4, <1>5 DEF Types, WorkTypes, CompactTypes
  <2> QED BY <2>1, <2>2, <2>3 DEF Types
<1>8. Owners'
  BY <1>1, <1>2, <1>5, <1>6 DEF Owners
<1>9. Named'
  <2>1. \A s : Bounded(s) => Bounded(s)'
    <3>1. \A s \in ToSet(searchers) : s[1] # 0
      BY <1>0 DEF exact_vectors_current, IsLegacy, ToSet
    <3> QED BY <1>1, <3>1 DEF Bounded, NextGeneration
  <2>2. ToSet(searchers') = {}
    BY <1>0 DEF ToSet
  <2>3. LegacyName(NextGeneration)' = LegacyName(NextGeneration) /\ LegacyName(NextGeneration) \notin ToSet(manifest.segments)
    BY <1>1, <1>2 DEF NextGeneration, LegacyName, Fresh
  <2> QED BY <1>1, <1>2, <1>5, <1>6, <2>1, <2>2, <2>3 DEF Named
<1>10. /\ (\A p : LastRecord(p)' = LastRecord(p) /\ Latest(p)' = Latest(p)) /\ Installed' = Installed
       /\ ReplayFrom' = ReplayFrom
  BY <1>1, NotLogged DEF Installed, ReplayFrom
<1>11. ~Missing' /\ (OverlayIgnored' \/ Loadable')
  <2>1. SidecarPoints' = SidecarPoints
    BY <1>1, <1>10 DEF SidecarPoints
  <2>2. OverlayIgnored => OverlayIgnored'
    BY <1>1, <1>10, <2>1 DEF OverlayIgnored
  <2>3. OpenedPoints' = OpenedPoints
    BY <1>1, <1>10, <2>1 DEF OpenedPoints, CurrentPoints
  <2>4. \A s, p : Found(s, p)' <=> Found(s, p)
    BY <1>1, <1>10, <2>3 DEF Found, Row
  <2>5. Loadable => Loadable'
    BY <1>1, <1>10, <2>4 DEF Loadable
  <2> QED BY <1>1, <1>2, <1>10, <2>2, <2>5 DEF Missing
<1>12. Rewritten'
  BY <1>0, <1>2, <1>3, <1>5, <1>10, <1>11 DEF Rewritten, Whole
<1>13. Memory' /\ Retained' /\ SealRows' /\ Linked' /\ Staged' /\ Down'
  BY <1>1, <1>2, <1>5, <1>6 DEF Memory, Retained, SealRows, Linked, Staged, Down
<1> QED BY <1>7, <1>8, <1>9, <1>12, <1>13 DEF Inv

\* Segments are added or removed, and none the manifest names is changed.
LEMMA EmptyingDisk ==
  ASSUME Inv, Emptying, UNCHANGED <<log, base, manifest, published, checkpoint, overlay>>,
         \A s \in Installed : s \in DOMAIN segs' => s \in DOMAIN segs /\ segs'[s] = segs[s]
  PROVE  Missing' \/ OverlayIgnored' \/ Loadable'
<1>1. /\ manifest.exists /\ (Missing \/ OverlayIgnored \/ Loadable)
  BY DEF Inv, Rewritten, Owners, Emptying
<1>2. /\ (\A p : LastRecord(p)' = LastRecord(p) /\ Latest(p)' = Latest(p)) /\ Installed' = Installed
      /\ ReplayFrom' = ReplayFrom
  BY <1>1, NotLogged DEF Installed, ReplayFrom
<1> SUFFICES ASSUME ~Missing'
             PROVE  OverlayIgnored' \/ Loadable'
  OBVIOUS
<1>3. \A s \in Installed : s \in DOMAIN segs /\ segs'[s] = segs[s]
  BY <1>2 DEF Missing
<1>4. OverlayIgnored \/ Loadable
  BY <1>1, <1>3 DEF Missing
<1>5. SidecarPoints' = SidecarPoints
  BY <1>2, <1>3 DEF SidecarPoints
<1>6. OverlayIgnored => OverlayIgnored'
  BY <1>2, <1>5 DEF OverlayIgnored
<1>7. OpenedPoints' = OpenedPoints
  BY <1>2, <1>5 DEF OpenedPoints, CurrentPoints
<1>8. \A s, p : Found(s, p)' <=> Found(s, p)
  BY <1>2, <1>3, <1>7 DEF Found, Row
<1>9. Loadable => Loadable'
  BY <1>2, <1>3, <1>8 DEF Loadable
<1> QED BY <1>4, <1>6, <1>9

\* One more step of the rewrite, or its end in the emptied collection.
EmptyingStep ==
  /\ compact.pc \in {"write", "clear", "install"}
  /\ UNCHANGED <<log, base, manifest, published, checkpoint, up, streamer, sealing, searchers, id_index, overlay,
                 last_segment, building, seal>>
  /\ segs' \in [DOMAIN segs' -> SegmentTypes] /\ DOMAIN segs' \subseteq Names
  /\ \A s \in Installed : s \in DOMAIN segs' => s \in DOMAIN segs /\ segs'[s] = segs[s]
  /\ \/ compact' = [NoCompact EXCEPT !.pc = "lost"]
     \/ /\ compact' = [compact EXCEPT !.pc = "clear"]
        /\ compact.name \in DOMAIN segs' /\ segs'[compact.name].tomb = {} /\ Whole(segs'[compact.name].rows)
     \/ /\ compact' = [compact EXCEPT !.pc = "install"] /\ DOMAIN segs' = {compact.name}
        /\ segs'[compact.name].tomb = {} /\ Whole(segs'[compact.name].rows)
  /\ compact'.pc # "install" => ~Missing'

LEMMA EmptyingStepKeeps ==
  ASSUME Inv, EmptyingStep
  PROVE  Inv'
<1>1. /\ compact.pc \in {"write", "clear", "install"} /\ Emptying
      /\ UNCHANGED <<log, base, manifest, published, checkpoint, up, streamer, sealing, searchers, id_index, overlay,
                     last_segment, building, seal>>
      /\ segs' \in [DOMAIN segs' -> SegmentTypes] /\ DOMAIN segs' \subseteq Names
      /\ compact'.pc # "install" => ~Missing'
  BY DEF EmptyingStep, Emptying
<1>2. Types /\ Owners /\ Named /\ Rewritten
  BY DEF Inv
<1>3. /\ up /\ seal.pc = "idle" /\ manifest.exists /\ ~building /\ sealing = NotSealing /\ ~compact.staged
      /\ sealing.owner = "none"
  BY <1>1, <1>2, IdleTypes DEF Owners
<1>4. compact \in CompactTypes /\ compact.end <= Len(log) /\ compact.mark <= Len(log) /\ Len(log) \in Nat
  BY <1>2 DEF Types, WorkTypes, DiskTypes, CompactTypes
<1>5. /\ compact' \in CompactTypes /\ compact'.end <= Len(log) /\ compact'.mark <= Len(log) /\ compact'.staged = FALSE
      /\ compact'.pc \in {"clear", "install", "lost"}
      /\ compact'.pc # "lost" => /\ compact'.name = compact.name /\ compact.name \in DOMAIN segs'
                                 /\ segs'[compact.name].tomb = {} /\ Whole(segs'[compact.name].rows)
      /\ compact'.pc = "install" => DOMAIN segs' = {compact.name}
  <2>0. {"clear", "install", "lost"} \subseteq CompactPcs
    BY DEF CompactPcs
  <2>1. CASE compact' = [NoCompact EXCEPT !.pc = "lost"]
    <3>1. NoCompact \in CompactTypes /\ NoCompact.end = 0 /\ NoCompact.mark = 0 /\ NoCompact.staged = FALSE
      BY IdleTypes DEF CompactTypes
    <3>2. compact' \in CompactTypes /\ compact'.end = 0 /\ compact'.mark = 0 /\ compact'.staged = FALSE /\ compact'.pc = "lost"
      BY <2>0, <2>1, <3>1 DEF CompactTypes
    <3> QED BY <1>4, <3>2
  <2>2. CASE /\ compact' = [compact EXCEPT !.pc = "clear"]
             /\ compact.name \in DOMAIN segs' /\ segs'[compact.name].tomb = {} /\ Whole(segs'[compact.name].rows)
    <3>1. /\ compact' \in CompactTypes /\ compact'.end = compact.end /\ compact'.mark = compact.mark
          /\ compact'.staged = compact.staged /\ compact'.pc = "clear" /\ compact'.name = compact.name
      BY <1>4, <2>0, <2>2 DEF CompactTypes
    <3> QED BY <1>3, <1>4, <2>2, <3>1 DEF CompactTypes
  <2>3. CASE /\ compact' = [compact EXCEPT !.pc = "install"] /\ DOMAIN segs' = {compact.name}
             /\ segs'[compact.name].tomb = {} /\ Whole(segs'[compact.name].rows)
    <3>1. /\ compact' \in CompactTypes /\ compact'.end = compact.end /\ compact'.mark = compact.mark
          /\ compact'.staged = compact.staged /\ compact'.pc = "install" /\ compact'.name = compact.name
      BY <1>4, <2>0, <2>3 DEF CompactTypes
    <3> QED BY <1>3, <1>4, <2>3, <3>1 DEF CompactTypes
  <2> QED BY <2>1, <2>2, <2>3 DEF EmptyingStep
<1>6. ~SealActive' /\ ~SealEnding' /\ ~Merging' /\ ~Ending' /\ Emptying'
  BY <1>1, <1>3, <1>5 DEF SealActive, SealEnding, Merging, Ending, Emptying
<1>7. Types'
  <2>1. DiskTypes'
    BY <1>1, <1>2 DEF Types, DiskTypes, SegmentTypes
  <2>2. MemoryTypes'
    BY <1>1, <1>2, <1>5 DEF Types, MemoryTypes
  <2>3. WorkTypes'
    BY <1>1, <1>2, <1>5 DEF Types, WorkTypes, CompactTypes
  <2> QED BY <2>1, <2>2, <2>3 DEF Types
<1>8. Owners'
  BY <1>1, <1>2, <1>3, <1>5, <1>6 DEF Owners
<1>9. \A s : Bounded(s)' <=> Bounded(s)
  BY <1>1 DEF Bounded, NextGeneration
<1>10. Named'
  <2>1. LegacyName(NextGeneration)' = LegacyName(NextGeneration)
    BY <1>1 DEF NextGeneration, LegacyName
  <2>2. /\ compact.name \notin ToSet(manifest.segments) /\ compact.name = LegacyName(NextGeneration)
        /\ \A h \in published.points \cup overlay.points : h[1] # compact.name
    BY <1>1, <1>2 DEF Named
  <2> QED BY <1>1, <1>2, <1>3, <1>5, <1>6, <1>9, <2>1, <2>2 DEF Named
<1>11. Missing' \/ OverlayIgnored' \/ Loadable'
  BY <1>1, EmptyingDisk DEF EmptyingStep
<1>12. \A p : Latest(p)' = Latest(p)
  BY <1>1, NotLogged
<1>13. Rewritten'
  <2>1. searchers = <<>> /\ streamer = NoRows /\ \E p \in Points : Latest(p) # 0
    BY <1>1, <1>2 DEF Rewritten
  <2> QED BY <1>1, <1>5, <1>11, <1>12, <2>1 DEF Rewritten, Whole
<1>14. Memory' /\ Retained' /\ SealRows' /\ Linked' /\ Staged' /\ Down'
  BY <1>1, <1>3, <1>5, <1>6 DEF Memory, Retained, SealRows, Linked, Staged, Down
<1> QED BY <1>7, <1>8, <1>10, <1>13, <1>14 DEF Inv

LEMMA LegacyStepKeeps ==
  ASSUME Inv, LegacyWrite \/ LegacyClear \/ (Calm /\ LegacyFails)
  PROVE  Inv'
<1>1. Types /\ Named /\ Rewritten /\ Owners
  BY DEF Inv
<1>2. /\ compact.pc \in {"write", "clear", "install"} /\ manifest.exists
      /\ UNCHANGED <<log, base, manifest, published, checkpoint, up, streamer, sealing, searchers, id_index, overlay,
                     last_segment, building, seal>>
  BY <1>1 DEF LegacyWrite, LegacyClear, LegacyFails, wal, memory, content, Owners
<1>3. /\ Installed = ToSet(manifest.segments) /\ Installed' = Installed /\ compact.name \notin Installed
      /\ compact.name \in Names /\ compact.rows \in RowMaps
  BY <1>1, <1>2 DEF Installed, Named, Types, WorkTypes
<1>4. segs \in [DOMAIN segs -> SegmentTypes] /\ DOMAIN segs \subseteq Names
  BY <1>1 DEF Types, DiskTypes, SegmentTypes
<1> DEFINE new == [rows |-> compact.rows, tomb |-> {}]
<1>5. /\ WithLegacy \in [DOMAIN WithLegacy -> SegmentTypes] /\ DOMAIN WithLegacy = DOMAIN segs \cup {compact.name}
      /\ \A s \in DOMAIN segs : s # compact.name => WithLegacy[s] = segs[s]
      /\ WithLegacy[compact.name].tomb = {} /\ WithLegacy[compact.name].rows = compact.rows
  <2>1. new \in SegmentTypes
    BY <1>3 DEF SegmentTypes
  <2>2. WithLegacy = [s \in DOMAIN segs \cup {compact.name} |-> IF s = compact.name THEN new ELSE segs[s]]
    BY DEF WithLegacy, Put
  <2> QED BY <1>4, <2>1, <2>2
<1> HIDE DEF new
<1>6. \A D : D \subseteq DOMAIN segs =>
        LET f == Restrict(segs, D)
        IN  DOMAIN f = D /\ f \in [D -> SegmentTypes] /\ \A s \in D : f[s] = segs[s]
  BY <1>4 DEF Restrict
<1>7. CASE LegacyWrite
  <2>1. compact.pc = "write" /\ segs' = WithLegacy /\ compact' = [compact EXCEPT !.pc = "clear"]
    BY <1>7 DEF LegacyWrite
  <2>2. Whole(compact.rows) /\ ~Missing
    BY <1>1, <2>1 DEF Rewritten
  <2>3. ~Missing'
    BY <1>3, <1>5, <2>1, <2>2 DEF Missing
  <2>4. EmptyingStep
    BY <1>2, <1>3, <1>4, <1>5, <2>1, <2>2, <2>3 DEF EmptyingStep
  <2> QED BY <2>4, EmptyingStepKeeps
<1>8. CASE LegacyClear
  <2>1. compact.pc = "clear" /\ segs' = Restrict(segs, {compact.name}) /\ compact' = [compact EXCEPT !.pc = "install"]
    BY <1>8 DEF LegacyClear
  <2>2. compact.name \in DOMAIN segs /\ segs[compact.name].tomb = {} /\ Whole(segs[compact.name].rows)
    BY <1>1, <2>1 DEF Rewritten
  <2>3. DOMAIN segs' = {compact.name} /\ segs' \in [DOMAIN segs' -> SegmentTypes] /\ segs'[compact.name] = segs[compact.name]
    BY <1>6, <2>1, <2>2
  <2>4. compact'.pc = "install"
    BY <1>1, <2>1 DEF Types, WorkTypes
  <2>5. EmptyingStep
    BY <1>2, <1>3, <2>1, <2>2, <2>3, <2>4 DEF EmptyingStep
  <2> QED BY <2>5, EmptyingStepKeeps
<1>9. CASE Calm /\ LegacyFails
  <2>1. /\ compact' = [NoCompact EXCEPT !.pc = "lost"] /\ ~Missing'
    BY <1>9 DEF LegacyFails, Calm
  <2>2. /\ segs' \in [DOMAIN segs' -> SegmentTypes] /\ DOMAIN segs' \subseteq Names
        /\ \A s \in Installed : s \in DOMAIN segs' => s \in DOMAIN segs /\ segs'[s] = segs[s]
    <3>1. CASE compact.pc = "write"
      <4>1. segs' = segs \/ segs' = WithLegacy
        BY <1>9, <3>1 DEF LegacyFails
      <4> QED BY <1>3, <1>4, <1>5, <4>1
    <3>2. CASE compact.pc = "clear"
      <4>1. PICK left \in SUBSET DOMAIN segs : segs' = Restrict(segs, {compact.name} \cup left)
        BY <1>9, <3>2 DEF LegacyFails
      <4>2. compact.name \in DOMAIN segs
        BY <1>1, <3>2 DEF Rewritten
      <4> QED BY <1>4, <1>6, <4>1, <4>2
    <3>3. CASE compact.pc = "install"
      <4>1. segs' = segs
        BY <1>9, <3>3 DEF LegacyFails
      <4> QED BY <1>4, <4>1
    <3> QED BY <1>2, <3>1, <3>2, <3>3
  <2>3. EmptyingStep
    BY <1>2, <2>1, <2>2 DEF EmptyingStep
  <2> QED BY <2>3, EmptyingStepKeeps
<1> QED BY <1>7, <1>8, <1>9

LEMMA LegacyInstallKeeps ==
  ASSUME Inv, LegacyInstall
  PROVE  Inv'
<1>n. PICK name : name = compact.name
  OBVIOUS
<1>0. /\ compact.pc = "install" /\ searchers' = <<name>>
      /\ id_index' = [p \in DOMAIN segs[name].rows |-> 1] /\ compact' = [compact EXCEPT !.pc = "rewrite"]
      /\ UNCHANGED <<log, base, segs, manifest, published, checkpoint, up, streamer, sealing, overlay,
                     last_segment, building, seal>>
  BY <1>n DEF LegacyInstall, wal, disk
<1>1. Types /\ Owners /\ Named /\ Rewritten /\ Emptying
  BY <1>0 DEF Inv, Emptying
<1>2. /\ up /\ seal.pc = "idle" /\ manifest.exists /\ ~building /\ sealing = NotSealing /\ ~compact.staged
      /\ sealing.owner = "none"
  BY <1>0, <1>1, IdleTypes DEF Owners
<1>3. compact \in CompactTypes /\ compact.end <= Len(log) /\ compact.mark <= Len(log) /\ name \in Names /\ "rewrite" \in CompactPcs
  BY <1>n, <1>1 DEF Types, WorkTypes, CompactTypes, CompactPcs
<1>4. /\ compact' \in CompactTypes /\ compact'.pc = "rewrite" /\ compact'.name = name /\ compact'.end = compact.end
      /\ compact'.mark = compact.mark /\ compact'.staged = compact.staged
  BY <1>n, <1>0, <1>3 DEF CompactTypes
<1>5. /\ name \in DOMAIN segs /\ segs[name].tomb = {} /\ Whole(segs[name].rows) /\ DOMAIN segs = {name}
      /\ searchers = <<>> /\ streamer = NoRows /\ \E p \in Points : Latest(p) # 0
  BY <1>n, <1>0, <1>1 DEF Rewritten
<1>6. DOMAIN segs[name].rows \subseteq Points
  BY <1>1, <1>5, SegTypes
<1>7. searchers' \in Seq(Names) /\ DOMAIN searchers' = {1} /\ ToSet(searchers') = {name}
  <2>1. searchers' \in Seq(Names) /\ DOMAIN searchers' = {1} /\ searchers'[1] = name
    BY <1>0, <1>3
  <2> QED BY <2>1 DEF ToSet
<1>8. ~SealActive' /\ ~SealEnding' /\ ~Merging' /\ ~Ending' /\ Emptying'
  BY <1>0, <1>2, <1>4 DEF SealActive, SealEnding, Merging, Ending, Emptying
<1>9. Types'
  <2>1. DiskTypes'
    BY <1>0, <1>1 DEF Types, DiskTypes
  <2>2. MemoryTypes'
    <3>1. /\ id_index' \in [DOMAIN id_index' -> {Streamer, Sealing} \cup DOMAIN searchers'] /\ id_index' \in [DOMAIN id_index' -> Int]
          /\ DOMAIN id_index' \subseteq Points
      BY <1>0, <1>6, <1>7
    <3> QED BY <1>0, <1>1, <1>7, <3>1 DEF Types, MemoryTypes
  <2>3. WorkTypes'
    BY <1>0, <1>1, <1>3, <1>4 DEF Types, WorkTypes, CompactTypes
  <2> QED BY <2>1, <2>2, <2>3 DEF Types
<1>10. Owners'
  BY <1>0, <1>1, <1>2, <1>4, <1>8 DEF Owners
<1>11. Named'
  <2>1. \A s : Bounded(s) => Bounded(s)'
    <3>1. ToSet(searchers) = {}
      BY <1>5 DEF ToSet
    <3> QED BY <1>0, <3>1 DEF Bounded, NextGeneration
  <2>2. LegacyName(NextGeneration)' = LegacyName(NextGeneration) /\ NextGeneration' = NextGeneration
    BY <1>0 DEF NextGeneration, LegacyName
  <2>3. name = LegacyName(NextGeneration) /\ name[1] = 0 /\ name[3] = NextGeneration
    BY <1>n, <1>0, <1>1 DEF Named, LegacyName
  <2>4. Bounded(name)'
    BY <1>7, <2>2, <2>3 DEF Bounded
  <2> QED BY <1>n, <1>0, <1>1, <1>2, <1>4, <1>7, <1>8, <2>1, <2>2, <2>3, <2>4 DEF Named
<1>12. Missing' \/ OverlayIgnored' \/ Loadable'
  <2>1. Installed \subseteq ToSet(manifest.segments)
    BY <1>2 DEF Installed
  <2>2. \A s \in Installed : s \in DOMAIN segs' => s \in DOMAIN segs /\ segs'[s] = segs[s]
    BY <1>0
  <2> QED BY <1>0, <1>1, <2>2, EmptyingDisk
<1>13. Rewritten'
  <2>1. \A p : Latest(p)' = Latest(p)
    BY <1>0, NotLogged
  <2> QED BY <1>n, <1>0, <1>4, <1>5, <1>12, <2>1 DEF Rewritten, Whole
<1>14. Memory' /\ Retained' /\ SealRows' /\ Linked' /\ Staged' /\ Down'
  BY <1>0, <1>2, <1>4, <1>8 DEF Memory, Retained, SealRows, Linked, Staged, Down
<1> QED BY <1>9, <1>10, <1>11, <1>13, <1>14 DEF Inv

LEMMA LegacyManifestFailsKeeps ==
  ASSUME Inv, LegacyManifestFails, Calm
  PROVE  Inv'
<1>n. PICK name : name = compact.name
  OBVIOUS
<1>0. /\ compact.pc = "rewrite" /\ compact' = NoCompact /\ SameHistory /\ ~Missing'
      /\ manifest' = manifest \/ (manifest' = SwitchedTo(searchers) /\ log' = Append(log, CompactRecord))
      /\ UNCHANGED <<base, segs, published, checkpoint, up, streamer, sealing, searchers, id_index, overlay,
                     last_segment, building, seal>>
  BY DEF LegacyManifestFails, SameHistory, Calm, memory, content
<1>1. Types /\ Owners /\ Named /\ Rewritten /\ Emptying
  BY <1>0 DEF Inv, Emptying
<1>2. up /\ seal.pc = "idle" /\ manifest.exists /\ sealing = NotSealing
  BY <1>0, <1>1 DEF Owners
<1>3. /\ name \in DOMAIN segs /\ segs[name].tomb = {} /\ Whole(segs[name].rows) /\ DOMAIN segs = {name}
      /\ searchers = <<name>> /\ id_index = [p \in DOMAIN segs[name].rows |-> 1]
      /\ streamer = NoRows /\ (Missing \/ OverlayIgnored \/ Loadable)
      /\ name \notin ToSet(manifest.segments) /\ name \in Names
      /\ \A h \in published.points \cup overlay.points : h[1] # name
  <2>1. name \in Names
    BY <1>n, <1>1 DEF Types, WorkTypes
  <2> QED BY <1>n, <1>0, <1>1, <2>1 DEF Rewritten, Named
<1>4. PICK live \in Points : Latest(live) # 0
  BY <1>1 DEF Rewritten
<1>5. /\ log' \in Seq(Records) /\ Len(log) \in Nat /\ Len(log') \in Nat /\ Len(log) <= Len(log')
      /\ \A p \in Points : /\ LastRecord(p)' = LastRecord(p) /\ Latest(p)' = Latest(p)
                           /\ LastRecord(p) \in Nat /\ Latest(p) \in Nat
  <2>1. /\ log' \in Seq(Records) /\ Len(log) \in Nat /\ Len(log') \in Nat
        /\ Len(log') = Len(log) \/ Len(log') = Len(log) + 1
        /\ \A p \in Points : /\ LastRecord(p)' = LastRecord(p) /\ Latest(p)' = Latest(p)
                             /\ LastRecord(p) \in Nat /\ Latest(p) \in Nat
    BY <1>0, <1>1, Histories
  <2> QED BY <2>1
<1>6. DOMAIN segs[name].rows \subseteq Points
  BY <1>1, <1>3, SegTypes
<1>7. DOMAIN searchers = {1} /\ searchers[1] = name /\ ToSet(searchers) = {name}
  <2>1. DOMAIN searchers = {1} /\ searchers[1] = name
    BY <1>3
  <2> QED BY <2>1 DEF ToSet
<1>8. /\ DOMAIN id_index = DOMAIN segs[name].rows /\ (\A p \in DOMAIN id_index : id_index[p] = 1)
      /\ id_index \in [DOMAIN id_index -> {Streamer, Sealing} \cup DOMAIN searchers]
      /\ Streamer # 1 /\ Sealing # 1
  BY <1>3, <1>7 DEF Streamer, Sealing
<1>9. Shape'
  BY <1>0, <1>3, <1>7 DEF Shape
<1>10. Content'
  <2>1. RowsOf(1)' = segs[name].rows
    BY <1>0, <1>7 DEF RowsOf
  <2>2. \A p : Shown(1, p)' <=> p \in DOMAIN segs[name].rows
    BY <1>0, <1>3, <1>7, <2>1 DEF Shown
  <2>3. \A p \in DOMAIN id_index : p \in Points /\ segs[searchers[id_index[p]]].rows[p] = Latest(p)'
    BY <1>3, <1>5, <1>6, <1>7, <1>8 DEF Whole
  <2>4. \A p \in Points : p \in DOMAIN id_index <=> Latest(p)' # 0
    BY <1>3, <1>5, <1>8 DEF Whole
  <2>5. DOMAIN streamer = {}
    BY <1>3, EmptyRows
  <2> QED BY <1>0, <1>7, <1>8, <2>2, <2>3, <2>4, <2>5 DEF Content, RowsOf
<1>11. After(ReplayFrom)'
  BY <1>0, <1>8 DEF After, InMemory
<1>12. /\ Behind' /\ Covered' /\ manifest'.exists
       /\ manifest' \in [exists : BOOLEAN, generation : Nat, segments : Seq(Names)]
       /\ manifest'.generation \in Nat /\ manifest.generation <= manifest'.generation
       /\ ToSet(manifest'.segments) \subseteq {name}
  <2>1. CASE manifest' = manifest
    <3>1. Installed' = ToSet(manifest.segments) /\ Installed = ToSet(manifest.segments)
      BY <1>2, <2>1 DEF Installed
    <3>2. ToSet(manifest.segments) = {}
      BY <1>0, <1>3, <3>1 DEF Missing
    <3>3. manifest \in [exists : BOOLEAN, generation : Nat, segments : Seq(Names)] /\ manifest.generation \in Nat
      BY <1>1 DEF Types, DiskTypes
    <3>4. ~Missing /\ ~OverlayIgnored
      BY <3>1, <3>2 DEF Missing, OverlayIgnored
    <3>5. Loadable
      BY <1>3, <3>4
    <3>6. \A p \in Points : LastRecord(p) <= ReplayFrom => Latest(p) = 0
      BY <3>1, <3>2, <3>5 DEF Loadable
    <3>7. base < Len(log')
      <4>1. ReplayFrom \in Nat /\ base <= ReplayFrom /\ base \in Nat
        BY <1>1, ReplayFromIs DEF Types, DiskTypes
      <4>2. LastRecord(live) <= Len(log)
        BY <1>1, LastRecordIs DEF Types, DiskTypes
      <4>3. LastRecord(live) > ReplayFrom
        BY <1>4, <1>5, <3>6, <4>1
      <4> QED BY <1>5, <4>1, <4>2, <4>3
    <3>8. ReplayFrom' = ReplayFrom
      BY <1>0 DEF ReplayFrom
    <3>9. Behind'
      BY <1>0, <1>5, <2>1, <3>2, <3>6, <3>7, <3>8 DEF Behind
    <3>10. Covered'
      BY <3>1, <3>2 DEF Covered
    <3> QED BY <1>2, <2>1, <3>2, <3>3, <3>9, <3>10
  <2>2. CASE manifest' = SwitchedTo(searchers) /\ log' = Append(log, CompactRecord)
    <3>1. base < Len(log')
      <4>1. log \in Seq(Records) /\ base \in Nat /\ base <= Len(log)
        BY <1>1 DEF Types, DiskTypes
      <4> QED BY <1>5, <2>2, <4>1
    <3>2. SwitchesTo(searchers)
      BY <1>3, <2>2 DEF SwitchesTo
    <3>3. /\ Behind' /\ Covered' /\ manifest'.exists /\ manifest'.segments = searchers
          /\ manifest' \in [exists : BOOLEAN, generation : Nat, segments : Seq(Names)]
          /\ manifest'.generation \in Nat /\ manifest.generation <= manifest'.generation
      BY <1>0, <1>1, <3>1, <3>2, SwitchesIs
    <3> QED BY <1>7, <3>3
  <2> QED BY <1>0, <2>1, <2>2
<1>13. /\ \A s \in ToSet(searchers) : Bounded(s)'
       /\ \A h \in published.points \cup overlay.points : Bounded(h[1])'
  BY <1>0, <1>2, <1>12, GrowsBounds
<1>14. /\ \A s \in ToSet(searchers') \cup ToSet(manifest'.segments) : Bounded(s)'
       /\ \A h \in published'.points \cup overlay'.points : Bounded(h[1])'
  BY <1>0, <1>7, <1>12, <1>13
<1> QED BY <1>0, <1>2, <1>8, <1>9, <1>10, <1>11, <1>12, <1>14, EndsKeeps

-----------------------------------------------------------------------------
(***************************************************************************)
(* The manifest of a merge.                                                *)
(***************************************************************************)
\* Nothing of memory is older than what the merge lets the WAL drop.
LEMMA MergeCut ==
  ASSUME Inv, compact.pc = "manifest", NEW p \in DOMAIN streamer
  PROVE  Latest(p) > CutTo /\ p \in Points
<1>1. up /\ Merging
  BY MergedOverlayIs, CompactRuns DEF CompactLocks, Emptying
<1>2. Types /\ Retained /\ Content
  BY <1>1, LiveParts DEF Inv, Loaded, Emptying
<1>3. /\ compact.end > 0 /\ streamer[p] > compact.end /\ log[Len(log)] = CompactRecord
      /\ compact.mark = (IF Len(log) > compact.end + 1 THEN compact.end ELSE 0)
  BY <1>1, <1>2 DEF Retained, Emptying
<1>4. /\ log \in Seq(Records) /\ Len(log) \in Nat /\ compact.end \in Nat /\ streamer \in RowMaps
  BY <1>2 DEF Types, DiskTypes, MemoryTypes, WorkTypes
<1>5. p \in Points
  BY <1>4, RowsAre DEF IsRows
<1>6. streamer[p] = Latest(p) /\ Latest(p) # 0
  BY <1>2, <1>5 DEF Content
<1>7. Latest(p) \in Nat /\ Latest(p) = LastRecord(p) /\ LastRecord(p) <= Len(log) /\ log[LastRecord(p)].id = p
  BY <1>4, <1>6, LatestIs, LastRecordIs
<1>8. LastRecord(p) # Len(log)
  <2>1. CompactRecord \in Records
    BY DEF Records
  <2> QED BY <1>3, <1>5, <1>7, <2>1, RecordIs
<1>9. compact.end < Len(log)
  BY MergedOverlayIs
<1> QED BY <1>3, <1>4, <1>5, <1>6, <1>7, <1>8, <1>9 DEF CutTo

LEMMA CompactManifestKeeps ==
  ASSUME Inv, CompactManifest \/ CompactInstallStuck
  PROVE  Inv'
<1>n. PICK u, place, np, K :
        u = compact.name /\ place = Place /\ np = [i \in DOMAIN searchers |-> NewPosition(i)] /\ K = Kept
  OBVIOUS
<1>0. /\ compact.pc = "manifest" /\ searchers' = Merged
      /\ manifest' = [exists |-> TRUE, generation |-> compact.name[3], segments |-> Merged]
      /\ overlay' = published
      /\ id_index' = [p \in DOMAIN id_index |-> CASE id_index[p] = Streamer -> Streamer
                                                  [] id_index[p] = Sealing -> Place
                                                  [] OTHER -> NewPosition(id_index[p])]
  BY DEF CompactManifest, CompactInstallStuck, CompactSwitch
<1>1. UNCHANGED <<log, base, segs, published, checkpoint, up, streamer, seal>>
  BY DEF CompactManifest, CompactInstallStuck, CompactSwitch, wal
<1>w. \/ /\ sealing' = NotSealing /\ building' = FALSE /\ last_segment' = TRUE
         /\ compact' = [compact EXCEPT !.pc = "checkpoint"]
      \/ UNCHANGED <<sealing, building, last_segment>> /\ compact' = NoCompact
  BY DEF CompactManifest, CompactInstallStuck
<1>2. /\ up /\ seal.pc = "idle" /\ ~SealActive /\ ~SealEnding /\ manifest.exists /\ ~Emptying
  BY <1>0, CompactRuns DEF CompactLocks, Emptying
<1>3. /\ Types /\ Owners /\ Named /\ Retained /\ Staged /\ Shape /\ Content /\ After(ReplayFrom)
  BY <1>2, LiveParts DEF Inv, Loaded, Emptying
<1>4. /\ MergedOverlay.generation = manifest.generation + 1
      /\ \A h : h \in MergedOverlay.points <=>
           \/ h \in overlay.points /\ \E i \in K : searchers[i] = h[1]
           \/ \E p \in Moved : h = <<u, p>>
      /\ Bounded(u) /\ Moved \subseteq Points
      /\ u \in Names /\ Fresh(u) /\ Merging /\ compact.staged /\ u[3] = manifest.generation + 1
  BY <1>n, <1>0, MergedOverlayIs
<1>5. /\ DOMAIN compact.entries = DOMAIN compact.rows /\ compact.selected \subseteq DOMAIN searchers
      /\ u \in DOMAIN segs /\ segs[u].rows = compact.rows /\ segs[u].tomb = Moved /\ published = MergedOverlay
      /\ \A p \in DOMAIN compact.entries :
           /\ compact.entries[p] \in {Sealing} \cup compact.selected
           /\ compact.entries[p] = Sealing => sealing.rows[p] = compact.rows[p]
           /\ compact.entries[p] # Sealing => RowsOf(compact.entries[p])[p] = compact.rows[p]
      /\ \A p \in DOMAIN id_index :
           id_index[p] \in {Sealing} \cup compact.selected => p \in DOMAIN compact.entries /\ compact.entries[p] = id_index[p]
  BY <1>n, <1>0, <1>2, <1>3, <1>4 DEF Staged, Merging
<1>6. /\ manifest.generation \in Nat /\ searchers \in Seq(Names) /\ DOMAIN id_index \subseteq Points
      /\ \A p \in DOMAIN id_index : id_index[p] \in {Streamer, Sealing} \cup DOMAIN searchers
      /\ compact \in CompactTypes /\ compact.end <= Len(log) /\ compact.mark <= Len(log)
      /\ Streamer = -1 /\ Sealing = 0 /\ DOMAIN searchers \subseteq Nat \ {0} /\ Len(log) \in Nat
      /\ DOMAIN compact.entries \subseteq Points
  <2>1. compact.entries \in RowMaps
    BY <1>3 DEF Types, WorkTypes
  <2>2. DOMAIN compact.entries \subseteq Points
    BY <2>1, RowsAre DEF IsRows
  <2> QED BY <1>2, <1>3, <2>2 DEF Types, DiskTypes, MemoryTypes, WorkTypes, CompactTypes, Streamer, Sealing, Emptying
<1>7. u \notin ToSet(searchers) /\ \A s : s \in ToSet(searchers) <=> \E i \in DOMAIN searchers : s = searchers[i]
  BY <1>4 DEF Fresh, ToSet
<1>8. Mergeable
  BY <1>n, <1>3, <1>4, <1>5, <1>6, <1>7 DEF Mergeable, Shape
<1>9. K \subseteq DOMAIN searchers /\ \A i \in DOMAIN searchers : i \in K <=> i \notin compact.selected
  BY <1>n DEF Kept
<1>10. /\ searchers' \in Seq(Names) /\ place \in DOMAIN searchers' /\ searchers'[place] = u
       /\ \A i \in K : np[i] \in DOMAIN searchers' /\ searchers'[np[i]] = searchers[i] /\ np[i] # place
       /\ \A k \in DOMAIN searchers' : k = place \/ \E i \in K : k = np[i]
       /\ \A j, k \in DOMAIN searchers' : searchers'[j] = searchers'[k] => j = k
       /\ \A s : s \in ToSet(searchers') <=> s = u \/ \E i \in K : s = searchers[i]
       /\ \A i, j \in K : np[i] = np[j] => i = j
       /\ \A i \in DOMAIN searchers : i \notin K => np[i] = place
       /\ place \in Nat \ {0}
  <2>1. \A i \in DOMAIN searchers : np[i] = NewPosition(i)
    BY <1>n
  <2>2. \A i \in K : np[i] = NewPosition(i)
    BY <1>9, <2>1
  <2>3. searchers' = Merged /\ K = Kept /\ place = Place /\ u = compact.name
    BY <1>n, <1>0
  <2>4. /\ Merged \in Seq(Names) /\ Place \in DOMAIN Merged /\ Merged[Place] = compact.name
        /\ \A i \in Kept : NewPosition(i) \in DOMAIN Merged /\ Merged[NewPosition(i)] = searchers[i]
        /\ \A k \in DOMAIN Merged : k = Place \/ \E i \in Kept : k = NewPosition(i)
    BY <1>8, MergedIs
  <2>5. /\ \A j, k \in DOMAIN Merged : Merged[j] = Merged[k] => j = k
        /\ \A s : s \in ToSet(Merged) <=> s = compact.name \/ \E i \in Kept : s = searchers[i]
        /\ \A i, j \in Kept : NewPosition(i) = NewPosition(j) => i = j
        /\ \A i \in Kept : NewPosition(i) # Place
        /\ \A i \in DOMAIN searchers : i \notin Kept => NewPosition(i) = Place
    BY <1>8, MergedNames
  <2>6. Place \in Nat \ {0}
    BY <1>8, PlaceIs
  <2> QED BY <2>1, <2>2, <2>3, <2>4, <2>5, <2>6
<1>11. /\ DOMAIN id_index' = DOMAIN id_index /\ id_index' = [p \in DOMAIN id_index' |-> id_index'[p]]
       /\ \A p \in DOMAIN id_index :
            /\ id_index[p] = Streamer => id_index'[p] = Streamer
            /\ id_index[p] = Sealing => id_index'[p] = place
            /\ id_index[p] \in DOMAIN searchers => id_index'[p] = np[id_index[p]]
  <2>1. \A i \in DOMAIN searchers : np[i] = NewPosition(i) /\ i # Streamer /\ i # Sealing
    BY <1>n, <1>6
  <2>2. Streamer # Sealing
    BY <1>6
  <2> QED BY <1>n, <1>0, <2>1, <2>2
<1>12. /\ \A p \in DOMAIN id_index :
            /\ id_index'[p] \in {Streamer} \cup DOMAIN searchers'
            /\ id_index'[p] = Streamer <=> id_index[p] = Streamer
            /\ id_index'[p] # Sealing
            /\ id_index'[p] = place <=> id_index[p] \in {Sealing} \cup compact.selected
            /\ \A i \in K : id_index'[p] = np[i] <=> id_index[p] = i
  <2> SUFFICES ASSUME NEW p \in DOMAIN id_index
               PROVE  /\ id_index'[p] \in {Streamer} \cup DOMAIN searchers'
                      /\ id_index'[p] = Streamer <=> id_index[p] = Streamer
                      /\ id_index'[p] # Sealing
                      /\ id_index'[p] = place <=> id_index[p] \in {Sealing} \cup compact.selected
                      /\ \A i \in K : id_index'[p] = np[i] <=> id_index[p] = i
    OBVIOUS
  <2>0. DOMAIN searchers' \subseteq Nat \ {0}
    BY <1>10
  <2>1. place # Streamer /\ place # Sealing /\ Streamer # Sealing /\ Streamer \notin DOMAIN searchers /\ Sealing \notin DOMAIN searchers
        /\ Streamer \notin DOMAIN searchers' /\ Sealing \notin DOMAIN searchers'
    BY <1>6, <1>10, <2>0
  <2>2. CASE id_index[p] = Streamer
    BY <1>5, <1>9, <1>10, <1>11, <2>1, <2>2
  <2>3. CASE id_index[p] = Sealing
    BY <1>9, <1>10, <1>11, <2>1, <2>3
  <2>4. CASE id_index[p] \in K
    BY <1>9, <1>10, <1>11, <2>1, <2>4
  <2>5. CASE id_index[p] \in DOMAIN searchers /\ id_index[p] \notin K
    BY <1>9, <1>10, <1>11, <2>1, <2>5
  <2> QED BY <1>6, <2>2, <2>3, <2>4, <2>5
<1>13. /\ id_index' \in [DOMAIN id_index' -> {Streamer, Sealing} \cup DOMAIN searchers']
       /\ id_index' \in [DOMAIN id_index' -> Int]
  <2>1. DOMAIN searchers' \subseteq Int
    BY <1>10
  <2>2. \A p \in DOMAIN id_index' : id_index'[p] \in {Streamer, Sealing} \cup DOMAIN searchers' /\ id_index'[p] \in Int
    BY <1>6, <1>11, <1>12, <2>1
  <2> QED BY <1>11, <2>2
<1>14. /\ manifest'.exists /\ manifest'.generation = manifest.generation + 1 /\ manifest'.segments = searchers'
       /\ manifest' \in [exists : BOOLEAN, generation : Nat, segments : Seq(Names)] /\ Installed' = ToSet(searchers')
  <2>1. manifest' = [exists |-> TRUE, generation |-> manifest.generation + 1, segments |-> searchers']
    BY <1>n, <1>0, <1>4
  <2> QED BY <1>6, <1>10, <2>1 DEF Installed
<1>15. /\ compact' \in CompactTypes /\ compact'.end <= Len(log) /\ compact'.mark <= Len(log)
       /\ compact'.pc \in {"checkpoint", "idle"} /\ (compact'.pc = "checkpoint" => compact'.mark = compact.mark)
       /\ compact'.pc = "idle" => compact' = NoCompact
  <2>1. "checkpoint" \in CompactPcs
    BY DEF CompactPcs
  <2>2. CASE compact' = [compact EXCEPT !.pc = "checkpoint"]
    <3>1. compact' \in CompactTypes /\ compact'.pc = "checkpoint" /\ compact'.end = compact.end /\ compact'.mark = compact.mark
      BY <1>6, <2>1, <2>2 DEF CompactTypes
    <3> QED BY <1>6, <3>1
  <2>3. CASE compact' = NoCompact
    BY <1>6, <2>3, IdleTypes DEF CompactTypes
  <2> QED BY <1>w, <2>2, <2>3
<1>16. Types'
  <2>1. DiskTypes'
    BY <1>1, <1>3, <1>14 DEF Types, DiskTypes
  <2>2. MemoryTypes'
    <3>1. /\ sealing' \in [owner : {"none", "seal", "compact", "gone"}, rows : RowMaps]
          /\ building' \in BOOLEAN /\ last_segment' \in BOOLEAN
      BY <1>w, <1>3, IdleTypes DEF Types, MemoryTypes
    <3> QED BY <1>0, <1>1, <1>3, <1>6, <1>10, <1>11, <1>13, <3>1 DEF Types, MemoryTypes, DiskTypes
  <2>3. WorkTypes'
    BY <1>1, <1>3, <1>6, <1>15 DEF Types, WorkTypes, CompactTypes
  <2> QED BY <2>1, <2>2, <2>3 DEF Types
<1>17. /\ \A p : LastRecord(p)' = LastRecord(p) /\ Latest(p)' = Latest(p)
       /\ ReplayFrom' = ReplayFrom
  BY <1>1, NotLogged DEF ReplayFrom
<1>18. /\ \A p \in Points : <<u, p>> \in overlay'.points <=> p \in Moved
       /\ \A i \in K : \A p \in Points : <<searchers[i], p>> \in overlay'.points <=> <<searchers[i], p>> \in overlay.points
       /\ \A h \in overlay'.points : h[1] \in ToSet(searchers')
  <2>1. \A p : <<u, p>> \notin overlay.points
    BY <1>4 DEF Fresh
  <2>2. \A i \in K : searchers[i] # u
    BY <1>7, <1>9
  <2>3. overlay'.points = MergedOverlay.points
    BY <1>0, <1>5
  <2> QED BY <1>4, <1>10, <2>1, <2>2, <2>3
<1>19. Shape'
  <2>1. \A k \in DOMAIN searchers' : searchers'[k] \in DOMAIN segs'
    BY <1>1, <1>3, <1>5, <1>9, <1>10 DEF Shape
  <2>2. \A k \in DOMAIN searchers' : \A p \in segs'[searchers'[k]].tomb : <<searchers'[k], p>> \in overlay'.points
    <3> SUFFICES ASSUME NEW k \in DOMAIN searchers', NEW p \in segs[searchers'[k]].tomb
                 PROVE  <<searchers'[k], p>> \in overlay'.points
      BY <1>1
    <3>1. CASE k = place
      BY <1>4, <1>5, <1>10, <1>18, <3>1
    <3>2. CASE \E i \in K : k = np[i]
      <4>1. PICK i \in K : k = np[i]
        BY <3>2
      <4>2. searchers'[k] = searchers[i] /\ <<searchers[i], p>> \in overlay.points /\ i \in DOMAIN searchers
        BY <1>3, <1>9, <1>10, <4>1 DEF Shape
      <4>3. p \in Points
        BY <1>3, <4>2, SegTypes DEF Shape
      <4> QED BY <1>18, <4>2, <4>3
    <3> QED BY <1>10, <3>1, <3>2
  <2> QED BY <1>10, <1>18, <2>1, <2>2 DEF Shape
<1>20. Content'
  <2>1. \A p \in Points : p \in DOMAIN streamer' <=> p \in DOMAIN id_index' /\ id_index'[p] = Streamer
    BY <1>1, <1>3, <1>11, <1>12 DEF Content
  <2>2. ASSUME NEW k \in DOMAIN searchers', NEW p \in Points
        PROVE  Shown(k, p)' <=> p \in DOMAIN id_index' /\ id_index'[p] = k
    <3>0. Shown(k, p)' <=> p \in DOMAIN segs[searchers'[k]].rows /\ <<searchers'[k], p>> \notin overlay'.points
      BY <1>1 DEF Shown, RowsOf
    <3>1. CASE k = place
      <4>1. Shown(k, p)' <=> p \in DOMAIN compact.entries /\ p \notin Moved
        BY <1>5, <1>10, <1>18, <3>0, <3>1
      <4>2. p \in DOMAIN compact.entries /\ p \notin Moved <=> p \in DOMAIN id_index /\ id_index[p] \in {Sealing} \cup compact.selected
        BY <1>5 DEF Moved
      <4> QED BY <1>11, <1>12, <3>1, <4>1, <4>2
    <3>2. CASE \E i \in K : k = np[i]
      <4>1. PICK i \in K : k = np[i]
        BY <3>2
      <4>2. Shown(k, p)' <=> Shown(i, p)
        BY <1>10, <1>18, <3>0, <4>1 DEF Shown, RowsOf
      <4>3. Shown(i, p) <=> p \in DOMAIN id_index /\ id_index[p] = i
        BY <1>3, <1>9 DEF Content
      <4> QED BY <1>11, <1>12, <4>1, <4>2, <4>3
    <3> QED BY <1>10, <3>1, <3>2
  <2>3. ASSUME NEW p \in DOMAIN id_index', id_index'[p] \in DOMAIN searchers'
        PROVE  segs'[searchers'[id_index'[p]]].rows[p] = Latest(p)
    <3>0. p \in DOMAIN id_index
      BY <1>11
    <3>1. CASE id_index'[p] = place
      <4>1. id_index[p] \in {Sealing} \cup compact.selected /\ p \in DOMAIN compact.entries /\ compact.entries[p] = id_index[p]
        BY <1>5, <1>12, <3>0, <3>1
      <4>2. compact.rows[p] = Latest(p)
        BY <1>3, <1>5, <3>0, <4>1 DEF Content
      <4> QED BY <1>1, <1>5, <1>10, <3>1, <4>2
    <3>2. CASE \E i \in K : id_index'[p] = np[i]
      <4>1. PICK i \in K : id_index'[p] = np[i]
        BY <3>2
      <4>2. id_index[p] = i /\ i \in DOMAIN searchers
        BY <1>9, <1>12, <3>0, <4>1
      <4>3. RowsOf(i)[p] = Latest(p)
        BY <1>3, <3>0, <4>2 DEF Content
      <4> QED BY <1>1, <1>10, <4>1, <4>3 DEF RowsOf
    <3> QED BY <1>10, <2>3, <3>1, <3>2
  <2>4. \A p \in Points : p \in DOMAIN id_index' <=> Latest(p) # 0
    BY <1>3, <1>11 DEF Content
  <2>5. \A p \in DOMAIN id_index' : (id_index'[p] = Streamer => streamer'[p] = Latest(p)) /\ id_index'[p] # Sealing
    BY <1>1, <1>3, <1>11, <1>12 DEF Content
  <2> QED BY <1>17, <2>1, <2>2, <2>3, <2>4, <2>5 DEF Content, RowsOf
<1>21. \A p \in Points : InMemory(p)' => InMemory(p) /\ p \in DOMAIN streamer
  BY <1>3, <1>11, <1>12 DEF InMemory, Content
<1>22. After(ReplayFrom)' /\ (compact'.pc = "checkpoint" => After(CutTo)')
  <2>1. compact'.pc = "checkpoint" => CutTo' = CutTo
    BY <1>1, <1>15 DEF CutTo
  <2>2. \A p \in DOMAIN streamer : Latest(p) > CutTo
    BY <1>0, MergeCut
  <2> QED BY <1>3, <1>17, <1>21, <2>1, <2>2 DEF After
<1>23. Covered'
  <2>1. \A s \in Installed', t \in Installed', p \in Points :
          Row(s, p)' /\ Row(t, p)' /\ <<s, p>> \notin overlay'.points /\ <<t, p>> \notin overlay'.points => s = t
    BY <1>14, <1>20, OneIsShownNext DEF Row
  <2>2. published' = overlay'
    BY <1>0, <1>1
  <2> QED BY <2>1, <2>2 DEF Covered
<1>24. ~SealActive' /\ ~SealEnding' /\ ~Merging' /\ seal'.pc = "idle" /\ ~Emptying'
  BY <1>1, <1>2, <1>15 DEF SealActive, SealEnding, Merging, Emptying
<1>25. Owners'
  BY <1>w, <1>1, <1>2, <1>3, <1>14, <1>15, <1>24, IdleTypes DEF Owners
<1>26. Named'
  <2>1. manifest'.generation \in Nat /\ manifest.generation <= manifest'.generation /\ manifest.generation < manifest'.generation
    BY <1>6, <1>14
  <2>2. /\ \A s \in Names : Bounded(s) => Bounded(s)'
        /\ \A s \in ToSet(searchers) \cup ToSet(manifest.segments) : Bounded(s)'
        /\ \A h \in published.points \cup overlay.points : Bounded(h[1])'
    BY <1>1, <1>2, <2>1, GrowsBounds DEF SameHistory
  <2>3. \A s \in ToSet(searchers') \cup ToSet(manifest'.segments) : Bounded(s)'
    BY <1>4, <1>7, <1>9, <1>10, <1>14, <2>2
  <2>4. \A h \in published'.points \cup overlay'.points : Bounded(h[1])'
    BY <1>0, <1>1, <2>2
  <2> QED BY <1>14, <1>15, <1>24, <2>3, <2>4 DEF Named
<1>27. Memory'
  BY <1>19, <1>20 DEF Memory, Emptying
<1>28. Retained'
  BY <1>15, <1>22, <1>24 DEF Retained
<1>29. Linked'
  <2>1. overlay'.generation = manifest'.generation /\ published' = overlay'
    BY <1>0, <1>1, <1>4, <1>5, <1>14
  <2> QED BY <1>14, <1>15, <1>23, <1>24, <2>1 DEF Linked, Finishing, Unlisted, Switched, Emptying
<1>30. SealRows' /\ Staged' /\ Rewritten' /\ Down'
  BY <1>1, <1>2, <1>15, <1>24 DEF SealRows, Staged, Rewritten, Down, Emptying
<1> QED BY <1>16, <1>25, <1>26, <1>27, <1>28, <1>29, <1>30 DEF Inv

-----------------------------------------------------------------------------
(***************************************************************************)
(* Mutations.                                                              *)
(***************************************************************************)
\* The record r of a point is written and gives the streamer, the index and the hidden rows of a.
Mutation(r, a) ==
  /\ r \in Records /\ r # CompactRecord /\ log' = Append(log, r)
  /\ Follows(a, [streamer |-> streamer, index |-> id_index, hidden |-> overlay.points], r, Len(log) + 1, searchers)
  /\ overlay' = [generation |-> overlay.generation, points |-> a.hidden]
  /\ up /\ ~Locked /\ compact.pc # "lost"
  /\ UNCHANGED <<base, segs, manifest, checkpoint, up, searchers, last_segment, building, compact>>

LEMMA MutationStarts ==
  ASSUME Inv, NEW r, NEW a, Mutation(r, a)
  PROVE  /\ ~CompactLocks /\ ~Emptying
         /\ seal.pc \notin {"manifest", "checkpoint", "drop"} /\ ~SealEnding /\ ~CompactLocks /\ ~Ending
         /\ Loaded /\ r.id \in Points /\ r.op \in {"put", "del"}
         /\ Len(log) \in Nat /\ Len(log') = Len(log) + 1 /\ log' \in Seq(Records)
         /\ ReplayFrom \in Nat /\ ReplayFrom <= Len(log) /\ ReplayFrom' = ReplayFrom
         /\ \A p \in Points : /\ LastRecord(p)' = IF r.id = p THEN Len(log) + 1 ELSE LastRecord(p)
                              /\ Latest(p)' = IF r.id # p THEN Latest(p) ELSE IF r.op = "put" THEN Len(log) + 1 ELSE 0
                              /\ LastRecord(p) \in Nat /\ LastRecord(p) <= Len(log) /\ Latest(p) \in Nat
         /\ UNCHANGED <<base, segs, manifest, checkpoint, up, searchers, last_segment, building, compact>>
<1>1. /\ ~CompactLocks /\ ~Emptying
      /\ seal.pc \notin {"manifest", "checkpoint", "drop"} /\ ~SealEnding /\ ~CompactLocks /\ ~Ending /\ Loaded
  BY DEF Mutation, Locked, SealEnding, CompactLocks, Ending, Loaded, Emptying
<1>2. r \in Records /\ r.id \in Points /\ r.op \in {"put", "del"}
  BY RecordIs DEF Mutation
<1>3. Types /\ log \in Seq(Records)
  BY DEF Inv, Types, DiskTypes
<1>4. UNCHANGED <<base, segs, manifest, checkpoint, up, searchers, last_segment, building, compact>> /\ log' = Append(log, r)
  BY DEF Mutation
<1>5. Len(log) \in Nat /\ Len(log') = Len(log) + 1 /\ log' \in Seq(Records)
  BY <1>2, <1>3, <1>4
<1>6. ReplayFrom' = ReplayFrom
  BY <1>4 DEF ReplayFrom
<1>7. ReplayFrom \in Nat /\ ReplayFrom <= Len(log)
  BY <1>3, ReplayFromIs
<1>8. \A p \in Points : /\ LastRecord(p)' = IF r.id = p THEN Len(log) + 1 ELSE LastRecord(p)
                        /\ Latest(p)' = IF r.id # p THEN Latest(p) ELSE IF r.op = "put" THEN Len(log) + 1 ELSE 0
  BY <1>2, <1>3, <1>4, Logged
<1>9. \A p \in Points : LastRecord(p) \in Nat /\ LastRecord(p) <= Len(log) /\ Latest(p) \in Nat
  BY <1>3, LastRecordIs, LatestIs
<1> QED BY <1>1, <1>2, <1>4, <1>5, <1>6, <1>7, <1>8, <1>9

\* What it shows afterwards.
Shows(a) ==
  /\ a.streamer \in RowMaps /\ DOMAIN a.index \subseteq Points
  /\ a.index \in [DOMAIN a.index -> {Streamer, Sealing} \cup DOMAIN searchers]
  /\ \A p \in Points : p \in DOMAIN a.streamer <=> p \in DOMAIN a.index /\ a.index[p] = Streamer
  /\ \A p \in DOMAIN a.index : a.index[p] # Streamer => p \in DOMAIN id_index /\ id_index[p] = a.index[p]
  /\ \A i \in DOMAIN searchers, p \in Points : Shown(i, p)' <=> p \in DOMAIN a.index /\ a.index[p] = i
  /\ \A p \in Points : p \in DOMAIN a.index <=> Latest(p)' # 0
  /\ \A p \in DOMAIN a.index :
       /\ a.index[p] = Streamer => a.streamer[p] = Latest(p)'
       /\ a.index[p] = Sealing => sealing.rows[p] = Latest(p)'
       /\ a.index[p] \in DOMAIN searchers => RowsOf(a.index[p])[p] = Latest(p)'
       /\ a.index[p] \in {Streamer, Sealing} => Latest(p)' > ReplayFrom
  /\ \A p \in DOMAIN a.streamer : a.streamer[p] = Len(log) + 1 \/ (p \in DOMAIN streamer /\ a.streamer[p] = streamer[p])

LEMMA MutationShows ==
  ASSUME Inv, NEW r, NEW a, Mutation(r, a)
  PROVE  /\ Shows(a) /\ Shape'
         /\ overlay'.points \subseteq Names \X Points /\ overlay.points \subseteq overlay'.points
         /\ \A h \in overlay'.points :
              h \in overlay.points \/ (h[2] = r.id /\ \E i \in DOMAIN searchers : h[1] = searchers[i])
<1> DEFINE st == [streamer |-> streamer, index |-> id_index, hidden |-> overlay.points]
<1>1. Types /\ Shape /\ Content /\ After(ReplayFrom) /\ up
  BY MutationStarts, LiveParts DEF Inv, Loaded, Emptying
<1>2. /\ Loaded /\ r.id \in Points /\ r.op \in {"put", "del"}
      /\ Len(log) \in Nat /\ ReplayFrom \in Nat /\ ReplayFrom <= Len(log)
      /\ \A p \in Points : /\ Latest(p)' = IF r.id # p THEN Latest(p) ELSE IF r.op = "put" THEN Len(log) + 1 ELSE 0
                           /\ Latest(p) \in Nat
      /\ UNCHANGED <<segs, searchers>>
  BY MutationStarts
<1>3. st.streamer = streamer /\ st.index = id_index /\ st.hidden = overlay.points
  OBVIOUS
<1>4. Follows(a, st, r, Len(log) + 1, searchers)
  BY DEF Mutation
<1> HIDE DEF st
<1>5. /\ a.streamer \in RowMaps
      /\ a.index = [x \in DOMAIN a.index |-> a.index[x]]
      /\ r.op = "put" => /\ r.id \in DOMAIN a.streamer /\ a.streamer[r.id] = Len(log) + 1
                         /\ r.id \in DOMAIN a.index /\ a.index[r.id] = Streamer
      /\ r.op # "put" => r.id \notin DOMAIN a.streamer /\ r.id \notin DOMAIN a.index
      /\ \A q : q # r.id => (q \in DOMAIN a.streamer <=> q \in DOMAIN streamer)
      /\ \A q : q # r.id => (q \in DOMAIN a.index <=> q \in DOMAIN id_index)
      /\ \A q \in DOMAIN streamer : q # r.id => a.streamer[q] = streamer[q]
      /\ \A q \in DOMAIN id_index : q # r.id => a.index[q] = id_index[q]
  BY <1>3, <1>4 DEF Follows
<1>6. \A h : h \in a.hidden <=>
               \/ h \in overlay.points
               \/ r.id \in DOMAIN id_index /\ id_index[r.id] > 0 /\ h = <<searchers[id_index[r.id]], r.id>>
  BY <1>3, <1>4 DEF Follows
<1>7. overlay'.points = a.hidden
  BY DEF Mutation
<1>8. /\ searchers \in Seq(Names) /\ DOMAIN searchers \subseteq Nat \ {0} /\ \A i \in DOMAIN searchers : searchers[i] \in Names
      /\ id_index \in [DOMAIN id_index -> {Streamer, Sealing} \cup DOMAIN searchers]
      /\ DOMAIN id_index \subseteq Points /\ overlay.points \subseteq Names \X Points
      /\ streamer \in RowMaps /\ DOMAIN streamer \subseteq Points
  <2>1. streamer \in RowMaps /\ searchers \in Seq(Names)
    BY <1>1 DEF Types, MemoryTypes
  <2>2. DOMAIN streamer \subseteq Points
    BY <2>1, RowsAre DEF IsRows
  <2>3. DOMAIN searchers \subseteq Nat \ {0} /\ \A i \in DOMAIN searchers : searchers[i] \in Names
    BY <2>1
  <2>4. compact.pc \notin {"write", "clear", "install", "lost"}
    BY MutationStarts DEF Emptying
  <2> QED BY <1>1, <2>1, <2>2, <2>3, <2>4 DEF Types, MemoryTypes
<1>9. Streamer \notin DOMAIN searchers /\ Sealing \notin DOMAIN searchers /\ Streamer # Sealing
      /\ ~(Streamer > 0) /\ ~(Sealing > 0) /\ \A i \in DOMAIN searchers : i > 0
  BY <1>8 DEF Streamer, Sealing
<1>10. /\ overlay'.points \subseteq Names \X Points /\ overlay.points \subseteq overlay'.points
       /\ \A h \in overlay'.points :
            h \in overlay.points \/ (h[2] = r.id /\ \E i \in DOMAIN searchers : h[1] = searchers[i])
  <2>1. r.id \in DOMAIN id_index /\ id_index[r.id] > 0 => id_index[r.id] \in DOMAIN searchers
    BY <1>8, <1>9
  <2>2. \A h \in overlay'.points : h \in overlay.points \/ \E i \in DOMAIN searchers : h = <<searchers[i], r.id>>
    BY <1>6, <1>7, <2>1
  <2>3. \A i \in DOMAIN searchers :
          /\ <<searchers[i], r.id>> \in Names \X Points
          /\ <<searchers[i], r.id>>[2] = r.id /\ <<searchers[i], r.id>>[1] = searchers[i]
    BY <1>2, <1>8
  <2>4. overlay.points \subseteq overlay'.points
    BY <1>6, <1>7
  <2> QED BY <1>8, <2>2, <2>3, <2>4
<1>11. Shape'
  BY <1>1, <1>2, <1>10 DEF Shape
<1>12. \A i \in DOMAIN searchers : RowsOf(i)' = RowsOf(i)
  BY <1>2 DEF RowsOf
<1>13. ASSUME NEW i \in DOMAIN searchers, NEW p \in Points
       PROVE  Shown(i, p)' <=> Shown(i, p) /\ p # r.id
  <2>1. Shown(i, p)' <=> p \in DOMAIN RowsOf(i) /\ <<searchers[i], p>> \notin a.hidden
    BY <1>2, <1>7, <1>12 DEF Shown
  <2>2. CASE p = r.id
    <3>1. Shown(i, p) => <<searchers[i], p>> \in a.hidden
      <4>1. Shown(i, p) <=> p \in DOMAIN id_index /\ id_index[p] = i
        BY <1>1 DEF Content
      <4> QED BY <1>6, <1>9, <2>2, <4>1
    <3> QED BY <1>6, <2>1, <2>2, <3>1 DEF Shown
  <2>3. CASE p # r.id
    <3>1. <<searchers[i], p>> \in a.hidden <=> <<searchers[i], p>> \in overlay.points
      BY <1>6, <2>3
    <3> QED BY <2>1, <2>3, <3>1 DEF Shown
  <2> QED BY <2>2, <2>3
<1>14. /\ DOMAIN a.index \subseteq Points
       /\ a.index \in [DOMAIN a.index -> {Streamer, Sealing} \cup DOMAIN searchers]
  <2>1. DOMAIN a.index \subseteq Points
    BY <1>2, <1>5, <1>8
  <2>2. \A x \in DOMAIN a.index : a.index[x] \in {Streamer, Sealing} \cup DOMAIN searchers
    BY <1>2, <1>5, <1>8
  <2> QED BY <1>5, <2>1, <2>2
<1>15. \A p \in Points : p \in DOMAIN a.streamer <=> p \in DOMAIN a.index /\ a.index[p] = Streamer
  <2>1. \A p \in Points : p \in DOMAIN streamer <=> p \in DOMAIN id_index /\ id_index[p] = Streamer
    BY <1>1 DEF Content
  <2> QED BY <1>2, <1>5, <2>1
<1>16. \A p \in DOMAIN a.index : a.index[p] # Streamer => p # r.id /\ p \in DOMAIN id_index /\ id_index[p] = a.index[p]
  BY <1>2, <1>5
<1>17. \A i \in DOMAIN searchers, p \in Points : Shown(i, p)' <=> p \in DOMAIN a.index /\ a.index[p] = i
  <2>1. \A i \in DOMAIN searchers, p \in Points : Shown(i, p) <=> p \in DOMAIN id_index /\ id_index[p] = i
    BY <1>1 DEF Content
  <2> QED BY <1>2, <1>5, <1>9, <1>13, <2>1
<1>18. \A p \in Points : p \in DOMAIN a.index <=> Latest(p)' # 0
  <2>1. \A p \in Points : p \in DOMAIN id_index <=> Latest(p) # 0
    BY <1>1 DEF Content
  <2>2. Len(log) + 1 # 0
    BY <1>2
  <2> QED BY <1>2, <1>5, <2>1, <2>2
<1>19. ASSUME NEW p \in DOMAIN a.index
       PROVE  /\ a.index[p] = Streamer => a.streamer[p] = Latest(p)'
              /\ a.index[p] = Sealing => sealing.rows[p] = Latest(p)'
              /\ a.index[p] \in DOMAIN searchers => RowsOf(a.index[p])[p] = Latest(p)'
              /\ a.index[p] \in {Streamer, Sealing} => Latest(p)' > ReplayFrom
  <2>1. CASE p = r.id
    BY <1>2, <1>5, <1>9, <2>1
  <2>2. CASE p # r.id
    <3>1. p \in DOMAIN id_index /\ id_index[p] = a.index[p] /\ p \in Points /\ Latest(p)' = Latest(p)
      BY <1>2, <1>5, <1>14, <2>2
    <3>2. /\ id_index[p] = Streamer => p \in DOMAIN streamer /\ streamer[p] = Latest(p)
          /\ id_index[p] = Sealing => sealing.rows[p] = Latest(p)
          /\ id_index[p] \in DOMAIN searchers => RowsOf(id_index[p])[p] = Latest(p)
      BY <1>1, <3>1 DEF Content
    <3>3. id_index[p] \in {Streamer, Sealing} => Latest(p) > ReplayFrom
      BY <1>1, <3>1 DEF After, InMemory
    <3> QED BY <1>5, <2>2, <3>1, <3>2, <3>3
  <2> QED BY <2>1, <2>2
<1>20. \A p \in DOMAIN a.streamer : a.streamer[p] = Len(log) + 1 \/ (p \in DOMAIN streamer /\ a.streamer[p] = streamer[p])
  BY <1>2, <1>5
<1>21. Shows(a)
  BY <1>5, <1>14, <1>15, <1>16, <1>17, <1>18, <1>19, <1>20 DEF Shows
<1> QED BY <1>10, <1>11, <1>21

\* What it leaves of the names, the manifest and the overlay on disk.
LEMMA MutationDisk ==
  ASSUME Inv, NEW r, NEW a, Mutation(r, a), published' = published \/ published' = overlay'
  PROVE  /\ \A s \in Names : Bounded(s) => Bounded(s)'
         /\ \A s \in ToSet(searchers') \cup ToSet(manifest'.segments) : Bounded(s)'
         /\ ~manifest'.exists => \A s \in DOMAIN segs' : Bounded(s)'
         /\ \A h \in published.points \cup overlay'.points : Bounded(h[1])'
         /\ \A s : Fresh(s)' <=> Fresh(s)
         /\ manifest'.exists => Switched'
<1>1. Types /\ Shape /\ Named /\ (manifest.exists => Switched)
  BY MutationStarts, LiveParts DEF Inv
<1>2. /\ Len(log) \in Nat /\ Len(log') = Len(log) + 1 /\ ReplayFrom \in Nat /\ ReplayFrom <= Len(log) /\ ReplayFrom' = ReplayFrom
      /\ \A p \in Points : /\ LastRecord(p)' = IF r.id = p THEN Len(log) + 1 ELSE LastRecord(p)
                           /\ Latest(p)' = IF r.id # p THEN Latest(p) ELSE IF r.op = "put" THEN Len(log) + 1 ELSE 0
      /\ UNCHANGED <<base, segs, manifest, searchers, checkpoint>> /\ up
  BY MutationStarts DEF Loaded
<1>3. \A s \in Names : Bounded(s) => Bounded(s)'
  <2> SUFFICES ASSUME NEW s \in Names, Bounded(s) PROVE Bounded(s)'
    OBVIOUS
  <2>1. s[1] \in {0, 1, 2} /\ s[2] \in Nat /\ s[3] \in Nat
    BY DEF Names
  <2> QED BY <1>2, <2>1 DEF Bounded, NextGeneration
<1>4. ToSet(searchers) \cup ToSet(manifest.segments) \subseteq Names /\ DOMAIN segs \subseteq Names
  BY <1>1 DEF Types, MemoryTypes, DiskTypes, ToSet
<1>5. /\ \A s \in ToSet(searchers') \cup ToSet(manifest'.segments) : Bounded(s)'
      /\ ~manifest'.exists => \A s \in DOMAIN segs' : Bounded(s)'
  BY <1>1, <1>2, <1>3, <1>4 DEF Named
<1>10. /\ overlay.points \subseteq overlay'.points
       /\ \A h \in overlay'.points : h \in overlay.points \/ (h[2] = r.id /\ h[1] \in ToSet(searchers))
  <2>1. \A i \in DOMAIN searchers : searchers[i] \in ToSet(searchers)
    BY DEF ToSet
  <2> QED BY <2>1, MutationShows
<1>6. \A h \in published.points \cup overlay'.points : Bounded(h[1])'
  <2>1. \A h \in published.points \cup overlay.points : h[1] \in Names /\ Bounded(h[1])
    BY <1>1, <1>2 DEF Types, DiskTypes, MemoryTypes, Named
  <2>2. \A h \in overlay'.points : h \in overlay.points \/ h[1] \in ToSet(searchers')
    BY <1>2, <1>10
  <2> QED BY <1>3, <1>5, <2>1, <2>2
<1>7. \A s : Fresh(s)' <=> Fresh(s)
  <2>1. \A s : Fresh(s)' => Fresh(s)
    BY <1>2, <1>10 DEF Fresh
  <2>2. \A s : Fresh(s) => Fresh(s)'
    BY <1>2, <1>10 DEF Fresh
  <2> QED BY <2>1, <2>2
<1>8. overlay'.generation = overlay.generation
  BY DEF Mutation
<1>9. manifest'.exists => Switched'
  <2> SUFFICES ASSUME manifest.exists PROVE Switched'
    BY <1>2
  <2>1. CASE ToSet(manifest.segments) = ToSet(searchers) /\ overlay.generation = manifest.generation
    BY <1>2, <1>8, <2>1 DEF Switched
  <2>2. CASE Behind
    <3>1. \A s \in ToSet(manifest.segments) : s \in DOMAIN segs
      BY <2>2 DEF Behind
    <3>2. ASSUME NEW p \in Points, LastRecord(p)' <= ReplayFrom
          PROVE  /\ LastRecord(p)' = LastRecord(p) /\ Latest(p)' = Latest(p)
                 /\ \A s \in ToSet(manifest.segments) :
                      <<s, p>> \in published'.points \cup overlay'.points =>
                        <<s, p>> \in published.points \cup overlay.points
      <4>1. p # r.id
        BY <1>2, <3>2
      <4>2. \A s : <<s, p>> \in overlay'.points => <<s, p>> \in overlay.points
        BY <1>10, <4>1
      <4> QED BY <1>2, <4>1, <4>2
    <3>3. Behind'
      BY <1>1, <1>2, <2>2, <3>1, <3>2, BehindStays
    <3> QED BY <3>3 DEF Switched
  <2> QED BY <1>1, <2>1, <2>2 DEF Switched
<1> QED BY <1>3, <1>5, <1>6, <1>7, <1>9

\* A mutation that leaves the streamer open.
Plain(r, a) ==
  /\ Mutation(r, a) /\ streamer' = a.streamer /\ id_index' = a.index
  /\ UNCHANGED <<published, sealing, seal>>

LEMMA PlainKeeps ==
  ASSUME Inv, NEW r, NEW a, Plain(r, a)
  PROVE  Inv'
<1>0. Mutation(r, a) /\ streamer' = a.streamer /\ id_index' = a.index /\ UNCHANGED <<published, sealing, seal>>
  BY DEF Plain
<1>1. /\ ~CompactLocks /\ ~Emptying
      /\ seal.pc \notin {"manifest", "checkpoint", "drop"} /\ ~SealEnding /\ ~CompactLocks /\ ~Ending
      /\ Loaded /\ Len(log) \in Nat /\ Len(log') = Len(log) + 1 /\ log' \in Seq(Records)
      /\ ReplayFrom \in Nat /\ ReplayFrom <= Len(log) /\ ReplayFrom' = ReplayFrom
      /\ UNCHANGED <<base, segs, manifest, checkpoint, up, searchers, last_segment, building, compact>>
  BY <1>0, MutationStarts
<1>2. \A p \in Points : /\ LastRecord(p) \in Nat /\ LastRecord(p)' \in Nat /\ LastRecord(p) <= LastRecord(p)'
                        /\ p = r.id => LastRecord(p)' > ReplayFrom
  BY <1>0, MutationStarts
<1>3. /\ Shows(a) /\ Shape'
      /\ overlay'.points \subseteq Names \X Points /\ overlay.points \subseteq overlay'.points
      /\ \A h \in overlay'.points :
           h \in overlay.points \/ (h[2] = r.id /\ \E i \in DOMAIN searchers : h[1] = searchers[i])
  BY <1>0, MutationShows
<1>4. /\ \A s \in ToSet(searchers') \cup ToSet(manifest'.segments) : Bounded(s)'
      /\ ~manifest'.exists => \A s \in DOMAIN segs' : Bounded(s)'
      /\ \A h \in published'.points \cup overlay'.points : Bounded(h[1])'
      /\ \A s : Fresh(s)' <=> Fresh(s)
      /\ manifest'.exists => Switched'
  BY <1>0, MutationDisk
<1>5. /\ Types /\ Owners /\ Named /\ Retained /\ SealRows /\ Staged /\ Content /\ Unlisted /\ up
      /\ Current => Covered
      /\ Current /\ SealActive => Guarded
  BY <1>1, LiveParts DEF Inv, Loaded, Emptying
<1>6. overlay' = [generation |-> overlay.generation, points |-> overlay'.points]
  <2>1. overlay' = [generation |-> overlay.generation, points |-> a.hidden]
    BY <1>0 DEF Mutation
  <2> QED BY <2>1
<1>7. Types'
  <2>1. base' <= Len(log') /\ checkpoint'.watermark <= Len(log') /\ seal'.end <= Len(log')
        /\ compact'.end <= Len(log') /\ compact'.mark <= Len(log')
    BY <1>0, <1>1, <1>5 DEF Types, DiskTypes, WorkTypes
  <2>2. DiskTypes'
    BY <1>0, <1>1, <1>5, <2>1 DEF Types, DiskTypes
  <2>3. WorkTypes'
    BY <1>0, <1>1, <1>5, <2>1 DEF Types, WorkTypes
  <2>4. overlay' \in [generation : Nat, points : SUBSET (Names \X Points)]
    <3>1. overlay.generation \in Nat
      BY <1>5 DEF Types, MemoryTypes
    <3> QED BY <1>3, <1>6, <3>1
  <2>6. id_index' \in [DOMAIN id_index' -> Int]
    <3>1. DOMAIN searchers \subseteq Int /\ Streamer \in Int /\ Sealing \in Int
      BY <1>5 DEF Types, MemoryTypes, Streamer, Sealing
    <3> QED BY <1>0, <1>3, <3>1 DEF Shows
  <2>5. MemoryTypes'
    BY <1>0, <1>1, <1>3, <1>5, <2>4, <2>6 DEF Types, MemoryTypes, Shows
  <2> QED BY <2>2, <2>3, <2>5 DEF Types
<1>8. /\ SealActive' <=> SealActive
      /\ SealEnding' <=> SealEnding
      /\ Merging' <=> Merging
      /\ CompactLocks' <=> CompactLocks
      /\ Ending' <=> Ending
      /\ Sealed' = Sealed
  BY <1>0, <1>1 DEF SealActive, SealEnding, Merging, CompactLocks, Ending, Sealed, Emptying
<1>26. /\ compact.pc \notin {"advance", "manifest", "empty", "migrate", "write", "clear", "install", "rewrite",
                             "lost", "overlay", "checkpoint", "cut", "remove"}
       /\ compact' = compact /\ ~Emptying' /\ ~CompactLocks' /\ ~Ending' /\ ~SealEnding'
  BY <1>0, <1>1, <1>8 DEF CompactLocks, Emptying, Ending
<1>9. Owners'
  BY <1>0, <1>1, <1>5, <1>8, <1>26 DEF Owners
<1>10. Named'
  <2>1. compact.pc \notin {"advance", "manifest", "migrate", "write", "clear", "install", "rewrite"}
    BY <1>1 DEF CompactLocks
  <2> QED BY <1>0, <1>1, <1>4, <1>5, <1>8, <2>1 DEF Named, NextGeneration
<1>11. \A i \in DOMAIN searchers : RowsOf(i)' = RowsOf(i)
  BY <1>1 DEF RowsOf
<1>12. Content'
  <2>1. \A p \in Points : p \in DOMAIN streamer' <=> p \in DOMAIN id_index' /\ id_index'[p] = Streamer
    BY <1>0, <1>3 DEF Shows
  <2>2. \A p \in DOMAIN id_index' : id_index'[p] = Sealing => p \in DOMAIN sealing'.rows /\ sealing'.owner # "none"
    <3>1. Streamer # Sealing
      BY DEF Streamer, Sealing
    <3>2. \A p \in DOMAIN id_index' : id_index'[p] = Sealing => p \in DOMAIN id_index /\ id_index[p] = Sealing
      BY <1>0, <1>3, <3>1 DEF Shows
    <3> QED BY <1>0, <1>5, <3>2 DEF Content
  <2>3. \A i \in DOMAIN searchers', p \in Points : Shown(i, p)' <=> p \in DOMAIN id_index' /\ id_index'[p] = i
    BY <1>0, <1>1, <1>3 DEF Shows
  <2>4. \A p \in Points : p \in DOMAIN id_index' <=> Latest(p)' # 0
    BY <1>0, <1>3 DEF Shows
  <2>5. \A p \in DOMAIN a.index :
          /\ a.index[p] = Streamer => a.streamer[p] = Latest(p)'
          /\ a.index[p] = Sealing => sealing.rows[p] = Latest(p)'
          /\ a.index[p] \in DOMAIN searchers => segs[searchers[a.index[p]]].rows[p] = Latest(p)'
    BY <1>3 DEF Shows, RowsOf
  <2>6. \A p \in DOMAIN id_index' :
          /\ id_index'[p] = Streamer => streamer'[p] = Latest(p)'
          /\ id_index'[p] = Sealing => sealing'.rows[p] = Latest(p)'
          /\ id_index'[p] \in DOMAIN searchers' => segs'[searchers'[id_index'[p]]].rows[p] = Latest(p)'
    BY <1>0, <1>1, <2>5
  <2> QED BY <2>1, <2>2, <2>3, <2>4, <2>6 DEF Content, RowsOf
<1>13. Memory'
  BY <1>3, <1>12 DEF Memory, Emptying
<1>14. Retained'
  <2>1. \A p \in Points : InMemory(p)' => Latest(p)' > ReplayFrom'
    BY <1>0, <1>1, <1>3 DEF InMemory, Shows
  <2>2. After(ReplayFrom)'
    BY <2>1 DEF After
  <2>3. /\ \A p \in DOMAIN streamer' : streamer'[p] = Len(log) + 1 \/ (p \in DOMAIN streamer /\ streamer'[p] = streamer[p])
    BY <1>0, <1>3 DEF Shows
  <2>4. seal.end \in Nat /\ seal.end <= Len(log) /\ compact.end \in Nat /\ compact.end <= Len(log)
    BY <1>5 DEF Types, WorkTypes
  <2>5. SealActive' => \A p \in DOMAIN streamer' : streamer'[p] > seal'.end
    BY <1>0, <1>1, <1>5, <1>8, <2>3, <2>4 DEF Retained, Emptying
  <2>6. Merging' => compact'.end > 0 /\ \A p \in DOMAIN streamer' : streamer'[p] > compact'.end
    BY <1>1, <1>5, <1>8, <2>3, <2>4 DEF Retained, Emptying
  <2> QED BY <1>26, <1>8, <2>2, <2>5, <2>6 DEF Retained
<1>15. SealRows'
  <2> SUFFICES ASSUME SealActive PROVE SealRows'
    BY <1>8 DEF SealRows
  <2>1. sealing.rows \in RowMaps
    BY <1>5 DEF Types, MemoryTypes
  <2>2. DOMAIN sealing.rows \subseteq Points /\ \A p \in DOMAIN sealing.rows : sealing.rows[p] \in Nat
    BY <2>1, RowsAre DEF IsRows
  <2>3. \A p \in DOMAIN sealing.rows :
          /\ sealing.rows[p] > ReplayFrom' /\ sealing.rows[p] <= LastRecord(p)'
          /\ \A i \in DOMAIN searchers : p \in DOMAIN RowsOf(i)' => <<searchers[i], p>> \in overlay'.points
    BY <1>1, <1>2, <1>3, <1>5, <1>11, <2>2 DEF SealRows
  <2> QED BY <1>0, <1>1, <1>5, <1>8, <2>3 DEF SealRows
<1>16. Current' <=> Current
  BY <1>0, <1>1 DEF Current
<1>17. \A s, p : Row(s, p)' <=> Row(s, p)
  BY <1>1 DEF Row, Installed
<1>18. Installed' = Installed
  BY <1>1 DEF Installed
<1>19. Current' => Covered'
  <2> SUFFICES ASSUME Covered PROVE Covered'
    BY <1>5, <1>16
  <2>1. \A h \in overlay'.points :
          h[1] \in Installed => h \in published.points \/ LastRecord(h[2])' > ReplayFrom
    <3> SUFFICES ASSUME NEW h \in overlay'.points, h[1] \in Installed, h \notin published.points
                 PROVE  LastRecord(h[2])' > ReplayFrom
      OBVIOUS
    <3>1. h[2] \in Points
      BY <1>3
    <3>2. CASE h[2] = r.id
      BY <1>2, <3>1, <3>2
    <3>3. CASE h \in overlay.points
      <4>1. LastRecord(h[2]) > ReplayFrom
        BY <3>3 DEF Covered
      <4> QED BY <1>1, <1>2, <3>1, <4>1
    <3> QED BY <1>3, <3>2, <3>3
  <2>2. \A h \in published.points : h[1] \in Installed => h \in overlay'.points
    BY <1>3 DEF Covered
  <2> QED BY <1>0, <1>1, <1>17, <1>18, <2>1, <2>2 DEF Covered
<1>20. Current' /\ SealActive' => Guarded'
  BY <1>0, <1>1, <1>3, <1>5, <1>8, <1>11, <1>16 DEF Guarded
<1>21. Unlisted'
  BY <1>0, <1>1, <1>5, <1>6, <1>8 DEF Unlisted
<1>22. Finishing'
  BY <1>26, <1>8 DEF Finishing
<1>23. Linked'
  BY <1>4, <1>19, <1>20, <1>21, <1>22 DEF Linked, Emptying
<1>24. Staged'
  <2> SUFFICES ASSUME Merging PROVE Staged'
    BY <1>8 DEF Staged
  <2>1. compact.selected \subseteq DOMAIN searchers /\ DOMAIN searchers \subseteq Nat
    BY <1>5 DEF Staged, Types, MemoryTypes
  <2>2. Streamer \notin {Sealing} \cup compact.selected
    BY <2>1 DEF Streamer, Sealing
  <2>3. \A p \in DOMAIN a.index :
          a.index[p] \in {Sealing} \cup compact.selected => p \in DOMAIN id_index /\ id_index[p] = a.index[p]
    BY <1>3, <2>2 DEF Shows
  <2>4. \A p \in DOMAIN id_index' :
          id_index'[p] \in {Sealing} \cup compact.selected => p \in DOMAIN compact.entries /\ compact.entries[p] = id_index'[p]
    BY <1>0, <1>5, <2>3 DEF Staged
  <2>5. \A p \in DOMAIN compact.entries :
         /\ compact.entries[p] \in {Sealing} \cup compact.selected
         /\ compact.entries[p] = Sealing =>
              p \in DOMAIN sealing.rows /\ sealing.rows[p] = compact.rows[p]
         /\ compact.entries[p] # Sealing =>
              p \in DOMAIN segs[searchers[compact.entries[p]]].rows
              /\ segs[searchers[compact.entries[p]]].rows[p] = compact.rows[p]
    BY <1>5 DEF Staged, RowsOf
  <2>6. \A p \in DOMAIN compact'.entries :
         /\ compact'.entries[p] \in {Sealing} \cup compact'.selected
         /\ compact'.entries[p] = Sealing =>
              p \in DOMAIN sealing'.rows /\ sealing'.rows[p] = compact'.rows[p]
         /\ compact'.entries[p] # Sealing =>
              p \in DOMAIN segs'[searchers'[compact'.entries[p]]].rows
              /\ segs'[searchers'[compact'.entries[p]]].rows[p] = compact'.rows[p]
    BY <1>0, <1>1, <2>5
  <2>7. compact'.pc # "build" => compact'.name \in DOMAIN segs' /\ segs'[compact'.name].rows = compact'.rows
    BY <1>1, <1>5 DEF Staged
  <2>8. DOMAIN compact'.entries = DOMAIN compact'.rows /\ compact'.selected \subseteq DOMAIN searchers'
    BY <1>1, <1>5 DEF Staged
  <2> QED BY <1>1, <1>26, <2>4, <2>6, <2>7, <2>8 DEF Staged, RowsOf
<1>25. Rewritten' /\ Down'
  <2>1. compact.pc # "migrate"
    BY <1>1 DEF CompactLocks
  <2> QED BY <1>1, <1>5, <2>1 DEF Rewritten, Down, Emptying
<1> QED BY <1>7, <1>9, <1>10, <1>13, <1>14, <1>15, <1>23, <1>24, <1>25 DEF Inv

\* Upserts and deletes are such mutations.
LEMMA ResultIs ==
  ASSUME Inv, NEW r \in Records, r # CompactRecord, Mutates(r),
         overlay' = [overlay EXCEPT !.points = Result(r).hidden],
         UNCHANGED <<base, segs, manifest, checkpoint, up, searchers, last_segment, building, compact>>
  PROVE  Mutation(r, Result(r))
<1> DEFINE st == [streamer |-> streamer, index |-> id_index, hidden |-> overlay.points]
<1>1. streamer \in RowMaps /\ Len(log) + 1 \in Nat
  BY DEF Inv, Types, MemoryTypes, DiskTypes
<1>2. overlay \in [generation : Nat, points : SUBSET (Names \X Points)]
  BY DEF Inv, Types, MemoryTypes
<1>3. st.streamer \in RowMaps
  BY <1>1
<1>4. Follows(Applied(st, r, Len(log) + 1, searchers), st, r, Len(log) + 1, searchers)
  <2> HIDE DEF st
  <2> QED BY <1>1, <1>3, AppliedIs
<1>5. Follows(Result(r), st, r, Len(log) + 1, searchers)
  BY <1>4 DEF Result
<1>6. overlay' = [generation |-> overlay.generation, points |-> Result(r).hidden]
  BY <1>2
<1> QED BY <1>5, <1>6 DEF Mutation, Mutates

LEMMA UpsertKeeps ==
  ASSUME Inv, NEW p \in Points, Upsert(p)
  PROVE  Inv'
<1> DEFINE r == [op |-> "put", id |-> p]
<1>1. r \in Records /\ r # CompactRecord
  BY DEF Records, CompactRecord
<1>2. /\ Mutates(r) /\ streamer' = Result(r).streamer /\ id_index' = Result(r).index
      /\ overlay' = [overlay EXCEPT !.points = Result(r).hidden]
      /\ UNCHANGED <<base, segs, manifest, published, checkpoint, up, sealing, searchers, last_segment, building, seal, compact>>
  BY DEF Upsert, disk
<1> HIDE DEF r
<1>3. Mutation(r, Result(r))
  BY <1>1, <1>2, ResultIs
<1>4. PICK a : a = Result(r)
  OBVIOUS
<1>5. Plain(r, a)
  BY <1>2, <1>3, <1>4 DEF Plain
<1> QED BY <1>5, PlainKeeps

LEMMA DeleteKeeps ==
  ASSUME Inv, NEW p \in Points, Delete(p)
  PROVE  Inv'
<1> DEFINE r == [op |-> "del", id |-> p]
<1>1. r \in Records /\ r # CompactRecord
  BY DEF Records, CompactRecord
<1>2. /\ Mutates(r) /\ streamer' = Result(r).streamer /\ id_index' = Result(r).index
      /\ overlay' = [overlay EXCEPT !.points = Result(r).hidden]
      /\ UNCHANGED <<base, segs, manifest, published, checkpoint, up, sealing, searchers, last_segment, building, seal, compact>>
  BY DEF Delete, disk
<1> HIDE DEF r
<1>3. Mutation(r, Result(r))
  BY <1>1, <1>2, ResultIs
<1>4. PICK a : a = Result(r)
  OBVIOUS
<1>5. Plain(r, a)
  BY <1>2, <1>3, <1>4 DEF Plain
<1> QED BY <1>5, PlainKeeps

\* The mutation that freezes the streamer.
LEMMA UpsertAndSealKeeps ==
  ASSUME Inv, NEW p \in Points, UpsertAndSeal(p)
  PROVE  Inv'
<1> DEFINE r == [op |-> "put", id |-> p]
<1>0. r \in Records /\ r # CompactRecord
  BY DEF Records, CompactRecord
<1>1. /\ sealing.owner = "none" /\ ~building /\ Mutates(r) /\ published' = overlay'
      /\ overlay' = [overlay EXCEPT !.points = Result(r).hidden]
      /\ streamer' = NoRows /\ id_index' = Frozen(Result(r).index)
      /\ sealing' = [owner |-> "seal", rows |-> Result(r).streamer]
      /\ seal' = [pc |-> "build", end |-> Len(log')]
      /\ UNCHANGED <<base, segs, manifest, checkpoint, up, searchers, last_segment, building, compact>>
  BY DEF UpsertAndSeal
<1> HIDE DEF r
<1>2. Mutation(r, Result(r))
  BY <1>0, <1>1, ResultIs
<1>3. PICK a : a = Result(r)
  OBVIOUS
<1>4. /\ Mutation(r, a) /\ id_index' = Frozen(a.index) /\ sealing'.owner = "seal" /\ sealing'.rows = a.streamer
      /\ sealing' = [owner |-> "seal", rows |-> a.streamer]
      /\ seal'.pc = "build" /\ seal'.end = Len(log') /\ streamer' = NoRows /\ published' = overlay'
      /\ seal' = [pc |-> "build", end |-> Len(log')]
  BY <1>1, <1>2, <1>3
<1>5. /\ ~CompactLocks /\ ~Emptying
      /\ seal.pc \notin {"manifest", "checkpoint", "drop"} /\ ~SealEnding /\ ~CompactLocks /\ ~Ending
      /\ Loaded /\ Len(log) \in Nat /\ Len(log') = Len(log) + 1 /\ log' \in Seq(Records)
      /\ ReplayFrom \in Nat /\ ReplayFrom <= Len(log) /\ ReplayFrom' = ReplayFrom
      /\ UNCHANGED <<base, segs, manifest, checkpoint, up, searchers, last_segment, building, compact>>
  BY <1>4, MutationStarts
<1>6. /\ Shows(a) /\ Shape' /\ overlay'.points \subseteq Names \X Points
      /\ \A h \in overlay'.points : h \in overlay.points \/ \E i \in DOMAIN searchers : h[1] = searchers[i]
  BY <1>4, MutationShows
<1>7. /\ \A s \in ToSet(searchers') \cup ToSet(manifest'.segments) : Bounded(s)'
      /\ ~manifest'.exists => \A s \in DOMAIN segs' : Bounded(s)'
      /\ \A h \in published'.points \cup overlay'.points : Bounded(h[1])'
      /\ \A s : Fresh(s)' <=> Fresh(s)
      /\ manifest'.exists => Switched'
  BY <1>4, MutationDisk
<1>8. Types /\ Owners /\ Named /\ Content /\ Unlisted /\ up
  BY <1>5, LiveParts DEF Inv, Loaded, Emptying
<1>9. ~SealActive /\ ~Merging /\ ~building
  BY <1>1, <1>8 DEF Owners, Emptying
<1>10. overlay' = [generation |-> overlay.generation, points |-> overlay'.points]
  <2>1. overlay' = [generation |-> overlay.generation, points |-> a.hidden]
    BY <1>4 DEF Mutation
  <2> QED BY <2>1
<1>11. /\ a.streamer \in RowMaps /\ DOMAIN a.index \subseteq Points
       /\ a.index \in [DOMAIN a.index -> {Streamer, Sealing} \cup DOMAIN searchers]
       /\ \A q \in Points : q \in DOMAIN a.streamer <=> q \in DOMAIN a.index /\ a.index[q] = Streamer
       /\ \A i \in DOMAIN searchers, q \in Points : Shown(i, q)' <=> q \in DOMAIN a.index /\ a.index[q] = i
       /\ \A q \in Points : q \in DOMAIN a.index <=> Latest(q)' # 0
       /\ \A q \in DOMAIN a.index :
            /\ a.index[q] = Streamer => a.streamer[q] = Latest(q)'
            /\ a.index[q] \in DOMAIN searchers => segs[searchers[a.index[q]]].rows[q] = Latest(q)'
            /\ a.index[q] \in {Streamer, Sealing} => Latest(q)' > ReplayFrom
  BY <1>6 DEF Shows, RowsOf
<1>12. DOMAIN searchers \subseteq Nat \ {0} /\ Streamer \notin DOMAIN searchers /\ Sealing \notin DOMAIN searchers
       /\ Streamer # Sealing
  BY <1>8 DEF Types, MemoryTypes, Streamer, Sealing
<1>13. \A q \in DOMAIN a.index : a.index[q] # Sealing
  <2>1. \A q \in DOMAIN a.index : a.index[q] # Streamer => q \in DOMAIN id_index /\ id_index[q] = a.index[q]
    BY <1>6 DEF Shows
  <2>2. \A q \in DOMAIN id_index : id_index[q] # Sealing
    BY <1>1, <1>8 DEF Content
  <2> QED BY <1>12, <2>1, <2>2
<1>14. /\ DOMAIN id_index' = DOMAIN a.index
       /\ id_index' = [q \in DOMAIN id_index' |-> id_index'[q]]
       /\ \A q \in DOMAIN a.index : /\ id_index'[q] = Sealing <=> a.index[q] = Streamer
                                    /\ id_index'[q] # Streamer
                                    /\ id_index'[q] # Sealing => id_index'[q] = a.index[q]
                                    /\ id_index'[q] = Sealing \/ id_index'[q] \in DOMAIN searchers
                                    /\ \A i \in DOMAIN searchers : id_index'[q] = i <=> a.index[q] = i
  <2>1. /\ DOMAIN id_index' = DOMAIN a.index
        /\ id_index' = [q \in DOMAIN id_index' |-> id_index'[q]]
        /\ \A q \in DOMAIN a.index : id_index'[q] = IF a.index[q] = Streamer THEN Sealing ELSE a.index[q]
    BY <1>4 DEF Frozen
  <2> QED BY <1>11, <1>12, <1>13, <2>1
<1>15. DOMAIN a.streamer \subseteq Points /\ DOMAIN NoRows = {} /\ NoRows \in RowMaps
  BY <1>11, RowsAre, EmptyRows DEF IsRows
<1>16. \A q \in DOMAIN a.streamer : q \in DOMAIN a.index /\ a.index[q] = Streamer /\ a.streamer[q] = Latest(q)' /\ Latest(q)' > ReplayFrom
  BY <1>11, <1>15
<1>17. \A i \in DOMAIN searchers : RowsOf(i)' = RowsOf(i) /\ RowsOf(i) = segs[searchers[i]].rows
  BY <1>5 DEF RowsOf
<1>18. \A q \in DOMAIN a.streamer, i \in DOMAIN searchers : q \in DOMAIN RowsOf(i)' => <<searchers[i], q>> \in overlay'.points
  <2>1. \A q \in DOMAIN a.streamer, i \in DOMAIN searchers : ~Shown(i, q)'
    BY <1>11, <1>12, <1>15, <1>16
  <2> QED BY <1>5, <2>1 DEF Shown
<1>19. SealActive' /\ ~SealEnding' /\ ~Merging' /\ ~CompactLocks' /\ ~Ending'
  BY <1>4, <1>5, <1>9 DEF SealActive, SealEnding, Merging, CompactLocks, Ending, Emptying
<1>32. /\ compact.pc \notin {"advance", "manifest", "empty", "migrate", "write", "clear", "install", "rewrite",
                             "lost", "overlay", "checkpoint", "cut", "remove"}
       /\ compact' = compact /\ ~Emptying'
  BY <1>5 DEF CompactLocks, Emptying, Ending
<1>20. Types'
  <2>1. base' <= Len(log') /\ checkpoint'.watermark <= Len(log')
        /\ compact'.end <= Len(log') /\ compact'.mark <= Len(log')
    BY <1>5, <1>8 DEF Types, DiskTypes, WorkTypes
  <2>2. overlay' \in [generation : Nat, points : SUBSET (Names \X Points)]
    <3>1. overlay.generation \in Nat
      BY <1>8 DEF Types, MemoryTypes
    <3> QED BY <1>6, <1>10, <3>1
  <2>3. DiskTypes'
    BY <1>4, <1>5, <1>8, <2>1, <2>2 DEF Types, DiskTypes
  <2>4. WorkTypes'
    <3>1. seal' \in [pc : SealPcs, end : Nat] /\ seal'.end <= Len(log')
      BY <1>4, <1>5 DEF SealPcs
    <3> QED BY <1>5, <1>8, <2>1, <3>1 DEF Types, WorkTypes
  <2>5. id_index' \in [DOMAIN id_index' -> {Streamer, Sealing} \cup DOMAIN searchers']
    BY <1>5, <1>14
  <2>7. id_index' \in [DOMAIN id_index' -> Int]
    <3>1. {Streamer, Sealing} \cup DOMAIN searchers' \subseteq Int
      BY <1>5, <1>12 DEF Streamer, Sealing
    <3> QED BY <2>5, <3>1
  <2>6. MemoryTypes'
    BY <1>4, <1>5, <1>8, <1>11, <1>14, <1>15, <2>2, <2>5, <2>7 DEF Types, MemoryTypes
  <2> QED BY <2>3, <2>4, <2>6 DEF Types
<1>21. Owners'
  BY <1>4, <1>5, <1>8, <1>9, <1>19, <1>32 DEF Owners
<1>22. Named'
  <2>1. Fresh(Sealed)'
    <3>1. Sealed' = <<1, Len(log) + 1, 0>>
      BY <1>4, <1>5 DEF Sealed, SealName
    <3>2. \A s \in ToSet(searchers) \cup ToSet(manifest.segments) : s # <<1, Len(log) + 1, 0>>
      BY <1>5, <1>8 DEF Named, Bounded, NextGeneration
    <3>3. Sealed' \notin ToSet(searchers') /\ Sealed' \notin ToSet(manifest'.segments)
      BY <1>5, <3>1, <3>2
    <3>4. \A h \in overlay.points : h[1] # <<1, Len(log) + 1, 0>>
      BY <1>5, <1>8 DEF Named, Bounded
    <3>5. \A i \in DOMAIN searchers : searchers[i] \in ToSet(searchers)
      BY DEF ToSet
    <3>6. \A h \in overlay'.points : h[1] # Sealed'
      BY <1>6, <3>1, <3>2, <3>4, <3>5
    <3> QED BY <3>3, <3>6 DEF Fresh
  <2> QED BY <1>5, <1>7, <1>19, <1>32, <2>1 DEF Named
<1>23. Content'
  <2>1. \A q \in Points : q \in DOMAIN streamer' <=> q \in DOMAIN id_index' /\ id_index'[q] = Streamer
    BY <1>4, <1>14, <1>15
  <2>2. \A q \in DOMAIN id_index' : id_index'[q] = Sealing => q \in DOMAIN sealing'.rows /\ sealing'.owner # "none"
    BY <1>4, <1>11, <1>14
  <2>3. \A i \in DOMAIN searchers', q \in Points : Shown(i, q)' <=> q \in DOMAIN id_index' /\ id_index'[q] = i
    BY <1>5, <1>11, <1>14
  <2>4. \A q \in Points : q \in DOMAIN id_index' <=> Latest(q)' # 0
    BY <1>11, <1>14
  <2>5. \A q \in DOMAIN id_index' :
          /\ id_index'[q] = Streamer => streamer'[q] = Latest(q)'
          /\ id_index'[q] = Sealing => sealing'.rows[q] = Latest(q)'
          /\ id_index'[q] \in DOMAIN searchers' => segs'[searchers'[id_index'[q]]].rows[q] = Latest(q)'
    BY <1>4, <1>5, <1>11, <1>12, <1>14
  <2> QED BY <2>1, <2>2, <2>3, <2>4, <2>5 DEF Content, RowsOf
<1>24. Memory'
  BY <1>6, <1>23 DEF Memory, Emptying
<1>25. Retained'
  <2>1. \A q \in Points : InMemory(q)' => Latest(q)' > ReplayFrom'
    BY <1>5, <1>11, <1>14 DEF InMemory
  <2>2. After(ReplayFrom)'
    BY <2>1 DEF After
  <2> QED BY <1>4, <1>5, <1>15, <1>19, <1>32, <2>2 DEF Retained
<1>26. SealRows'
  <2>1. seal'.end > 0
    BY <1>4, <1>5
  <2>2. \A q \in Points : Latest(q)' <= LastRecord(q)'
    <3>1. \A q \in Points : Latest(q) <= LastRecord(q) /\ LastRecord(q) \in Nat
      BY <1>8, LatestIs, LastRecordIs DEF Types, DiskTypes
    <3>2. \A q \in Points : /\ LastRecord(q)' = IF r.id = q THEN Len(log) + 1 ELSE LastRecord(q)
                            /\ Latest(q)' = IF r.id # q THEN Latest(q) ELSE IF r.op = "put" THEN Len(log) + 1 ELSE 0
      BY <1>4, MutationStarts
    <3> QED BY <1>5, <3>1, <3>2
  <2>3. \A q \in DOMAIN sealing'.rows :
          /\ sealing'.rows[q] > ReplayFrom' /\ sealing'.rows[q] <= LastRecord(q)'
          /\ \A i \in DOMAIN searchers' : q \in DOMAIN RowsOf(i)' => <<searchers'[i], q>> \in overlay'.points
    BY <1>4, <1>5, <1>15, <1>16, <1>18, <2>2
  <2> QED BY <1>4, <2>1, <2>3 DEF SealRows
<1>27. Covered'
  <2>1. Installed' = Installed /\ (Installed \subseteq ToSet(searchers) \/ (manifest.exists /\ Behind))
    BY <1>5, <1>9, InstalledThere DEF Installed
  <2>2. ASSUME NEW s \in Installed, NEW t \in Installed, NEW q \in Points, q \in DOMAIN segs[s].rows, q \in DOMAIN segs[t].rows,
               <<s, q>> \notin overlay'.points, <<t, q>> \notin overlay'.points
        PROVE  s = t
    <3>0. CASE manifest.exists /\ Behind
      BY <2>2, <3>0 DEF Behind, Installed
    <3> SUFFICES ASSUME Installed \subseteq ToSet(searchers) PROVE s = t
      BY <2>1, <3>0
    <3>1. PICK i \in DOMAIN searchers : s = searchers[i]
      BY <2>1 DEF ToSet
    <3>2. PICK j \in DOMAIN searchers : t = searchers[j]
      BY <2>1 DEF ToSet
    <3>3. Shown(i, q)' /\ Shown(j, q)'
      BY <1>5, <1>17, <2>2, <3>1, <3>2 DEF Shown
    <3> QED BY <1>11, <3>1, <3>2, <3>3
  <2> QED BY <1>4, <1>5, <2>1, <2>2 DEF Covered, Row
<1>28. Guarded'
  BY <1>4, <1>5, <1>18 DEF Guarded
<1>29. Unlisted'
  <2>1. DOMAIN segs \subseteq ToSet(searchers) \/ manifest.exists
    BY <1>8, <1>9 DEF Unlisted
  <2> QED BY <1>5, <1>8, <1>10, <2>1 DEF Unlisted
<1>30. Linked'
  BY <1>5, <1>7, <1>19, <1>27, <1>28, <1>29, <1>32 DEF Linked, Finishing
<1>31. Staged' /\ Rewritten' /\ Down'
  BY <1>5, <1>8, <1>19, <1>32 DEF Staged, Rewritten, Down
<1> QED BY <1>20, <1>21, <1>22, <1>24, <1>25, <1>26, <1>30, <1>31 DEF Inv

-----------------------------------------------------------------------------
(***************************************************************************)
(* The age of the segments a load would find.                              *)
(***************************************************************************)
\* A step that leaves the manifest as it is, and without one adds at most the
\* segment of the seal.
LEMMA DatedStays ==
  ASSUME Dated, manifest' = manifest,
         manifest.exists \/ \A s \in DOMAIN segs' : s \in DOMAIN segs \/ s = Sealed
  PROVE  Dated'
<1>1. Sealed[1] = 1
  BY DEF Sealed, SealName
<1> QED BY <1>1 DEF Dated, Installed

\* A step that switches to segments of memory and of the current format.
LEMMA DatedSwitches ==
  ASSUME Inv, NEW names, manifest' = SwitchedTo(names),
         \A s \in ToSet(names) : s \in ToSet(searchers) \/ s[1] # 0 \/ s = LegacyName(NextGeneration)
  PROVE  Dated'
<1>1. /\ manifest'.exists /\ manifest'.segments = names /\ manifest'.generation = NextGeneration
      /\ manifest.generation \in Nat /\ NextGeneration = manifest.generation + 1
  BY DEF SwitchedTo, NextGeneration, Inv, Types, DiskTypes
<1>2. ToSet(searchers) \subseteq Names
  BY DEF Inv, Types, MemoryTypes, ToSet
<1>3. \A s \in ToSet(searchers) : s[1] = 0 => s[3] \in Nat /\ s[3] <= NextGeneration
  BY <1>1, <1>2 DEF Inv, Named, Bounded, Names
<1>4. LegacyName(NextGeneration)[3] = NextGeneration
  BY DEF LegacyName
<1> QED BY <1>1, <1>3, <1>4 DEF Dated, Installed

\* No step makes a load find a segment of the legacy format that is too young.
LEMMA DatedKeeps ==
  ASSUME Inv, Dated, Next
  PROVE  Dated'
<1>1. CASE \/ \E p \in Points : Upsert(p) \/ UpsertAndSeal(p) \/ Delete(p)
           \/ FlushOverlay \/ SealManifestFails \/ SealCheckpoint \/ SealDrop \/ SealRetireFails \/ SealFails
           \/ CompactStage \/ CompactStageNothing \/ CompactCommitFails \/ CompactUnchanged \/ CompactEmpty
           \/ LegacyTake \/ LegacyInstall \/ CompactAdvance \/ CompactRestoreFails \/ CompactOverlay
           \/ CompactCheckpoint \/ CompactCut \/ CompactRetireFails \/ Crash
  <2>1. UNCHANGED <<segs, manifest>>
    BY <1>1 DEF Upsert, UpsertAndSeal, Delete, FlushOverlay, SealManifestFails, SealCheckpoint, SealDrop,
                SealRetireFails, SealFails, CompactStage, CompactStageNothing, CompactCommitFails, CompactUnchanged,
                CompactEmpty, LegacyTake, LegacyInstall, CompactAdvance, CompactRestoreFails, CompactOverlay,
                CompactCheckpoint, CompactCut, CompactRetireFails, Crash, disk
  <2> QED BY <2>1, DatedStays
<1>2. CASE SealBuild \/ SealPublish \/ SealPublishFails \/ SealAbandon
  <2>1. manifest' = manifest
    BY <1>2 DEF SealBuild, SealPublish, SealPublishFails, SealAbandon
  <2>2. DOMAIN Persisted = DOMAIN segs
    BY DEF Persisted
  <2>3. CASE SealBuild
    BY <2>1, <2>3, DatedStays DEF SealBuild, Put
  <2>4. CASE SealPublish \/ SealPublishFails
    <3>1. segs' = [Persisted EXCEPT ![Sealed].tomb = Superseded]
      BY <2>4 DEF SealPublish, SealPublishFails
    <3>2. DOMAIN segs' = DOMAIN segs
      BY <2>2, <3>1
    <3> QED BY <2>1, <3>2, DatedStays
  <2>5. CASE SealAbandon
    BY <2>1, <2>5, DatedStays DEF SealAbandon, Restrict
  <2> QED BY <1>2, <2>3, <2>4, <2>5
<1>3. CASE SealManifest \/ SealInstallStuck
  <2>1. SealSwitch
    BY <1>3 DEF SealManifest, SealInstallStuck
  <2>2. manifest' = SwitchedTo(Append(searchers, Sealed))
    BY <2>1 DEF SealSwitch, SwitchedTo
  <2>3. searchers \in Seq(Names) /\ Sealed[1] = 1
    BY DEF Inv, Types, MemoryTypes, Sealed, SealName
  <2>4. \A s \in ToSet(Append(searchers, Sealed)) : s \in ToSet(searchers) \/ s = Sealed
    BY <2>3 DEF ToSet
  <2> QED BY <2>2, <2>3, <2>4, DatedSwitches
<1>4. CASE CompactBegin
  <2>1. up /\ manifest' = (IF manifest.exists THEN manifest ELSE [exists |-> TRUE, generation |-> 0, segments |-> searchers])
        /\ segs' = segs /\ sealing.owner = "none" /\ ~Locked /\ compact.pc = "idle"
    BY <1>4 DEF CompactBegin
  <2>2. CASE manifest.exists
    BY <2>1, <2>2, DatedStays
  <2>3. CASE ~manifest.exists
    <3>1. Loaded
      BY <2>1 DEF Loaded, Emptying
    <3>2. manifest.generation = 0 /\ ToSet(searchers) \subseteq DOMAIN segs
      BY <2>3, <3>1, LiveParts DEF Unlisted, NoManifest
    <3>3. manifest'.generation = 0 /\ manifest'.exists /\ manifest'.segments = searchers
      BY <2>1, <2>3
    <3> QED BY <2>3, <3>2, <3>3 DEF Dated, Installed
  <2> QED BY <2>2, <2>3
<1>5. CASE \/ CompactBuild \/ CompactBuildFails \/ MigrateBuild \/ MigrateBuildFails \/ LegacyWrite \/ LegacyClear
           \/ LegacyFails \/ CompactCommit \/ CompactPublishFails \/ CompactRemove
  <2>1. manifest' = manifest
    BY <1>5 DEF CompactBuild, CompactBuildFails, MigrateBuild, MigrateBuildFails, LegacyWrite, LegacyClear,
                LegacyFails, CompactCommit, CompactPublishFails, CompactRemove, CompactAbandoned
  <2>2. compact.pc # "idle"
    BY <1>5 DEF CompactBuild, CompactBuildFails, MigrateBuild, MigrateBuildFails, Migrates, LegacyWrite, LegacyClear,
                LegacyFails, CompactCommit, CompactPublishFails, Publishing, CompactRemove, AtCommit
  <2>3. manifest.exists
    BY <2>2 DEF Inv, Owners
  <2> QED BY <2>1, <2>3, DatedStays
<1>6. CASE EmptyManifest \/ EmptyManifestFails
  <2>1. compact.pc = "empty" /\ (manifest' = manifest \/ manifest' = SwitchedTo(<<>>))
    BY <1>6 DEF EmptyManifest, EmptyManifestFails
  <2>2. manifest.exists
    BY <2>1 DEF Inv, Owners
  <2>3. ToSet(<<>>) = {}
    BY DEF ToSet
  <2> QED BY <2>1, <2>2, <2>3, DatedStays, DatedSwitches
<1>7. CASE MigrateManifest \/ MigrateManifestFails
  <2>1. compact.pc = "migrate" /\ (manifest' = manifest \/ manifest' = SwitchedTo(<<compact.name>>))
    BY <1>7 DEF MigrateManifest, MigrateManifestFails
  <2>2. manifest.exists /\ compact.name[1] = 2
    BY <2>1 DEF Inv, Owners, Named
  <2>3. ToSet(<<compact.name>>) = {compact.name}
    BY DEF ToSet
  <2> QED BY <2>1, <2>2, <2>3, DatedStays, DatedSwitches
<1>8. CASE LegacyManifest \/ LegacyManifestFails
  <2>1. compact.pc = "rewrite" /\ (manifest' = manifest \/ manifest' = SwitchedTo(searchers))
    BY <1>8 DEF LegacyManifest, LegacyManifestFails
  <2>2. manifest.exists
    BY <2>1 DEF Inv, Owners
  <2> QED BY <2>1, <2>2, DatedStays, DatedSwitches
<1>9. CASE CompactManifest \/ CompactInstallStuck
  <2>1. CompactSwitch
    BY <1>9 DEF CompactManifest, CompactInstallStuck
  <2>2. compact.pc = "manifest" /\ manifest' = [exists |-> TRUE, generation |-> compact.name[3], segments |-> Merged]
    BY <2>1 DEF CompactSwitch
  <2>3. Merging
    BY <2>2 DEF Inv, Owners, Merging
  <2>4. compact.name[1] = 2 /\ compact.name[3] = NextGeneration
    BY <2>3 DEF Inv, Named, MergeName
  <2>5. manifest' = SwitchedTo(Merged)
    BY <2>2, <2>4 DEF SwitchedTo
  <2>6. \A s \in ToSet(Merged) : s \in ToSet(searchers) \/ s = compact.name
    <3>1. Loaded
      BY <2>2, CompactRuns DEF CompactLocks, Loaded, Emptying
    <3>2. /\ \A i, j \in DOMAIN searchers : searchers[i] = searchers[j] => i = j
          /\ up /\ compact.selected \subseteq DOMAIN searchers
      BY <2>3, <3>1, LiveParts DEF Shape, Inv, Staged, Loaded
    <3>3. searchers \in Seq(Names) /\ compact.name \in Names /\ compact.name \notin ToSet(searchers)
      BY <2>3 DEF Inv, Types, MemoryTypes, WorkTypes, Named, Fresh
    <3>4. Mergeable
      BY <3>2, <3>3 DEF Mergeable
    <3> QED BY <3>4, MergedNames DEF Kept, ToSet
  <2> QED BY <2>4, <2>5, <2>6, DatedSwitches
<1>10. CASE Load
  <2>1. manifest' = manifest /\ segs' = Restrict(segs, Installed)
    BY <1>10 DEF Load
  <2>2. DOMAIN segs' = Installed
    BY <2>1 DEF Restrict
  <2> QED BY <2>1, <2>2, DatedStays DEF Installed
<1> QED BY <1>1, <1>2, <1>3, <1>4, <1>5, <1>6, <1>7, <1>8, <1>9, <1>10 DEF Next, SealStep, CompactStep

-----------------------------------------------------------------------------
(***************************************************************************)
(* The theorems.                                                           *)
(***************************************************************************)
LEMMA SealStepKeeps ==
  ASSUME Inv, SealStep
  PROVE  Inv'
<1>1. CASE SealBuild
  BY <1>1, SealBuildKeeps
<1>2. CASE SealFails \/ SealPublish \/ SealPublishFails \/ SealManifestFails
  BY <1>2, SealStaysSteps, SealStaysKeeps
<1>3. CASE SealManifest \/ SealInstallStuck
  BY <1>3, SealManifestKeeps
<1>4. CASE SealCheckpoint \/ SealDrop \/ SealRetireFails
  BY <1>4, RetiresSteps, RetiresKeeps
<1>5. CASE SealAbandon
  BY <1>5, SealAbandonKeeps
<1> QED BY <1>1, <1>2, <1>3, <1>4, <1>5 DEF SealStep

LEMMA CompactStepKeeps ==
  ASSUME Calm, Inv, CompactStep
  PROVE  Inv'
<1>1. CASE CompactStage
  BY <1>1, CompactStageKeeps
<1>2. CASE CompactStageNothing \/ CompactRetireFails
  BY <1>2, IdlesSteps, IdlesKeeps
<1>3. CASE CompactBuild
  BY <1>3, CompactBuildKeeps
<1>4. CASE CompactBuildFails \/ CompactPublishFails
  BY <1>4, CompactAbandonedKeeps
<1>5. CASE CompactCommitFails \/ CompactRestoreFails
  BY <1>5, CompactReturnsKeeps
<1>6. CASE CompactUnchanged \/ CompactOverlay \/ CompactAdvance
  BY <1>6, AdvancesSteps, AdvancesKeeps
<1>7. CASE CompactEmpty
  BY <1>7, CompactEmptyKeeps
<1>8. CASE EmptyManifest
  BY <1>8, EmptyManifestKeeps
<1>9. CASE EmptyManifestFails
  BY <1>9, EmptyManifestFailsKeeps
<1>10. CASE MigrateBuild \/ MigrateBuildFails
  BY <1>10, MigrateBuildKeeps
<1>11. CASE MigrateManifest \/ LegacyManifest
  BY <1>11, RewroteKeeps
<1>12. CASE MigrateManifestFails
  BY <1>12, MigrateManifestFailsKeeps
<1>13. CASE LegacyTake
  BY <1>13, LegacyTakeKeeps
<1>14. CASE LegacyWrite \/ LegacyClear \/ LegacyFails
  BY <1>14, LegacyStepKeeps
<1>15. CASE LegacyInstall
  BY <1>15, LegacyInstallKeeps
<1>16. CASE LegacyManifestFails
  BY <1>16, LegacyManifestFailsKeeps
<1>17. CASE CompactCommit
  BY <1>17, CompactCommitKeeps
<1>18. CASE CompactManifest \/ CompactInstallStuck
  BY <1>18, CompactManifestKeeps
<1>19. CASE CompactCheckpoint \/ CompactCut
  BY <1>19, CutsSteps, CutsKeeps
<1>20. CASE CompactRemove
  BY <1>20, CompactRemoveKeeps
<1> QED BY <1>1, <1>2, <1>3, <1>4, <1>5, <1>6, <1>7, <1>8, <1>9, <1>10, <1>11, <1>12, <1>13, <1>14, <1>15, <1>16,
           <1>17, <1>18, <1>19, <1>20 DEF CompactStep

LEMMA NothingKeeps ==
  ASSUME Inv, UNCHANGED vars
  PROVE  Inv'
<1>1. UNCHANGED <<log, base, segs, manifest, published, checkpoint, up, streamer, sealing, searchers, id_index, overlay,
                  last_segment, building, seal, compact>>
  BY DEF vars, wal, disk, memory, content
<1>2. Types' /\ Owners'
  BY <1>1 DEF Inv, Types, DiskTypes, MemoryTypes, WorkTypes, Owners, SealActive, SealEnding, Merging, CompactLocks, Emptying
<1>3. /\ SealActive' <=> SealActive
      /\ SealEnding' <=> SealEnding
      /\ Merging' <=> Merging
      /\ Ending' <=> Ending
      /\ Sealed' = Sealed /\ Installed' = Installed /\ ReplayFrom' = ReplayFrom /\ CutTo' = CutTo
      /\ \A s : (Bounded(s)' <=> Bounded(s)) /\ (Fresh(s)' <=> Fresh(s))
  BY <1>1 DEF SealActive, SealEnding, Merging, Ending, Sealed, Installed, ReplayFrom, CutTo, Bounded, Fresh, NextGeneration
<1>4. Named'
  BY <1>1, <1>3 DEF Inv, Named, NextGeneration
<1>5. /\ \A p : LastRecord(p)' = LastRecord(p) /\ Latest(p)' = Latest(p)
      /\ \A i : RowsOf(i)' = RowsOf(i)
      /\ \A s, p : Row(s, p)' <=> Row(s, p)
      /\ \A i, p : Shown(i, p)' <=> Shown(i, p)
  BY <1>1, <1>3, NotLogged DEF RowsOf, Row, Shown
<1>6. Memory'
  BY <1>1, <1>5 DEF Inv, Memory, Shape, Content, Emptying
<1>7. \A n : After(n)' <=> After(n)
  BY <1>1, <1>5 DEF After, InMemory
<1>8. Retained'
  BY <1>1, <1>3, <1>7 DEF Inv, Retained, Emptying
<1>9. Superseded' = Superseded /\ SealOverlay' = SealOverlay /\ Moved' = Moved /\ MergedOverlay' = MergedOverlay
  BY <1>1, <1>3 DEF Superseded, SealOverlay, Moved, MergedOverlay, Kept, NextGeneration, Hide
<1>10. SealRows'
  BY <1>1, <1>3, <1>5, <1>9 DEF Inv, SealRows
<1>11. (Covered' <=> Covered) /\ (Guarded' <=> Guarded) /\ (Current' <=> Current)
  BY <1>1, <1>3, <1>5 DEF Covered, Guarded, Current
<1>12. Linked'
  <2>1. Behind' <=> Behind
    BY <1>1, <1>3, <1>5 DEF Behind
  <2> QED BY <1>1, <1>3, <1>5, <1>11, <2>1 DEF Inv, Linked, Unlisted, Switched, Finishing, Emptying
<1>13. Staged'
  BY <1>1, <1>3, <1>5, <1>9 DEF Inv, Staged
<1>14. OpenedPoints' = OpenedPoints /\ (Missing' <=> Missing) /\ (OverlayIgnored' <=> OverlayIgnored)
  BY <1>1, <1>3 DEF OpenedPoints, CurrentPoints, SidecarPoints, Missing, OverlayIgnored
<1>15. Loadable' <=> Loadable
  BY <1>1, <1>3, <1>5, <1>14 DEF Loadable, Found
<1>16. Misordered' <=> Misordered
  <2>1. LoadOrder' = LoadOrder
    BY <1>3 DEF LoadOrder, Before
  <2> QED BY <1>1, <1>14, <2>1 DEF Misordered
<1>17. Rewritten' /\ Down'
  <2>1. \A rows : Whole(rows)' <=> Whole(rows)
    BY <1>5 DEF Whole
  <2>2. Rewritten'
    BY <1>1, <1>5, <1>14, <1>15, <2>1 DEF Inv, Rewritten, Emptying, Whole
  <2>3. Down'
    BY <1>1, <1>3, <1>14, <1>15, <1>16 DEF Inv, Down
  <2> QED BY <2>2, <2>3
<1> QED BY <1>2, <1>4, <1>6, <1>8, <1>10, <1>12, <1>13, <1>17 DEF Inv

LEMMA NextKeeps ==
  ASSUME Calm, Inv, Dated, [Next]_vars
  PROVE  Inv' /\ Dated'
<1>1. ASSUME \E p \in Points : Upsert(p) \/ UpsertAndSeal(p) \/ Delete(p) PROVE Inv'
  <2>1. PICK p \in Points : Upsert(p) \/ UpsertAndSeal(p) \/ Delete(p)
    BY <1>1
  <2>2. CASE Upsert(p)
    BY <2>2, UpsertKeeps
  <2>3. CASE UpsertAndSeal(p)
    BY <2>3, UpsertAndSealKeeps
  <2>4. CASE Delete(p)
    BY <2>4, DeleteKeeps
  <2> QED BY <2>1, <2>2, <2>3, <2>4
<1>2. ASSUME FlushOverlay PROVE Inv'
  BY <1>2, FlushOverlayKeeps
<1>3. ASSUME SealStep PROVE Inv'
  BY <1>3, SealStepKeeps
<1>4. ASSUME CompactBegin PROVE Inv'
  BY <1>4, CompactBeginKeeps
<1>5. ASSUME CompactStep PROVE Inv'
  BY <1>5, CompactStepKeeps
<1>6. ASSUME Crash PROVE Inv'
  BY <1>6, CrashKeeps
<1>7. ASSUME Load PROVE Inv'
  BY <1>7, LoadKeeps
<1>8. ASSUME UNCHANGED vars PROVE Inv'
  BY <1>8, NothingKeeps
<1>9. Inv'
  BY <1>1, <1>2, <1>3, <1>4, <1>5, <1>6, <1>7, <1>8 DEF Next
<1>10. CASE Next
  BY <1>9, <1>10, DatedKeeps
<1>11. CASE UNCHANGED vars
  <2>1. UNCHANGED <<segs, manifest>>
    BY <1>11 DEF vars, disk
  <2> QED BY <1>9, <2>1, DatedStays
<1> QED BY <1>10, <1>11

\* The invariant is inductive.
LEMMA AlwaysInv == ASSUME Calm PROVE Spec => []Inv
<1>1. Init => Inv /\ Dated
  <2>1. Init => Installed = {}
    BY DEF Init, Installed, NoManifest
  <2> QED BY <2>1, InitInv DEF Dated
<1>2. Inv /\ Dated /\ [Next]_vars => Inv' /\ Dated'
  BY NextKeeps
<1> QED BY <1>1, <1>2, PTL DEF Spec

\* The state of a loaded collection has its type: what is frozen has an owner,
\* and every entry of the index names a place that exists, but for the rewrite
\* that takes the searchers away.
THEOREM SegmentTypeCorrect == ASSUME Calm PROVE Spec => []TypeOK
<1>1. Inv => TypeOK
  BY DEF Inv, Types, DiskTypes, MemoryTypes, TypeOK
<1> QED BY <1>1, AlwaysInv, PTL

\* A read by id finds the last upsert of every point and no deleted point, for
\* any number of points, mutations, seals, compactions, failures and crashes
\* that leave none of the three known deviations on disk, and but for the
\* collection that a failed legacy rewrite has emptied, until its restart.
THEOREM ReadsAreLatest == ASSUME Calm PROVE Spec => []ReadsLatest
<1>1. Inv => ReadsLatest
  <2> SUFFICES ASSUME Inv, Readable, compact.pc # "lost", NEW p \in Points
               PROVE  IF Latest(p) = 0 THEN p \notin DOMAIN id_index
                      ELSE p \in DOMAIN id_index /\ Resolve(p) = Latest(p)
    BY DEF ReadsLatest
  <2>0. up /\ ~Emptying /\ compact.pc \notin {"write", "clear", "install", "lost"}
    BY DEF Readable, Locked, Emptying
  <2>1. Content /\ Types
    BY <2>0, LiveParts DEF Inv, Loaded
  <2>2. p \in DOMAIN id_index <=> Latest(p) # 0
    BY <2>1 DEF Content
  <2>3. ASSUME p \in DOMAIN id_index PROVE Resolve(p) = Latest(p)
    <3>1. id_index[p] \in {Streamer, Sealing} \cup DOMAIN searchers /\ DOMAIN searchers \subseteq Nat \ {0}
      BY <2>0, <2>1, <2>3 DEF Types, MemoryTypes
    <3>2. Streamer # Sealing /\ Streamer \notin DOMAIN searchers /\ Sealing \notin DOMAIN searchers
      BY <3>1 DEF Streamer, Sealing
    <3>3. /\ id_index[p] = Streamer => streamer[p] = Latest(p)
          /\ id_index[p] = Sealing => sealing.rows[p] = Latest(p)
          /\ id_index[p] \in DOMAIN searchers => RowsOf(id_index[p])[p] = Latest(p)
      BY <2>1, <2>3 DEF Content
    <3> QED BY <3>1, <3>2, <3>3 DEF Resolve
  <2> QED BY <2>2, <2>3
<1> QED BY <1>1, AlwaysInv, PTL

\* A search meets the last version of a live point exactly once and nothing of
\* a deleted one, under the same conditions.
THEOREM PointsAreLiveOnce == ASSUME Calm PROVE Spec => []LiveInOneSegment
<1>1. Inv => LiveInOneSegment
  <2> SUFFICES ASSUME Inv, Readable, compact.pc # "lost", NEW p \in Points
               PROVE  IF Latest(p) = 0 THEN Searched(p) = {}
                      ELSE Cardinality(Searched(p)) = 1 /\ \A c \in Searched(p) : c[3] = Latest(p)
    BY DEF LiveInOneSegment
  <2>0. up /\ ~Emptying /\ compact.pc \notin {"write", "clear", "install", "lost"}
    BY DEF Readable, Locked, Emptying
  <2>1. Content /\ Types
    BY <2>0, LiveParts DEF Inv, Loaded
  <2>2. DOMAIN searchers \subseteq Nat \ {0}
    BY <2>1 DEF Types, MemoryTypes
  <2>3. Streamer # Sealing /\ Streamer \notin DOMAIN searchers /\ Sealing \notin DOMAIN searchers
    BY <2>2 DEF Streamer, Sealing
  <2>4. \A i : i \in Copies(p) <=> i \in DOMAIN searchers /\ p \in DOMAIN id_index /\ id_index[p] = i
    <3>1. \A i : i \in Copies(p) <=> i \in DOMAIN searchers /\ Shown(i, p)
      BY DEF Copies, Shown, HiddenAt
    <3> QED BY <2>1, <3>1 DEF Content
  <2>5. /\ p \in DOMAIN streamer <=> p \in DOMAIN id_index /\ id_index[p] = Streamer
        /\ p \in DOMAIN id_index /\ id_index[p] = Sealing => p \in DOMAIN sealing.rows
        /\ p \in DOMAIN id_index <=> Latest(p) # 0
    BY <2>1 DEF Content
  <2>6. /\ \A c : c \in {<<"streamer", 0, streamer[q]>> : q \in {p} \cap DOMAIN streamer}
                    <=> p \in DOMAIN streamer /\ c = <<"streamer", 0, streamer[p]>>
        /\ \A c : c \in {<<"sealing", 0, sealing.rows[q]>> :
                           q \in {r \in {p} \cap DOMAIN sealing.rows \cap DOMAIN id_index : id_index[r] = Sealing}}
                    <=> /\ p \in DOMAIN sealing.rows /\ p \in DOMAIN id_index /\ id_index[p] = Sealing
                        /\ c = <<"sealing", 0, sealing.rows[p]>>
        /\ \A c : c \in {<<"searcher", i, RowsOf(i)[p]>> : i \in Copies(p)}
                    <=> \E i \in Copies(p) : c = <<"searcher", i, RowsOf(i)[p]>>
    OBVIOUS
  <2>7. \A c : c \in Searched(p) <=>
                 \/ p \in DOMAIN streamer /\ c = <<"streamer", 0, streamer[p]>>
                 \/ /\ p \in DOMAIN sealing.rows /\ p \in DOMAIN id_index /\ id_index[p] = Sealing
                    /\ c = <<"sealing", 0, sealing.rows[p]>>
                 \/ \E i \in Copies(p) : c = <<"searcher", i, RowsOf(i)[p]>>
    BY <2>6, Zenon DEF Searched
  <2>8. CASE p \notin DOMAIN id_index
    <3>1. \A c : c \notin Searched(p)
      BY <2>4, <2>5, <2>7, <2>8
    <3> QED BY <2>5, <2>8, <3>1
  <2>9. CASE p \in DOMAIN id_index
    <3>1. /\ id_index[p] = Streamer => streamer[p] = Latest(p)
          /\ id_index[p] = Sealing => sealing.rows[p] = Latest(p)
          /\ id_index[p] \in DOMAIN searchers => RowsOf(id_index[p])[p] = Latest(p)
          /\ id_index[p] \in {Streamer, Sealing} \cup DOMAIN searchers
      BY <2>0, <2>1, <2>9 DEF Content, Types, MemoryTypes
    <3>2. \E c : c[3] = Latest(p) /\ \A d : d \in Searched(p) <=> d = c
      <4>1. CASE id_index[p] = Streamer
        <5> DEFINE c == <<"streamer", 0, streamer[p]>>
        <5>1. \A d : d \in Searched(p) <=> d = c
          BY <2>3, <2>4, <2>5, <2>7, <2>9, <4>1
        <5>2. c[3] = Latest(p)
          BY <3>1, <4>1
        <5> HIDE DEF c
        <5> QED BY <5>1, <5>2
      <4>2. CASE id_index[p] = Sealing
        <5> DEFINE c == <<"sealing", 0, sealing.rows[p]>>
        <5>1. \A d : d \in Searched(p) <=> d = c
          BY <2>3, <2>4, <2>5, <2>7, <2>9, <4>2
        <5>2. c[3] = Latest(p)
          BY <3>1, <4>2
        <5> HIDE DEF c
        <5> QED BY <5>1, <5>2
      <4>3. CASE id_index[p] \in DOMAIN searchers
        <5> DEFINE c == <<"searcher", id_index[p], RowsOf(id_index[p])[p]>>
        <5>1. \A d : d \in Searched(p) <=> d = c
          BY <2>3, <2>4, <2>5, <2>7, <2>9, <4>3
        <5>2. c[3] = Latest(p)
          BY <3>1, <4>3
        <5> HIDE DEF c
        <5> QED BY <5>1, <5>2
      <4> QED BY <3>1, <4>1, <4>2, <4>3
    <3>3. PICK c : c[3] = Latest(p) /\ \A d : d \in Searched(p) <=> d = c
      BY <3>2
    <3>4. Searched(p) = {c} /\ Cardinality({c}) = 1
      BY <3>3, FS_Singleton
    <3> QED BY <2>5, <2>9, <3>3, <3>4
  <2> QED BY <2>8, <2>9
<1> QED BY <1>1, AlwaysInv, PTL

\* The segments the manifest installs are on disk at every step, whatever has
\* failed, but for the steps of the legacy rewrite under the lock between the
\* removal of the old segments and the manifest.
THEOREM InstalledSegmentsAreThere == ASSUME Calm PROVE Spec => []InstalledIsThere
<1>1. Inv => InstalledIsThere
  <2>1. ASSUME Inv, up, ~Emptying PROVE Installed \subseteq DOMAIN segs
    BY <2>1, InstalledThere DEF Loaded
  <2>2. ASSUME Inv, ~up PROVE Installed \subseteq DOMAIN segs
    BY <2>2 DEF Inv, Down, Missing
  <2>3. ASSUME Inv, compact.pc \in {"write", "clear", "lost"} PROVE Installed \subseteq DOMAIN segs
    BY <2>3 DEF Inv, Rewritten, Missing
  <2> QED BY <2>1, <2>2, <2>3 DEF InstalledIsThere, Emptying
<1> QED BY <1>1, AlwaysInv, PTL
=============================================================================
