------------------------ MODULE TransactionProjection ------------------------
(***************************************************************************)
(* How a decided transaction reaches the stores it changes.  The journal   *)
(* decides (TransactionJournal models how); then the request projects the  *)
(* decision into the collection's WAL, the catalog or the relational WAL,  *)
(* publishes it in memory, and records in the journal that storage and     *)
(* audit log have it.  Any of these writes may fail: the decision stands,  *)
(* the database is marked degraded, and the next startup completes what is *)
(* missing.  One collection name is modelled (created, dropped and created *)
(* again) beside the relational store.                                     *)
(*                                                                         *)
(* A transaction is the position of its decision in the journal, which is  *)
(* its commit sequence.  A store's content is the sequence of transactions *)
(* applied to it.  A failed write either left nothing ("lost") or its full *)
(* effect ("kept").                                                        *)
(***************************************************************************)
EXTENDS Naturals, FiniteSets, SequencesExt

CONSTANTS
  Clients,       \* request threads
  Ops,           \* requests they make, of AllOps
  Protected,     \* the installation keeps a security revision in its catalog
  MaxDecisions,  \* bound on the journal
  MaxFaults,     \* bound on failed writes
  MaxCrashes     \* bound on crashes (and on failed attempts to start)

AllOps == {"create", "drop", "put", "sql", "multi"}

ASSUME ConstantsAssumption ==
  /\ Ops \subseteq AllOps
  /\ Protected \in BOOLEAN
  /\ MaxDecisions \in Nat /\ MaxFaults \in Nat /\ MaxCrashes \in Nat

VARIABLES
  journal,         \* durable decisions: <<[op, number]>>
  stored,          \* transactions with a durable Storage marker
  audited,         \* transactions with a durable Audit marker
  audit_log,       \* transactions with a record in the audit chain
  catalog,         \* the catalog file: [has, revision, mark]
  catalog_wal,     \* [base, records]
  dirs,            \* directories of the collection that exist, with their WAL
  relational_wal,  \* [base, records]
  checkpoint,      \* the relational checkpoint file: [rows, sequence, mark]
  phase,           \* of the process
  cursor,          \* decision startup is at
  collection,      \* in memory: [open, rows]
  state,           \* relational state in memory: [rows, sequence]
  degraded,        \* durability_degraded
  poisoned,        \* WAL handles that refuse to write
  job,             \* what each client is doing
  broken,          \* history: multi-model transactions whose projection failed
  faults, crashes

disk   == <<journal, stored, audited, audit_log, catalog, catalog_wal, dirs,
            relational_wal, checkpoint>>
memory == <<collection, state, degraded, poisoned, job>>
vars   == <<disk, memory, phase, cursor, broken, faults, crashes>>

Logs == {"journal", "catalog", "collection", "relational", "audit"}
Idle == [pc |-> "idle", op |-> "none", tx |-> 0, ok |-> TRUE]
Fresh == [open |-> FALSE, rows |-> <<>>]

\* Every variable has its type; markers, audit records and WAL records are those
\* of decided transactions.
TypeOK ==
  /\ \A k \in DOMAIN journal : journal[k] \in [op : AllOps, number : Nat]
  /\ stored \subseteq DOMAIN journal
  /\ audited \subseteq DOMAIN journal /\ audit_log \subseteq DOMAIN journal
  /\ catalog \in [has : BOOLEAN, revision : Nat, mark : Nat]
  /\ \A w \in {catalog_wal, relational_wal} :
        /\ w.base \in 0..Len(w.records)
        /\ \A i \in DOMAIN w.records : w.records[i] \in DOMAIN journal
  /\ DOMAIN dirs \subseteq {"live", "staging", "trash"}
  /\ phase \in {"down", "storage", "marking", "load", "catalog", "prefix",
                "audit", "up", "refused"}
  /\ cursor \in 0..(Len(journal) + 1)
  /\ collection.open \in BOOLEAN /\ degraded \in BOOLEAN
  /\ state.sequence \in Nat /\ checkpoint.sequence \in Nat
  /\ poisoned \subseteq Logs
  /\ \A c \in Clients :
        /\ job[c].op \in Ops \cup {"none"} /\ job[c].tx \in 0..Len(journal)
        /\ job[c].pc \in {"idle", "gate", "decide", "append", "append_collection",
                          "install", "checkpoint", "prefix", "trash", "mark",
                          "degrade", "audit", "audit_mark"}
  /\ broken \subseteq DOMAIN journal
  /\ faults \in 0..MaxFaults /\ crashes \in 0..MaxCrashes

Init ==
  /\ journal = <<>> /\ stored = {} /\ audited = {} /\ audit_log = {}
  /\ catalog = [has |-> FALSE, revision |-> 1, mark |-> 0]
  /\ catalog_wal = [base |-> 0, records |-> <<>>]
  /\ relational_wal = [base |-> 0, records |-> <<>>]
  /\ dirs = [d \in {} |-> <<>>]
  /\ checkpoint = [rows |-> <<>>, sequence |-> 0, mark |-> 0]
  /\ phase = "up" /\ cursor = 0
  /\ collection = Fresh
  /\ state = [rows |-> <<>>, sequence |-> 0]
  /\ degraded = FALSE /\ poisoned = {}
  /\ job = [c \in Clients |-> Idle]
  /\ broken = {} /\ faults = 0 /\ crashes = 0

-----------------------------------------------------------------------------
(* Write-ahead logs and directories *)

\* The records a scan of the WAL finds: what drop_prefix has left.
Retained(w) == {w.records[i] : i \in (w.base + 1)..Len(w.records)}
Appended(w, tx) == [w EXCEPT !.records = Append(@, tx)]

\* How a write may end.  A poisoned handle refuses it.
Failures == IF faults < MaxFaults THEN {"lost", "kept"} ELSE {}
Outcomes(log) == IF log \in poisoned THEN {"refused"} ELSE {"ok"} \cup Failures
FileOutcomes == {"ok"} \cup Failures
Happened(o) == o \in {"ok", "kept"}

\* A failed append or sync poisons the handle.
Wrote(log, o) ==
  /\ faults' = IF o \in {"lost", "kept"} THEN faults + 1 ELSE faults
  /\ poisoned' = IF o \in {"lost", "kept"} THEN poisoned \cup {log} ELSE poisoned
WroteFile(o) ==
  /\ faults' = IF o \in {"lost", "kept"} THEN faults + 1 ELSE faults
  /\ UNCHANGED poisoned

Without(d, gone) == [x \in DOMAIN d \ gone |-> d[x]]
\* durable_rename
Renamed(d, from, to) ==
  [x \in (DOMAIN d \ {from}) \cup {to} |-> IF x = to THEN d[from] ELSE d[x]]
\* A dropped collection goes to its trash directory, or to one with a fresh
\* name nothing looks at again when the trash directory is taken.
Trashed(d) == IF "live" \notin DOMAIN d THEN d
              ELSE IF "trash" \in DOMAIN d THEN Without(d, {"live"})
              ELSE Renamed(d, "live", "trash")

-----------------------------------------------------------------------------
(* Replay *)

\* replay_catalog_wal: the records behind the catalog's watermark.  Replay of a
\* plain record is idempotent; a protected one must continue the revision.
CatalogApply(r, tx) ==
  LET d == journal[tx]
      fits == r.revision + 1 = d.number /\ r.has = (d.op = "drop")
  IN IF ~r.ok \/ (Protected /\ ~fits) THEN [r EXCEPT !.ok = FALSE]
     ELSE [ok |-> TRUE, has |-> d.op = "create", dropped |-> d.op = "drop",
           revision |-> IF Protected THEN d.number ELSE r.revision]
replay_catalog_wal ==
  FoldLeft(CatalogApply,
           [ok |-> TRUE, has |-> catalog.has, dropped |-> FALSE,
            revision |-> catalog.revision],
           SubSeq(catalog_wal.records, catalog.mark + 1, Len(catalog_wal.records)))
CatalogReplayed == catalog.mark < Len(catalog_wal.records)

\* Mutant of RelationalApply: every record is applied.
RelationalApply_unchecked(r, tx) ==
  [ok |-> TRUE, rows |-> Append(r.rows, tx), sequence |-> journal[tx].number]

\* RelationalEngine::open: check_frontier skips a batch whose sequence the state
\* has reached and refuses one that leaves a gap.
RelationalApply(r, tx) ==
  LET n == journal[tx].number IN
  IF ~r.ok \/ n <= r.sequence THEN r
  ELSE IF n # r.sequence + 1 THEN [r EXCEPT !.ok = FALSE]
  ELSE [ok |-> TRUE, rows |-> Append(r.rows, tx), sequence |-> n]
replay_relational_wal ==
  FoldLeft(RelationalApply,
           [ok |-> TRUE, rows |-> checkpoint.rows, sequence |-> checkpoint.sequence],
           SubSeq(relational_wal.records, checkpoint.mark + 1,
                  Len(relational_wal.records)))

-----------------------------------------------------------------------------
(* A request, from admission to its answer *)

To(c, pc) == job' = [job EXCEPT ![c].pc = pc]
Finish(c) == job' = [job EXCEPT ![c] = Idle]
\* Mutant of Degrade: a failure is reported and forgotten.
Degrade_forgets(yes) == degraded' = degraded
Degrade(yes) == degraded' = (degraded \/ yes)

\* lifecycle_gate: create and drop hold it alone, every other request shares it.
\* A SQL request is admitted before it takes the gate.
HoldsGate(c) == job[c].pc \notin {"idle", "gate"}
Alone(op) == op \in {"create", "drop"}
GateOpen(op) == \A d \in Clients : HoldsGate(d) => ~Alone(op) /\ ~Alone(job[d].op)
\* Mutant of HoldsRelational: released before the candidate is published.
HoldsRelational_short(c) ==
  job[c].op \in {"sql", "multi"} /\ job[c].pc \in {"append", "append_collection"}
\* The collection's lock is held to the end of the request, the relational
\* state's lock until the state is published or the projection has failed.
HoldsCollection(c) ==
  job[c].op \in {"put", "multi"} /\ job[c].pc \notin {"idle", "decide"}
HoldsRelational(c) ==
  job[c].op \in {"sql", "multi"} /\ job[c].pc \in {"append", "append_collection", "mark"}

\* Admission: the gate, ensure_storage_mutations_available, the collection looked
\* up; a create refuses an unresolved directory and stages its own.
Begin(c, op) ==
  /\ phase = "up" /\ job[c] = Idle
  /\ Len(journal) + Cardinality({d \in Clients : job[d] # Idle}) < MaxDecisions
  /\ ~degraded
  /\ op # "sql" => GateOpen(op)
  /\ CASE op = "create" -> /\ ~collection.open
                           /\ DOMAIN dirs \cap {"live", "staging"} = {}
       [] op = "sql" -> TRUE
       [] OTHER -> collection.open
  /\ dirs' = IF op = "create"
             THEN [d \in DOMAIN dirs \cup {"staging"} |->
                     IF d = "staging" THEN <<>> ELSE dirs[d]]
             ELSE dirs
  /\ job' = [job EXCEPT ![c] = [Idle EXCEPT !.op = op,
                                  !.pc = IF op = "sql" THEN "gate" ELSE "decide"]]
  /\ UNCHANGED <<journal, stored, audited, audit_log, catalog, catalog_wal,
                 relational_wal, checkpoint, collection, state, degraded, poisoned,
                 phase, cursor, faults, broken, crashes>>

EnterGate(c) ==
  /\ job[c].pc = "gate" /\ GateOpen("sql")
  /\ To(c, "decide")
  /\ UNCHANGED <<disk, collection, state, degraded, poisoned, phase, cursor,
                 faults, broken, crashes>>

\* The number a decision carries: the next relational sequence, or the next
\* security revision of the catalog file.
Number(op) == IF op \in {"sql", "multi"} THEN state.sequence + 1
              ELSE IF Alone(op) /\ Protected THEN catalog.revision + 1
              ELSE 0

\* TransactionJournal::commit under the locks the request holds.  A request that
\* fails here is answered with an error; only a collection or a catalog request
\* then marks the database degraded.
Decide(c) ==
  LET op == job[c].op IN
  /\ job[c].pc = "decide"
  /\ op \in {"put", "multi"} => \A d \in Clients : ~HoldsCollection(d)
  /\ op \in {"sql", "multi"} => \A d \in Clients : ~HoldsRelational(d)
  /\ \E o \in Outcomes("journal") :
        /\ Wrote("journal", o)
        /\ journal' = IF Happened(o)
                      THEN Append(journal, [op |-> op, number |-> Number(op)])
                      ELSE journal
        /\ IF o = "ok"
           THEN job' = [job EXCEPT ![c].pc = "append", ![c].tx = Len(journal')]
           ELSE Finish(c)
        /\ Degrade(o # "ok" /\ op \notin {"sql", "multi"})
  /\ UNCHANGED <<stored, audited, audit_log, catalog, catalog_wal, dirs,
                 relational_wal, checkpoint, collection, state, phase, cursor,
                 broken, crashes>>

Installed(tx) == [rows |-> Append(state.rows, tx), sequence |-> journal[tx].number]
LiveAppended(o, tx) == IF Happened(o) THEN [dirs EXCEPT !["live"] = Append(@, tx)] ELSE dirs

\* commit_collection_transaction_claimed: when the append fails the mutation is
\* applied to memory all the same and the request succeeds.
AppendPut(c) ==
  /\ job[c].pc = "append" /\ job[c].op = "put"
  /\ \E o \in Outcomes("collection") :
        /\ Wrote("collection", o)
        /\ dirs' = LiveAppended(o, job[c].tx)
        /\ To(c, IF o = "ok" THEN "mark" ELSE "audit")
        /\ Degrade(o # "ok")
        /\ collection' = IF o = "ok" THEN collection
                         ELSE [collection EXCEPT !.rows = Append(@, job[c].tx)]
  /\ UNCHANGED <<journal, stored, audited, audit_log, catalog, catalog_wal,
                 relational_wal, checkpoint, state, phase, cursor, broken, crashes>>

\* commit_prepared_under_reference_gate installs its candidate whatever became of
\* the append; execute_multimodel_with_projection does not.
AppendRelational(c) ==
  /\ job[c].pc = "append" /\ job[c].op \in {"sql", "multi"}
  /\ \E o \in Outcomes("relational") :
        /\ Wrote("relational", o)
        /\ relational_wal' = IF Happened(o) THEN Appended(relational_wal, job[c].tx)
                             ELSE relational_wal
        /\ To(c, IF o # "ok" THEN "degrade"
                 ELSE IF job[c].op = "sql" THEN "mark" ELSE "append_collection")
        /\ broken' = IF o # "ok" /\ job[c].op = "multi" THEN broken \cup {job[c].tx}
                     ELSE broken
        /\ state' = IF o # "ok" /\ job[c].op = "sql" THEN Installed(job[c].tx)
                    ELSE state
  /\ UNCHANGED <<journal, stored, audited, audit_log, catalog, catalog_wal, dirs,
                 checkpoint, collection, degraded, phase, cursor, crashes>>

\* The collection half of a multi-model transaction: append, apply, and then the
\* relational candidate becomes visible.  A failure publishes neither half.
AppendCollection(c) ==
  /\ job[c].pc = "append_collection"
  /\ \E o \in Outcomes("collection") :
        /\ Wrote("collection", o)
        /\ dirs' = LiveAppended(o, job[c].tx)
        /\ To(c, IF o = "ok" THEN "mark" ELSE "degrade")
        /\ broken' = IF o = "ok" THEN broken ELSE broken \cup {job[c].tx}
        /\ IF o = "ok"
           THEN /\ collection' = [collection EXCEPT !.rows = Append(@, job[c].tx)]
                /\ state' = Installed(job[c].tx)
           ELSE UNCHANGED <<collection, state>>
  /\ UNCHANGED <<journal, stored, audited, audit_log, catalog, catalog_wal,
                 relational_wal, checkpoint, degraded, phase, cursor, crashes>>

\* commit_catalog_transaction
AppendCatalog(c) ==
  /\ job[c].pc = "append" /\ Alone(job[c].op)
  /\ \E o \in Outcomes("catalog") :
        /\ Wrote("catalog", o)
        /\ catalog_wal' = IF Happened(o) THEN Appended(catalog_wal, job[c].tx)
                          ELSE catalog_wal
        /\ job' = [job EXCEPT ![c].pc = "install", ![c].ok = (o = "ok")]
        /\ Degrade(o # "ok")
  /\ UNCHANGED <<journal, stored, audited, audit_log, catalog, dirs, relational_wal,
                 checkpoint, collection, state, phase, cursor, broken, crashes>>

\* The staged directory goes live and the collection into memory; when that
\* fails the request still succeeds and the collection appears at the restart.
InstallCreate(c) ==
  /\ job[c].pc = "install" /\ job[c].op = "create"
  /\ \E o \in FileOutcomes :
        /\ WroteFile(o)
        /\ dirs' = IF Happened(o) THEN Renamed(dirs, "staging", "live") ELSE dirs
        /\ collection' = IF o = "ok" THEN [Fresh EXCEPT !.open = TRUE] ELSE collection
        /\ To(c, IF o = "ok" THEN "checkpoint" ELSE "audit")
        /\ Degrade(o # "ok")
  /\ UNCHANGED <<journal, stored, audited, audit_log, catalog, catalog_wal,
                 relational_wal, checkpoint, state, phase, cursor, broken, crashes>>

\* The collection leaves memory and its directory goes to the trash.
InstallDrop(c) ==
  /\ job[c].pc = "install" /\ job[c].op = "drop"
  /\ \E o \in FileOutcomes :
        /\ WroteFile(o)
        /\ dirs' = IF Happened(o) THEN Trashed(dirs) ELSE dirs
        /\ collection' = Fresh
        /\ job' = [job EXCEPT ![c].pc = "checkpoint", ![c].ok = @ /\ o = "ok"]
        /\ Degrade(o # "ok")
  /\ UNCHANGED <<journal, stored, audited, audit_log, catalog, catalog_wal,
                 relational_wal, checkpoint, state, phase, cursor, broken, crashes>>

\* write_catalog: the collections in memory, the revision the WAL leads to, the
\* end of the WAL as watermark.
WrittenCatalog == [has |-> collection.open, revision |-> replay_catalog_wal.revision,
                   mark |-> Len(catalog_wal.records)]

\* checkpoint_catalog_after_commit; a protected create writes the catalog and
\* leaves the WAL alone.
CheckpointCatalog(c) ==
  LET next == IF job[c].op = "drop" THEN "trash" ELSE "mark" IN
  /\ job[c].pc = "checkpoint"
  /\ \E o \in IF replay_catalog_wal.ok THEN FileOutcomes ELSE {"refused"} :
        /\ WroteFile(o)
        /\ catalog' = IF Happened(o) THEN WrittenCatalog ELSE catalog
        /\ To(c, IF o = "ok" /\ ~(Protected /\ job[c].op = "create") THEN "prefix"
                 ELSE next)
        /\ Degrade(o # "ok")
  /\ UNCHANGED <<journal, stored, audited, audit_log, catalog_wal, dirs,
                 relational_wal, checkpoint, collection, state, phase, cursor,
                 broken, crashes>>

DropCatalogPrefix(c) ==
  /\ job[c].pc = "prefix"
  /\ \E o \in Outcomes("catalog") :
        /\ Wrote("catalog", o)
        /\ catalog_wal' = IF Happened(o) THEN [catalog_wal EXCEPT !.base = catalog.mark]
                          ELSE catalog_wal
        /\ To(c, IF job[c].op = "drop" THEN "trash" ELSE "mark")
        /\ Degrade(o # "ok")
  /\ UNCHANGED <<journal, stored, audited, audit_log, catalog, dirs, relational_wal,
                 checkpoint, collection, state, phase, cursor, broken, crashes>>

RemoveTrash(c) ==
  /\ job[c].pc = "trash"
  /\ \E o \in IF "trash" \in DOMAIN dirs THEN FileOutcomes ELSE {"ok"} :
        /\ WroteFile(o)
        /\ dirs' = IF Happened(o) THEN Without(dirs, {"trash"}) ELSE dirs
        /\ Degrade(o # "ok")
  /\ To(c, "mark")
  /\ UNCHANGED <<journal, stored, audited, audit_log, catalog, catalog_wal,
                 relational_wal, checkpoint, collection, state, phase, cursor,
                 broken, crashes>>

\* mark_projected(Storage), which a catalog request skips when a part of its
\* projection failed.  A put is now applied to memory; a SQL request publishes
\* its candidate whether the marker was written or not.
MarkStored(c) ==
  LET op == job[c].op IN
  /\ job[c].pc = "mark"
  /\ \E o \in IF job[c].ok THEN Outcomes("journal") ELSE {"refused"} :
        /\ Wrote("journal", o)
        /\ stored' = IF Happened(o) THEN stored \cup {job[c].tx} ELSE stored
        /\ To(c, IF o # "ok" /\ op \in {"sql", "multi"} THEN "degrade" ELSE "audit")
        /\ Degrade(o # "ok" /\ op \notin {"sql", "multi"})
  /\ collection' = IF op = "put"
                   THEN [collection EXCEPT !.rows = Append(@, job[c].tx)]
                   ELSE collection
  /\ state' = IF op = "sql" THEN Installed(job[c].tx) ELSE state
  /\ UNCHANGED <<journal, audited, audit_log, catalog, catalog_wal, dirs,
                 relational_wal, checkpoint, phase, cursor, broken, crashes>>

\* The failure of a relational projection is noticed once its lock is released.
NoticeFailure(c) ==
  /\ job[c].pc = "degrade"
  /\ To(c, "audit") /\ degraded' = TRUE
  /\ UNCHANGED <<disk, collection, state, poisoned, phase, cursor, faults, broken, crashes>>

\* project_transaction_audit: the record, then its marker.
ProjectAudit(c) ==
  /\ job[c].pc = "audit"
  /\ \E o \in Outcomes("audit") :
        /\ Wrote("audit", o)
        /\ audit_log' = IF Happened(o) THEN audit_log \cup {job[c].tx} ELSE audit_log
        /\ IF o = "ok" THEN To(c, "audit_mark") ELSE Finish(c)
        /\ Degrade(o # "ok")
  /\ UNCHANGED <<journal, stored, audited, catalog, catalog_wal, dirs, relational_wal,
                 checkpoint, collection, state, phase, cursor, broken, crashes>>

MarkAudited(c) ==
  /\ job[c].pc = "audit_mark"
  /\ \E o \in Outcomes("journal") :
        /\ Wrote("journal", o)
        /\ audited' = IF Happened(o) THEN audited \cup {job[c].tx} ELSE audited
        /\ Degrade(o # "ok")
  /\ Finish(c)
  /\ UNCHANGED <<journal, stored, audit_log, catalog, catalog_wal, dirs,
                 relational_wal, checkpoint, collection, state, phase, cursor,
                 broken, crashes>>

\* publish_checkpoint: an image of the state with the end of the WAL, taken under
\* the state's lock; the prefix it covers is dropped later, or not at all when the
\* state has moved on.
CheckpointRelational ==
  /\ phase = "up" /\ \A c \in Clients : ~HoldsRelational(c)
  /\ checkpoint.sequence < state.sequence
  /\ checkpoint' = [rows |-> state.rows, sequence |-> state.sequence,
                    mark |-> Len(relational_wal.records)]
  /\ UNCHANGED <<journal, stored, audited, audit_log, catalog, catalog_wal, dirs,
                 relational_wal, memory, phase, cursor, faults, broken, crashes>>
DropRelationalPrefix ==
  /\ phase = "up" /\ "relational" \notin poisoned
  /\ \E b \in (relational_wal.base + 1)..checkpoint.mark :
        relational_wal' = [relational_wal EXCEPT !.base = b]
  /\ UNCHANGED <<journal, stored, audited, audit_log, catalog, catalog_wal, dirs,
                 checkpoint, memory, phase, cursor, faults, broken, crashes>>

-----------------------------------------------------------------------------
(* Crash and startup.  A failed write of startup makes it return an error,   *)
(* which ends the attempt like a crash.                                      *)

\* The process dies, or shuts down with requests under way: everything in memory
\* is gone.
Crash ==
  /\ phase \notin {"down", "refused"} /\ crashes < MaxCrashes
  /\ phase' = "down" /\ crashes' = crashes + 1
  /\ collection' = Fresh /\ state' = [rows |-> <<>>, sequence |-> 0]
  /\ degraded' = FALSE /\ poisoned' = {} /\ cursor' = 0
  /\ job' = [c \in Clients |-> Idle]
  /\ UNCHANGED <<disk, broken, faults>>

Open ==
  /\ phase = "down"
  /\ phase' = "storage" /\ cursor' = 1
  /\ UNCHANGED <<disk, memory, faults, broken, crashes>>

CatalogDecisions == {k \in DOMAIN journal : Alone(journal[k].op)}
\* Mutant of retired: any drop of the name retires its transactions.
retired_by_name(k) == \E l \in CatalogDecisions : journal[l].op = "drop"
\* Incarnations::retired: the collection the decision was made for is gone.
retired(k) ==
  \E l \in CatalogDecisions :
     /\ \A m \in CatalogDecisions : m <= l
     /\ journal[l].op = "drop" \/ k < l

Recovering == phase = "storage" /\ cursor \in DOMAIN journal
Op == journal[cursor].op
Pending == Recovering /\ cursor \notin stored /\ ~(Op = "put" /\ retired(cursor))
NoLive == "live" \notin DOMAIN dirs

\* "committed transaction targets missing storage"
MissingStorage ==
  /\ NoLive
  /\ \/ Op = "put" /\ ~retired(cursor)
     \/ Op = "multi" /\ Pending /\ cursor \in Retained(relational_wal)

\* A decision for a retired collection is marked and nothing else; one whose
\* projection is marked is passed over; one without storage ends the startup.
RecoverPassed ==
  /\ Recovering /\ (MissingStorage \/ ~Pending)
  /\ IF MissingStorage
     THEN phase' = "refused" /\ UNCHANGED <<stored, cursor>>
     ELSE stored' = stored \cup {cursor} /\ cursor' = cursor + 1 /\ UNCHANGED phase
  /\ UNCHANGED <<journal, audited, audit_log, catalog, catalog_wal, dirs,
                 relational_wal, checkpoint, memory, faults, broken, crashes>>

\* Append the decision to a store whose WAL does not show it.
RecoverCatalogRecord ==
  /\ Pending /\ Alone(Op) /\ cursor \notin Retained(catalog_wal)
  /\ catalog_wal' = Appended(catalog_wal, cursor)
  /\ UNCHANGED <<journal, stored, audited, audit_log, catalog, dirs, relational_wal,
                 checkpoint, memory, phase, cursor, faults, broken, crashes>>
RecoverRelationalRecord ==
  /\ Pending /\ Op \in {"sql", "multi"} /\ cursor \notin Retained(relational_wal)
  /\ relational_wal' = Appended(relational_wal, cursor)
  /\ UNCHANGED <<journal, stored, audited, audit_log, catalog, catalog_wal, dirs,
                 checkpoint, memory, phase, cursor, faults, broken, crashes>>
RecoverCollectionRecord ==
  /\ Pending /\ Op \in {"put", "multi"} /\ ~NoLive
  /\ Op = "multi" => cursor \in Retained(relational_wal)
  /\ cursor \notin Range(dirs["live"])
  /\ dirs' = [dirs EXCEPT !["live"] = Append(@, cursor)]
  /\ UNCHANGED <<journal, stored, audited, audit_log, catalog, catalog_wal,
                 relational_wal, checkpoint, memory, phase, cursor, faults, broken, crashes>>

\* The directory of a catalog decision: a create's staging goes live; a drop's
\* directory goes to the trash unless something is there, and the trash away.
RenameDue == \/ Op = "create" /\ NoLive /\ "staging" \in DOMAIN dirs
             \/ Op = "drop" /\ ~NoLive /\ "trash" \notin DOMAIN dirs
RecoverRename ==
  /\ Pending /\ Alone(Op) /\ cursor \in Retained(catalog_wal)
  /\ RenameDue
  /\ dirs' = IF Op = "create" THEN Renamed(dirs, "staging", "live")
             ELSE Renamed(dirs, "live", "trash")
  /\ UNCHANGED <<journal, stored, audited, audit_log, catalog, catalog_wal,
                 relational_wal, checkpoint, memory, phase, cursor, faults, broken, crashes>>
RecoverInstalled ==
  /\ Pending /\ Alone(Op) /\ cursor \in Retained(catalog_wal)
  /\ ~RenameDue
  /\ dirs' = IF Op = "drop" THEN Without(dirs, {"trash"}) ELSE dirs
  /\ phase' = "marking"
  /\ UNCHANGED <<journal, stored, audited, audit_log, catalog, catalog_wal,
                 relational_wal, checkpoint, memory, cursor, faults, broken, crashes>>

RecoverMark ==
  /\ \/ phase = "marking"
     \/ /\ Pending /\ ~Alone(Op)
        /\ Op \in {"sql", "multi"} => cursor \in Retained(relational_wal)
        /\ Op \in {"put", "multi"} => ~NoLive /\ cursor \in Range(dirs["live"])
  /\ stored' = stored \cup {cursor}
  /\ cursor' = cursor + 1 /\ phase' = "storage"
  /\ UNCHANGED <<journal, audited, audit_log, catalog, catalog_wal, dirs,
                 relational_wal, checkpoint, memory, faults, broken, crashes>>

\* RelationalEngine::open
LoadRelational ==
  /\ phase = "storage" /\ cursor = Len(journal) + 1
  /\ LET r == replay_relational_wal IN
     IF r.ok
     THEN /\ phase' = "load"
          /\ state' = [rows |-> r.rows, sequence |-> r.sequence]
          /\ \E b \in relational_wal.base..checkpoint.mark :
                relational_wal' = [relational_wal EXCEPT !.base = b]
     ELSE phase' = "refused" /\ UNCHANGED <<state, relational_wal>>
  /\ UNCHANGED <<journal, stored, audited, audit_log, catalog, catalog_wal, dirs,
                 checkpoint, collection, degraded, poisoned, job, cursor, faults,
                 broken, crashes>>

\* reconcile_catalog_generations; a quarantined directory leaves the namespace.
reconciled(r) ==
  IF r.has
  THEN IF NoLive THEN Renamed(dirs, "staging", "live") ELSE Without(dirs, {"staging"})
  ELSE Without(IF r.dropped THEN Trashed(dirs) ELSE dirs, {"staging"})

\* load_db_root: catalog file and WAL, directories, collections.
LoadCatalog ==
  /\ phase = "load"
  /\ LET r == replay_catalog_wal IN
     IF r.ok /\ (r.has => DOMAIN dirs \cap {"live", "staging"} # {})
     THEN /\ dirs' = reconciled(r)
          /\ collection' = [open |-> r.has,
                            rows |-> IF r.has THEN dirs'["live"] ELSE <<>>]
          /\ phase' = IF CatalogReplayed THEN "catalog" ELSE "audit"
          /\ cursor' = 1
     ELSE phase' = "refused" /\ UNCHANGED <<dirs, collection, cursor>>
  /\ UNCHANGED <<journal, stored, audited, audit_log, catalog, catalog_wal,
                 relational_wal, checkpoint, state, degraded, poisoned, job, faults,
                 broken, crashes>>

\* Startup writes the catalog it replayed, then drops the WAL's prefix.
LoadedCatalogWrite ==
  /\ phase = "catalog"
  /\ catalog' = WrittenCatalog /\ phase' = "prefix"
  /\ UNCHANGED <<journal, stored, audited, audit_log, catalog_wal, dirs,
                 relational_wal, checkpoint, memory, cursor, faults, broken, crashes>>
LoadedCatalogPrefix ==
  /\ phase = "prefix"
  /\ catalog_wal' = [catalog_wal EXCEPT !.base = catalog.mark] /\ phase' = "audit"
  /\ UNCHANGED <<journal, stored, audited, audit_log, catalog, dirs, relational_wal,
                 checkpoint, memory, cursor, faults, broken, crashes>>

\* recover_transaction_audit_projections: each decision's record, once, and then
\* its marker.
RecoverAuditRecord ==
  /\ phase = "audit" /\ cursor \in DOMAIN journal \ audit_log
  /\ audit_log' = audit_log \cup {cursor}
  /\ UNCHANGED <<journal, stored, audited, catalog, catalog_wal, dirs,
                 relational_wal, checkpoint, memory, phase, cursor, faults, broken, crashes>>
\* Mutant of RecoverAuditMark: a decision that has its marker is not passed over.
RecoverAuditMark_fresh ==
  /\ phase = "audit" /\ cursor \in audit_log \ audited
  /\ audited' = audited \cup {cursor} /\ cursor' = cursor + 1
  /\ UNCHANGED <<journal, stored, audit_log, catalog, catalog_wal, dirs,
                 relational_wal, checkpoint, memory, phase, faults, broken, crashes>>
RecoverAuditMark ==
  /\ phase = "audit" /\ cursor \in audit_log
  /\ audited' = audited \cup {cursor} /\ cursor' = cursor + 1
  /\ UNCHANGED <<journal, stored, audit_log, catalog, catalog_wal, dirs,
                 relational_wal, checkpoint, memory, phase, faults, broken, crashes>>
\* Mutant of Serve: requests are admitted while the audit log is recovered.
Serve_early ==
  /\ phase = "audit"
  /\ phase' = "up" /\ cursor' = 0
  /\ UNCHANGED <<disk, memory, faults, broken, crashes>>
Serve ==
  /\ phase = "audit" /\ cursor = Len(journal) + 1
  /\ phase' = "up" /\ cursor' = 0
  /\ UNCHANGED <<disk, memory, faults, broken, crashes>>

-----------------------------------------------------------------------------
Startup ==
  \/ Open \/ RecoverPassed \/ RecoverCatalogRecord
  \/ RecoverRelationalRecord \/ RecoverCollectionRecord \/ RecoverRename
  \/ RecoverInstalled \/ RecoverMark \/ LoadRelational \/ LoadCatalog
  \/ LoadedCatalogWrite \/ LoadedCatalogPrefix \/ RecoverAuditRecord
  \/ RecoverAuditMark \/ Serve

Request(c) ==
  \/ \E op \in Ops : Begin(c, op)
  \/ EnterGate(c) \/ Decide(c)
  \/ AppendPut(c) \/ AppendRelational(c) \/ AppendCollection(c) \/ AppendCatalog(c)
  \/ InstallCreate(c) \/ InstallDrop(c) \/ CheckpointCatalog(c)
  \/ DropCatalogPrefix(c) \/ RemoveTrash(c) \/ MarkStored(c) \/ NoticeFailure(c)
  \/ ProjectAudit(c) \/ MarkAudited(c)

Next ==
  \/ Startup \/ Crash \/ CheckpointRelational \/ DropRelationalPrefix
  \/ \E c \in Clients : Request(c)

\* Startup runs on its own thread and does nothing else.
Spec == Init /\ [][Next]_vars /\ WF_vars(Startup)

-----------------------------------------------------------------------------
(* Properties *)

Decided(ops) == {k \in DOMAIN journal : journal[k].op \in ops}
Created == \E l \in CatalogDecisions :
              journal[l].op = "create" /\ \A m \in CatalogDecisions : m <= l

\* The transactions of the collection's last incarnation.
Due == {k \in Decided({"put", "multi"}) : Created /\ \A l \in CatalogDecisions : l < k}

\* The rows are the transactions of S, each once and in commit order.
Ascending(rows) == \A i, j \in DOMAIN rows : i < j => rows[i] < rows[j]
InCommitOrder(rows, S) == Range(rows) = S /\ Ascending(rows)

\* Startup gives the collection exactly the decided transactions of its last
\* incarnation, each once, whatever projection had failed and wherever the last
\* process stopped; a dropped collection stays dropped.  They are applied in
\* commit order unless a process failed to project a multi-model transaction and
\* went on.
CollectionRecovered ==
  phase \in {"catalog", "prefix", "audit"} =>
    /\ collection.open = Created
    /\ Range(collection.rows) = Due /\ IsInjective(collection.rows)
    /\ broken = {} => InCommitOrder(collection.rows, Due)

\* Startup gives the relational state every decided transaction once and in
\* commit order, unless a process failed to project a multi-model transaction and
\* went on; even then it applies none twice or out of order.
RelationalRecovered ==
  phase \in {"load", "catalog", "prefix", "audit"} =>
    /\ broken = {} => InCommitOrder(state.rows, Decided({"sql", "multi"}))
    /\ Ascending(state.rows)

\* A database that reports itself ready has projected, marked and audited every
\* decision that no request is still working on.
ReadyIsProjected ==
  phase = "up" /\ ~degraded /\ "journal" \notin poisoned =>
    \A k \in DOMAIN journal :
       \/ k \in stored \cap audited \cap audit_log
       \/ \E c \in Clients : job[c].tx = k

\* While requests run, memory shows every decision that has been published, in
\* commit order, and no other: a failed projection of a put or of a SQL request
\* hides nothing and reorders nothing.
Published(k) ==
  \A c \in Clients : job[c].tx = k =>
     /\ job[c].pc \notin {"append", "append_collection"}
     /\ job[c].pc = "mark" => job[c].op = "multi"
MemoryFollowsJournal ==
  phase = "up" /\ broken = {} /\ "journal" \notin poisoned =>
    /\ InCommitOrder(state.rows, {k \in Decided({"sql", "multi"}) : Published(k)})
    /\ collection.open /\ Created =>
          InCommitOrder(collection.rows, {k \in Due : Published(k)})

\* The audit chain holds a record of decided transactions only, and startup
\* completes it: once the database serves, every decision of earlier processes
\* is in it.
ServesAudited == [][phase # "up" /\ phase' = "up" =>
                      audit_log = DOMAIN journal /\ audited = DOMAIN journal]_vars

\* A stopped database comes back: no combination of failed projections and crashes
\* leaves a directory whose startup is refused or goes on for ever.
ComesBack == phase = "down" ~> phase = "up"

\* "recovery completes projections": no decided relational transaction is missing
\* from the state startup loads.
CommitsSurvive ==
  phase \in {"load", "catalog", "prefix", "audit"} =>
    \A k \in DOMAIN journal :
       journal[k].op \in {"sql", "multi"} => k \in Range(state.rows)

=============================================================================
