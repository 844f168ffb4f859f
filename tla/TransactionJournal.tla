------------------------- MODULE TransactionJournal -------------------------
(***************************************************************************)
(* The installation-wide decision journal of ChironDB                      *)
(* (chirondb-core/src/transaction_journal.rs and transaction_journal/).    *)
(*                                                                         *)
(* Every mutation that spans a storage WAL and the audit log is decided    *)
(* here: a PREPARE record carrying the mutation is synced, then a COMMIT   *)
(* record; a durable COMMIT is the commit authority.  Storage and audit    *)
(* are projections of it, acknowledged by two further records.             *)
(*                                                                         *)
(* All operations run under one mutex, so an operation is a sequence of    *)
(* steps (variable stage) that only a crash can cut short.  Two kinds of   *)
(* crash exist: "kill" ends the process and keeps every byte written,      *)
(* synced or not, in the page cache; "power" keeps the synced prefix of    *)
(* the log and any part of what follows it.                                *)
(***************************************************************************)
EXTENDS Naturals, Sequences, FiniteSets

CONSTANTS
  Txn,                \* transaction identities (UUIDs)
  Key,                \* scoped idempotency keys
  NoTxn,              \* no transaction holds the mutex
  NoKey,              \* a commit without an idempotency key
  Crashes,            \* crash kinds the environment may produce
  ClaimLimit,         \* bound on in-flight idempotency claims
  DecisionBatch,      \* completed decisions that trigger eviction (512)
  CheckpointMin,      \* sequence below which no cache is published (512)
  CheckpointInterval, \* sequences between two checkpoints (8192)
  MaxRevision         \* bound on visibility_revision in refused commits

ASSUME ConstantsAssumption ==
  /\ IsFiniteSet(Txn)
  /\ IsFiniteSet(Key)
  /\ NoTxn \notin Txn
  /\ NoKey \notin Key
  /\ Crashes \subseteq {"kill", "power"}
  /\ ClaimLimit \in Nat
  /\ DecisionBatch \in Nat \ {0}
  /\ CheckpointMin \in Nat
  /\ CheckpointInterval \in Nat \ {0}
  /\ MaxRevision \in Nat

VARIABLES
  \* durable: the journal WAL, its synced length, FORMAT, the two stores
  log, synced, format, cache, authority,
  \* the process and the operation that holds the journal mutex
  up, poisoned, stage, current,
  \* JournalState
  idempotency, prepares, commits, projections, unknown, decisions, completed,
  committed_count, next_sequence, max_committed_sequence, pending_storage,
  pending_audit, active_publications, visibility_revision,
  checkpointed_sequence,
  \* in-flight idempotency claims
  inflight_idempotency,
  \* history: what the caller of commit was told
  answer

disk == <<log, synced, format, cache, authority>>
process == <<up, poisoned, stage, current>>
maps == <<idempotency, prepares, commits, projections, unknown, decisions,
          completed>>
counters == <<committed_count, next_sequence, max_committed_sequence,
              pending_storage, pending_audit, active_publications,
              visibility_revision, checkpointed_sequence>>
vars == <<disk, process, maps, counters, inflight_idempotency, answer>>

Keys == Key \cup {NoKey}
Kinds == {"storage", "audit"}
Prepare == [txn : Txn, seq : Nat, key : Keys]
Decision == [txn : Txn, seq : Nat, key : Keys,
             state : {"Committed", "Rejected"}]
Record == [type : {"PREPARE", "COMMIT"} \cup Kinds, txn : Txn, seq : Nat,
           key : Keys]
Answers == {"none", "committed", "failed", "unknown"}

\* What a checkpoint holds; lsn counts the log records it covers.
NoCheckpoint ==
  [prefix |-> << >>, lsn |-> 0, next_sequence |-> 0,
   max_committed_sequence |-> 0, committed_count |-> 0, decisions |-> {}]

\* The operand of the operation that holds the mutex.
Operand == [txn : Txn \cup {NoTxn}, seq : Nat, key : Keys, kind : Kinds]
Idle == [txn |-> NoTxn, seq |-> 0, key |-> NoKey, kind |-> "storage"]

(***************************************************************************)
(* Lookups: hot maps first, then the disk decision index.                  *)
(***************************************************************************)
\* The greatest element of S, as a set.
Greatest(S) == {n \in S : \A m \in S : m <= n}
TxnsOf(S) == {r.txn : r \in S}
KeysOf(S) == {r.key : r \in S} \ {NoKey}

\* Mutant: only the hot map is asked.
consumed_key_hot_only(k) == k \in idempotency

consumed_key(k) == k \in idempotency \cup KeysOf(decisions)

hot_status(t) ==
  IF t \in commits THEN "Committed"
  ELSE IF t \in unknown THEN "OutcomeUnknown"
  ELSE IF t \in TxnsOf(prepares) THEN "Rejected"
  ELSE "Expired"

checked_status(t) ==
  IF t \in TxnsOf(prepares) \cup unknown \/ t \notin TxnsOf(decisions)
  THEN hot_status(t)
  ELSE IF \E d \in decisions : d.txn = t /\ d.state = "Committed"
       THEN "Committed" ELSE "Rejected"

projected(t, kind) ==
  \/ <<t, kind>> \in projections
  \/ /\ t \notin TxnsOf(prepares) \cup unknown
     /\ \E d \in decisions : d.txn = t /\ d.state = "Committed"

\* Mutant: publications of this process only; forgets those of the last one.
quiescent_this_process == active_publications = 0 /\ unknown = {}

quiescent ==
  /\ active_publications = 0
  /\ unknown = {}
  /\ pending_storage = 0

\* "None" unless every durable commit has its storage projection.
stable_visibility_frontier ==
  IF quiescent THEN <<next_sequence, visibility_revision>> ELSE <<>>

\* The backup position: "None" unless both projections of all are complete.
completed_commit_frontier ==
  IF quiescent /\ pending_audit = 0 THEN <<max_committed_sequence>> ELSE <<>>

(***************************************************************************)
(* Replay.  Suffix(b) are the records after checkpoint b.  accepts(b, i)   *)
(* is the condition under which apply_record takes record i instead of     *)
(* reporting corruption.                                                   *)
(***************************************************************************)
Suffix(b) == (b.lsn + 1) .. Len(log)
Before(b, i) == {j \in Suffix(b) : j < i}

apply_record_accepts(b, i) ==
  LET r == log[i]
      seen(type) == {j \in Before(b, i) : log[j].type = type}
  IN CASE r.type = "PREPARE" ->
            /\ r.txn \notin TxnsOf(b.decisions)
            /\ r.seq > b.next_sequence
            /\ r.key # NoKey => format > 1 /\ r.key \notin KeysOf(b.decisions)
            /\ \A j \in seen("PREPARE") :
                 /\ log[j].txn # r.txn
                 /\ log[j].seq < r.seq
                 /\ r.key # NoKey => log[j].key # r.key
       [] r.type = "COMMIT" ->
            /\ \E j \in seen("PREPARE") :
                 log[j].txn = r.txn /\ log[j].seq = r.seq
            /\ \A j \in seen("COMMIT") : log[j].txn # r.txn
       [] OTHER ->
            /\ \E j \in seen("COMMIT") : log[j].txn = r.txn
            /\ \A j \in seen(r.type) : log[j].txn # r.txn

replay_accepts(b) == \A i \in Suffix(b) : apply_record_accepts(b, i)

Replayed(b, type) == {log[i] : i \in {j \in Suffix(b) : log[j].type = type}}
ReplayedTxns(b, type) == TxnsOf(Replayed(b, type))
ReplayedPrepares(b) ==
  {[txn |-> r.txn, seq |-> r.seq, key |-> r.key] : r \in Replayed(b, "PREPARE")}
\* A PREPARE without COMMIT at the end of the log is rejected; a committed
\* transaction stays hot until both its projections are in the log.
ReplayedOpen(b) ==
  {t \in ReplayedTxns(b, "COMMIT") :
     ~(\A kind \in Kinds : t \in ReplayedTxns(b, kind))}

\* Mutant: the sequence of the checkpoint, records after it ignored.
ReplayedSequence_of_checkpoint(b) == {b.next_sequence}

ReplayedSequence(b) ==
  Greatest({b.next_sequence} \cup {p.seq : p \in ReplayedPrepares(b)})
ReplayedMaxCommitted(b) ==
  Greatest({b.max_committed_sequence}
             \cup {r.seq : r \in Replayed(b, "COMMIT")})

\* The decision on p, where committed are the committed transactions.
decide(p, committed) ==
  [txn |-> p.txn, seq |-> p.seq, key |-> p.key,
   state |-> IF p.txn \in committed THEN "Committed" ELSE "Rejected"]

finish_recovery(b) ==
  b.decisions \cup
  {decide(p, ReplayedTxns(b, "COMMIT")) :
     p \in {q \in ReplayedPrepares(b) : q.txn \notin ReplayedOpen(b)}}


(***************************************************************************)
(* Eviction of completed decisions to the disk index, and checkpoints.     *)
(***************************************************************************)
flush_decisions(ids) ==
  LET gone == {p \in prepares : p.txn \in ids}
  IN /\ decisions' = decisions \cup {decide(p, commits) : p \in gone}
     /\ completed' = completed \ ids
     /\ commits' = commits \ ids
     /\ projections' = {x \in projections : x[1] \notin ids}

\* Whether sequence n is worth a checkpoint after one at sequence last.  An
\* authority is also replaced when a retained receipt has expired.
worth_publishing(n, last, expired) ==
  IF format = 3 THEN n # last \/ expired ELSE n # last /\ n >= CheckpointMin

\* publish() does nothing while a decision or a projection is outstanding.
publishable(expired) ==
  /\ quiescent
  /\ pending_audit = 0
  /\ worth_publishing(next_sequence, checkpointed_sequence, expired)

\* Format 3 replaces the authority, which recovery trusts.
publish_at(cp) == authority' = [cp EXCEPT !.prefix = << >>] /\ UNCHANGED cache

\* Older formats replace a cache bound to the bytes of the log prefix.
publish_cache(cp) == cache' = cp /\ UNCHANGED authority

\* publish() with everything flushed.
store_checkpoint(cp) == IF format = 3 THEN publish_at(cp) ELSE publish_cache(cp)
-----------------------------------------------------------------------------
Init ==
  /\ log = << >> /\ synced = 0 /\ format = 1
  /\ cache = NoCheckpoint /\ authority = NoCheckpoint
  /\ up = TRUE /\ poisoned = FALSE /\ stage = "idle" /\ current = Idle
  /\ idempotency = {} /\ prepares = {} /\ commits = {} /\ projections = {}
  /\ unknown = {} /\ decisions = {} /\ completed = {}
  /\ committed_count = 0 /\ next_sequence = 0 /\ max_committed_sequence = 0
  /\ pending_storage = 0 /\ pending_audit = 0
  /\ active_publications = 0 /\ visibility_revision = 0
  /\ checkpointed_sequence = 0
  /\ inflight_idempotency = {}
  /\ answer = [t \in Txn |-> "none"]

Unlocked == up /\ stage = "idle"

(***************************************************************************)
(* Idempotency claims.                                                     *)
(***************************************************************************)
begin_idempotent(k) ==
  /\ Unlocked
  /\ k \notin inflight_idempotency
  /\ ~consumed_key(k)
  /\ Cardinality(inflight_idempotency) < ClaimLimit
  /\ inflight_idempotency' = inflight_idempotency \cup {k}
  /\ UNCHANGED <<disk, process, maps, counters, answer>>

drop_guard(k) ==
  /\ Unlocked
  /\ k \in inflight_idempotency
  /\ inflight_idempotency' = inflight_idempotency \ {k}
  /\ UNCHANGED <<disk, process, maps, counters, answer>>

(***************************************************************************)
(* commit_inner.  Admission, eviction and checkpoint maintenance come      *)
(* first, then the key is consumed and the sequence reserved, and only     *)
(* then is PREPARE written; written says whether the write succeeded.      *)
(* A caller never presents an identity it has had an answer for.           *)
(***************************************************************************)
commit_inner_begin(t, k, written) ==
  LET due == next_sequence - checkpointed_sequence >= CheckpointInterval
      publish == due /\ publishable(FALSE)
      ids == IF publish \/ Cardinality(completed) >= DecisionBatch
             THEN completed ELSE {}
      hot == {p \in prepares : p.txn \notin ids}
      p == [txn |-> t, seq |-> next_sequence + 1, key |-> k]
  IN /\ Unlocked
     /\ ~poisoned
     /\ answer[t] = "none"
     /\ t \notin TxnsOf(prepares) \cup TxnsOf(decisions)
     /\ k # NoKey => k \in inflight_idempotency /\ ~consumed_key(k)
     /\ publish /\ format = 3 => hot = {}
     /\ flush_decisions(ids)
     /\ IF publish /\ hot = {}
        THEN /\ store_checkpoint(
                  [prefix |-> log, lsn |-> Len(log),
                   next_sequence |-> next_sequence,
                   max_committed_sequence |-> max_committed_sequence,
                   committed_count |-> committed_count,
                   decisions |-> decisions'])
             /\ checkpointed_sequence' = next_sequence
        ELSE UNCHANGED <<cache, authority, checkpointed_sequence>>
     /\ format' = IF k # NoKey /\ format = 1 THEN 2 ELSE format
     /\ idempotency' = (idempotency \ KeysOf(prepares \ hot)) \cup ({k} \ {NoKey})
     /\ prepares' = hot \cup {p}
     /\ next_sequence' = next_sequence + 1
     /\ IF written
        THEN /\ log' = Append(log, [type |-> "PREPARE", txn |-> t,
                                    seq |-> p.seq, key |-> k])
             /\ stage' = "prepare"
             /\ current' = [txn |-> t, seq |-> p.seq, key |-> k,
                            kind |-> "storage"]
             /\ active_publications' = active_publications + 1
             /\ visibility_revision' = visibility_revision + 1
             /\ UNCHANGED <<poisoned, answer>>
        ELSE /\ poisoned' = TRUE
             /\ visibility_revision' = visibility_revision + 2
             /\ answer' = [answer EXCEPT ![t] = "failed"]
             /\ UNCHANGED <<log, stage, current, active_publications>>
     /\ UNCHANGED <<synced, up, unknown, committed_count,
                    max_committed_sequence, pending_storage, pending_audit,
                    inflight_idempotency>>

\* A claim commits at most once: register() refuses a key already consumed.
commit_inner_refused(t, k) ==
  /\ Unlocked
  /\ ~poisoned
  /\ k \in inflight_idempotency
  /\ consumed_key(k)
  /\ visibility_revision + 2 <= MaxRevision
  /\ visibility_revision' = visibility_revision + 2
  /\ UNCHANGED <<disk, process, maps, committed_count, next_sequence,
                 max_committed_sequence, pending_storage, pending_audit,
                 active_publications, checkpointed_sequence,
                 inflight_idempotency, answer>>

\* Mutant: a plain decrement.
release_publication_unsaturated ==
  active_publications' = active_publications - 1

\* saturating_sub: a publication that recovery completes was never counted.
release_publication ==
  active_publications' =
    IF active_publications = 0 THEN 0 ELSE active_publications - 1

\* The common failure exit of commit_inner.
commit_fails(told) ==
  /\ poisoned' = TRUE
  /\ stage' = "idle"
  /\ current' = Idle
  /\ release_publication
  /\ visibility_revision' = visibility_revision + 1
  /\ answer' = [answer EXCEPT ![current.txn] = told]
  /\ UNCHANGED <<up, format, cache, authority, idempotency, prepares, commits,
                 projections, decisions, completed, committed_count,
                 next_sequence, max_committed_sequence, pending_storage,
                 pending_audit, checkpointed_sequence, inflight_idempotency>>

\* Mutant: the log is not flushed.
fsync_skipped == UNCHANGED synced

fsync == synced' = Len(log)

sync_prepare ==
  /\ up /\ stage = "prepare"
  /\ fsync
  /\ stage' = "prepared"
  /\ UNCHANGED <<log, format, cache, authority, up, poisoned, current, maps,
                 counters, inflight_idempotency, answer>>

sync_prepare_fails ==
  /\ up /\ stage = "prepare"
  /\ commit_fails("failed")
  /\ UNCHANGED <<log, synced, unknown>>

write_commit ==
  /\ up /\ stage = "prepared"
  /\ log' = Append(log, [type |-> "COMMIT", txn |-> current.txn,
                         seq |-> current.seq, key |-> NoKey])
  /\ stage' = "commit"
  /\ UNCHANGED <<synced, format, cache, authority, up, poisoned, current, maps,
                 counters, inflight_idempotency, answer>>

write_commit_fails ==
  /\ up /\ stage = "prepared"
  /\ unknown' = unknown \cup {current.txn}
  /\ commit_fails("unknown")
  /\ UNCHANGED <<log, synced>>

sync_commit ==
  /\ up /\ stage = "commit"
  /\ fsync
  /\ stage' = "idle"
  /\ current' = Idle
  /\ commits' = commits \cup {current.txn}
  /\ unknown' = unknown \ {current.txn}
  /\ committed_count' = committed_count + 1
  /\ max_committed_sequence' = current.seq
  /\ pending_storage' = pending_storage + 1
  /\ pending_audit' = pending_audit + 1
  /\ answer' = [answer EXCEPT ![current.txn] = "committed"]
  /\ UNCHANGED <<log, format, cache, authority, up, poisoned, idempotency,
                 prepares, projections, decisions, completed, next_sequence,
                 active_publications, visibility_revision,
                 checkpointed_sequence, inflight_idempotency>>

\* Mutant: a failed decision sync is reported as a rejection.
sync_commit_fails_rejected ==
  /\ up /\ stage = "commit"
  /\ commit_fails("failed")
  /\ UNCHANGED <<log, synced, unknown>>

sync_commit_fails ==
  /\ up /\ stage = "commit"
  /\ unknown' = unknown \cup {current.txn}
  /\ commit_fails("unknown")
  /\ UNCHANGED <<log, synced>>

(***************************************************************************)
(* mark_projected.                                                         *)
(***************************************************************************)
mark_projected_write(t, kind, written) ==
  /\ Unlocked
  /\ ~poisoned
  /\ ~projected(t, kind)
  /\ t \in commits
  /\ (IF kind = "storage" THEN pending_storage ELSE pending_audit) > 0
  /\ IF written
     THEN /\ log' = Append(log, [type |-> kind, txn |-> t, seq |-> 0,
                                 key |-> NoKey])
          /\ stage' = "mark"
          /\ current' = [txn |-> t, seq |-> 0, key |-> NoKey, kind |-> kind]
          /\ UNCHANGED poisoned
     ELSE poisoned' = TRUE /\ UNCHANGED <<log, stage, current>>
  /\ UNCHANGED <<synced, format, cache, authority, up, maps, counters,
                 inflight_idempotency, answer>>

\* Mutant: complete after the first projection.
terminal_after_one(t, done) == \E kind \in Kinds : <<t, kind>> \in done

\* Both projections are done, so the decision may leave the hot maps.
terminal(t, done) == \A kind \in Kinds : <<t, kind>> \in done

mark_projected_sync ==
  LET t == current.txn
      kind == current.kind
  IN /\ up /\ stage = "mark"
     /\ fsync
     /\ stage' = "idle"
     /\ current' = Idle
     /\ projections' = projections \cup {<<t, kind>>}
     /\ completed' = IF terminal(t, projections') /\ t \in TxnsOf(prepares)
                     THEN completed \cup {t} ELSE completed
     /\ IF kind = "storage"
        THEN /\ pending_storage' = pending_storage - 1
             /\ release_publication
             /\ visibility_revision' = visibility_revision + 1
             /\ UNCHANGED pending_audit
        ELSE /\ pending_audit' = pending_audit - 1
             /\ UNCHANGED <<pending_storage, active_publications,
                            visibility_revision>>
     /\ UNCHANGED <<log, format, cache, authority, up, poisoned, idempotency,
                    prepares, commits, unknown, decisions, committed_count,
                    next_sequence, max_committed_sequence,
                    checkpointed_sequence, inflight_idempotency, answer>>

mark_projected_sync_fails ==
  /\ up /\ stage = "mark"
  /\ poisoned' = TRUE
  /\ stage' = "idle"
  /\ current' = Idle
  /\ UNCHANGED <<disk, up, maps, counters, inflight_idempotency, answer>>

(***************************************************************************)
(* checkpoint_completed_frontier: an explicit checkpoint request.  The     *)
(* eviction happens even when a rejected PREPARE then stops the            *)
(* publication (silently, or with an error in format 3).                   *)
(***************************************************************************)
checkpoint_completed_frontier(expired) ==
  LET hot == {p \in prepares : p.txn \notin completed}
  IN /\ Unlocked
     /\ publishable(expired)
     /\ flush_decisions(completed)
     /\ prepares' = hot
     /\ idempotency' = idempotency \ KeysOf(prepares \ hot)
     /\ IF hot = {}
        THEN /\ store_checkpoint(
                  [prefix |-> log, lsn |-> Len(log),
                   next_sequence |-> next_sequence,
                   max_committed_sequence |-> max_committed_sequence,
                   committed_count |-> committed_count,
                   decisions |-> decisions'])
             /\ checkpointed_sequence' = next_sequence
        ELSE UNCHANGED <<cache, authority, checkpointed_sequence>>
     /\ UNCHANGED <<log, synced, format, process, unknown, committed_count,
                    next_sequence, max_committed_sequence, pending_storage,
                    pending_audit, active_publications, visibility_revision,
                    inflight_idempotency, answer>>

(***************************************************************************)
(* Crash and open.  A kill leaves the written log in the page cache: the   *)
(* log keeps its records and its synced length does not change.  A power   *)
(* loss keeps the synced prefix and any part of the rest, and what is left *)
(* is durable.                                                             *)
(***************************************************************************)
forget ==
  /\ up' = FALSE /\ poisoned' = FALSE /\ stage' = "idle" /\ current' = Idle
  /\ idempotency' = {} /\ prepares' = {} /\ commits' = {} /\ projections' = {}
  /\ unknown' = {} /\ decisions' = {} /\ completed' = {}
  /\ committed_count' = 0 /\ next_sequence' = 0 /\ max_committed_sequence' = 0
  /\ pending_storage' = 0 /\ pending_audit' = 0
  /\ active_publications' = 0 /\ visibility_revision' = 0
  /\ checkpointed_sequence' = 0
  /\ inflight_idempotency' = {}
  /\ UNCHANGED <<format, cache, authority, answer>>

kill == "kill" \in Crashes /\ up /\ forget /\ UNCHANGED <<log, synced>>

power_loss ==
  /\ "power" \in Crashes
  /\ \E n \in synced .. Len(log) : log' = SubSeq(log, 1, n) /\ synced' = n
  /\ forget

\* Mutant: the cache is bound to the length of the log only.
cache_matches_length == cache.lsn <= Len(log)

\* The checkpoint that recovery starts from.  A cache is used only while the
\* log still begins with the bytes it was built from.
cache_matches ==
  cache.lsn <= Len(log) /\ SubSeq(log, 1, cache.lsn) = cache.prefix

recovery_base ==
  IF format = 3 THEN authority
  ELSE IF cache_matches THEN cache ELSE NoCheckpoint

\* The conditions under which open() does not report corruption.
open_succeeds ==
  /\ format = 3 => authority.lsn <= Len(log)
  /\ replay_accepts(recovery_base)

\* JournalState rebuilt from checkpoint b and the records after it.
install(b) ==
  LET open == ReplayedOpen(b)
      committed == ReplayedTxns(b, "COMMIT")
      hot == {p \in ReplayedPrepares(b) : p.txn \in open}
      pending(kind) == Cardinality(open \ ReplayedTxns(b, kind))
  IN /\ prepares' = hot
     /\ idempotency' = KeysOf(hot)
     /\ commits' = open
     /\ projections' = {x \in open \X Kinds : x[1] \in ReplayedTxns(b, x[2])}
     /\ unknown' = {}
     /\ decisions' = finish_recovery(b)
     /\ completed' = {}
     /\ committed_count' = b.committed_count + Cardinality(committed)
     /\ next_sequence' \in ReplayedSequence(b)
     /\ max_committed_sequence' \in ReplayedMaxCommitted(b)
     /\ pending_storage' = pending("storage")
     /\ pending_audit' = pending("audit")
     /\ active_publications' = 0
     /\ visibility_revision' = 0

open_inner(expired) ==
  LET b == recovery_base
      publish == /\ ReplayedOpen(b) = {}
                 /\ worth_publishing(next_sequence', b.next_sequence, expired)
  IN /\ ~up
     /\ open_succeeds
     /\ install(b)
     /\ IF publish
        THEN /\ store_checkpoint(
                  [prefix |-> log, lsn |-> Len(log),
                   next_sequence |-> next_sequence',
                   max_committed_sequence |-> max_committed_sequence',
                   committed_count |-> committed_count',
                   decisions |-> decisions'])
             /\ checkpointed_sequence' = next_sequence'
        ELSE /\ checkpointed_sequence' = b.next_sequence
             /\ UNCHANGED <<cache, authority>>
     /\ up' = TRUE
     /\ UNCHANGED <<log, synced, format, poisoned, stage, current,
                    inflight_idempotency, answer>>

(***************************************************************************)
(* Offline migration to format 3: the authority is rebuilt from the whole  *)
(* log and published before the FORMAT marker names it.                    *)
(***************************************************************************)
migrate_publish ==
  LET b == NoCheckpoint
  IN /\ Unlocked
     /\ ~poisoned
     /\ format < 3
     /\ inflight_idempotency = {}
     /\ quiescent /\ pending_audit = 0
     /\ replay_accepts(b)
     /\ ReplayedOpen(b) = {}
     /\ fsync
     /\ \E n \in ReplayedSequence(b), m \in ReplayedMaxCommitted(b) :
          authority' = [prefix |-> << >>, lsn |-> Len(log),
                       next_sequence |-> n, max_committed_sequence |-> m,
                       committed_count |-> Cardinality(ReplayedTxns(b, "COMMIT")),
                       decisions |-> finish_recovery(b)]
     /\ stage' = "migrate"
     /\ UNCHANGED <<log, format, cache, up, poisoned, current, maps, counters,
                    inflight_idempotency, answer>>

migrate_activate ==
  /\ up /\ stage = "migrate"
  /\ format' = 3
  /\ install(NoCheckpoint)
  /\ checkpointed_sequence' = next_sequence'
  /\ stage' = "idle"
  /\ UNCHANGED <<log, synced, cache, authority, up, poisoned, current,
                 inflight_idempotency, answer>>
-----------------------------------------------------------------------------
Next ==
  \/ \E k \in Key : begin_idempotent(k) \/ drop_guard(k)
  \/ \E t \in Txn, k \in Keys, written \in BOOLEAN :
       commit_inner_begin(t, k, written)
  \/ \E t \in Txn, k \in Key : commit_inner_refused(t, k)
  \/ sync_prepare \/ sync_prepare_fails
  \/ write_commit \/ write_commit_fails
  \/ sync_commit \/ sync_commit_fails
  \/ \E t \in Txn, kind \in Kinds, written \in BOOLEAN :
       mark_projected_write(t, kind, written)
  \/ mark_projected_sync \/ mark_projected_sync_fails
  \/ \E expired \in BOOLEAN :
       checkpoint_completed_frontier(expired) \/ open_inner(expired)
  \/ kill \/ power_loss
  \/ migrate_publish \/ migrate_activate

Spec == Init /\ [][Next]_vars
-----------------------------------------------------------------------------
Checkpoint == [prefix : Seq(Record), lsn : Nat, next_sequence : Nat,
               max_committed_sequence : Nat, committed_count : Nat,
               decisions : SUBSET Decision]

DiskType ==
  /\ log \in Seq(Record)
  /\ synced \in Nat /\ synced <= Len(log)
  /\ format \in 1 .. 3
  /\ cache \in Checkpoint
  /\ authority \in Checkpoint

ProcessType ==
  /\ up \in BOOLEAN
  /\ poisoned \in BOOLEAN
  /\ stage \in {"idle", "prepare", "prepared", "commit", "mark", "migrate"}
  /\ current \in Operand

MapsType ==
  /\ idempotency \subseteq Key
  /\ prepares \subseteq Prepare
  /\ commits \subseteq Txn
  /\ projections \subseteq Txn \X Kinds
  /\ unknown \subseteq Txn
  /\ decisions \subseteq Decision
  /\ completed \subseteq Txn

CountersType ==
  /\ committed_count \in Nat /\ next_sequence \in Nat
  /\ max_committed_sequence \in Nat
  /\ pending_storage \in Nat /\ pending_audit \in Nat
  /\ active_publications \in Nat /\ visibility_revision \in Nat
  /\ checkpointed_sequence \in Nat

\* Every variable of JournalState and of its files has the type of its field:
\* no counter of mark_projected or of a failed commit goes below zero.
TypeOK ==
  /\ DiskType
  /\ ProcessType
  /\ MapsType
  /\ CountersType
  /\ inflight_idempotency \subseteq Key
  /\ answer \in [Txn -> Answers]

Logged(type) == {log[i].txn : i \in {j \in 1 .. Len(log) : log[j].type = type}}
Durable(type) == {log[i].txn : i \in {j \in 1 .. synced : log[j].type = type}}

\* What a caller of commit was told stays true.  "committed": the COMMIT is
\* in the synced prefix, and every later lookup, hot or evicted, live or after
\* any number of restarts, says Committed.  "failed": no COMMIT record exists
\* and no lookup says Committed.
AnswersHold ==
  \A t \in Txn :
    /\ answer[t] = "committed" =>
         /\ t \in Durable("COMMIT")
         /\ Unlocked => checked_status(t) = "Committed"
    /\ answer[t] = "failed" =>
         /\ t \notin Logged("COMMIT")
         /\ Unlocked => checked_status(t) # "Committed"

\* After a crash at any step, open() rebuilds the journal: no record sequence
\* the code leaves behind is reported as corruption.
Reopenable == ~up => open_succeeds

\* Opening from a checkpoint and the records after it gives the state that
\* replaying the whole log gives.
CheckpointTransparent ==
  LET b == recovery_base
      z == NoCheckpoint
  IN open_succeeds =>
       /\ finish_recovery(b) = finish_recovery(z)
       /\ ReplayedOpen(b) = ReplayedOpen(z)
       /\ ReplayedSequence(b) = ReplayedSequence(z)
       /\ ReplayedMaxCommitted(b) = ReplayedMaxCommitted(z)
       /\ b.committed_count + Cardinality(ReplayedTxns(b, "COMMIT"))
            = Cardinality(ReplayedTxns(z, "COMMIT"))

\* An idempotency key is prepared at most once, and the journal still knows
\* it as consumed after eviction, checkpoints, migration and restarts.
KeysConsumedOnce ==
  LET keyed == {i \in 1 .. Len(log) :
                  log[i].type = "PREPARE" /\ log[i].key # NoKey}
  IN /\ \A i, j \in keyed : log[i].key = log[j].key => i = j
     /\ Unlocked => \A i \in keyed : consumed_key(log[i].key)

\* A visibility frontier is handed out only when every COMMIT that reached
\* the log is projected to storage; a backup frontier only when audit is
\* projected too, and then it is the greatest committed sequence.
FrontiersAreSettled ==
  Unlocked =>
    /\ stable_visibility_frontier # << >> =>
         Logged("COMMIT") \subseteq Logged("storage")
    /\ completed_commit_frontier # << >> =>
         /\ Logged("COMMIT") \subseteq Logged("storage") \cap Logged("audit")
         /\ {max_committed_sequence} = ReplayedMaxCommitted(NoCheckpoint)

\* for_each_decision meets none of the corruptions it tests for: the hot and
\* the evicted committed decisions have distinct sequences up to
\* max_committed_sequence and are as many as committed_count.  Eviction finds
\* every completed decision terminal.
ScanFindsNoCorruption ==
  Unlocked =>
    LET cold == {d \in decisions : d.state = "Committed"}
        hot == {p \in prepares : p.txn \in commits}
        seqs == {r.seq : r \in cold} \cup {r.seq : r \in hot}
    IN /\ commits \subseteq TxnsOf(prepares)
       /\ Cardinality(seqs) = committed_count
       /\ Cardinality(cold) + Cardinality(hot) = committed_count
       /\ \A n \in seqs : 0 < n /\ n <= max_committed_sequence
       /\ completed \subseteq commits \ unknown
       /\ completed \X Kinds \subseteq projections

\* The journal implements CommitAuthority: a decision is a COMMIT record in
\* the synced prefix of the log.
Authority == INSTANCE CommitAuthority WITH decided <- Durable("COMMIT")
ImplementsCommitAuthority == Authority!Spec
=============================================================================
