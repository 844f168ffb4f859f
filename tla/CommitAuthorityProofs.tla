------------------------ MODULE CommitAuthorityProofs ------------------------
(***************************************************************************)
(* TransactionJournal implements CommitAuthority, for every set of         *)
(* transactions and keys, every mix of crashes and every limit.            *)
(*                                                                         *)
(* The heart of the argument is LogKnown: a live journal knows every       *)
(* transaction with a record in its log, hot or evicted.  Admission        *)
(* refuses a known identity, so no transaction enters the log twice, and   *)
(* one that was answered "failed" gets no COMMIT record.  LogKnown         *)
(* survives a restart because a checkpoint names every transaction of the  *)
(* part of the log it covers (CacheCovers, AuthorityCovers) and replay     *)
(* adds every transaction of the rest.                                     *)
(*                                                                         *)
(* The types of the journal come first: no pending counter underflows.     *)
(***************************************************************************)
EXTENDS TransactionJournal, FiniteSetTheorems, TLAPS

\* A projection record is written only while its counter is positive, so the
\* decrement that follows its sync does not underflow.
MarkCounted ==
  stage = "mark" =>
    /\ current.kind = "storage" => pending_storage > 0
    /\ current.kind = "audit" => pending_audit > 0
    /\ current.txn \in Txn

\* An operation in progress belongs to a live process, and a commit between
\* its first write and its decision has an identity.
StageOwned ==
  /\ up \/ stage = "idle"
  /\ stage \in {"prepare", "prepared", "commit"} => current.txn \in Txn

TypeInv == TypeOK /\ MarkCounted /\ StageOwned

LEMMA GreatestType == \A S : Greatest(S) \subseteq S
  BY DEF Greatest

LEMMA DecideType ==
  ASSUME NEW p \in Prepare, NEW S
  PROVE  decide(p, S) \in Decision
  BY DEF decide, Decision, Prepare

\* The records that replay collects have the types of the log.
LEMMA ReplayTypes ==
  ASSUME TypeOK, NEW b \in Checkpoint
  PROVE  /\ \A type : Replayed(b, type) \subseteq Record
         /\ \A type : ReplayedTxns(b, type) \subseteq Txn
         /\ ReplayedPrepares(b) \subseteq Prepare
         /\ ReplayedOpen(b) \subseteq Txn
         /\ finish_recovery(b) \subseteq Decision
         /\ ReplayedSequence(b) \subseteq Nat
         /\ ReplayedMaxCommitted(b) \subseteq Nat
<1>1. \A i \in Suffix(b) : log[i] \in Record
  BY SMTT(30) DEF Suffix, TypeOK, DiskType, Checkpoint
<1>2. \A type : Replayed(b, type) \subseteq Record
  BY <1>1 DEF Replayed
<1>3. \A type : ReplayedTxns(b, type) \subseteq Txn
  BY <1>2 DEF ReplayedTxns, TxnsOf, Record
<1>4. ReplayedPrepares(b) \subseteq Prepare
  BY <1>2 DEF ReplayedPrepares, Prepare, Record
<1>5. ReplayedOpen(b) \subseteq Txn
  BY <1>3 DEF ReplayedOpen
<1>6. finish_recovery(b) \subseteq Decision
  <2>1. b.decisions \subseteq Decision
    BY DEF Checkpoint
  <2>2. \A p \in ReplayedPrepares(b) :
          decide(p, ReplayedTxns(b, "COMMIT")) \in Decision
    BY <1>4, DecideType
  <2> QED BY <2>1, <2>2 DEF finish_recovery
<1>7. ReplayedSequence(b) \subseteq Nat
  BY <1>4, GreatestType DEF ReplayedSequence, Prepare, Checkpoint
<1>8. ReplayedMaxCommitted(b) \subseteq Nat
  BY <1>2, GreatestType DEF ReplayedMaxCommitted, Record, Checkpoint
<1> QED BY <1>2, <1>3, <1>4, <1>5, <1>6, <1>7, <1>8

LEMMA NoCheckpointType == NoCheckpoint \in Checkpoint
  BY DEF NoCheckpoint, Checkpoint

LEMMA IdleType == Idle \in Operand
  BY DEF Idle, Operand, Keys, Kinds

LEMMA TypeInit == Init => TypeInv
<1> SUFFICES ASSUME Init PROVE TypeInv
  OBVIOUS
<1>1. DiskType
  BY NoCheckpointType DEF Init, DiskType
<1>2. ProcessType
  BY IdleType DEF Init, ProcessType
<1>3. MapsType /\ CountersType
  BY DEF Init, MapsType, CountersType
<1>4. inflight_idempotency \subseteq Key /\ answer \in [Txn -> Answers]
  BY DEF Init, Answers
<1>5. MarkCounted /\ StageOwned
  BY DEF Init, MarkCounted, StageOwned
<1> QED BY <1>1, <1>2, <1>3, <1>4, <1>5 DEF TypeInv, TypeOK

LEMMA FlushType ==
  ASSUME MapsType, NEW ids, flush_decisions(ids)
  PROVE  /\ decisions' \subseteq Decision /\ completed' \subseteq Txn
         /\ commits' \subseteq Txn /\ projections' \subseteq Txn \X Kinds
<1>1. \A p \in prepares : decide(p, commits) \in Decision
  BY DecideType DEF MapsType
<1> QED BY <1>1 DEF MapsType, flush_decisions

LEMMA StoreType ==
  ASSUME DiskType, NEW cp \in Checkpoint, store_checkpoint(cp)
  PROVE  cache' \in Checkpoint /\ authority' \in Checkpoint
<1>1. [cp EXCEPT !.prefix = << >>] \in Checkpoint
  <2>1. << >> \in Seq(Record)
    OBVIOUS
  <2> HIDE DEF Record
  <2> QED BY <2>1, Zenon DEF Checkpoint
<1> QED BY <1>1 DEF DiskType, store_checkpoint, publish_at, publish_cache

LEMMA AppendType ==
  ASSUME DiskType, NEW r \in Record
  PROVE  /\ Append(log, r) \in Seq(Record)
         /\ Len(Append(log, r)) = Len(log) + 1
         /\ synced <= Len(log) + 1
  BY DEF DiskType

LEMMA KeysOfType == \A S : (\A r \in S : r.key \in Keys) => KeysOf(S) \subseteq Key
  BY DEF KeysOf, Keys

LEMMA FrontierType ==
  ASSUME TypeOK, NEW ds \in SUBSET Decision
  PROVE  [prefix |-> log, lsn |-> Len(log),
          next_sequence |-> next_sequence,
          max_committed_sequence |-> max_committed_sequence,
          committed_count |-> committed_count,
          decisions |-> ds] \in Checkpoint
<1>1. log \in Seq(Record) /\ Len(log) \in Nat
  BY DEF TypeOK, DiskType
<1> QED BY <1>1 DEF TypeOK, CountersType, Checkpoint

LEMMA InstallType ==
  ASSUME TypeOK, NEW b \in Checkpoint, install(b)
  PROVE  /\ MapsType'
         /\ committed_count' \in Nat /\ next_sequence' \in Nat
         /\ max_committed_sequence' \in Nat
         /\ pending_storage' \in Nat /\ pending_audit' \in Nat
         /\ active_publications' \in Nat /\ visibility_revision' \in Nat
<1>1. /\ \A type : ReplayedTxns(b, type) \subseteq Txn
      /\ ReplayedPrepares(b) \subseteq Prepare
      /\ ReplayedOpen(b) \subseteq Txn
      /\ finish_recovery(b) \subseteq Decision
      /\ ReplayedSequence(b) \subseteq Nat
      /\ ReplayedMaxCommitted(b) \subseteq Nat
  BY ReplayTypes
<1>2. \A S \in SUBSET Txn : Cardinality(S) \in Nat
  BY ConstantsAssumption, FS_Subset, FS_CardinalityType
<1>3. idempotency' \subseteq Key
  <2> DEFINE hot == {p \in ReplayedPrepares(b) : p.txn \in ReplayedOpen(b)}
  <2>1. \A r \in hot : r.key \in Keys
    BY <1>1 DEF Prepare
  <2>2. KeysOf(hot) \subseteq Key
    BY <2>1, KeysOfType
  <2> QED BY <2>2 DEF install
<1>4. MapsType'
  BY <1>1, <1>3 DEF install, MapsType
<1>5. committed_count' \in Nat
  <2>1. b.committed_count \in Nat
    BY DEF Checkpoint
  <2>2. Cardinality(ReplayedTxns(b, "COMMIT")) \in Nat
    BY <1>1, <1>2
  <2> QED BY <2>1, <2>2 DEF install
<1>6. pending_storage' \in Nat /\ pending_audit' \in Nat
  BY <1>1, <1>2 DEF install
<1> QED BY <1>1, <1>4, <1>5, <1>6 DEF install

(***************************************************************************)
(* Type correctness, one lemma per group of actions.                       *)
(***************************************************************************)
LEMMA ClaimsType ==
  ASSUME TypeInv, NEW k \in Key, begin_idempotent(k) \/ drop_guard(k)
  PROVE  TypeInv'
<1>1. inflight_idempotency' \subseteq Key
  BY DEF TypeInv, TypeOK, begin_idempotent, drop_guard
<1>2. UNCHANGED <<disk, process, maps, counters, answer>>
  BY DEF begin_idempotent, drop_guard
<1> QED BY <1>1, <1>2
  DEF TypeInv, TypeOK, DiskType, ProcessType, MapsType, CountersType,
      MarkCounted, StageOwned, disk, process, maps, counters

LEMMA CommitBeginType ==
  ASSUME TypeInv, NEW t \in Txn, NEW k \in Keys, NEW written \in BOOLEAN,
         commit_inner_begin(t, k, written)
  PROVE  TypeInv'
<1> DEFINE publish == /\ next_sequence - checkpointed_sequence
                           >= CheckpointInterval
                      /\ publishable(FALSE)
           ids == IF publish \/ Cardinality(completed) >= DecisionBatch
                  THEN completed ELSE {}
           hot == {p \in prepares : p.txn \notin ids}
           new == [txn |-> t, seq |-> next_sequence + 1, key |-> k]
           cp == [prefix |-> log, lsn |-> Len(log),
                  next_sequence |-> next_sequence,
                  max_committed_sequence |-> max_committed_sequence,
                  committed_count |-> committed_count,
                  decisions |-> decisions']
<1>1. /\ flush_decisions(ids)
      /\ IF publish /\ hot = {}
         THEN store_checkpoint(cp) /\ checkpointed_sequence' = next_sequence
         ELSE UNCHANGED <<cache, authority, checkpointed_sequence>>
      /\ format' = IF k # NoKey /\ format = 1 THEN 2 ELSE format
      /\ idempotency' = (idempotency \ KeysOf(prepares \ hot)) \cup ({k} \ {NoKey})
      /\ prepares' = hot \cup {new}
      /\ next_sequence' = next_sequence + 1
      /\ UNCHANGED <<synced, up, unknown, committed_count,
                     max_committed_sequence, pending_storage, pending_audit,
                     inflight_idempotency>>
  BY DEF commit_inner_begin
<1>2. \/ /\ log' = Append(log, [type |-> "PREPARE", txn |-> t,
                                seq |-> next_sequence + 1, key |-> k])
         /\ stage' = "prepare"
         /\ current' = [txn |-> t, seq |-> next_sequence + 1, key |-> k,
                        kind |-> "storage"]
         /\ active_publications' = active_publications + 1
         /\ visibility_revision' = visibility_revision + 1
         /\ UNCHANGED <<poisoned, answer>>
      \/ /\ poisoned' = TRUE
         /\ visibility_revision' = visibility_revision + 2
         /\ answer' = [answer EXCEPT ![t] = "failed"]
         /\ UNCHANGED <<log, stage, current, active_publications>>
  BY DEF commit_inner_begin
<1>3. stage = "idle"
  BY DEF commit_inner_begin, Unlocked
<1> HIDE DEF publish, ids
<1>4. new \in Prepare
  BY DEF TypeInv, TypeOK, CountersType, Prepare
<1>5. MapsType'
  BY <1>1, <1>4, FlushType DEF TypeInv, TypeOK, MapsType, Keys
<1>6. CountersType'
  BY <1>1, <1>2 DEF TypeInv, TypeOK, CountersType
<1>7. cache' \in Checkpoint /\ authority' \in Checkpoint
  <2>1. cp \in Checkpoint
    BY <1>5, FrontierType DEF TypeInv, MapsType
  <2> QED BY <1>1, <2>1, StoreType DEF TypeInv, TypeOK, DiskType
<1>8. /\ log' \in Seq(Record)
      /\ synced' \in Nat /\ synced' <= Len(log')
  <2> DEFINE r == [type |-> "PREPARE", txn |-> t, seq |-> next_sequence + 1,
                   key |-> k]
  <2>1. r \in Record
    BY DEF TypeInv, TypeOK, CountersType, Record
  <2>2. CASE log' = Append(log, r)
    <3>1. synced' = synced
      BY <1>1
    <3> HIDE DEF r
    <3> QED BY <3>1, <2>1, <2>2, AppendType DEF TypeInv, TypeOK, DiskType
  <2>3. CASE log' = log
    BY <1>1, <2>3 DEF TypeInv, TypeOK, DiskType
  <2> QED BY <1>2, <2>2, <2>3
<1>9. DiskType'
  BY <1>1, <1>7, <1>8 DEF TypeInv, TypeOK, DiskType
<1>10. ProcessType'
  <2>1. [txn |-> t, seq |-> next_sequence + 1, key |-> k, kind |-> "storage"]
          \in Operand
    BY DEF TypeInv, TypeOK, CountersType, Operand, Kinds
  <2> QED BY <1>1, <1>2, <2>1 DEF TypeInv, TypeOK, ProcessType
<1>11. inflight_idempotency' \subseteq Key /\ answer' \in [Txn -> Answers]
  BY <1>1, <1>2 DEF TypeInv, TypeOK, Answers
<1>12. MarkCounted' /\ StageOwned'
  <2>1. up' = TRUE
    BY <1>1 DEF commit_inner_begin, Unlocked
  <2> QED BY <1>2, <1>3, <2>1 DEF MarkCounted, StageOwned
<1> QED BY <1>5, <1>6, <1>9, <1>10, <1>11, <1>12 DEF TypeInv, TypeOK

LEMMA CommitRefusedType ==
  ASSUME TypeInv, NEW t \in Txn, NEW k \in Key, commit_inner_refused(t, k)
  PROVE  TypeInv'
<1> USE DEF commit_inner_refused
<1> QED BY
  DEF TypeInv, TypeOK, DiskType, ProcessType, MapsType, CountersType,
      MarkCounted, StageOwned, disk, process, maps

LEMMA CommitFailsType ==
  ASSUME TypeInv, NEW told \in Answers, commit_fails(told),
         stage \in {"prepare", "prepared", "commit"},
         UNCHANGED <<log, synced>>,
         unknown' = unknown \/ unknown' = unknown \cup {current.txn}
  PROVE  TypeInv'
<1>1. current.txn \in Txn
  BY DEF TypeInv, StageOwned
<1>2. DiskType'
  BY DEF TypeInv, TypeOK, DiskType, commit_fails
<1>3. ProcessType'
  BY IdleType DEF TypeInv, TypeOK, ProcessType, commit_fails
<1>4. MapsType'
  BY <1>1 DEF TypeInv, TypeOK, MapsType, commit_fails
<1>5. CountersType'
  BY DEF TypeInv, TypeOK, CountersType, commit_fails, release_publication
<1>6. inflight_idempotency' \subseteq Key /\ answer' \in [Txn -> Answers]
  BY <1>1 DEF TypeInv, TypeOK, commit_fails
<1>7. MarkCounted' /\ StageOwned'
  BY DEF MarkCounted, StageOwned, commit_fails
<1> QED BY <1>2, <1>3, <1>4, <1>5, <1>6, <1>7 DEF TypeInv, TypeOK

LEMMA CommitStepsType ==
  ASSUME TypeInv,
         \/ sync_prepare \/ sync_prepare_fails
         \/ write_commit \/ write_commit_fails
         \/ sync_commit \/ sync_commit_fails
  PROVE  TypeInv'
<1>1. CASE sync_prepare
  <2>1. DiskType'
    BY <1>1 DEF TypeInv, TypeOK, DiskType, sync_prepare, fsync
  <2>2. ProcessType' /\ StageOwned' /\ MarkCounted'
    BY <1>1 DEF TypeInv, TypeOK, ProcessType, StageOwned, MarkCounted,
                sync_prepare
  <2> QED BY <1>1, <2>1, <2>2
    DEF TypeInv, TypeOK, MapsType, CountersType, sync_prepare, maps, counters
<1>2. CASE sync_prepare_fails
  BY <1>2, CommitFailsType DEF sync_prepare_fails, Answers
<1>3. CASE write_commit
  <2> DEFINE r == [type |-> "COMMIT", txn |-> current.txn,
                   seq |-> current.seq, key |-> NoKey]
  <2>1. r \in Record
    BY <1>3 DEF TypeInv, TypeOK, ProcessType, Operand, StageOwned,
                Record, Keys, write_commit
  <2>2. DiskType'
    <3>1. /\ log' = Append(log, r)
          /\ UNCHANGED <<synced, format, cache, authority>>
      BY <1>3 DEF write_commit
    <3> HIDE DEF r
    <3> QED BY <3>1, <2>1, AppendType DEF TypeInv, TypeOK, DiskType
  <2>3. ProcessType' /\ StageOwned' /\ MarkCounted'
    BY <1>3 DEF TypeInv, TypeOK, ProcessType, StageOwned, MarkCounted,
                write_commit
  <2> QED BY <1>3, <2>2, <2>3
    DEF TypeInv, TypeOK, MapsType, CountersType, write_commit, maps, counters
<1>4. CASE write_commit_fails
  BY <1>4, CommitFailsType DEF write_commit_fails, Answers
<1>5. CASE sync_commit
  <2>1. current.txn \in Txn /\ current.seq \in Nat
    BY <1>5 DEF TypeInv, TypeOK, ProcessType, Operand, StageOwned,
                sync_commit
  <2>2. DiskType'
    BY <1>5 DEF TypeInv, TypeOK, DiskType, sync_commit, fsync
  <2>3. ProcessType'
    BY <1>5, IdleType DEF TypeInv, TypeOK, ProcessType, sync_commit
  <2>4. MapsType' /\ CountersType'
    BY <1>5, <2>1 DEF TypeInv, TypeOK, MapsType, CountersType, sync_commit
  <2>5. inflight_idempotency' \subseteq Key /\ answer' \in [Txn -> Answers]
    BY <1>5, <2>1 DEF TypeInv, TypeOK, sync_commit, Answers
  <2>6. MarkCounted' /\ StageOwned'
    BY <1>5 DEF MarkCounted, StageOwned, sync_commit
  <2> QED BY <2>2, <2>3, <2>4, <2>5, <2>6 DEF TypeInv, TypeOK
<1>6. CASE sync_commit_fails
  BY <1>6, CommitFailsType DEF sync_commit_fails, Answers
<1> QED BY <1>1, <1>2, <1>3, <1>4, <1>5, <1>6

LEMMA MarkWriteType ==
  ASSUME TypeInv, NEW t \in Txn, NEW kind \in Kinds, NEW written \in BOOLEAN,
         mark_projected_write(t, kind, written)
  PROVE  TypeInv'
<1> DEFINE r == [type |-> kind, txn |-> t, seq |-> 0, key |-> NoKey]
           o == [txn |-> t, seq |-> 0, key |-> NoKey, kind |-> kind]
<1>1. /\ stage = "idle"
      /\ (IF kind = "storage" THEN pending_storage ELSE pending_audit) > 0
      /\ UNCHANGED <<synced, format, cache, authority, up, maps, counters,
                     inflight_idempotency, answer>>
      /\ \/ /\ log' = Append(log, r) /\ stage' = "mark" /\ current' = o
            /\ UNCHANGED poisoned
         \/ poisoned' = TRUE /\ UNCHANGED <<log, stage, current>>
  BY DEF mark_projected_write, Unlocked
<1>2. r \in Record /\ o \in Operand /\ o.kind = kind /\ o.txn = t
  BY DEF Record, Operand, Keys
<1>3. DiskType'
  <2>1. log' = Append(log, r) \/ log' = log
    BY <1>1
  <2> HIDE DEF r
  <2> QED BY <2>1, <1>1, <1>2, AppendType DEF TypeInv, TypeOK, DiskType
<1>4. ProcessType'
  BY <1>1, <1>2 DEF TypeInv, TypeOK, ProcessType
<1>5. MapsType' /\ CountersType' /\ inflight_idempotency' \subseteq Key
      /\ answer' \in [Txn -> Answers]
  BY <1>1 DEF TypeInv, TypeOK, MapsType, CountersType, maps, counters
<1>6. MarkCounted' /\ StageOwned'
  <2>1. up' = up /\ up
    BY DEF mark_projected_write, Unlocked
  <2> QED BY <1>1, <1>2, <2>1 DEF TypeInv, MarkCounted, StageOwned, counters
<1> QED BY <1>3, <1>4, <1>5, <1>6 DEF TypeInv, TypeOK

LEMMA MarkSyncType ==
  ASSUME TypeInv, mark_projected_sync \/ mark_projected_sync_fails
  PROVE  TypeInv'
<1>1. CASE mark_projected_sync
  <2>1. current.txn \in Txn /\ current.kind \in Kinds
    BY <1>1 DEF TypeInv, TypeOK, ProcessType, Operand, MarkCounted,
                mark_projected_sync
  <2>2. DiskType'
    BY <1>1 DEF TypeInv, TypeOK, DiskType, mark_projected_sync, fsync
  <2>3. ProcessType'
    BY <1>1, IdleType DEF TypeInv, TypeOK, ProcessType, mark_projected_sync
  <2>4. MapsType'
    BY <1>1, <2>1 DEF TypeInv, TypeOK, MapsType, mark_projected_sync
  <2>5. CountersType'
    BY <1>1, <2>1 DEF TypeInv, TypeOK, CountersType, MarkCounted, Kinds,
                      mark_projected_sync, release_publication
  <2>6. /\ inflight_idempotency' \subseteq Key /\ answer' \in [Txn -> Answers]
        /\ MarkCounted' /\ StageOwned'
    BY <1>1 DEF TypeInv, TypeOK, MarkCounted, StageOwned,
                mark_projected_sync
  <2> QED BY <2>2, <2>3, <2>4, <2>5, <2>6 DEF TypeInv, TypeOK
<1>2. CASE mark_projected_sync_fails
  <2>1. ProcessType' /\ MarkCounted' /\ StageOwned'
    BY <1>2, IdleType DEF TypeInv, TypeOK, ProcessType, MarkCounted,
                          StageOwned, mark_projected_sync_fails
  <2> QED BY <1>2, <2>1
    DEF TypeInv, TypeOK, DiskType, MapsType, CountersType,
        mark_projected_sync_fails, disk, maps, counters
<1> QED BY <1>1, <1>2

LEMMA CheckpointType ==
  ASSUME TypeInv, NEW expired \in BOOLEAN,
         checkpoint_completed_frontier(expired)
  PROVE  TypeInv'
<1> DEFINE hot == {p \in prepares : p.txn \notin completed}
           cp == [prefix |-> log, lsn |-> Len(log),
                  next_sequence |-> next_sequence,
                  max_committed_sequence |-> max_committed_sequence,
                  committed_count |-> committed_count,
                  decisions |-> decisions']
<1>1. /\ flush_decisions(completed)
      /\ prepares' = hot
      /\ idempotency' = idempotency \ KeysOf(prepares \ hot)
      /\ IF hot = {}
         THEN store_checkpoint(cp) /\ checkpointed_sequence' = next_sequence
         ELSE UNCHANGED <<cache, authority, checkpointed_sequence>>
      /\ UNCHANGED <<log, synced, format, process, unknown, committed_count,
                     next_sequence, max_committed_sequence, pending_storage,
                     pending_audit, active_publications, visibility_revision,
                     inflight_idempotency, answer>>
  BY DEF checkpoint_completed_frontier
<1>2. MapsType'
  BY <1>1, FlushType DEF TypeInv, TypeOK, MapsType
<1>3. cache' \in Checkpoint /\ authority' \in Checkpoint
  <2>1. cp \in Checkpoint
    BY <1>2, FrontierType DEF TypeInv, MapsType
  <2> QED BY <1>1, <2>1, StoreType DEF TypeInv, TypeOK, DiskType
<1>4. DiskType' /\ ProcessType'
  BY <1>1, <1>3 DEF TypeInv, TypeOK, DiskType, ProcessType, process
<1>5. /\ CountersType'
      /\ inflight_idempotency' \subseteq Key /\ answer' \in [Txn -> Answers]
  BY <1>1 DEF TypeInv, TypeOK, CountersType
<1>6. MarkCounted' /\ StageOwned'
  BY <1>1 DEF TypeInv, MarkCounted, StageOwned, process
<1> QED BY <1>2, <1>4, <1>5, <1>6 DEF TypeInv, TypeOK

LEMMA CrashType ==
  ASSUME TypeInv, kill \/ power_loss
  PROVE  TypeInv'
<1>1. forget
  BY DEF kill, power_loss
<1>2. log' \in Seq(Record) /\ synced' \in Nat /\ synced' <= Len(log')
  <2>1. CASE kill
    BY <2>1 DEF kill, TypeInv, TypeOK, DiskType
  <2>2. CASE power_loss
    <3>1. PICK n \in synced .. Len(log) :
                 log' = SubSeq(log, 1, n) /\ synced' = n
      BY <2>2 DEF power_loss
    <3>2. n \in Nat /\ n <= Len(log) /\ log \in Seq(Record)
      BY <3>1 DEF TypeInv, TypeOK, DiskType
    <3>3. SubSeq(log, 1, n) \in Seq(Record) /\ Len(SubSeq(log, 1, n)) = n
      BY <3>2
    <3> QED BY <3>1, <3>2, <3>3
  <2> QED BY <2>1, <2>2
<1>3. DiskType' /\ ProcessType'
  BY <1>1, <1>2, IdleType DEF TypeInv, TypeOK, DiskType, ProcessType, forget
<1>4. MapsType' /\ CountersType'
  BY <1>1 DEF MapsType, CountersType, forget
<1>5. /\ inflight_idempotency' \subseteq Key /\ answer' \in [Txn -> Answers]
      /\ MarkCounted' /\ StageOwned'
  BY <1>1 DEF TypeInv, TypeOK, MarkCounted, StageOwned, forget
<1> QED BY <1>3, <1>4, <1>5 DEF TypeInv, TypeOK

LEMMA RecoveryBaseType ==
  ASSUME TypeInv
  PROVE  recovery_base \in Checkpoint
  BY NoCheckpointType DEF recovery_base, TypeInv, TypeOK, DiskType

LEMMA OpenType ==
  ASSUME TypeInv, NEW expired \in BOOLEAN, open_inner(expired)
  PROVE  TypeInv'
<1> DEFINE b == recovery_base
           cp == [prefix |-> log, lsn |-> Len(log),
                  next_sequence |-> next_sequence',
                  max_committed_sequence |-> max_committed_sequence',
                  committed_count |-> committed_count',
                  decisions |-> decisions']
<1>1. /\ install(b)
      /\ \/ store_checkpoint(cp) /\ checkpointed_sequence' = next_sequence'
         \/ /\ checkpointed_sequence' = b.next_sequence
            /\ UNCHANGED <<cache, authority>>
      /\ up' = TRUE
      /\ UNCHANGED <<log, synced, format, poisoned, stage, current,
                     inflight_idempotency, answer>>
  BY DEF open_inner
<1>2. b \in Checkpoint
  BY RecoveryBaseType
<1> HIDE DEF b
<1>3. /\ MapsType'
      /\ committed_count' \in Nat /\ next_sequence' \in Nat
      /\ max_committed_sequence' \in Nat
      /\ pending_storage' \in Nat /\ pending_audit' \in Nat
      /\ active_publications' \in Nat /\ visibility_revision' \in Nat
  BY <1>1, <1>2, InstallType DEF TypeInv
<1>4. cp \in Checkpoint
  <2>1. log \in Seq(Record) /\ Len(log) \in Nat /\ decisions' \subseteq Decision
    BY <1>3 DEF TypeInv, TypeOK, DiskType, MapsType
  <2> QED BY <1>3, <2>1 DEF Checkpoint
<1>5. DiskType'
  BY <1>1, <1>4, StoreType DEF TypeInv, TypeOK, DiskType
<1>6. b.next_sequence \in Nat
  BY <1>2 DEF Checkpoint
<1>7. CountersType'
  BY <1>1, <1>3, <1>6 DEF CountersType
<1>8. /\ ProcessType'
      /\ inflight_idempotency' \subseteq Key /\ answer' \in [Txn -> Answers]
  BY <1>1 DEF TypeInv, TypeOK, ProcessType
<1>9. MarkCounted' /\ StageOwned'
  <2>1. stage = "idle"
    BY DEF open_inner, TypeInv, StageOwned
  <2> QED BY <1>1, <2>1 DEF MarkCounted, StageOwned
<1> QED BY <1>3, <1>5, <1>7, <1>8, <1>9 DEF TypeInv, TypeOK

LEMMA MigrateType ==
  ASSUME TypeInv, migrate_publish \/ migrate_activate
  PROVE  TypeInv'
<1>1. CASE migrate_publish
  <2>1. PICK n \in ReplayedSequence(NoCheckpoint),
             m \in ReplayedMaxCommitted(NoCheckpoint) :
          authority' =
            [prefix |-> << >>, lsn |-> Len(log), next_sequence |-> n,
             max_committed_sequence |-> m,
             committed_count
               |-> Cardinality(ReplayedTxns(NoCheckpoint, "COMMIT")),
             decisions |-> finish_recovery(NoCheckpoint)]
    BY <1>1 DEF migrate_publish
  <2>2. /\ n \in Nat /\ m \in Nat
        /\ finish_recovery(NoCheckpoint) \subseteq Decision
        /\ ReplayedTxns(NoCheckpoint, "COMMIT") \subseteq Txn
    BY ReplayTypes, NoCheckpointType DEF TypeInv
  <2>3. Cardinality(ReplayedTxns(NoCheckpoint, "COMMIT")) \in Nat
    BY <2>2, ConstantsAssumption, FS_Subset, FS_CardinalityType
  <2>4. Len(log) \in Nat /\ << >> \in Seq(Record)
    BY DEF TypeInv, TypeOK, DiskType
  <2>5. authority' \in Checkpoint
    BY <2>1, <2>2, <2>3, <2>4 DEF Checkpoint
  <2>6. DiskType' /\ ProcessType'
    BY <1>1, <2>5 DEF TypeInv, TypeOK, DiskType, ProcessType,
                      migrate_publish, fsync
  <2>7. MarkCounted' /\ StageOwned'
    BY <1>1 DEF MarkCounted, StageOwned, migrate_publish, Unlocked
  <2> QED BY <1>1, <2>6, <2>7
    DEF TypeInv, TypeOK, MapsType, CountersType, migrate_publish, maps,
        counters
<1>2. CASE migrate_activate
  <2>1. /\ MapsType'
        /\ committed_count' \in Nat /\ next_sequence' \in Nat
        /\ max_committed_sequence' \in Nat
        /\ pending_storage' \in Nat /\ pending_audit' \in Nat
        /\ active_publications' \in Nat /\ visibility_revision' \in Nat
    BY <1>2, InstallType, NoCheckpointType DEF TypeInv, migrate_activate
  <2>2. CountersType'
    BY <1>2, <2>1 DEF CountersType, migrate_activate
  <2>3. DiskType' /\ ProcessType'
    BY <1>2 DEF TypeInv, TypeOK, DiskType, ProcessType, migrate_activate
  <2>4. /\ inflight_idempotency' \subseteq Key /\ answer' \in [Txn -> Answers]
        /\ MarkCounted' /\ StageOwned'
    BY <1>2 DEF TypeInv, TypeOK, MarkCounted, StageOwned, migrate_activate
  <2> QED BY <2>1, <2>2, <2>3, <2>4 DEF TypeInv, TypeOK
<1> QED BY <1>1, <1>2

LEMMA TypeStep == TypeInv /\ [Next]_vars => TypeInv'
<1> SUFFICES ASSUME TypeInv, [Next]_vars PROVE TypeInv'
  OBVIOUS
<1>1. ASSUME NEW k \in Key, begin_idempotent(k) \/ drop_guard(k)
      PROVE TypeInv'
  BY <1>1, ClaimsType
<1>2. ASSUME NEW t \in Txn, NEW k \in Keys, NEW written \in BOOLEAN,
             commit_inner_begin(t, k, written)
      PROVE TypeInv'
  BY <1>2, CommitBeginType
<1>3. ASSUME NEW t \in Txn, NEW k \in Key, commit_inner_refused(t, k)
      PROVE TypeInv'
  BY <1>3, CommitRefusedType
<1>4. CASE \/ sync_prepare \/ sync_prepare_fails
           \/ write_commit \/ write_commit_fails
           \/ sync_commit \/ sync_commit_fails
  BY <1>4, CommitStepsType
<1>5. ASSUME NEW t \in Txn, NEW kind \in Kinds, NEW written \in BOOLEAN,
             mark_projected_write(t, kind, written)
      PROVE TypeInv'
  BY <1>5, MarkWriteType
<1>6. CASE mark_projected_sync \/ mark_projected_sync_fails
  BY <1>6, MarkSyncType
<1>7. ASSUME NEW expired \in BOOLEAN, checkpoint_completed_frontier(expired)
      PROVE TypeInv'
  BY <1>7, CheckpointType
<1>8. CASE kill \/ power_loss
  BY <1>8, CrashType
<1>9. ASSUME NEW expired \in BOOLEAN, open_inner(expired)
      PROVE TypeInv'
  BY <1>9, OpenType
<1>10. CASE migrate_publish \/ migrate_activate
  BY <1>10, MigrateType
<1>11. CASE UNCHANGED vars
  BY <1>11
  DEF TypeInv, TypeOK, DiskType, ProcessType, MapsType, CountersType,
      MarkCounted, StageOwned, vars, disk, process, maps, counters
<1> QED BY <1>1, <1>2, <1>3, <1>4, <1>5, <1>6, <1>7, <1>8, <1>9, <1>10, <1>11
  DEF Next

\* Every reachable state is well typed: in particular mark_projected and the
\* failure exit of commit_inner never drive a counter of JournalState below
\* zero, with any number of transactions, crashes and checkpoints.
THEOREM TypeCorrect == Spec => []TypeOK
<1>1. Spec => []TypeInv
  BY TypeInit, TypeStep, PTL DEF Spec
<1>2. TypeInv => TypeOK
  BY DEF TypeInv
<1> QED BY <1>1, <1>2, PTL
-----------------------------------------------------------------------------
Known == TxnsOf(prepares) \cup TxnsOf(decisions)

LogKnown == up => \A i \in 1 .. Len(log) : log[i].txn \in Known

CacheCovers ==
  \A i \in 1 .. Len(cache.prefix) : cache.prefix[i].txn \in TxnsOf(cache.decisions)

\* From the moment migration publishes it, the authority covers its part of
\* the log, which a live process never sees shortened below it.
AuthorityCovers ==
  format = 3 \/ stage = "migrate" =>
    /\ up => authority.lsn <= Len(log)
    /\ \A i \in 1 .. Len(log) :
         i <= authority.lsn => log[i].txn \in TxnsOf(authority.decisions)

CommitsPrepared == commits \subseteq TxnsOf(prepares)

\* The commit that holds the mutex is prepared and not answered, and its
\* COMMIT record is in the log exactly from write_commit on.
InFlight ==
  /\ stage \in {"prepare", "prepared", "commit"} =>
       /\ current.txn \in TxnsOf(prepares)
       /\ answer[current.txn] = "none"
  /\ stage \in {"prepare", "prepared"} => current.txn \notin Logged("COMMIT")
  /\ stage = "commit" => current.txn \in Logged("COMMIT")

MigrationReplays == stage = "migrate" => replay_accepts(NoCheckpoint)

AnswersDurable ==
  \A t \in Txn :
    /\ answer[t] = "committed" => t \in Durable("COMMIT")
    /\ answer[t] = "failed" => t \notin Logged("COMMIT")

AuthorityInv ==
  /\ TypeInv
  /\ LogKnown
  /\ CacheCovers
  /\ AuthorityCovers
  /\ CommitsPrepared
  /\ InFlight
  /\ MigrationReplays
  /\ AnswersDurable

LEMMA AuthorityInit == Init => AuthorityInv
<1> SUFFICES ASSUME Init PROVE AuthorityInv
  OBVIOUS
<1>1. TypeInv
  BY TypeInit
<1>2. Len(log) = 0 /\ Len(cache.prefix) = 0
  BY DEF Init, NoCheckpoint
<1>3. LogKnown /\ CacheCovers /\ AuthorityCovers
  BY <1>2 DEF Init, LogKnown, CacheCovers, AuthorityCovers
<1>4. CommitsPrepared /\ InFlight /\ MigrationReplays
  BY DEF Init, CommitsPrepared, InFlight, MigrationReplays
<1>5. AnswersDurable
  BY DEF Init, AnswersDurable
<1> QED BY <1>1, <1>3, <1>4, <1>5 DEF AuthorityInv

(***************************************************************************)
(* The log and what is logged.                                             *)
(***************************************************************************)
LEMMA LoggedAppend ==
  ASSUME TypeInv, NEW r \in Record, log' = Append(log, r)
  PROVE  /\ Len(log') = Len(log) + 1
         /\ log'[Len(log) + 1] = r
         /\ \A i \in 1 .. Len(log) : log'[i] = log[i]
         /\ r.type # "COMMIT" => Logged("COMMIT")' = Logged("COMMIT")
         /\ r.type = "COMMIT" =>
              Logged("COMMIT")' = Logged("COMMIT") \cup {r.txn}
         /\ synced' = synced => Durable("COMMIT")' = Durable("COMMIT")
<1>1. /\ log \in Seq(Record) /\ Len(log) \in Nat
      /\ synced \in Nat /\ synced <= Len(log)
  BY DEF TypeInv, TypeOK, DiskType
<1>2. /\ Len(log') = Len(log) + 1
      /\ log'[Len(log) + 1] = r
      /\ \A i \in 1 .. Len(log) : log'[i] = log[i]
  BY <1>1
<1>3. r.type # "COMMIT" => Logged("COMMIT")' = Logged("COMMIT")
  BY <1>1, <1>2 DEF Logged
<1>4. r.type = "COMMIT" => Logged("COMMIT")' = Logged("COMMIT") \cup {r.txn}
  BY <1>1, <1>2 DEF Logged
<1>5. synced' = synced => Durable("COMMIT")' = Durable("COMMIT")
  BY <1>1, <1>2 DEF Durable
<1> QED BY <1>2, <1>3, <1>4, <1>5

LEMMA DurableLogged ==
  ASSUME TypeInv
  PROVE  Durable("COMMIT") \subseteq Logged("COMMIT")
  BY DEF TypeInv, TypeOK, DiskType, Durable, Logged

\* fsync makes everything logged durable; the log itself is the same.
LEMMA DurableSync ==
  ASSUME TypeInv, fsync, log' = log
  PROVE  /\ Durable("COMMIT")' = Logged("COMMIT")
         /\ Logged("COMMIT")' = Logged("COMMIT")
  BY DEF TypeInv, TypeOK, DiskType, fsync, Durable, Logged

\* A crash loses no durable record and invents none.
LEMMA CrashLog ==
  ASSUME TypeInv, kill \/ power_loss
  PROVE  /\ Len(log') <= Len(log)
         /\ \A i \in 1 .. Len(log') : i \in 1 .. Len(log) /\ log'[i] = log[i]
         /\ Logged("COMMIT")' \subseteq Logged("COMMIT")
         /\ Durable("COMMIT") \subseteq Durable("COMMIT")'
<1>1. /\ log \in Seq(Record) /\ Len(log) \in Nat
      /\ synced \in Nat /\ synced <= Len(log)
  BY DEF TypeInv, TypeOK, DiskType
<1>2. CASE kill
  BY <1>1, <1>2 DEF kill, Logged, Durable
<1>3. CASE power_loss
  <2>1. PICK n \in synced .. Len(log) :
               log' = SubSeq(log, 1, n) /\ synced' = n
    BY <1>3 DEF power_loss
  <2>2. n \in Nat /\ synced <= n /\ n <= Len(log)
    BY <1>1, <2>1
  <2>3. /\ Len(log') = n
        /\ \A i \in 1 .. n : log'[i] = log[i]
    BY <1>1, <2>1, <2>2
  <2>4. Logged("COMMIT")' \subseteq Logged("COMMIT")
    BY <1>1, <2>2, <2>3 DEF Logged
  <2>5. Durable("COMMIT") \subseteq Durable("COMMIT")'
    BY <1>1, <2>1, <2>2, <2>3 DEF Durable
  <2> QED BY <1>1, <2>2, <2>3, <2>4, <2>5
<1> QED BY <1>2, <1>3

(***************************************************************************)
(* Eviction, checkpoints and replay keep every transaction known.          *)
(***************************************************************************)
LEMMA FlushKnown ==
  ASSUME NEW ids, flush_decisions(ids)
  PROVE  Known \subseteq
           TxnsOf({p \in prepares : p.txn \notin ids}) \cup TxnsOf(decisions')
<1>1. \A p \in prepares : p.txn \in ids => p.txn \in TxnsOf(decisions')
  <2> SUFFICES ASSUME NEW p \in prepares, p.txn \in ids
               PROVE  p.txn \in TxnsOf(decisions')
    OBVIOUS
  <2>1. decide(p, commits) \in decisions'
    BY DEF flush_decisions
  <2>2. decide(p, commits).txn = p.txn
    BY DEF decide
  <2> QED BY <2>1, <2>2 DEF TxnsOf
<1>2. TxnsOf(decisions) \subseteq TxnsOf(decisions')
  BY DEF flush_decisions, TxnsOf
<1> QED BY <1>1, <1>2 DEF Known, TxnsOf

LEMMA FlushCommits ==
  ASSUME NEW ids, flush_decisions(ids), CommitsPrepared
  PROVE  commits' \subseteq TxnsOf({p \in prepares : p.txn \notin ids})
  BY DEF flush_decisions, CommitsPrepared, TxnsOf

\* A record that replay accepts has the PREPARE of its transaction among the
\* records that replay reads.
LEMMA ReplayPrepared ==
  ASSUME TypeInv, NEW b \in Checkpoint, replay_accepts(b), NEW i \in Suffix(b)
  PROVE  \E j \in Suffix(b) : log[j].type = "PREPARE" /\ log[j].txn = log[i].txn
<1>1. log[i] \in Record
  BY SMTT(30) DEF TypeInv, TypeOK, DiskType, Checkpoint, Suffix
<1>2. ASSUME NEW c \in Suffix(b), log[c].type = "COMMIT"
      PROVE  \E j \in Suffix(b) :
               log[j].type = "PREPARE" /\ log[j].txn = log[c].txn
  <2>1. apply_record_accepts(b, c)
    BY DEF replay_accepts
  <2> QED BY <1>2, <2>1 DEF apply_record_accepts, Before
<1>3. CASE log[i].type = "PREPARE"
  BY <1>3
<1>4. CASE log[i].type = "COMMIT"
  BY <1>2, <1>4
<1>5. CASE log[i].type \in Kinds
  <2>1. apply_record_accepts(b, i)
    BY DEF replay_accepts
  <2>2. \E c \in Suffix(b) : log[c].type = "COMMIT" /\ log[c].txn = log[i].txn
    BY <1>5, <2>1 DEF apply_record_accepts, Before, Kinds
  <2> QED BY <1>2, <2>2
<1> QED BY <1>1, <1>3, <1>4, <1>5 DEF Record

LEMMA ReplayKnown ==
  ASSUME TypeInv, NEW b \in Checkpoint, replay_accepts(b), install(b),
         \A i \in 1 .. Len(log) :
           i <= b.lsn => log[i].txn \in TxnsOf(b.decisions)
  PROVE  /\ \A i \in 1 .. Len(log) :
              log[i].txn \in TxnsOf(prepares') \cup TxnsOf(decisions')
         /\ CommitsPrepared'
<1> DEFINE hot == {p \in ReplayedPrepares(b) : p.txn \in ReplayedOpen(b)}
<1>1. prepares' = hot /\ decisions' = finish_recovery(b)
  BY DEF install
<1>2. ASSUME NEW i \in Suffix(b)
      PROVE  \E p \in ReplayedPrepares(b) : p.txn = log[i].txn
  <2>1. PICK j \in Suffix(b) :
               log[j].type = "PREPARE" /\ log[j].txn = log[i].txn
    BY ReplayPrepared
  <2>2. log[j] \in Replayed(b, "PREPARE")
    BY <2>1 DEF Replayed
  <2> DEFINE q == [txn |-> log[j].txn, seq |-> log[j].seq, key |-> log[j].key]
  <2>3. q \in ReplayedPrepares(b)
    BY <2>2 DEF ReplayedPrepares
  <2>4. q.txn = log[i].txn
    BY <2>1
  <2> QED BY <2>3, <2>4
<1>3. TxnsOf(b.decisions) \subseteq TxnsOf(decisions')
  BY <1>1 DEF TxnsOf, finish_recovery
<1>4. ASSUME NEW p \in ReplayedPrepares(b), p.txn \notin ReplayedOpen(b)
      PROVE  p.txn \in TxnsOf(decisions')
  <2>1. decide(p, ReplayedTxns(b, "COMMIT")) \in decisions'
    BY <1>1, <1>4 DEF finish_recovery
  <2>2. decide(p, ReplayedTxns(b, "COMMIT")).txn = p.txn
    BY DEF decide
  <2> QED BY <2>1, <2>2 DEF TxnsOf
<1>5. ASSUME NEW p \in ReplayedPrepares(b), p.txn \in ReplayedOpen(b)
      PROVE  p.txn \in TxnsOf(prepares')
  BY <1>1, <1>5 DEF TxnsOf
<1>6. ASSUME NEW i \in 1 .. Len(log)
      PROVE  log[i].txn \in TxnsOf(prepares') \cup TxnsOf(decisions')
  <2>1. CASE i <= b.lsn
    BY <1>3, <2>1
  <2>2. CASE ~(i <= b.lsn)
    <3>1. i \in Suffix(b)
      BY <2>2, SMTT(30) DEF Suffix, Checkpoint, TypeInv, TypeOK, DiskType
    <3>2. PICK p \in ReplayedPrepares(b) : p.txn = log[i].txn
      BY <1>2, <3>1
    <3> QED BY <1>4, <1>5, <3>2
  <2> QED BY <2>1, <2>2
<1>7. CommitsPrepared'
  <2> SUFFICES ASSUME NEW t \in commits' PROVE t \in TxnsOf(prepares')
    BY DEF CommitsPrepared
  <2>1. t \in ReplayedOpen(b) /\ t \in ReplayedTxns(b, "COMMIT")
    BY DEF install, ReplayedOpen
  <2>2. PICK i \in Suffix(b) : log[i].txn = t
    BY <2>1 DEF ReplayedTxns, TxnsOf, Replayed
  <2>3. PICK p \in ReplayedPrepares(b) : p.txn = t
    BY <1>2, <2>2
  <2> QED BY <1>5, <2>1, <2>3
<1> QED BY <1>6, <1>7

(***************************************************************************)
(* The invariant is inductive: one lemma per group of actions.             *)
(***************************************************************************)
LEMMA QuietStep ==
  ASSUME AuthorityInv, TypeInv', UNCHANGED <<disk, process, maps, answer>>
  PROVE  AuthorityInv'
<1>1. LogKnown' /\ CacheCovers' /\ AuthorityCovers' /\ CommitsPrepared'
  BY DEF AuthorityInv, LogKnown, CacheCovers, AuthorityCovers, CommitsPrepared,
         Known, TxnsOf, disk, process, maps
<1>2. InFlight' /\ AnswersDurable'
  BY DEF AuthorityInv, InFlight, AnswersDurable, Logged, Durable, TxnsOf,
         disk, process, maps
<1>3. MigrationReplays'
  BY DEF AuthorityInv, MigrationReplays, replay_accepts, apply_record_accepts,
         Suffix, Before, TxnsOf, KeysOf, disk, process
<1> QED BY <1>1, <1>2, <1>3 DEF AuthorityInv

LEMMA StoreCovers ==
  ASSUME CacheCovers,
         \A i \in 1 .. Len(log) : log[i].txn \in TxnsOf(decisions'),
         NEW cp \in Checkpoint, cp.prefix = log, cp.lsn = Len(log),
         cp.decisions = decisions', store_checkpoint(cp)
  PROVE  /\ CacheCovers'
         /\ format = 3 =>
              /\ authority'.lsn = Len(log)
              /\ \A i \in 1 .. Len(log) :
                   log[i].txn \in TxnsOf(authority'.decisions)
<1>2. CASE format = 3
  <2>1. authority' = [cp EXCEPT !.prefix = << >>] /\ cache' = cache
    BY <1>2 DEF store_checkpoint, publish_at, publish_cache
  <2>2. authority'.lsn = Len(log) /\ authority'.decisions = decisions'
    BY <2>1 DEF Checkpoint
  <2>3. CacheCovers'
    BY <2>1 DEF CacheCovers, TxnsOf
  <2> QED BY <1>2, <2>2, <2>3
<1>3. CASE format # 3
  <2>1. cache' = cp
    BY <1>3 DEF store_checkpoint, publish_at, publish_cache
  <2>2. CacheCovers'
    BY <2>1 DEF CacheCovers
  <2> QED BY <1>3, <2>2
<1> QED BY <1>2, <1>3

LEMMA CheckpointCovers ==
  ASSUME AuthorityInv, NEW ids, flush_decisions(ids), up,
         {p \in prepares : p.txn \notin ids} = {},
         NEW cp \in Checkpoint, cp.prefix = log, cp.lsn = Len(log),
         cp.decisions = decisions', store_checkpoint(cp)
  PROVE  /\ CacheCovers'
         /\ format = 3 =>
              /\ authority'.lsn = Len(log)
              /\ \A i \in 1 .. Len(log) :
                   log[i].txn \in TxnsOf(authority'.decisions)
<1>1. \A i \in 1 .. Len(log) : log[i].txn \in TxnsOf(decisions')
  <2>1. TxnsOf({}) = {}
    BY DEF TxnsOf
  <2>2. Known \subseteq TxnsOf(decisions')
    BY <2>1, FlushKnown
  <2> QED BY <2>2 DEF AuthorityInv, LogKnown
<1> QED BY <1>1, StoreCovers DEF AuthorityInv

LEMMA CheckpointStep ==
  ASSUME AuthorityInv, TypeInv', NEW expired \in BOOLEAN,
         checkpoint_completed_frontier(expired)
  PROVE  AuthorityInv'
<1> DEFINE hot == {p \in prepares : p.txn \notin completed}
           cp == [prefix |-> log, lsn |-> Len(log),
                  next_sequence |-> next_sequence,
                  max_committed_sequence |-> max_committed_sequence,
                  committed_count |-> committed_count,
                  decisions |-> decisions']
<1>1. /\ up /\ stage = "idle"
      /\ flush_decisions(completed)
      /\ prepares' = hot
      /\ IF hot = {} THEN store_checkpoint(cp)
                     ELSE UNCHANGED <<cache, authority>>
      /\ UNCHANGED <<log, synced, format, process, answer>>
  BY DEF checkpoint_completed_frontier, Unlocked
<1>2. /\ cp \in Checkpoint
      /\ cp.prefix = log /\ cp.lsn = Len(log) /\ cp.decisions = decisions'
  <2>1. decisions' \in SUBSET Decision
    BY DEF TypeInv, TypeOK, MapsType
  <2> QED BY <2>1, FrontierType DEF AuthorityInv, TypeInv
<1> HIDE DEF cp
<1>3. CacheCovers' /\ AuthorityCovers'
  <2>1. CASE hot = {}
    <3>1. /\ CacheCovers'
          /\ format = 3 =>
               /\ authority'.lsn = Len(log)
               /\ \A i \in 1 .. Len(log) :
                    log[i].txn \in TxnsOf(authority'.decisions)
      BY <1>1, <1>2, <2>1, CheckpointCovers
    <3>2. Len(log) <= Len(log)
      BY DEF AuthorityInv, TypeInv, TypeOK, DiskType
    <3> QED BY <1>1, <3>1, <3>2 DEF AuthorityCovers, process, TxnsOf
  <2>2. CASE hot # {}
    BY <1>1, <2>2 DEF AuthorityInv, CacheCovers, AuthorityCovers, process,
                      TxnsOf
  <2> QED BY <2>1, <2>2
<1>4. LogKnown'
  <2>1. Known \subseteq Known'
    BY <1>1, FlushKnown DEF Known, TxnsOf
  <2> QED BY <1>1, <2>1 DEF AuthorityInv, LogKnown, process
<1>5. CommitsPrepared'
  BY <1>1, FlushCommits DEF AuthorityInv, CommitsPrepared, TxnsOf
<1>6. InFlight' /\ MigrationReplays'
  BY <1>1 DEF InFlight, MigrationReplays, process
<1>7. AnswersDurable'
  BY <1>1 DEF AuthorityInv, AnswersDurable, Durable, Logged
<1> QED BY <1>3, <1>4, <1>5, <1>6, <1>7 DEF AuthorityInv

LEMMA CommitBeginStep ==
  ASSUME AuthorityInv, TypeInv', NEW t \in Txn, NEW k \in Keys,
         NEW written \in BOOLEAN, commit_inner_begin(t, k, written)
  PROVE  AuthorityInv'
<1> DEFINE publish == /\ next_sequence - checkpointed_sequence
                           >= CheckpointInterval
                      /\ publishable(FALSE)
           ids == IF publish \/ Cardinality(completed) >= DecisionBatch
                  THEN completed ELSE {}
           hot == {p \in prepares : p.txn \notin ids}
           new == [txn |-> t, seq |-> next_sequence + 1, key |-> k]
           r == [type |-> "PREPARE", txn |-> t, seq |-> next_sequence + 1,
                 key |-> k]
           cp == [prefix |-> log, lsn |-> Len(log),
                  next_sequence |-> next_sequence,
                  max_committed_sequence |-> max_committed_sequence,
                  committed_count |-> committed_count,
                  decisions |-> decisions']
<1>1. /\ up /\ stage = "idle" /\ answer[t] = "none"
      /\ t \notin Known
      /\ flush_decisions(ids)
      /\ IF publish /\ hot = {} THEN store_checkpoint(cp)
                                ELSE UNCHANGED <<cache, authority>>
      /\ format' = IF k # NoKey /\ format = 1 THEN 2 ELSE format
      /\ prepares' = hot \cup {new}
      /\ UNCHANGED <<synced, up>>
  BY DEF commit_inner_begin, Unlocked, Known
<1>2. \/ /\ log' = Append(log, r) /\ stage' = "prepare"
         /\ current' = [txn |-> t, seq |-> next_sequence + 1, key |-> k,
                        kind |-> "storage"]
         /\ answer' = answer
      \/ /\ answer' = [answer EXCEPT ![t] = "failed"]
         /\ UNCHANGED <<log, stage, current>>
  BY DEF commit_inner_begin
<1>3. /\ cp \in Checkpoint
      /\ cp.prefix = log /\ cp.lsn = Len(log) /\ cp.decisions = decisions'
  <2>1. decisions' \in SUBSET Decision
    BY DEF TypeInv, TypeOK, MapsType
  <2> QED BY <2>1, FrontierType DEF AuthorityInv, TypeInv
<1>4. r \in Record /\ r.type = "PREPARE" /\ r.txn = t /\ new.txn = t
  BY DEF AuthorityInv, TypeInv, TypeOK, CountersType, Record
<1>5. TypeInv /\ log \in Seq(Record) /\ Len(log) \in Nat
  BY DEF AuthorityInv, TypeInv, TypeOK, DiskType
<1>6. stage' \in {"idle", "prepare"} /\ stage' # "migrate"
  BY <1>1, <1>2
<1>7. /\ log' = log \/ log' = Append(log, r)
      /\ stage' = "prepare" => current'.txn = t /\ answer' = answer
  BY <1>1, <1>2
<1> HIDE DEF publish, ids, cp, r, new
<1>8. /\ Len(log') \in Nat /\ Len(log) <= Len(log')
      /\ \A i \in 1 .. Len(log) : log'[i] = log[i]
      /\ \A i \in 1 .. Len(log') : i \in 1 .. Len(log) \/ log'[i].txn = t
      /\ Logged("COMMIT")' = Logged("COMMIT")
      /\ Durable("COMMIT")' = Durable("COMMIT")
  <2>1. CASE log' = log
    BY <1>1, <1>5, <2>1 DEF Logged, Durable
  <2>2. CASE log' = Append(log, r)
    BY <1>1, <1>4, <1>5, <2>2, LoggedAppend
  <2> QED BY <1>7, <2>1, <2>2
<1>9. t \in TxnsOf(prepares') /\ Known \subseteq Known'
  <2>1. t \in TxnsOf(prepares')
    BY <1>1, <1>4 DEF TxnsOf
  <2>2. TxnsOf(hot) \subseteq TxnsOf(prepares')
    BY <1>1 DEF TxnsOf
  <2>3. Known \subseteq TxnsOf(hot) \cup TxnsOf(decisions')
    BY <1>1, FlushKnown
  <2> QED BY <2>1, <2>2, <2>3 DEF Known, TxnsOf
<1>10. LogKnown'
  <2>1. ASSUME NEW i \in 1 .. Len(log') PROVE log'[i].txn \in Known'
    BY <1>1, <1>8, <1>9, <2>1 DEF AuthorityInv, LogKnown, Known, TxnsOf
  <2> QED BY <2>1 DEF LogKnown
<1>11. t \notin Logged("COMMIT")
  BY <1>1, <1>5 DEF AuthorityInv, LogKnown, Logged
<1>12. CacheCovers' /\ AuthorityCovers'
  <2>1. CASE publish /\ hot = {}
    <3>1. store_checkpoint(cp)
      BY <1>1, <2>1
    <3>2. /\ CacheCovers'
          /\ format = 3 =>
               /\ authority'.lsn = Len(log)
               /\ \A i \in 1 .. Len(log) :
                    log[i].txn \in TxnsOf(authority'.decisions)
      BY <1>1, <1>3, <2>1, <3>1, CheckpointCovers
    <3>3. format' = 3 => format = 3
      BY <1>1
    <3> QED BY <1>5, <1>6, <1>8, <3>2, <3>3 DEF AuthorityCovers, TxnsOf
  <2>2. CASE ~(publish /\ hot = {})
    <3>1. cache' = cache /\ authority' = authority
      BY <1>1, <2>2
    <3>2. format' = 3 => format = 3
      BY <1>1
    <3>3. authority.lsn \in Nat
      BY DEF AuthorityInv, TypeInv, TypeOK, DiskType, Checkpoint
    <3> QED BY <1>1, <1>5, <1>6, <1>8, <3>1, <3>2, <3>3, SMTT(30)
      DEF AuthorityInv, CacheCovers, AuthorityCovers, TxnsOf
  <2> QED BY <2>1, <2>2
<1>13. CommitsPrepared'
  <2>1. commits' \subseteq TxnsOf(hot)
    BY <1>1, FlushCommits DEF AuthorityInv
  <2> QED BY <1>1, <2>1 DEF CommitsPrepared, TxnsOf
<1>14. InFlight'
  BY <1>1, <1>6, <1>7, <1>8, <1>9, <1>11 DEF InFlight
<1>15. AnswersDurable'
  <2>1. answer' = answer \/ answer' = [answer EXCEPT ![t] = "failed"]
    BY <1>2
  <2>2. answer \in [Txn -> Answers]
    BY DEF AuthorityInv, TypeInv, TypeOK
  <2> QED BY <1>8, <1>11, <2>1, <2>2 DEF AuthorityInv, AnswersDurable
<1>16. MigrationReplays'
  BY <1>6 DEF MigrationReplays
<1> QED BY <1>10, <1>12, <1>13, <1>14, <1>15, <1>16 DEF AuthorityInv

\* A failed commit is told "failed" before the COMMIT record is written and
\* "unknown" after.
LEMMA CommitFailsStep ==
  ASSUME AuthorityInv, TypeInv', NEW told \in {"failed", "unknown"},
         commit_fails(told), UNCHANGED <<log, synced>>,
         stage \in {"prepare", "prepared", "commit"},
         told = "failed" => stage = "prepare"
  PROVE  AuthorityInv'
<1>1. /\ UNCHANGED <<up, format, cache, authority, prepares, commits,
                     decisions>>
      /\ stage' = "idle"
      /\ answer' = [answer EXCEPT ![current.txn] = told]
  BY DEF commit_fails
<1>2. LogKnown' /\ CacheCovers' /\ CommitsPrepared'
  BY <1>1 DEF AuthorityInv, LogKnown, CacheCovers, CommitsPrepared, Known,
              TxnsOf
<1>3. AuthorityCovers'
  BY <1>1 DEF AuthorityInv, AuthorityCovers, TxnsOf
<1>4. InFlight' /\ MigrationReplays'
  BY <1>1 DEF InFlight, MigrationReplays
<1>5. AnswersDurable'
  <2>1. answer \in [Txn -> Answers]
    BY DEF AuthorityInv, TypeInv, TypeOK
  <2>2. Logged("COMMIT")' = Logged("COMMIT") /\ Durable("COMMIT")' = Durable("COMMIT")
    BY DEF Logged, Durable
  <2>3. told = "failed" => current.txn \notin Logged("COMMIT")
    BY DEF AuthorityInv, InFlight
  <2> QED BY <1>1, <2>1, <2>2, <2>3 DEF AuthorityInv, AnswersDurable
<1> QED BY <1>2, <1>3, <1>4, <1>5 DEF AuthorityInv

\* A sync that changes no map and no checkpoint.
LEMMA SyncStep ==
  ASSUME AuthorityInv, fsync,
         UNCHANGED <<log, format, cache, authority, up, prepares, decisions>>,
         stage' # "migrate"
  PROVE  /\ LogKnown' /\ CacheCovers' /\ AuthorityCovers' /\ MigrationReplays'
         /\ Durable("COMMIT")' = Logged("COMMIT")
         /\ Logged("COMMIT")' = Logged("COMMIT")
         /\ Durable("COMMIT") \subseteq Durable("COMMIT")'
<1>1. LogKnown' /\ CacheCovers' /\ AuthorityCovers' /\ MigrationReplays'
  BY DEF AuthorityInv, LogKnown, CacheCovers, AuthorityCovers,
         MigrationReplays, Known, TxnsOf
<1> QED BY <1>1, DurableSync, DurableLogged DEF AuthorityInv

LEMMA CommitStepsStep ==
  ASSUME AuthorityInv, TypeInv',
         \/ sync_prepare \/ sync_prepare_fails
         \/ write_commit \/ write_commit_fails
         \/ sync_commit \/ sync_commit_fails
  PROVE  AuthorityInv'
<1>0. answer \in [Txn -> Answers]
  BY DEF AuthorityInv, TypeInv, TypeOK
<1>1. CASE sync_prepare
  <2>1. /\ fsync /\ stage = "prepare" /\ stage' = "prepared"
        /\ UNCHANGED <<log, format, cache, authority, up, current, prepares,
                       commits, decisions, answer>>
    BY <1>1 DEF sync_prepare, maps
  <2>2. /\ LogKnown' /\ CacheCovers' /\ AuthorityCovers' /\ MigrationReplays'
        /\ Logged("COMMIT")' = Logged("COMMIT")
        /\ Durable("COMMIT") \subseteq Durable("COMMIT")'
    BY <2>1, SyncStep
  <2>3. InFlight' /\ CommitsPrepared'
    BY <2>1, <2>2 DEF AuthorityInv, InFlight, CommitsPrepared, TxnsOf
  <2>4. AnswersDurable'
    BY <2>1, <2>2 DEF AuthorityInv, AnswersDurable
  <2> QED BY <2>2, <2>3, <2>4 DEF AuthorityInv
<1>2. CASE sync_prepare_fails
  BY <1>2, CommitFailsStep DEF sync_prepare_fails
<1>3. CASE write_commit
  <2> DEFINE r == [type |-> "COMMIT", txn |-> current.txn,
                   seq |-> current.seq, key |-> NoKey]
  <2>1. /\ stage = "prepared" /\ stage' = "commit"
        /\ log' = Append(log, r)
        /\ UNCHANGED <<synced, format, cache, authority, up, current, prepares,
                       commits, decisions, answer>>
    BY <1>3 DEF write_commit, maps
  <2>2. r \in Record /\ r.type = "COMMIT" /\ r.txn = current.txn
    BY <2>1 DEF AuthorityInv, TypeInv, TypeOK, ProcessType, Operand,
                StageOwned, Record, Keys
  <2>3. TypeInv /\ Len(log) \in Nat /\ authority.lsn \in Nat
    <3>1. TypeInv
      BY DEF AuthorityInv
    <3>2. log \in Seq(Record) /\ authority \in Checkpoint
      BY <3>1 DEF TypeInv, TypeOK, DiskType
    <3> QED BY <3>1, <3>2 DEF Checkpoint
  <2>4. current.txn \in TxnsOf(prepares) /\ answer[current.txn] = "none"
    BY <2>1 DEF AuthorityInv, InFlight
  <2> HIDE DEF r
  <2>5. /\ Len(log') = Len(log) + 1
        /\ log'[Len(log) + 1] = r
        /\ \A i \in 1 .. Len(log) : log'[i] = log[i]
        /\ Logged("COMMIT")' = Logged("COMMIT") \cup {current.txn}
        /\ Durable("COMMIT")' = Durable("COMMIT")
    BY <2>1, <2>2, <2>3, LoggedAppend
  <2>6. LogKnown' /\ CacheCovers' /\ CommitsPrepared'
    BY <2>1, <2>2, <2>3, <2>4, <2>5
    DEF AuthorityInv, LogKnown, CacheCovers, CommitsPrepared, Known, TxnsOf
  <2>7. up
    BY <1>3 DEF write_commit
  <2>8. AuthorityCovers'
    BY <2>1, <2>3, <2>5, <2>7 DEF AuthorityInv, AuthorityCovers, TxnsOf
  <2>9. InFlight' /\ MigrationReplays'
    BY <2>1, <2>4, <2>5 DEF InFlight, MigrationReplays, TxnsOf
  <2>10. AnswersDurable'
    BY <2>1, <2>4, <2>5 DEF AuthorityInv, AnswersDurable
  <2> QED BY <2>6, <2>8, <2>9, <2>10 DEF AuthorityInv
<1>4. CASE write_commit_fails
  BY <1>4, CommitFailsStep DEF write_commit_fails
<1>5. CASE sync_commit
  <2>1. /\ fsync /\ stage = "commit" /\ stage' = "idle"
        /\ commits' = commits \cup {current.txn}
        /\ answer' = [answer EXCEPT ![current.txn] = "committed"]
        /\ UNCHANGED <<log, format, cache, authority, up, prepares, decisions>>
    BY <1>5 DEF sync_commit
  <2>2. /\ LogKnown' /\ CacheCovers' /\ AuthorityCovers' /\ MigrationReplays'
        /\ Durable("COMMIT")' = Logged("COMMIT")
        /\ Logged("COMMIT")' = Logged("COMMIT")
        /\ Durable("COMMIT") \subseteq Durable("COMMIT")'
    BY <2>1, SyncStep
  <2>3. /\ current.txn \in TxnsOf(prepares) /\ current.txn \in Txn
        /\ current.txn \in Logged("COMMIT")
    BY <2>1 DEF AuthorityInv, InFlight, TypeInv, StageOwned
  <2>4. InFlight' /\ CommitsPrepared'
    BY <2>1, <2>3 DEF AuthorityInv, InFlight, CommitsPrepared, TxnsOf
  <2>5. AnswersDurable'
    BY <1>0, <2>1, <2>2, <2>3 DEF AuthorityInv, AnswersDurable
  <2> QED BY <2>2, <2>4, <2>5 DEF AuthorityInv
<1>6. CASE sync_commit_fails
  BY <1>6, CommitFailsStep DEF sync_commit_fails
<1> QED BY <1>1, <1>2, <1>3, <1>4, <1>5, <1>6

LEMMA MarkStep ==
  ASSUME AuthorityInv, TypeInv', NEW t \in Txn, NEW kind \in Kinds,
         NEW written \in BOOLEAN, mark_projected_write(t, kind, written)
  PROVE  AuthorityInv'
<1> DEFINE r == [type |-> kind, txn |-> t, seq |-> 0, key |-> NoKey]
<1>1. /\ up /\ stage = "idle" /\ t \in commits
      /\ log' = log \/ log' = Append(log, r)
      /\ stage' \in {"idle", "mark"}
      /\ UNCHANGED <<synced, format, cache, authority, up, prepares, commits,
                     decisions, answer>>
  BY DEF mark_projected_write, Unlocked, maps
<1>2. r \in Record /\ r.type # "COMMIT" /\ r.txn = t
  BY DEF Record, Keys, Kinds
<1>3. TypeInv
  BY DEF AuthorityInv
<1>4. Len(log) \in Nat /\ authority.lsn \in Nat
  <2>1. log \in Seq(Record) /\ authority \in Checkpoint
    BY <1>3 DEF TypeInv, TypeOK, DiskType
  <2> QED BY <2>1 DEF Checkpoint
<1> HIDE DEF r
<1>5. /\ Len(log') \in Nat /\ Len(log) <= Len(log')
      /\ \A i \in 1 .. Len(log) : log'[i] = log[i]
      /\ \A i \in 1 .. Len(log') : i \in 1 .. Len(log) \/ log'[i].txn = t
      /\ Logged("COMMIT")' = Logged("COMMIT")
      /\ Durable("COMMIT")' = Durable("COMMIT")
  <2>1. CASE log' = log
    BY <1>1, <1>4, <2>1 DEF Logged, Durable
  <2>2. CASE log' = Append(log, r)
    BY <1>1, <1>2, <1>3, <1>4, <2>2, LoggedAppend
  <2> QED BY <1>1, <2>1, <2>2
<1>6. t \in Known
  BY <1>1 DEF AuthorityInv, CommitsPrepared, Known
<1>7. LogKnown'
  BY <1>1, <1>5, <1>6 DEF AuthorityInv, LogKnown, Known, TxnsOf
<1>8. CacheCovers' /\ CommitsPrepared'
  BY <1>1 DEF AuthorityInv, CacheCovers, CommitsPrepared, TxnsOf
<1>9. AuthorityCovers'
  BY <1>1, <1>4, <1>5 DEF AuthorityInv, AuthorityCovers, TxnsOf
<1>10. InFlight' /\ MigrationReplays'
  BY <1>1 DEF InFlight, MigrationReplays
<1>11. AnswersDurable'
  BY <1>1, <1>5 DEF AuthorityInv, AnswersDurable
<1> QED BY <1>7, <1>8, <1>9, <1>10, <1>11 DEF AuthorityInv

LEMMA MarkSyncStep ==
  ASSUME AuthorityInv, TypeInv',
         mark_projected_sync \/ mark_projected_sync_fails
  PROVE  AuthorityInv'
<1>1. CASE mark_projected_sync
  <2>1. /\ fsync /\ stage = "mark" /\ stage' = "idle"
        /\ UNCHANGED <<log, format, cache, authority, up, prepares, commits,
                       decisions, answer>>
    BY <1>1 DEF mark_projected_sync
  <2>2. /\ LogKnown' /\ CacheCovers' /\ AuthorityCovers' /\ MigrationReplays'
        /\ Logged("COMMIT")' = Logged("COMMIT")
        /\ Durable("COMMIT") \subseteq Durable("COMMIT")'
    BY <2>1, SyncStep
  <2>3. InFlight' /\ CommitsPrepared' /\ AnswersDurable'
    BY <2>1, <2>2 DEF AuthorityInv, InFlight, CommitsPrepared, AnswersDurable,
                      TxnsOf
  <2> QED BY <2>2, <2>3 DEF AuthorityInv
<1>2. CASE mark_projected_sync_fails
  <2>1. /\ stage = "mark" /\ stage' = "idle"
        /\ UNCHANGED <<disk, up, maps, answer>>
    BY <1>2 DEF mark_projected_sync_fails
  <2>2. LogKnown' /\ CacheCovers' /\ AuthorityCovers' /\ CommitsPrepared'
    BY <2>1 DEF AuthorityInv, LogKnown, CacheCovers, AuthorityCovers,
                CommitsPrepared, Known, TxnsOf, disk, maps
  <2>3. InFlight' /\ MigrationReplays' /\ AnswersDurable'
    BY <2>1 DEF AuthorityInv, InFlight, MigrationReplays, AnswersDurable,
                Logged, Durable, disk
  <2> QED BY <2>2, <2>3 DEF AuthorityInv
<1> QED BY <1>1, <1>2

LEMMA CrashStep ==
  ASSUME AuthorityInv, TypeInv', kill \/ power_loss
  PROVE  AuthorityInv'
<1>1. /\ up' = FALSE /\ stage' = "idle" /\ commits' = {}
      /\ UNCHANGED <<format, cache, authority, answer>>
  BY DEF kill, power_loss, forget
<1>2. /\ \A i \in 1 .. Len(log') : i \in 1 .. Len(log) /\ log'[i] = log[i]
      /\ Logged("COMMIT")' \subseteq Logged("COMMIT")
      /\ Durable("COMMIT") \subseteq Durable("COMMIT")'
  BY CrashLog DEF AuthorityInv
<1>3. LogKnown' /\ CacheCovers' /\ CommitsPrepared' /\ InFlight'
      /\ MigrationReplays'
  BY <1>1 DEF AuthorityInv, LogKnown, CacheCovers, CommitsPrepared, InFlight,
              MigrationReplays, TxnsOf
<1>4. AuthorityCovers'
  BY <1>1, <1>2 DEF AuthorityInv, AuthorityCovers, TxnsOf
<1>5. AnswersDurable'
  BY <1>1, <1>2 DEF AuthorityInv, AnswersDurable
<1> QED BY <1>3, <1>4, <1>5 DEF AuthorityInv

\* Whichever checkpoint open() starts from covers its part of the log.
LEMMA RecoveryBaseCovers ==
  ASSUME AuthorityInv
  PROVE  \A i \in 1 .. Len(log) :
           i <= recovery_base.lsn =>
             log[i].txn \in TxnsOf(recovery_base.decisions)
<1>1. CASE format = 3
  BY <1>1 DEF AuthorityInv, AuthorityCovers, recovery_base
<1>2. CASE format # 3 /\ cache_matches
  <2>1. recovery_base = cache
    BY <1>2 DEF recovery_base
  <2>2. /\ log \in Seq(Record) /\ cache.lsn \in Nat /\ cache.lsn <= Len(log)
        /\ SubSeq(log, 1, cache.lsn) = cache.prefix
    BY <1>2 DEF cache_matches, AuthorityInv, TypeInv, TypeOK, DiskType,
                Checkpoint
  <2>3. /\ Len(cache.prefix) = cache.lsn
        /\ \A i \in 1 .. cache.lsn : cache.prefix[i] = log[i]
    BY <2>2
  <2> QED BY <2>1, <2>2, <2>3 DEF AuthorityInv, CacheCovers
<1>3. CASE format # 3 /\ ~cache_matches
  <2>1. recovery_base.lsn = 0
    BY <1>3 DEF recovery_base, NoCheckpoint
  <2> QED BY <2>1
<1> QED BY <1>1, <1>2, <1>3

LEMMA OpenStep ==
  ASSUME AuthorityInv, TypeInv', NEW expired \in BOOLEAN,
         open_inner(expired)
  PROVE  AuthorityInv'
<1> DEFINE b == recovery_base
           cp == [prefix |-> log, lsn |-> Len(log),
                  next_sequence |-> next_sequence',
                  max_committed_sequence |-> max_committed_sequence',
                  committed_count |-> committed_count',
                  decisions |-> decisions']
<1>1. /\ ~up /\ open_succeeds
      /\ install(b)
      /\ \/ ReplayedOpen(b) = {} /\ store_checkpoint(cp)
         \/ UNCHANGED <<cache, authority>>
      /\ UNCHANGED <<log, synced, format, stage, answer>>
  BY DEF open_inner
<1>2. /\ b \in Checkpoint /\ replay_accepts(b) /\ TypeInv
      /\ \A i \in 1 .. Len(log) :
           i <= b.lsn => log[i].txn \in TxnsOf(b.decisions)
  BY <1>1, RecoveryBaseType, RecoveryBaseCovers
  DEF AuthorityInv, open_succeeds
<1>3. /\ cp \in Checkpoint
      /\ cp.prefix = log /\ cp.lsn = Len(log) /\ cp.decisions = decisions'
  <2>1. /\ log \in Seq(Record) /\ Len(log) \in Nat
        /\ decisions' \subseteq Decision
        /\ next_sequence' \in Nat /\ max_committed_sequence' \in Nat
        /\ committed_count' \in Nat
    BY <1>2, SMTT(30) DEF TypeInv, TypeOK, DiskType, MapsType, CountersType
  <2> QED BY <2>1 DEF Checkpoint
<1>4. format = 3 => authority.lsn <= Len(log)
  BY <1>1 DEF open_succeeds
<1> HIDE DEF b, cp
<1>5. /\ \A i \in 1 .. Len(log) :
           log[i].txn \in TxnsOf(prepares') \cup TxnsOf(decisions')
      /\ CommitsPrepared'
  BY <1>1, <1>2, ReplayKnown
<1>6. LogKnown'
  BY <1>1, <1>5 DEF LogKnown, Known, TxnsOf
<1>7. stage = "idle"
  BY <1>1, <1>2 DEF TypeInv, StageOwned
<1>8. CacheCovers' /\ AuthorityCovers'
  <2>1. CASE UNCHANGED <<cache, authority>>
    BY <1>1, <1>4, <1>7, <2>1 DEF AuthorityInv, CacheCovers, AuthorityCovers,
                                  TxnsOf
  <2>2. CASE ReplayedOpen(b) = {} /\ store_checkpoint(cp)
    <3>1. prepares' = {}
      BY <1>1, <2>2 DEF install
    <3>2. \A i \in 1 .. Len(log) : log[i].txn \in TxnsOf(decisions')
      BY <1>5, <3>1 DEF TxnsOf
    <3>3. /\ CacheCovers'
          /\ format = 3 =>
               /\ authority'.lsn = Len(log)
               /\ \A i \in 1 .. Len(log) :
                    log[i].txn \in TxnsOf(authority'.decisions)
      BY <1>3, <2>2, <3>2, StoreCovers DEF AuthorityInv
    <3>4. Len(log) <= Len(log)
      BY <1>2 DEF TypeInv, TypeOK, DiskType
    <3> QED BY <1>1, <1>7, <3>3, <3>4 DEF AuthorityCovers, TxnsOf
  <2> QED BY <1>1, <2>1, <2>2
<1>9. InFlight' /\ MigrationReplays'
  BY <1>1, <1>7 DEF InFlight, MigrationReplays
<1>10. AnswersDurable'
  BY <1>1 DEF AuthorityInv, AnswersDurable, Logged, Durable
<1> QED BY <1>5, <1>6, <1>8, <1>9, <1>10 DEF AuthorityInv

\* A migration that finds nothing open decides every transaction of the log.
LEMMA MigrationDecides ==
  ASSUME TypeInv, replay_accepts(NoCheckpoint), ReplayedOpen(NoCheckpoint) = {},
         NEW i \in 1 .. Len(log)
  PROVE  log[i].txn \in TxnsOf(finish_recovery(NoCheckpoint))
<1> DEFINE b == NoCheckpoint
<1>1. b \in Checkpoint
  BY NoCheckpointType
<1>2. i \in Suffix(b)
  BY DEF Suffix, NoCheckpoint, TypeInv, TypeOK, DiskType
<1>3. PICK j \in Suffix(b) :
             log[j].type = "PREPARE" /\ log[j].txn = log[i].txn
  BY <1>1, <1>2, ReplayPrepared
<1> DEFINE q == [txn |-> log[j].txn, seq |-> log[j].seq, key |-> log[j].key]
<1>4. q \in ReplayedPrepares(b) /\ q.txn = log[i].txn
  BY <1>3 DEF ReplayedPrepares, Replayed
<1> HIDE DEF b, q
<1>5. decide(q, ReplayedTxns(b, "COMMIT")) \in finish_recovery(b)
  BY <1>4 DEF finish_recovery, b
<1>6. decide(q, ReplayedTxns(b, "COMMIT")).txn = log[i].txn
  BY <1>4 DEF decide
<1> QED BY <1>5, <1>6 DEF TxnsOf, b

LEMMA MigrateStep ==
  ASSUME AuthorityInv, TypeInv', migrate_publish \/ migrate_activate
  PROVE  AuthorityInv'
<1>1. TypeInv
  BY DEF AuthorityInv
<1>2. CASE migrate_publish
  <2>1. /\ fsync /\ up /\ stage = "idle" /\ stage' = "migrate"
        /\ replay_accepts(NoCheckpoint) /\ ReplayedOpen(NoCheckpoint) = {}
        /\ authority'.lsn = Len(log)
        /\ authority'.decisions = finish_recovery(NoCheckpoint)
        /\ UNCHANGED <<log, format, cache, up, prepares, commits, decisions,
                       answer>>
    BY <1>2 DEF migrate_publish, Unlocked, maps
  <2>2. AuthorityCovers'
    <3>1. Len(log) <= Len(log)
      BY <1>1 DEF TypeInv, TypeOK, DiskType
    <3> QED BY <1>1, <2>1, <3>1, MigrationDecides DEF AuthorityCovers, TxnsOf
  <2>3. LogKnown' /\ CacheCovers' /\ CommitsPrepared' /\ InFlight'
    BY <2>1 DEF AuthorityInv, LogKnown, CacheCovers, CommitsPrepared, InFlight,
                Known, TxnsOf
  <2>4. MigrationReplays'
    BY <2>1 DEF MigrationReplays, replay_accepts, apply_record_accepts, Suffix,
                Before, TxnsOf, KeysOf
  <2>5. AnswersDurable'
    BY <1>1, <2>1, DurableSync, DurableLogged DEF AuthorityInv, AnswersDurable
  <2> QED BY <2>2, <2>3, <2>4, <2>5 DEF AuthorityInv
<1>3. CASE migrate_activate
  <2>1. /\ up /\ stage = "migrate" /\ stage' = "idle"
        /\ install(NoCheckpoint)
        /\ UNCHANGED <<log, synced, cache, authority, up, answer>>
    BY <1>3 DEF migrate_activate
  <2>2. replay_accepts(NoCheckpoint)
    BY <2>1 DEF AuthorityInv, MigrationReplays
  <2>3. NoCheckpoint.lsn = 0
    BY DEF NoCheckpoint
  <2>4. \A i \in 1 .. Len(log) :
           i <= NoCheckpoint.lsn => log[i].txn \in TxnsOf(NoCheckpoint.decisions)
    BY <2>3
  <2>5. /\ \A i \in 1 .. Len(log) :
             log[i].txn \in TxnsOf(prepares') \cup TxnsOf(decisions')
        /\ CommitsPrepared'
    BY <1>1, <2>1, <2>2, <2>4, NoCheckpointType, ReplayKnown
  <2>6. LogKnown'
    BY <2>1, <2>5 DEF LogKnown, Known, TxnsOf
  <2>7. CacheCovers' /\ AuthorityCovers'
    BY <2>1 DEF AuthorityInv, CacheCovers, AuthorityCovers, TxnsOf
  <2>8. InFlight' /\ MigrationReplays' /\ AnswersDurable'
    BY <2>1 DEF AuthorityInv, InFlight, MigrationReplays, AnswersDurable,
                Logged, Durable
  <2> QED BY <2>5, <2>6, <2>7, <2>8 DEF AuthorityInv
<1> QED BY <1>2, <1>3

LEMMA AuthorityStep == AuthorityInv /\ [Next]_vars => AuthorityInv'
<1> SUFFICES ASSUME AuthorityInv, [Next]_vars PROVE AuthorityInv'
  OBVIOUS
<1>0. TypeInv'
  BY TypeStep DEF AuthorityInv
<1>1. ASSUME NEW k \in Key, begin_idempotent(k) \/ drop_guard(k)
      PROVE AuthorityInv'
  BY <1>0, <1>1, QuietStep DEF begin_idempotent, drop_guard
<1>2. ASSUME NEW t \in Txn, NEW k \in Keys, NEW written \in BOOLEAN,
             commit_inner_begin(t, k, written)
      PROVE AuthorityInv'
  BY <1>0, <1>2, CommitBeginStep
<1>3. ASSUME NEW t \in Txn, NEW k \in Key, commit_inner_refused(t, k)
      PROVE AuthorityInv'
  BY <1>0, <1>3, QuietStep DEF commit_inner_refused
<1>4. CASE \/ sync_prepare \/ sync_prepare_fails
           \/ write_commit \/ write_commit_fails
           \/ sync_commit \/ sync_commit_fails
  BY <1>0, <1>4, CommitStepsStep
<1>5. ASSUME NEW t \in Txn, NEW kind \in Kinds, NEW written \in BOOLEAN,
             mark_projected_write(t, kind, written)
      PROVE AuthorityInv'
  BY <1>0, <1>5, MarkStep
<1>6. CASE mark_projected_sync \/ mark_projected_sync_fails
  BY <1>0, <1>6, MarkSyncStep
<1>7. ASSUME NEW expired \in BOOLEAN, checkpoint_completed_frontier(expired)
      PROVE AuthorityInv'
  BY <1>0, <1>7, CheckpointStep
<1>8. CASE kill \/ power_loss
  BY <1>0, <1>8, CrashStep
<1>9. ASSUME NEW expired \in BOOLEAN, open_inner(expired)
      PROVE AuthorityInv'
  BY <1>0, <1>9, OpenStep
<1>10. CASE migrate_publish \/ migrate_activate
  BY <1>0, <1>10, MigrateStep
<1>11. CASE UNCHANGED vars
  BY <1>0, <1>11, QuietStep DEF vars
<1> QED BY <1>1, <1>2, <1>3, <1>4, <1>5, <1>6, <1>7, <1>8, <1>9, <1>10, <1>11
  DEF Next

(***************************************************************************)
(* Refinement.                                                             *)
(***************************************************************************)
LEMMA DurableGrows ==
  ASSUME AuthorityInv, [Next]_vars
  PROVE  Durable("COMMIT") \subseteq Durable("COMMIT")'
<1>1. TypeInv /\ TypeInv'
  BY TypeStep DEF AuthorityInv
<1>2. /\ log \in Seq(Record) /\ Len(log) \in Nat /\ synced \in Nat
      /\ synced <= Len(log)
      /\ synced' \in Nat /\ synced' <= Len(log') /\ Len(log') \in Nat
  BY <1>1 DEF TypeInv, TypeOK, DiskType
<1>3. CASE kill \/ power_loss
  BY <1>1, <1>3, CrashLog
<1>4. CASE UNCHANGED <<log, synced>>
  BY <1>4 DEF Durable
<1>5. CASE log' = log /\ fsync
  BY <1>1, <1>5, DurableSync, DurableLogged
<1>6. CASE \E r \in Record : log' = Append(log, r) /\ synced' = synced
  BY <1>1, <1>6, LoggedAppend
<1>7. ASSUME NEW t \in Txn, NEW k \in Keys, NEW written \in BOOLEAN,
             commit_inner_begin(t, k, written)
      PROVE  \/ UNCHANGED <<log, synced>>
             \/ \E r \in Record : log' = Append(log, r) /\ synced' = synced
  <2> DEFINE r == [type |-> "PREPARE", txn |-> t, seq |-> next_sequence + 1,
                   key |-> k]
  <2>1. (log' = log \/ log' = Append(log, r)) /\ synced' = synced
    BY <1>7 DEF commit_inner_begin
  <2>2. r \in Record
    BY <1>1 DEF TypeInv, TypeOK, CountersType, Record
  <2> QED BY <2>1, <2>2
<1>8. ASSUME NEW t \in Txn, NEW kind \in Kinds, NEW written \in BOOLEAN,
             mark_projected_write(t, kind, written)
      PROVE  \/ UNCHANGED <<log, synced>>
             \/ \E r \in Record : log' = Append(log, r) /\ synced' = synced
  <2> DEFINE r == [type |-> kind, txn |-> t, seq |-> 0, key |-> NoKey]
  <2>1. (log' = log \/ log' = Append(log, r)) /\ synced' = synced
    BY <1>8 DEF mark_projected_write
  <2>2. r \in Record
    BY DEF Record, Keys
  <2> QED BY <2>1, <2>2
<1>9. ASSUME write_commit
      PROVE  \E r \in Record : log' = Append(log, r) /\ synced' = synced
  <2> DEFINE r == [type |-> "COMMIT", txn |-> current.txn,
                   seq |-> current.seq, key |-> NoKey]
  <2>1. log' = Append(log, r) /\ synced' = synced
    BY <1>9 DEF write_commit
  <2>2. r \in Record
    BY <1>1, <1>9 DEF TypeInv, TypeOK, ProcessType, Operand, StageOwned,
                      Record, Keys, write_commit
  <2> QED BY <2>1, <2>2
<1>10. CASE sync_prepare \/ sync_commit \/ mark_projected_sync \/ migrate_publish
  BY <1>5, <1>10 DEF sync_prepare, sync_commit, mark_projected_sync,
                     migrate_publish
<1>11. ASSUME NEW k \in Key, begin_idempotent(k) \/ drop_guard(k)
       PROVE  UNCHANGED <<log, synced>>
  BY <1>11 DEF begin_idempotent, drop_guard, disk
<1>12. ASSUME NEW t \in Txn, NEW k \in Key, commit_inner_refused(t, k)
       PROVE  UNCHANGED <<log, synced>>
  BY <1>12 DEF commit_inner_refused, disk
<1>13. CASE \/ sync_prepare_fails \/ write_commit_fails \/ sync_commit_fails
            \/ mark_projected_sync_fails \/ migrate_activate \/ UNCHANGED vars
  BY <1>4, <1>13
  DEF sync_prepare_fails, write_commit_fails, sync_commit_fails,
      mark_projected_sync_fails, migrate_activate, vars, disk
<1>14. ASSUME NEW expired \in BOOLEAN,
              checkpoint_completed_frontier(expired) \/ open_inner(expired)
       PROVE  UNCHANGED <<log, synced>>
  BY <1>14 DEF checkpoint_completed_frontier, open_inner
<1> QED
  BY <1>3, <1>4, <1>6, <1>7, <1>8, <1>9, <1>10, <1>11, <1>12, <1>13, <1>14
  DEF Next

\* A step answers at most one caller, and only one that has no answer yet.
LEMMA AnswerOnce ==
  ASSUME AuthorityInv, [Next]_vars
  PROVE  \/ answer' = answer
         \/ \E t \in Txn, a \in Answers \ {"none"} :
              answer[t] = "none" /\ answer' = [answer EXCEPT ![t] = a]
<1>1. ASSUME NEW t \in Txn, NEW k \in Keys, NEW written \in BOOLEAN,
             commit_inner_begin(t, k, written)
      PROVE  \/ answer' = answer
             \/ answer[t] = "none" /\ answer' = [answer EXCEPT ![t] = "failed"]
  BY <1>1 DEF commit_inner_begin
<1>2. ASSUME \/ sync_prepare_fails \/ write_commit_fails
             \/ sync_commit \/ sync_commit_fails
      PROVE  /\ current.txn \in Txn /\ answer[current.txn] = "none"
             /\ \E a \in {"failed", "unknown", "committed"} :
                  answer' = [answer EXCEPT ![current.txn] = a]
  <2>1. stage \in {"prepare", "prepared", "commit"}
    BY <1>2 DEF sync_prepare_fails, write_commit_fails, sync_commit,
                sync_commit_fails
  <2>2. current.txn \in Txn /\ answer[current.txn] = "none"
    BY <2>1 DEF AuthorityInv, InFlight, TypeInv, StageOwned
  <2>3. \E a \in {"failed", "unknown", "committed"} :
          answer' = [answer EXCEPT ![current.txn] = a]
    BY <1>2 DEF sync_prepare_fails, write_commit_fails, sync_commit,
                sync_commit_fails, commit_fails
  <2> QED BY <2>2, <2>3
<1>3. ASSUME NEW k \in Key, begin_idempotent(k) \/ drop_guard(k)
      PROVE  answer' = answer
  BY <1>3 DEF begin_idempotent, drop_guard
<1>4. ASSUME NEW t \in Txn, NEW k \in Key, commit_inner_refused(t, k)
      PROVE  answer' = answer
  BY <1>4 DEF commit_inner_refused
<1>5. ASSUME NEW t \in Txn, NEW kind \in Kinds, NEW written \in BOOLEAN,
             mark_projected_write(t, kind, written)
      PROVE  answer' = answer
  BY <1>5 DEF mark_projected_write
<1>6. ASSUME \/ sync_prepare \/ write_commit \/ mark_projected_sync
             \/ mark_projected_sync_fails \/ kill \/ power_loss
             \/ migrate_publish \/ migrate_activate \/ UNCHANGED vars
      PROVE  answer' = answer
  BY <1>6
  DEF sync_prepare, write_commit, mark_projected_sync,
      mark_projected_sync_fails, kill, power_loss, forget, migrate_publish,
      migrate_activate, vars
<1>7. ASSUME NEW expired \in BOOLEAN,
             checkpoint_completed_frontier(expired) \/ open_inner(expired)
      PROVE  answer' = answer
  BY <1>7 DEF checkpoint_completed_frontier, open_inner
<1> QED BY <1>1, <1>2, <1>3, <1>4, <1>5, <1>6, <1>7 DEF Next, Answers

LEMMA RefinementStep ==
  ASSUME AuthorityInv, AuthorityInv', [Next]_vars
  PROVE  Authority!Step
<1>1. Durable("COMMIT") \subseteq Durable("COMMIT")'
  BY DurableGrows
<1>2. Durable("COMMIT")' \subseteq Logged("COMMIT")' /\ Durable("COMMIT")' \subseteq Txn
  <2>1. /\ log' \in Seq(Record) /\ Len(log') \in Nat /\ synced' \in Nat
        /\ synced' <= Len(log')
    BY DEF AuthorityInv, TypeInv, TypeOK, DiskType
  <2>2. Durable("COMMIT")' \subseteq Logged("COMMIT")'
    BY <2>1 DEF Durable, Logged
  <2>3. \A i \in 1 .. Len(log') : log'[i] \in Record
    BY <2>1
  <2> QED BY <2>1, <2>2, <2>3 DEF Durable, Record
<1>3. \A t \in Txn :
        /\ answer'[t] = "committed" => t \in Durable("COMMIT")'
        /\ answer'[t] = "failed" => t \notin Durable("COMMIT")'
  BY <1>2 DEF AuthorityInv, AnswersDurable
<1>4. \A t \in Durable("COMMIT")' \ Durable("COMMIT") : answer'[t] # "failed"
  BY <1>2, <1>3
<1>5. answer \in [Txn -> Answers]
  BY DEF AuthorityInv, TypeInv, TypeOK
<1>6. CASE answer' = answer
  BY <1>1, <1>4, <1>6 DEF Authority!Step
<1>7. ASSUME NEW t \in Txn, NEW a \in Answers \ {"none"}, answer[t] = "none",
             answer' = [answer EXCEPT ![t] = a]
      PROVE  Authority!Step
  <2>1. answer'[t] = a
    BY <1>5, <1>7
  <2>2. /\ a = "committed" => t \in Durable("COMMIT")'
        /\ a = "failed" => t \notin Durable("COMMIT")'
    BY <1>3, <2>1
  <2> QED BY <1>1, <1>4, <1>7, <2>2 DEF Authority!Step, Authority!Answers, Answers
<1> QED BY <1>6, <1>7, AnswerOnce

\* The journal is a commit authority: a COMMIT record in the synced log stays
\* there through every crash, commit() answers success only after it and an
\* ordinary error only when the record will never exist.
THEOREM JournalImplementsAuthority == Spec => ImplementsCommitAuthority
<1>1. Spec => []AuthorityInv
  BY AuthorityInit, AuthorityStep, PTL DEF Spec
<1>2. Init => Authority!Init
  <2> SUFFICES ASSUME Init PROVE Authority!Init
    OBVIOUS
  <2>1. synced = 0
    BY DEF Init
  <2>2. Durable("COMMIT") = {}
    BY <2>1 DEF Durable
  <2> QED BY <2>2 DEF Init, Authority!Init
<1>3. AuthorityInv /\ AuthorityInv' /\ [Next]_vars
        => [Authority!Step]_<<Durable("COMMIT"), answer>>
  BY RefinementStep
<1> QED BY <1>1, <1>2, <1>3, PTL
  DEF Spec, ImplementsCommitAuthority, Authority!Spec
=============================================================================
