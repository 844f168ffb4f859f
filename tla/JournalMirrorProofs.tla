------------------------ MODULE JournalMirrorProofs ------------------------
(***************************************************************************)
(* The maps, counters and checkpoints of the journal against its log, for  *)
(* every set of transactions and keys, every mix of crashes and every      *)
(* limit.                                                                  *)
(*                                                                         *)
(* The invariant MirrorInv says that the whole log replays (LogAccepted),  *)
(* that a checkpoint is the summary of the part of the log it covers       *)
(* (CacheSums, AuthoritySums), and that the maps and counters of a live    *)
(* journal mirror the log (MapsMirror, CountersSo), up to the operation    *)
(* that holds the mutex (OperationMirror) and to what failed writes leave  *)
(* (MarksKnown, UnknownAnswered).  Its hardest step is open(): a summary   *)
(* of a prefix and the replay of the rest give what the replay of the      *)
(* whole log gives (SameReplay), and that mirrors the log (RebuiltMirror). *)
(*                                                                         *)
(* LastInv, for an environment with one kind of crash, adds that no crash  *)
(* takes back what a checkpoint covers; from it open() always succeeds.    *)
(***************************************************************************)
EXTENDS CommitAuthorityProofs, FunctionTheorems

(***************************************************************************)
(* The log as sets of records, and what replay accepts, for any log L.     *)
(***************************************************************************)
Of(L, type) == {L[i] : i \in {j \in 1 .. Len(L) : L[j].type = type}}
TxnsIn(L, type) == TxnsOf(Of(L, type))

\* The record that prepared what an entry of the maps is about.
Rec(x) == [type |-> "PREPARE", txn |-> x.txn, seq |-> x.seq, key |-> x.key]

\* The fields of a PREPARE record that the maps keep.
Entry(r) == [txn |-> r.txn, seq |-> r.seq, key |-> r.key]

PrepareAccepted(L, i) ==
  /\ L[i].seq > 0
  /\ \A j \in 1 .. i - 1 :
       L[j].type = "PREPARE" =>
         /\ L[j].txn # L[i].txn
         /\ L[j].seq < L[i].seq
         /\ L[i].key # NoKey => L[j].key # L[i].key

CommitAccepted(L, i) ==
  /\ \E j \in 1 .. i - 1 :
       L[j].type = "PREPARE" /\ L[j].txn = L[i].txn /\ L[j].seq = L[i].seq
  /\ \A j \in 1 .. i - 1 : L[j].type = "COMMIT" => L[j].txn # L[i].txn

MarkAccepted(L, i) ==
  /\ \E j \in 1 .. i - 1 : L[j].type = "COMMIT" /\ L[j].txn = L[i].txn
  /\ \A j \in 1 .. i - 1 : L[j].type = L[i].type => L[j].txn # L[i].txn

\* The whole of L replays.
Accepts(L) ==
  \A i \in 1 .. Len(L) :
    /\ L[i].type = "PREPARE" => PrepareAccepted(L, i)
    /\ L[i].type = "COMMIT" => CommitAccepted(L, i)
    /\ L[i].type \in Kinds => MarkAccepted(L, i)

\* A key is only in a log of a format that has keys.
Keyed(L, f) == \A r \in Of(L, "PREPARE") : r.key # NoKey => f > 1

\* Checkpoint b is the replay of L, in which every decision is complete.
Summary(b, L) ==
  /\ b.lsn = Len(L)
  /\ b.decisions = {decide(r, TxnsIn(L, "COMMIT")) : r \in Of(L, "PREPARE")}
  /\ TxnsIn(L, "COMMIT") \subseteq TxnsIn(L, "PREPARE")
  /\ \A kind \in Kinds : TxnsIn(L, kind) = TxnsIn(L, "COMMIT")
  /\ b.next_sequence \in Greatest({0} \cup {r.seq : r \in Of(L, "PREPARE")})
  /\ b.max_committed_sequence \in Greatest({0} \cup {r.seq : r \in Of(L, "COMMIT")})
  /\ b.committed_count = Cardinality(TxnsIn(L, "COMMIT"))

(***************************************************************************)
(* The maps of a live process mirror the log: P are the hot prepares, D    *)
(* the evicted decisions, C the hot commits, V the transactions whose      *)
(* COMMIT may be in the log without having been answered.                  *)
(***************************************************************************)
PreparesMirror(L, P, D) ==
  /\ \A r \in Of(L, "PREPARE") : \E x \in P \cup D : Rec(x) = r
  /\ \A p \in P : Rec(p) \in Of(L, "PREPARE") \/ \A type \in {"PREPARE", "COMMIT"} \cup Kinds : p.txn \notin TxnsIn(L, type)
  /\ \A d \in D : Rec(d) \in Of(L, "PREPARE")
  /\ TxnsOf(P) \cap TxnsOf(D) = {}
  /\ \A p, q \in P : p.txn = q.txn => p = q
  /\ \A p, q \in P : p.key = q.key => p.key = NoKey \/ p = q

CommitsMirror(L, P, D, C, V) ==
  /\ C \subseteq TxnsIn(L, "COMMIT")
  /\ TxnsIn(L, "COMMIT") \subseteq C \cup V \cup TxnsOf(D)
  /\ C \cup V \subseteq TxnsOf(P)
  /\ C \cap V = {}
  /\ \A d \in D : d.state = "Committed" <=> d.txn \in TxnsIn(L, "COMMIT")
  /\ \A d \in D, kind \in Kinds : d.state = "Committed" => d.txn \in TxnsIn(L, kind)

MarksMirror(L, C, X, K) ==
  /\ X \subseteq C \X Kinds
  /\ \A x \in X : x[1] \in TxnsIn(L, x[2])
  /\ K \X Kinds \subseteq X

\* I are the consumed keys of the hot prepares.
Mirror(L, P, D, C, V, X, K, I) ==
  /\ P \subseteq Prepare /\ D \subseteq Decision /\ C \subseteq Txn
  /\ X \subseteq Txn \X Kinds
  /\ PreparesMirror(L, P, D)
  /\ CommitsMirror(L, P, D, C, V)
  /\ MarksMirror(L, C, X, K)
  /\ KeysOf(P) \subseteq I

Unprojected(C, X, kind) == {t \in C : <<t, kind>> \notin X}
Decided(D, C) == C \cup TxnsOf({d \in D : d.state = "Committed"})
DecidedSeqs(P, D, C) ==
  {p.seq : p \in {q \in P : q.txn \in C}} \cup
  {d.seq : d \in {e \in D : e.state = "Committed"}}
AllSeqs(P, D) == {p.seq : p \in P} \cup {d.seq : d \in D}

CountersMirror(P, D, C, X, count, next, max, storage, audit) ==
  /\ count = Cardinality(Decided(D, C))
  /\ next \in Greatest({0} \cup AllSeqs(P, D))
  /\ max \in Greatest({0} \cup DecidedSeqs(P, D, C))
  /\ storage = Cardinality(Unprojected(C, X, "storage"))
  /\ audit = Cardinality(Unprojected(C, X, "audit"))

Undecided == unknown \cup IF stage = "commit" THEN {current.txn} ELSE {}

LogAccepted == Accepts(log) /\ Keyed(log, format)
CacheSums == Summary(cache, cache.prefix)
AuthoritySums ==
  (format = 3 \/ stage = "migrate") /\ authority.lsn <= Len(log) =>
    Summary(authority, SubSeq(log, 1, authority.lsn))

MapsMirror ==
  up => Mirror(log, prepares, decisions, commits, Undecided, projections,
               completed, idempotency)

CountersSo ==
  up => CountersMirror(prepares, decisions, commits, projections, committed_count,
                       next_sequence, max_committed_sequence, pending_storage, pending_audit)

\* The operation that holds the mutex.
OperationMirror ==
  /\ stage \in {"prepare", "prepared", "commit"} =>
       /\ Entry(current) \in prepares
       /\ Rec(current) \in Of(log, "PREPARE")
       /\ current.seq = next_sequence
       /\ current.txn \notin commits \cup unknown
  /\ stage = "commit" => \A kind \in Kinds : current.txn \notin TxnsIn(log, kind)
  /\ stage = "mark" =>
       /\ current.txn \in commits
       /\ <<current.txn, current.kind>> \notin projections
       /\ current.txn \in TxnsIn(log, current.kind)
  /\ stage \in {"prepare", "prepared", "commit", "mark", "migrate"} => ~poisoned

\* Without a failed write, a projection in the log is one in memory.
MarksKnown ==
  up /\ ~poisoned =>
    \A t \in commits, kind \in Kinds :
      t \in TxnsIn(log, kind) =>
        <<t, kind>> \in projections \/ (stage = "mark" /\ t = current.txn /\ kind = current.kind)

UnknownAnswered == \A t \in unknown : answer[t] = "unknown"

MirrorInv ==
  /\ AuthorityInv
  /\ LogAccepted /\ CacheSums /\ AuthoritySums
  /\ MapsMirror /\ CountersSo /\ OperationMirror /\ MarksKnown /\ UnknownAnswered

(***************************************************************************)
(* The records of a log.                                                   *)
(***************************************************************************)
\* What a log that replays says of its records, without their order.
Sound(L) ==
  /\ \A r, s \in Of(L, "PREPARE") :
       r.txn = s.txn \/ r.seq = s.seq \/ (r.key = s.key /\ r.key # NoKey) => r = s
  /\ \A r \in Of(L, "PREPARE") : r.seq > 0
  /\ \A r \in Of(L, "COMMIT") :
       \E s \in Of(L, "PREPARE") : s.txn = r.txn /\ s.seq = r.seq
  /\ \A kind \in Kinds : TxnsIn(L, kind) \subseteq TxnsIn(L, "COMMIT")

LEMMA OfType ==
  ASSUME NEW L \in Seq(Record), NEW type
  PROVE  /\ Of(L, type) \subseteq Record
         /\ \A r \in Of(L, type) : r.type = type
         /\ TxnsIn(L, type) \subseteq Txn
<1>1. \A i \in 1 .. Len(L) : L[i] \in Record
  OBVIOUS
<1>2. \A r \in Of(L, type) : r \in Record /\ r.type = type
  BY <1>1 DEF Of
<1>3. \A r \in Record : r.txn \in Txn
  BY DEF Record
<1> QED BY <1>2, <1>3 DEF TxnsIn, TxnsOf

LEMMA OfLogged ==
  ASSUME NEW type
  PROVE  TxnsIn(log, type) = Logged(type)
  BY DEF TxnsIn, TxnsOf, Of, Logged

LEMMA AcceptsSound ==
  ASSUME NEW L \in Seq(Record), Accepts(L)
  PROVE  Sound(L)
<1>0. Len(L) \in Nat /\ \A i \in 1 .. Len(L) : L[i] \in Record
  OBVIOUS
<1>1. \A i \in 1 .. Len(L) : L[i].type = "PREPARE" => PrepareAccepted(L, i)
  BY DEF Accepts
<1>2. \A i \in 1 .. Len(L) : L[i].type = "COMMIT" => CommitAccepted(L, i)
  BY DEF Accepts
<1>3. \A i \in 1 .. Len(L) : L[i].type \in Kinds => MarkAccepted(L, i)
  BY DEF Accepts
<1>4. ASSUME NEW r \in Of(L, "PREPARE"), NEW s \in Of(L, "PREPARE"),
             r.txn = s.txn \/ r.seq = s.seq \/ (r.key = s.key /\ r.key # NoKey)
      PROVE  r = s
  <2>1. PICK i \in 1 .. Len(L) : r = L[i] /\ L[i].type = "PREPARE"
    BY DEF Of
  <2>2. PICK j \in 1 .. Len(L) : s = L[j] /\ L[j].type = "PREPARE"
    BY DEF Of
  <2>3. PrepareAccepted(L, i) /\ PrepareAccepted(L, j)
    BY <1>1, <2>1, <2>2
  <2>4. r.seq \in Nat /\ s.seq \in Nat
    BY <1>0, <2>1, <2>2 DEF Record
  <2>5. ~ i < j
    BY <1>4, <2>1, <2>2, <2>3, <2>4 DEF PrepareAccepted
  <2>6. ~ j < i
    BY <1>4, <2>1, <2>2, <2>3, <2>4 DEF PrepareAccepted
  <2>7. i = j
    BY <2>5, <2>6
  <2> QED BY <2>1, <2>2, <2>7
<1>5. \A r \in Of(L, "PREPARE") : r.seq > 0
  BY <1>1 DEF Of, PrepareAccepted
<1>6. ASSUME NEW r \in Of(L, "COMMIT")
      PROVE  \E s \in Of(L, "PREPARE") : s.txn = r.txn /\ s.seq = r.seq
  <2>1. PICK i \in 1 .. Len(L) : r = L[i] /\ L[i].type = "COMMIT"
    BY DEF Of
  <2>2. PICK j \in 1 .. i - 1 :
               L[j].type = "PREPARE" /\ L[j].txn = L[i].txn /\ L[j].seq = L[i].seq
    BY <1>2, <2>1 DEF CommitAccepted
  <2>3. j \in 1 .. Len(L)
    BY <1>0
  <2> QED BY <2>1, <2>2, <2>3 DEF Of
<1>7. ASSUME NEW kind \in Kinds, NEW t \in TxnsIn(L, kind)
      PROVE  t \in TxnsIn(L, "COMMIT")
  <2>1. PICK i \in 1 .. Len(L) : t = L[i].txn /\ L[i].type = kind
    BY DEF Of, TxnsIn, TxnsOf
  <2>2. PICK j \in 1 .. i - 1 : L[j].type = "COMMIT" /\ L[j].txn = L[i].txn
    BY <1>3, <2>1 DEF MarkAccepted
  <2>3. j \in 1 .. Len(L)
    BY <1>0
  <2> QED BY <2>1, <2>2, <2>3 DEF Of, TxnsIn, TxnsOf
<1> QED BY <1>4, <1>5, <1>6, <1>7 DEF Sound

\* M is L with the record r behind it.
Grown(L, M, r) ==
  /\ Of(M, r.type) = Of(L, r.type) \cup {r}
  /\ TxnsIn(M, r.type) = TxnsIn(L, r.type) \cup {r.txn}
  /\ \A type : type # r.type =>
       Of(M, type) = Of(L, type) /\ TxnsIn(M, type) = TxnsIn(L, type)

LEMMA AppendGrown ==
  ASSUME NEW L \in Seq(Record), NEW r \in Record
  PROVE  Grown(L, Append(L, r), r)
<1> DEFINE M == Append(L, r)
<1>1. /\ Len(L) \in Nat /\ Len(M) = Len(L) + 1 /\ M[Len(L) + 1] = r
      /\ \A i \in 1 .. Len(L) : M[i] = L[i]
  OBVIOUS
<1> HIDE DEF M
<1>2. \A type : type # r.type => Of(M, type) = Of(L, type)
  BY <1>1 DEF Of
<1>3. Of(M, r.type) = Of(L, r.type) \cup {r}
  BY <1>1 DEF Of
<1>4. TxnsIn(M, r.type) = TxnsIn(L, r.type) \cup {r.txn}
  BY <1>3 DEF TxnsIn, TxnsOf
<1>5. \A type : type # r.type => TxnsIn(M, type) = TxnsIn(L, type)
  BY <1>2 DEF TxnsIn
<1> QED BY <1>2, <1>3, <1>4, <1>5 DEF Grown, M

\* What replay asks of a record behind L.
Acceptable(L, r) ==
  /\ r.type = "PREPARE" =>
       /\ r.seq > 0
       /\ \A s \in Of(L, "PREPARE") :
            s.txn # r.txn /\ s.seq < r.seq /\ (r.key # NoKey => s.key # r.key)
  /\ r.type = "COMMIT" =>
       /\ \E s \in Of(L, "PREPARE") : s.txn = r.txn /\ s.seq = r.seq
       /\ r.txn \notin TxnsIn(L, "COMMIT")
  /\ r.type \in Kinds =>
       r.txn \in TxnsIn(L, "COMMIT") /\ r.txn \notin TxnsIn(L, r.type)

LEMMA AppendAccepted ==
  ASSUME NEW L \in Seq(Record), NEW r \in Record, Accepts(L), Acceptable(L, r)
  PROVE  Accepts(Append(L, r))
<1> DEFINE M == Append(L, r)
           n == Len(L) + 1
<1>1. /\ Len(L) \in Nat /\ Len(M) = n /\ M[n] = r
      /\ \A i \in 1 .. Len(L) : M[i] = L[i]
  OBVIOUS
<1> HIDE DEF M
<1>2. ASSUME NEW i \in 1 .. Len(L)
      PROVE  /\ M[i].type = "PREPARE" => PrepareAccepted(M, i)
             /\ M[i].type = "COMMIT" => CommitAccepted(M, i)
             /\ M[i].type \in Kinds => MarkAccepted(M, i)
  <2>1. M[i] = L[i] /\ \A j \in 1 .. i - 1 : M[j] = L[j]
    BY <1>1
  <2>2. M[i].type = "PREPARE" => PrepareAccepted(M, i)
    BY <2>1 DEF Accepts, PrepareAccepted
  <2>3. M[i].type = "COMMIT" => CommitAccepted(M, i)
    BY <2>1 DEF Accepts, CommitAccepted
  <2>4. M[i].type \in Kinds => MarkAccepted(M, i)
    BY <2>1 DEF Accepts, MarkAccepted
  <2> QED BY <2>2, <2>3, <2>4
<1>3. M[n].type = "PREPARE" => PrepareAccepted(M, n)
  <2>1. SUFFICES ASSUME r.type = "PREPARE" PROVE PrepareAccepted(M, n)
    BY <1>1
  <2>2. \A j \in 1 .. n - 1 : M[j] = L[j] /\ j \in 1 .. Len(L)
    BY <1>1
  <2>3. \A j \in 1 .. n - 1 : M[j].type = "PREPARE" => M[j] \in Of(L, "PREPARE")
    BY <2>2 DEF Of
  <2> QED BY <1>1, <2>1, <2>3 DEF Acceptable, PrepareAccepted
<1>4. M[n].type = "COMMIT" => CommitAccepted(M, n)
  <2>1. SUFFICES ASSUME r.type = "COMMIT" PROVE CommitAccepted(M, n)
    BY <1>1
  <2>2. \A j \in 1 .. n - 1 : M[j] = L[j] /\ j \in 1 .. Len(L)
    BY <1>1
  <2>3. \A j \in 1 .. n - 1 : M[j].type = "COMMIT" => M[j].txn \in TxnsIn(L, "COMMIT")
    BY <2>2 DEF Of, TxnsIn, TxnsOf
  <2>4. \E j \in 1 .. n - 1 :
          M[j].type = "PREPARE" /\ M[j].txn = r.txn /\ M[j].seq = r.seq
    <3>1. PICK s \in Of(L, "PREPARE") : s.txn = r.txn /\ s.seq = r.seq
      BY <2>1 DEF Acceptable
    <3>2. PICK j \in 1 .. Len(L) : L[j].type = "PREPARE" /\ s = L[j]
      BY DEF Of
    <3> QED BY <1>1, <3>1, <3>2
  <2> QED BY <1>1, <2>1, <2>3, <2>4 DEF Acceptable, CommitAccepted
<1>5. M[n].type \in Kinds => MarkAccepted(M, n)
  <2>1. SUFFICES ASSUME r.type \in Kinds PROVE MarkAccepted(M, n)
    BY <1>1
  <2>2. \A j \in 1 .. n - 1 : M[j] = L[j] /\ j \in 1 .. Len(L)
    BY <1>1
  <2>3. \A j \in 1 .. n - 1 : M[j].type = r.type => M[j].txn \in TxnsIn(L, r.type)
    BY <2>2 DEF Of, TxnsIn, TxnsOf
  <2>4. \E j \in 1 .. n - 1 : M[j].type = "COMMIT" /\ M[j].txn = r.txn
    <3>1. PICK s \in Of(L, "COMMIT") : s.txn = r.txn
      BY <2>1 DEF Acceptable, TxnsIn, TxnsOf
    <3>2. PICK j \in 1 .. Len(L) : L[j].type = "COMMIT" /\ s = L[j]
      BY DEF Of
    <3> QED BY <1>1, <3>1, <3>2
  <2> QED BY <1>1, <2>1, <2>3, <2>4 DEF Acceptable, MarkAccepted
<1>6. \A i \in 1 .. Len(M) : i \in 1 .. Len(L) \/ i = n
  BY <1>1
<1>7. Accepts(M)
  BY <1>2, <1>3, <1>4, <1>5, <1>6 DEF Accepts
<1> QED BY <1>7 DEF M

LEMMA PrefixAccepted ==
  ASSUME NEW L \in Seq(Record), NEW n \in 0 .. Len(L), Accepts(L)
  PROVE  Accepts(SubSeq(L, 1, n))
<1> DEFINE M == SubSeq(L, 1, n)
<1>1. Len(M) = n /\ n \in Nat /\ Len(L) \in Nat /\ \A i \in 1 .. n : M[i] = L[i]
  OBVIOUS
<1> HIDE DEF M
<1>2. ASSUME NEW i \in 1 .. n
      PROVE  /\ M[i].type = "PREPARE" => PrepareAccepted(M, i)
             /\ M[i].type = "COMMIT" => CommitAccepted(M, i)
             /\ M[i].type \in Kinds => MarkAccepted(M, i)
  <2>1. M[i] = L[i] /\ (\A j \in 1 .. i - 1 : M[j] = L[j]) /\ i \in 1 .. Len(L)
    BY <1>1
  <2>2. M[i].type = "PREPARE" => PrepareAccepted(M, i)
    BY <2>1 DEF Accepts, PrepareAccepted
  <2>3. M[i].type = "COMMIT" => CommitAccepted(M, i)
    BY <2>1 DEF Accepts, CommitAccepted
  <2>4. M[i].type \in Kinds => MarkAccepted(M, i)
    BY <2>1 DEF Accepts, MarkAccepted
  <2> QED BY <2>2, <2>3, <2>4
<1>3. Accepts(M)
  BY <1>1, <1>2 DEF Accepts
<1> QED BY <1>3 DEF M

(***************************************************************************)
(* The maps mirror the log.                                                *)
(***************************************************************************)
LEMMA DecideRec ==
  ASSUME NEW p, NEW S
  PROVE  /\ Rec(decide(p, S)) = Rec(p)
         /\ decide(p, S).txn = p.txn /\ decide(p, S).seq = p.seq
         /\ decide(p, S).key = p.key
         /\ decide(p, S).state = "Committed" <=> p.txn \in S
  BY DEF decide, Rec

\* Eviction of the decisions on ids.
Flushed(ids, P, D, C, X, K, I, P2, D2, C2, X2, K2, I2) ==
  /\ ids \subseteq K
  /\ P2 = {p \in P : p.txn \notin ids}
  /\ D2 = D \cup {decide(p, C) : p \in {q \in P : q.txn \in ids}}
  /\ C2 = C \ ids
  /\ X2 = {x \in X : x[1] \notin ids}
  /\ K2 = K \ ids
  /\ I2 = I \ KeysOf(P \ P2)

LEMMA FlushedFacts ==
  ASSUME NEW ids, NEW P, NEW D, NEW C, NEW X, NEW K, NEW I,
         NEW P2, NEW D2, NEW C2, NEW X2, NEW K2, NEW I2,
         Flushed(ids, P, D, C, X, K, I, P2, D2, C2, X2, K2, I2),
         NEW L, NEW V, Mirror(L, P, D, C, V, X, K, I)
  PROVE  /\ \A t \in ids : t \in C
         /\ \A t \in ids : \A kind \in Kinds : <<t, kind>> \in X
         /\ \A t \in ids : \A kind \in Kinds : t \in TxnsIn(L, kind)
         /\ P2 \subseteq P /\ D \subseteq D2
         /\ \A p \in P : p \in P2 <=> p.txn \notin ids
         /\ \A p \in P : p.txn \in ids => decide(p, C) \in D2
         /\ \A d \in D2 : d \in D \/ \E p \in P : p.txn \in ids /\ d = decide(p, C)
<1>1. \A t \in K : \A kind \in Kinds : <<t, kind>> \in X /\ t \in TxnsIn(L, kind)
  BY DEF Mirror, MarksMirror
<1>2. \A t \in K : <<t, "audit">> \in C \X Kinds
  BY <1>1 DEF Mirror, MarksMirror, Kinds
<1>3. K \subseteq C
  BY <1>2
<1>4. ids \subseteq K
  BY DEF Flushed
<1>5. \A d \in D2 : d \in D \/ \E p \in P : p.txn \in ids /\ d = decide(p, C)
  BY DEF Flushed
<1>6. \A p \in P : p.txn \in ids => decide(p, C) \in D2
  BY DEF Flushed
<1>7. P2 \subseteq P /\ D \subseteq D2 /\ \A p \in P : p \in P2 <=> p.txn \notin ids
  BY DEF Flushed
<1> QED BY <1>1, <1>3, <1>4, <1>5, <1>6, <1>7

LEMMA FlushPrepares ==
  ASSUME NEW ids, NEW P, NEW D, NEW C, NEW X, NEW K, NEW I,
         NEW P2, NEW D2, NEW C2, NEW X2, NEW K2, NEW I2,
         Flushed(ids, P, D, C, X, K, I, P2, D2, C2, X2, K2, I2),
         NEW L, NEW V, Mirror(L, P, D, C, V, X, K, I)
  PROVE  PreparesMirror(L, P2, D2)
<1>1. /\ \A t \in ids : t \in C
      /\ P2 \subseteq P /\ D \subseteq D2
      /\ \A p \in P : p \in P2 <=> p.txn \notin ids
      /\ \A p \in P : p.txn \in ids => decide(p, C) \in D2
      /\ \A d \in D2 : d \in D \/ \E p \in P : p.txn \in ids /\ d = decide(p, C)
  BY FlushedFacts
<1>2. PreparesMirror(L, P, D) /\ C \subseteq TxnsIn(L, "COMMIT")
  BY DEF Mirror, CommitsMirror
<1>3. ASSUME NEW r \in Of(L, "PREPARE")
      PROVE  \E x \in P2 \cup D2 : Rec(x) = r
  <2>1. PICK x \in P \cup D : Rec(x) = r
    BY <1>2 DEF PreparesMirror
  <2>2. CASE x \in P /\ x.txn \in ids
    BY <1>1, <2>1, <2>2, DecideRec
  <2>3. CASE ~(x \in P /\ x.txn \in ids)
    BY <1>1, <2>1, <2>3
  <2> QED BY <2>2, <2>3
<1>4. ASSUME NEW d \in D2
      PROVE  Rec(d) \in Of(L, "PREPARE")
  <2>1. CASE d \in D
    BY <1>2, <2>1 DEF PreparesMirror
  <2>2. CASE d \notin D
    <3>1. PICK p \in P : p.txn \in ids /\ d = decide(p, C)
      BY <1>1, <2>2
    <3>2. Rec(p) \in Of(L, "PREPARE")
      BY <1>1, <1>2, <3>1 DEF PreparesMirror
    <3> QED BY <3>1, <3>2, DecideRec
  <2> QED BY <2>1, <2>2
<1>5. TxnsOf(P2) \cap TxnsOf(D2) = {}
  <2>1. SUFFICES ASSUME NEW p \in P2, NEW d \in D2, p.txn = d.txn PROVE FALSE
    BY DEF TxnsOf
  <2>2. CASE d \in D
    BY <1>1, <1>2, <2>1, <2>2 DEF PreparesMirror, TxnsOf
  <2>3. CASE d \notin D
    BY <1>1, <2>1, <2>3, DecideRec
  <2> QED BY <2>2, <2>3
<1> QED BY <1>1, <1>2, <1>3, <1>4, <1>5 DEF PreparesMirror

LEMMA FlushCommits2 ==
  ASSUME NEW ids, NEW P, NEW D, NEW C, NEW X, NEW K, NEW I,
         NEW P2, NEW D2, NEW C2, NEW X2, NEW K2, NEW I2,
         Flushed(ids, P, D, C, X, K, I, P2, D2, C2, X2, K2, I2),
         NEW L, NEW V, Mirror(L, P, D, C, V, X, K, I)
  PROVE  CommitsMirror(L, P2, D2, C2, V)
<1>1. /\ \A t \in ids : t \in C
      /\ \A t \in ids : \A kind \in Kinds : t \in TxnsIn(L, kind)
      /\ P2 \subseteq P /\ D \subseteq D2
      /\ \A p \in P : p \in P2 <=> p.txn \notin ids
      /\ \A p \in P : p.txn \in ids => decide(p, C) \in D2
      /\ \A d \in D2 : d \in D \/ \E p \in P : p.txn \in ids /\ d = decide(p, C)
  BY FlushedFacts
<1>2. CommitsMirror(L, P, D, C, V) /\ C2 = C \ ids
  BY DEF Mirror, Flushed
<1>3. C2 \subseteq TxnsIn(L, "COMMIT") /\ C2 \cap V = {}
  BY <1>2 DEF CommitsMirror
<1>4. C2 \cup V \subseteq TxnsOf(P2)
  BY <1>1, <1>2 DEF CommitsMirror, TxnsOf
<1>5. \A t \in ids : t \in TxnsOf(D2)
  <2>1. SUFFICES ASSUME NEW t \in ids PROVE t \in TxnsOf(D2)
    OBVIOUS
  <2>2. PICK p \in P : p.txn = t
    BY <1>1, <1>2 DEF CommitsMirror, TxnsOf
  <2>3. decide(p, C) \in D2 /\ decide(p, C).txn = t
    BY <1>1, <2>2, DecideRec
  <2> QED BY <2>3 DEF TxnsOf
<1>6. TxnsIn(L, "COMMIT") \subseteq C2 \cup V \cup TxnsOf(D2)
  BY <1>1, <1>2, <1>5 DEF CommitsMirror, TxnsOf
<1>7. ASSUME NEW d \in D2
      PROVE  /\ d.state = "Committed" <=> d.txn \in TxnsIn(L, "COMMIT")
             /\ \A kind \in Kinds : d.state = "Committed" => d.txn \in TxnsIn(L, kind)
  <2>1. CASE d \in D
    BY <1>2, <2>1 DEF CommitsMirror
  <2>2. CASE d \notin D
    <3>1. PICK p \in P : p.txn \in ids /\ d = decide(p, C)
      BY <1>1, <2>2
    <3>2. d.txn = p.txn /\ d.state = "Committed"
      BY <1>1, <3>1, DecideRec
    <3> QED BY <1>1, <1>2, <3>1, <3>2 DEF CommitsMirror
  <2> QED BY <2>1, <2>2
<1> QED BY <1>3, <1>4, <1>6, <1>7 DEF CommitsMirror

LEMMA FlushMirror ==
  ASSUME NEW ids, NEW P, NEW D, NEW C, NEW X, NEW K, NEW I,
         NEW P2, NEW D2, NEW C2, NEW X2, NEW K2, NEW I2,
         Flushed(ids, P, D, C, X, K, I, P2, D2, C2, X2, K2, I2),
         NEW L, NEW V, Mirror(L, P, D, C, V, X, K, I)
  PROVE  Mirror(L, P2, D2, C2, V, X2, K2, I2)
<1>1. PreparesMirror(L, P2, D2)
  BY FlushPrepares
<1>2. CommitsMirror(L, P2, D2, C2, V)
  BY FlushCommits2
<1>3. MarksMirror(L, C2, X2, K2)
  BY DEF Flushed, Mirror, MarksMirror
<1>4. KeysOf(P2) \subseteq I2
  BY DEF Flushed, Mirror, PreparesMirror, KeysOf
<1>5. /\ P2 \subseteq Prepare /\ C2 \subseteq Txn /\ X2 \subseteq Txn \X Kinds
  BY DEF Flushed, Mirror
<1>6. D2 \subseteq Decision
  BY DecideType DEF Flushed, Mirror
<1> QED BY <1>1, <1>2, <1>3, <1>4, <1>5, <1>6 DEF Mirror

LEMMA FlushCounters ==
  ASSUME NEW ids, NEW P, NEW D, NEW C, NEW X, NEW K, NEW I,
         NEW P2, NEW D2, NEW C2, NEW X2, NEW K2, NEW I2,
         Flushed(ids, P, D, C, X, K, I, P2, D2, C2, X2, K2, I2),
         NEW L, NEW V, Mirror(L, P, D, C, V, X, K, I)
  PROVE  /\ Decided(D2, C2) = Decided(D, C)
         /\ AllSeqs(P2, D2) = AllSeqs(P, D)
         /\ DecidedSeqs(P2, D2, C2) = DecidedSeqs(P, D, C)
         /\ \A kind \in Kinds : Unprojected(C2, X2, kind) = Unprojected(C, X, kind)
<1>1. /\ \A t \in ids : t \in C
      /\ \A t \in ids : \A kind \in Kinds : <<t, kind>> \in X
      /\ P2 \subseteq P /\ D \subseteq D2
      /\ \A p \in P : p \in P2 <=> p.txn \notin ids
      /\ \A p \in P : p.txn \in ids => decide(p, C) \in D2
      /\ \A d \in D2 : d \in D \/ \E p \in P : p.txn \in ids /\ d = decide(p, C)
  BY FlushedFacts
<1>2. C \subseteq TxnsOf(P) /\ C2 = C \ ids /\ X2 = {x \in X : x[1] \notin ids}
  BY DEF Mirror, CommitsMirror, Flushed
<1>3. \A p \in P : p.txn \in ids => 
         /\ decide(p, C).txn = p.txn /\ decide(p, C).seq = p.seq
         /\ decide(p, C).state = "Committed"
  BY <1>1, DecideRec
<1>4. Decided(D2, C2) = Decided(D, C)
  <2>1. \A t \in Decided(D2, C2) : t \in Decided(D, C)
    BY <1>1, <1>2, <1>3 DEF Decided, TxnsOf
  <2>2. \A t \in Decided(D, C) : t \in Decided(D2, C2)
    BY <1>1, <1>2, <1>3 DEF Decided, TxnsOf
  <2> QED BY <2>1, <2>2
<1>5. AllSeqs(P2, D2) = AllSeqs(P, D)
  BY <1>1, <1>3 DEF AllSeqs
<1>6. DecidedSeqs(P2, D2, C2) = DecidedSeqs(P, D, C)
  BY <1>1, <1>2, <1>3 DEF DecidedSeqs
<1>7. \A kind \in Kinds : Unprojected(C2, X2, kind) = Unprojected(C, X, kind)
  BY <1>1, <1>2 DEF Unprojected
<1> QED BY <1>4, <1>5, <1>6, <1>7

\* With nothing undecided, the commits in the maps are those of the log.
LEMMA DecidedIsLogged ==
  ASSUME NEW L, Sound(L), NEW P, NEW D, NEW C, NEW X, NEW K, NEW I,
         Mirror(L, P, D, C, {}, X, K, I)
  PROVE  /\ Decided(D, C) = TxnsIn(L, "COMMIT")
         /\ DecidedSeqs(P, D, C) = {r.seq : r \in Of(L, "COMMIT")}
<1>1. CommitsMirror(L, P, D, C, {}) /\ PreparesMirror(L, P, D)
  BY DEF Mirror
<1>2. Decided(D, C) = TxnsIn(L, "COMMIT")
  BY <1>1 DEF CommitsMirror, Decided, TxnsOf
<1>3. \A x \in P \cup D : Rec(x).txn = x.txn /\ Rec(x).seq = x.seq
  BY DEF Rec
<1>4. ASSUME NEW r \in Of(L, "COMMIT")
      PROVE  r.seq \in DecidedSeqs(P, D, C)
  <2>1. PICK s \in Of(L, "PREPARE") : s.txn = r.txn /\ s.seq = r.seq
    BY DEF Sound
  <2>2. PICK x \in P \cup D : Rec(x) = s
    BY <1>1 DEF PreparesMirror
  <2>3. x.txn = r.txn /\ x.seq = r.seq
    BY <1>3, <2>1, <2>2
  <2>4. r.txn \in TxnsIn(L, "COMMIT")
    BY DEF TxnsIn, TxnsOf
  <2>5. CASE x \in D
    BY <1>1, <2>3, <2>4, <2>5 DEF CommitsMirror, DecidedSeqs
  <2>6. CASE x \in P /\ x \notin D
    <3>1. r.txn \notin TxnsOf(D)
      BY <1>1, <2>3, <2>6 DEF PreparesMirror, TxnsOf
    <3>2. x.txn \in C
      BY <1>1, <2>3, <2>4, <3>1 DEF CommitsMirror
    <3> QED BY <2>3, <2>6, <3>2 DEF DecidedSeqs
  <2> QED BY <2>5, <2>6
<1>5. ASSUME NEW x \in P \cup D, x.txn \in TxnsIn(L, "COMMIT")
      PROVE  x.seq \in {r.seq : r \in Of(L, "COMMIT")}
  <2>1. Rec(x) \in Of(L, "PREPARE")
    BY <1>1, <1>5 DEF PreparesMirror
  <2>2. PICK r \in Of(L, "COMMIT") : r.txn = x.txn
    BY <1>5 DEF TxnsIn, TxnsOf
  <2>3. PICK s \in Of(L, "PREPARE") : s.txn = r.txn /\ s.seq = r.seq
    BY DEF Sound
  <2>4. Rec(x) = s
    BY <1>3, <2>1, <2>2, <2>3 DEF Sound
  <2> QED BY <1>3, <2>3, <2>4
<1>6. \A n \in DecidedSeqs(P, D, C) : n \in {r.seq : r \in Of(L, "COMMIT")}
  <2>1. \A n \in DecidedSeqs(P, D, C) :
          \E x \in P \cup D : x.seq = n /\ x.txn \in TxnsIn(L, "COMMIT")
    BY <1>1 DEF DecidedSeqs, CommitsMirror
  <2> QED BY <1>5, <2>1
<1> QED BY <1>2, <1>4, <1>6

\* Once nothing is hot, the evicted decisions are a checkpoint of the log.
LEMMA PublishSummary ==
  ASSUME NEW L \in Seq(Record), Sound(L), NEW D, NEW C, NEW X, NEW K, NEW I,
         Mirror(L, {}, D, C, {}, X, K, I),
         NEW b, b.lsn = Len(L), b.decisions = D,
         b.committed_count = Cardinality(Decided(D, C)),
         b.next_sequence \in Greatest({0} \cup AllSeqs({}, D)),
         b.max_committed_sequence \in Greatest({0} \cup DecidedSeqs({}, D, C))
  PROVE  Summary(b, L)
<1>1. /\ Decided(D, C) = TxnsIn(L, "COMMIT")
      /\ DecidedSeqs({}, D, C) = {r.seq : r \in Of(L, "COMMIT")}
  BY DecidedIsLogged
<1>2. /\ CommitsMirror(L, {}, D, C, {}) /\ PreparesMirror(L, {}, D)
      /\ D \subseteq Decision
  BY DEF Mirror
<1>3. C = {}
  BY <1>2 DEF CommitsMirror, TxnsOf
<1>4. AllSeqs({}, D) = {r.seq : r \in Of(L, "PREPARE")}
  <2>1. \A x \in D : Rec(x).seq = x.seq
    BY DEF Rec
  <2>2. \A x \in D : x.seq \in {r.seq : r \in Of(L, "PREPARE")}
    BY <1>2, <2>1 DEF PreparesMirror
  <2>3. \A r \in Of(L, "PREPARE") : r.seq \in AllSeqs({}, D)
    BY <1>2, <2>1 DEF PreparesMirror, AllSeqs
  <2> QED BY <2>2, <2>3 DEF AllSeqs
<1>5. D = {decide(r, TxnsIn(L, "COMMIT")) : r \in Of(L, "PREPARE")}
  <2>1. ASSUME NEW d \in D
        PROVE  d = decide(Rec(d), TxnsIn(L, "COMMIT"))
    <3>1. d = [txn |-> d.txn, seq |-> d.seq, key |-> d.key, state |-> d.state]
      BY <1>2 DEF Decision
    <3>2. d.state = IF d.txn \in TxnsIn(L, "COMMIT") THEN "Committed" ELSE "Rejected"
      BY <1>2 DEF Decision, CommitsMirror
    <3>3. decide(Rec(d), TxnsIn(L, "COMMIT")) =
            [txn |-> d.txn, seq |-> d.seq, key |-> d.key,
             state |-> IF d.txn \in TxnsIn(L, "COMMIT") THEN "Committed" ELSE "Rejected"]
      BY DEF decide, Rec
    <3> QED BY <3>1, <3>2, <3>3, Zenon
  <2>2. \A d \in D : Rec(d) \in Of(L, "PREPARE")
    BY <1>2 DEF PreparesMirror
  <2>3. \A r \in Of(L, "PREPARE") : \E d \in D : Rec(d) = r
    BY <1>2 DEF PreparesMirror
  <2> QED BY <2>1, <2>2, <2>3
<1>6. TxnsIn(L, "COMMIT") \subseteq TxnsIn(L, "PREPARE")
  BY DEF Sound, TxnsIn, TxnsOf
<1>7. ASSUME NEW kind \in Kinds
      PROVE  TxnsIn(L, kind) = TxnsIn(L, "COMMIT")
  <2>1. TxnsIn(L, kind) \subseteq TxnsIn(L, "COMMIT")
    BY DEF Sound
  <2>2. ASSUME NEW t \in TxnsIn(L, "COMMIT")
        PROVE  t \in TxnsIn(L, kind)
    <3>1. PICK d \in D : d.txn = t
      BY <1>2, <1>3 DEF CommitsMirror, TxnsOf
    <3> QED BY <1>2, <3>1 DEF CommitsMirror
  <2> QED BY <2>1, <2>2
<1> QED BY <1>1, <1>4, <1>5, <1>6, <1>7 DEF Summary

\* A prepare p is reserved and, unless its write failed, logged.
PrepareAdded(L, M, P, D, I, p, P2, I2) ==
  /\ p \in Prepare
  /\ p.txn \notin TxnsOf(P) \cup TxnsOf(D)
  /\ \A type \in {"PREPARE", "COMMIT"} \cup Kinds : p.txn \notin TxnsIn(L, type)
  /\ p.key # NoKey => p.key \notin I
  /\ M = L \/ Grown(L, M, Rec(p))
  /\ P2 = P \cup {p}
  /\ I2 = I \cup ({p.key} \ {NoKey})

LEMMA PrepareMirror ==
  ASSUME NEW L, NEW M, NEW P, NEW D, NEW C, NEW V, NEW X, NEW K, NEW I,
         Mirror(L, P, D, C, V, X, K, I), NEW p, NEW P2, NEW I2,
         PrepareAdded(L, M, P, D, I, p, P2, I2)
  PROVE  /\ Mirror(M, P2, D, C, V, X, K, I2)
         /\ AllSeqs(P2, D) = AllSeqs(P, D) \cup {p.seq}
         /\ DecidedSeqs(P2, D, C) = DecidedSeqs(P, D, C)
<1>1. /\ PreparesMirror(L, P, D) /\ CommitsMirror(L, P, D, C, V)
      /\ MarksMirror(L, C, X, K) /\ KeysOf(P) \subseteq I
      /\ P \subseteq Prepare /\ D \subseteq Decision /\ C \subseteq Txn
      /\ X \subseteq Txn \X Kinds
  BY DEF Mirror
<1>2. /\ P2 = P \cup {p} /\ I2 = I \cup ({p.key} \ {NoKey}) /\ p \in Prepare
      /\ p.key # NoKey => p.key \notin I
      /\ \A q \in P \cup D : q.txn # p.txn
      /\ \A type \in {"PREPARE", "COMMIT"} \cup Kinds : p.txn \notin TxnsIn(L, type)
  BY DEF PrepareAdded, TxnsOf
<1>3. /\ \A type \in {"COMMIT"} \cup Kinds : TxnsIn(M, type) = TxnsIn(L, type)
      /\ \/ Of(M, "PREPARE") = Of(L, "PREPARE") \cup {Rec(p)}
            /\ TxnsIn(M, "PREPARE") = TxnsIn(L, "PREPARE") \cup {p.txn}
         \/ M = L
  <2>1. CASE M = L
    BY <2>1
  <2>2. CASE Grown(L, M, Rec(p))
    <3>1. Rec(p).type = "PREPARE" /\ Rec(p).txn = p.txn
      BY DEF Rec
    <3>2. \A type \in {"COMMIT"} \cup Kinds : type # "PREPARE"
      BY DEF Kinds
    <3> QED BY <2>2, <3>1, <3>2 DEF Grown
  <2> QED BY <2>1, <2>2 DEF PrepareAdded
<1>4. PreparesMirror(M, P2, D)
  <2>1. \A r \in Of(M, "PREPARE") : \E x \in P2 \cup D : Rec(x) = r
    BY <1>1, <1>2, <1>3 DEF PreparesMirror
  <2>2. ASSUME NEW q \in P2
        PROVE  \/ Rec(q) \in Of(M, "PREPARE")
               \/ \A type \in {"PREPARE", "COMMIT"} \cup Kinds : q.txn \notin TxnsIn(M, type)
    <3>1. CASE q = p
      BY <1>2, <1>3, <3>1
    <3>2. CASE q \in P
      BY <1>1, <1>2, <1>3, <3>2 DEF PreparesMirror
    <3> QED BY <1>2, <3>1, <3>2
  <2>3. \A d \in D : Rec(d) \in Of(M, "PREPARE")
    BY <1>1, <1>3 DEF PreparesMirror
  <2>4. TxnsOf(P2) \cap TxnsOf(D) = {}
    BY <1>1, <1>2 DEF PreparesMirror, TxnsOf
  <2>5. \A q, s \in P2 : q.txn = s.txn => q = s
    BY <1>1, <1>2 DEF PreparesMirror
  <2>6. \A q, s \in P2 : q.key = s.key => q.key = NoKey \/ q = s
    <3>1. \A q \in P : q.key # NoKey => q.key \in I
      BY <1>1 DEF KeysOf
    <3> QED BY <1>1, <1>2, <3>1 DEF PreparesMirror
  <2> QED BY <2>1, <2>2, <2>3, <2>4, <2>5, <2>6 DEF PreparesMirror
<1>5. CommitsMirror(M, P2, D, C, V)
  BY <1>1, <1>2, <1>3 DEF CommitsMirror, TxnsOf
<1>6. MarksMirror(M, C, X, K)
  BY <1>1, <1>3 DEF MarksMirror
<1>7. KeysOf(P2) \subseteq I2
  BY <1>1, <1>2 DEF KeysOf
<1>8. AllSeqs(P2, D) = AllSeqs(P, D) \cup {p.seq}
  BY <1>2 DEF AllSeqs
<1>9. DecidedSeqs(P2, D, C) = DecidedSeqs(P, D, C)
  <2>1. p.txn \notin C
    BY <1>1, <1>2 DEF CommitsMirror, TxnsOf
  <2>2. {q \in P2 : q.txn \in C} = {q \in P : q.txn \in C}
    BY <1>2, <2>1
  <2> QED BY <2>2 DEF DecidedSeqs
<1> QED BY <1>1, <1>2, <1>4, <1>5, <1>6, <1>7, <1>8, <1>9 DEF Mirror

\* Transaction t is prepared and undecided; its COMMIT record r may reach M.
CommitAdded(L, M, P, C, V, t, V2) ==
  /\ t \in TxnsOf(P) /\ t \notin C
  /\ V2 = V \cup {t}
  /\ \/ M = L
     \/ \E r : /\ Grown(L, M, r) /\ r.type = "COMMIT" /\ r.txn = t
               /\ \A p \in P : p.txn = t => Rec(p) \in Of(L, "PREPARE")

LEMMA CommitMirror ==
  ASSUME NEW L, NEW M, NEW P, NEW D, NEW C, NEW V, NEW X, NEW K, NEW I,
         Mirror(L, P, D, C, V, X, K, I), NEW t, NEW V2,
         CommitAdded(L, M, P, C, V, t, V2)
  PROVE  Mirror(M, P, D, C, V2, X, K, I)
<1>1. /\ PreparesMirror(L, P, D) /\ CommitsMirror(L, P, D, C, V)
      /\ MarksMirror(L, C, X, K) /\ KeysOf(P) \subseteq I
      /\ P \subseteq Prepare /\ D \subseteq Decision /\ C \subseteq Txn
      /\ X \subseteq Txn \X Kinds
  BY DEF Mirror
<1>2. t \in TxnsOf(P) /\ t \notin C /\ V2 = V \cup {t}
  BY DEF CommitAdded
<1>3. t \notin TxnsOf(D)
  BY <1>1, <1>2 DEF PreparesMirror
<1>4. CASE M = L
  BY <1>1, <1>2, <1>4 DEF Mirror, CommitsMirror
<1>5. CASE M # L
  <2>1. PICK r : /\ Grown(L, M, r) /\ r.type = "COMMIT" /\ r.txn = t
                 /\ \A p \in P : p.txn = t => Rec(p) \in Of(L, "PREPARE")
    BY <1>5 DEF CommitAdded
  <2>2. "PREPARE" # "COMMIT" /\ \A kind \in Kinds : kind # "COMMIT"
    BY DEF Kinds
  <2>3. /\ TxnsIn(M, "COMMIT") = TxnsIn(L, "COMMIT") \cup {t}
        /\ \A type : type # "COMMIT" =>
             Of(M, type) = Of(L, type) /\ TxnsIn(M, type) = TxnsIn(L, type)
    BY <2>1 DEF Grown
  <2>4. /\ Of(M, "PREPARE") = Of(L, "PREPARE")
        /\ \A type \in {"PREPARE"} \cup Kinds : TxnsIn(M, type) = TxnsIn(L, type)
    BY <2>2, <2>3
  <2>5. PreparesMirror(M, P, D)
    BY <1>1, <2>1, <2>3, <2>4 DEF PreparesMirror
  <2>6. CommitsMirror(M, P, D, C, V2)
    BY <1>1, <1>2, <1>3, <2>3, <2>4 DEF CommitsMirror, TxnsOf
  <2>7. MarksMirror(M, C, X, K)
    BY <1>1, <2>4 DEF MarksMirror
  <2> QED BY <1>1, <2>5, <2>6, <2>7 DEF Mirror
<1> QED BY <1>4, <1>5

\* The decision on t, with sequence n, is known.
DecisionKnown(L, P, C, V, t, n, C2, V2) ==
  /\ t \in V /\ t \in TxnsIn(L, "COMMIT") /\ t \in Txn
  /\ \E p \in P : p.txn = t /\ p.seq = n
  /\ C2 = C \cup {t}
  /\ V2 = V \ {t}

LEMMA DecideMirror ==
  ASSUME NEW L, NEW P, NEW D, NEW C, NEW V, NEW X, NEW K, NEW I,
         Mirror(L, P, D, C, V, X, K, I), NEW t, NEW n, NEW C2, NEW V2,
         DecisionKnown(L, P, C, V, t, n, C2, V2)
  PROVE  /\ Mirror(L, P, D, C2, V2, X, K, I)
         /\ Decided(D, C2) = Decided(D, C) \cup {t} /\ t \notin Decided(D, C)
         /\ DecidedSeqs(P, D, C2) = DecidedSeqs(P, D, C) \cup {n}
         /\ \A kind \in Kinds :
              /\ Unprojected(C2, X, kind) = Unprojected(C, X, kind) \cup {t}
              /\ t \notin Unprojected(C, X, kind)
<1>0. /\ t \in V /\ t \in TxnsIn(L, "COMMIT") /\ t \in Txn
      /\ C2 = C \cup {t} /\ V2 = V \ {t}
  BY DEF DecisionKnown
<1> PICK p \in P : p.txn = t /\ p.seq = n
  BY DEF DecisionKnown
<1>1. /\ PreparesMirror(L, P, D) /\ CommitsMirror(L, P, D, C, V)
      /\ MarksMirror(L, C, X, K) /\ KeysOf(P) \subseteq I
      /\ P \subseteq Prepare /\ D \subseteq Decision /\ C \subseteq Txn
      /\ X \subseteq Txn \X Kinds
  BY DEF Mirror
<1>2. t \in TxnsOf(P) /\ t \notin C /\ t \notin TxnsOf(D)
  BY <1>0, <1>1 DEF CommitsMirror, PreparesMirror, TxnsOf
<1>3. CommitsMirror(L, P, D, C2, V2)
  BY <1>0, <1>1, <1>2 DEF CommitsMirror
<1>4. MarksMirror(L, C2, X, K)
  BY <1>0, <1>1 DEF MarksMirror
<1>5. Decided(D, C2) = Decided(D, C) \cup {t} /\ t \notin Decided(D, C)
  BY <1>0, <1>2 DEF Decided, TxnsOf
<1>6. DecidedSeqs(P, D, C2) = DecidedSeqs(P, D, C) \cup {n}
  <2>1. \A q \in P : q.txn = t <=> q = p
    BY <1>0, <1>1 DEF PreparesMirror
  <2>2. {q \in P : q.txn \in C2} = {q \in P : q.txn \in C} \cup {p}
    BY <1>0, <2>1
  <2> QED BY <2>2 DEF DecidedSeqs
<1>7. ASSUME NEW kind \in Kinds
      PROVE  /\ Unprojected(C2, X, kind) = Unprojected(C, X, kind) \cup {t}
             /\ t \notin Unprojected(C, X, kind)
  <2>1. <<t, kind>> \notin X
    BY <1>0, <1>1, <1>2 DEF MarksMirror
  <2> QED BY <1>0, <1>2, <2>1 DEF Unprojected
<1> QED BY <1>0, <1>1, <1>3, <1>4, <1>5, <1>6, <1>7 DEF Mirror

\* A projection record of t reaches the log.
LEMMA MarkLogged ==
  ASSUME NEW L, NEW M, NEW P, NEW D, NEW C, NEW V, NEW X, NEW K, NEW I,
         Mirror(L, P, D, C, V, X, K, I), NEW r, Grown(L, M, r),
         r.type \in Kinds, r.txn \in C
  PROVE  Mirror(M, P, D, C, V, X, K, I)
<1>1. /\ PreparesMirror(L, P, D) /\ CommitsMirror(L, P, D, C, V)
      /\ MarksMirror(L, C, X, K) /\ KeysOf(P) \subseteq I
      /\ P \subseteq Prepare /\ D \subseteq Decision /\ C \subseteq Txn
      /\ X \subseteq Txn \X Kinds
  BY DEF Mirror
<1>2. r.type # "PREPARE" /\ r.type # "COMMIT"
  BY DEF Kinds
<1>3. /\ Of(M, "PREPARE") = Of(L, "PREPARE")
      /\ TxnsIn(M, "PREPARE") = TxnsIn(L, "PREPARE")
      /\ TxnsIn(M, "COMMIT") = TxnsIn(L, "COMMIT")
  BY <1>2 DEF Grown
<1>4. \A kind \in Kinds : /\ TxnsIn(L, kind) \subseteq TxnsIn(M, kind)
                          /\ TxnsIn(M, kind) \subseteq TxnsIn(L, kind) \cup {r.txn}
  BY DEF Grown
<1>5. PreparesMirror(M, P, D)
  <2>1. \A p \in P : p.txn = r.txn => Rec(p) \in Of(L, "PREPARE")
    BY <1>1 DEF CommitsMirror, PreparesMirror
  <2> QED BY <1>1, <1>3, <1>4, <2>1 DEF PreparesMirror
<1>6. CommitsMirror(M, P, D, C, V)
  BY <1>1, <1>3, <1>4 DEF CommitsMirror
<1>7. MarksMirror(M, C, X, K)
  BY <1>1, <1>4 DEF MarksMirror
<1> QED BY <1>1, <1>5, <1>6, <1>7 DEF Mirror

\* A projection of t is known to be durable.
LEMMA MarkMirror ==
  ASSUME NEW L, NEW P, NEW D, NEW C, NEW V, NEW X, NEW K, NEW I,
         Mirror(L, P, D, C, V, X, K, I), NEW t \in C, NEW kind \in Kinds,
         t \in TxnsIn(L, kind), <<t, kind>> \notin X,
         NEW X2, X2 = X \cup {<<t, kind>>},
         NEW K2, K2 \subseteq K \cup {t}, t \in K2 => \A k \in Kinds : <<t, k>> \in X2
  PROVE  /\ Mirror(L, P, D, C, V, X2, K2, I)
         /\ Unprojected(C, X2, kind) = Unprojected(C, X, kind) \ {t}
         /\ t \in Unprojected(C, X, kind)
         /\ \A k \in Kinds : k # kind => Unprojected(C, X2, k) = Unprojected(C, X, k)
<1>1. /\ MarksMirror(L, C, X, K) /\ C \subseteq Txn /\ X \subseteq Txn \X Kinds
  BY DEF Mirror
<1>2. MarksMirror(L, C, X2, K2)
  <2>1. X2 \subseteq C \X Kinds
    BY <1>1 DEF MarksMirror
  <2>2. \A x \in X2 : x[1] \in TxnsIn(L, x[2])
    BY <1>1 DEF MarksMirror
  <2>3. K2 \X Kinds \subseteq X2
    BY <1>1 DEF MarksMirror
  <2> QED BY <2>1, <2>2, <2>3 DEF MarksMirror
<1>3. X2 \subseteq Txn \X Kinds
  BY <1>1
<1>4. Mirror(L, P, D, C, V, X2, K2, I)
  BY <1>2, <1>3 DEF Mirror
<1>5. /\ Unprojected(C, X2, kind) = Unprojected(C, X, kind) \ {t}
      /\ t \in Unprojected(C, X, kind)
      /\ \A k \in Kinds : k # kind => Unprojected(C, X2, k) = Unprojected(C, X, k)
  BY DEF Unprojected
<1> QED BY <1>4, <1>5

(***************************************************************************)
(* Replay.  A checkpoint that sums a prefix of the log and the records     *)
(* behind it give what the whole log gives.                                *)
(***************************************************************************)
\* The log is the prefix p and what is replayed behind checkpoint b.
Splits(p, b) ==
  /\ \A type : /\ Of(log, type) = Of(p, type) \cup Replayed(b, type)
               /\ TxnsIn(log, type) = TxnsIn(p, type) \cup ReplayedTxns(b, type)
  /\ \A r \in Of(p, "PREPARE"), s \in Replayed(b, "PREPARE") :
       r.txn # s.txn /\ r.seq < s.seq /\ (s.key # NoKey => r.key # s.key)
  /\ \A type \in {"COMMIT"} \cup Kinds :
       TxnsIn(p, type) \cap ReplayedTxns(b, type) = {}

LEMMA LogSplits ==
  ASSUME log \in Seq(Record), NEW b \in Checkpoint, b.lsn <= Len(log),
         Accepts(log), NEW p, p = SubSeq(log, 1, b.lsn)
  PROVE  Splits(p, b)
<1>1. b.lsn \in Nat /\ Len(log) \in Nat
  BY DEF Checkpoint
<1>2. Len(p) = b.lsn /\ \A i \in 1 .. b.lsn : p[i] = log[i]
  BY <1>1
<1>3. /\ \A i \in 1 .. Len(log) : i \in 1 .. b.lsn \/ i \in Suffix(b)
      /\ \A i \in Suffix(b) : i \in 1 .. Len(log)
      /\ \A i \in 1 .. b.lsn : i \in 1 .. Len(log)
      /\ \A i \in 1 .. b.lsn, j \in Suffix(b) : i \in 1 .. j - 1
  BY <1>1 DEF Suffix
<1>4. ASSUME NEW type
      PROVE  /\ Of(log, type) = Of(p, type) \cup Replayed(b, type)
             /\ TxnsIn(log, type) = TxnsIn(p, type) \cup ReplayedTxns(b, type)
  <2>1. Of(p, type) = {log[i] : i \in {j \in 1 .. b.lsn : log[j].type = type}}
    BY <1>2 DEF Of
  <2>2. Of(log, type) = Of(p, type) \cup Replayed(b, type)
    BY <1>3, <2>1 DEF Of, Replayed
  <2> QED BY <2>2 DEF TxnsIn, ReplayedTxns, TxnsOf
<1>5. ASSUME NEW r \in Of(p, "PREPARE"), NEW s \in Replayed(b, "PREPARE")
      PROVE  r.txn # s.txn /\ r.seq < s.seq /\ (s.key # NoKey => r.key # s.key)
  <2>1. PICK i \in 1 .. b.lsn : r = log[i] /\ log[i].type = "PREPARE"
    BY <1>2 DEF Of
  <2>2. PICK j \in Suffix(b) : s = log[j] /\ log[j].type = "PREPARE"
    BY DEF Replayed
  <2>3. PrepareAccepted(log, j)
    BY <1>3, <2>2 DEF Accepts
  <2> QED BY <1>3, <2>1, <2>2, <2>3 DEF PrepareAccepted
<1>6. ASSUME NEW type \in {"COMMIT"} \cup Kinds
      PROVE  TxnsIn(p, type) \cap ReplayedTxns(b, type) = {}
  <2>1. SUFFICES ASSUME NEW r \in Of(p, type), NEW s \in Replayed(b, type), r.txn = s.txn
                 PROVE  FALSE
    BY DEF TxnsIn, ReplayedTxns, TxnsOf
  <2>2. PICK i \in 1 .. b.lsn : r = log[i] /\ log[i].type = type
    BY <1>2 DEF Of
  <2>3. PICK j \in Suffix(b) : s = log[j] /\ log[j].type = type
    BY DEF Replayed
  <2>4. CASE type = "COMMIT"
    <3>1. CommitAccepted(log, j)
      BY <1>3, <2>3, <2>4 DEF Accepts
    <3> QED BY <1>3, <2>1, <2>2, <2>3, <2>4, <3>1 DEF CommitAccepted
  <2>5. CASE type \in Kinds
    <3>1. MarkAccepted(log, j)
      BY <1>3, <2>3, <2>5 DEF Accepts
    <3> QED BY <1>3, <2>1, <2>2, <2>3, <2>5, <3>1 DEF MarkAccepted
  <2> QED BY <2>4, <2>5
<1> QED BY <1>4, <1>5, <1>6 DEF Splits

\* Replay takes a COMMIT behind its PREPARE and a projection behind its COMMIT.
ReplayClosed(b) ==
  /\ \A r \in Replayed(b, "COMMIT") :
       \E s \in Replayed(b, "PREPARE") : s.txn = r.txn /\ s.seq = r.seq
  /\ \A kind \in Kinds : ReplayedTxns(b, kind) \subseteq ReplayedTxns(b, "COMMIT")

LEMMA ReplayCloses ==
  ASSUME log \in Seq(Record), NEW b \in Checkpoint, replay_accepts(b)
  PROVE  ReplayClosed(b)
<1>1. \A i \in Suffix(b) : apply_record_accepts(b, i)
  BY DEF replay_accepts
<1>2. ASSUME NEW r \in Replayed(b, "COMMIT")
      PROVE  \E s \in Replayed(b, "PREPARE") : s.txn = r.txn /\ s.seq = r.seq
  <2>1. PICK i \in Suffix(b) : r = log[i] /\ log[i].type = "COMMIT"
    BY DEF Replayed
  <2>2. \E j \in {m \in Before(b, i) : log[m].type = "PREPARE"} :
          log[j].txn = log[i].txn /\ log[j].seq = log[i].seq
    BY <1>1, <2>1 DEF apply_record_accepts
  <2> QED BY <2>1, <2>2 DEF Replayed, Before
<1>3. ASSUME NEW kind \in Kinds, NEW t \in ReplayedTxns(b, kind)
      PROVE  t \in ReplayedTxns(b, "COMMIT")
  <2>1. PICK i \in Suffix(b) : t = log[i].txn /\ log[i].type = kind
    BY DEF Replayed, ReplayedTxns, TxnsOf
  <2>2. log[i].type # "PREPARE" /\ log[i].type # "COMMIT"
    BY <2>1 DEF Kinds
  <2>3. \E j \in {m \in Before(b, i) : log[m].type = "COMMIT"} : log[j].txn = log[i].txn
    BY <1>1, <2>2 DEF apply_record_accepts
  <2> QED BY <2>1, <2>3 DEF Replayed, ReplayedTxns, TxnsOf, Before
<1> QED BY <1>2, <1>3 DEF ReplayClosed

\* A whole replay meets the whole log.
LEMMA WholeReplay ==
  ASSUME log \in Seq(Record)
  PROVE  \A type : /\ Replayed(NoCheckpoint, type) = Of(log, type)
                   /\ ReplayedTxns(NoCheckpoint, type) = TxnsIn(log, type)
<1>1. Suffix(NoCheckpoint) = 1 .. Len(log)
  BY DEF Suffix, NoCheckpoint
<1> QED BY <1>1 DEF Replayed, ReplayedTxns, Of, TxnsIn

LEMMA GreatestMerge ==
  ASSUME NEW S \in SUBSET Nat, NEW T \in SUBSET Nat, NEW n \in Greatest(S)
  PROVE  Greatest({n} \cup T) = Greatest(S \cup T)
<1>1. n \in S /\ (\A m \in S : m <= n) /\ n \in Nat
  BY DEF Greatest
<1>2. ASSUME NEW m \in Greatest({n} \cup T)
      PROVE  m \in Greatest(S \cup T)
  <2>1. m \in {n} \cup T /\ (\A k \in {n} \cup T : k <= m) /\ m \in Nat
    BY <1>1 DEF Greatest
  <2>2. \A k \in S : k <= m
    BY <1>1, <2>1
  <2> QED BY <1>1, <2>1, <2>2 DEF Greatest
<1>3. ASSUME NEW m \in Greatest(S \cup T)
      PROVE  m \in Greatest({n} \cup T)
  <2>1. m \in S \cup T /\ (\A k \in S \cup T : k <= m) /\ m \in Nat
    BY DEF Greatest
  <2>2. m \in S => m = n
    BY <1>1, <2>1
  <2> QED BY <1>1, <2>1, <2>2 DEF Greatest
<1> QED BY <1>2, <1>3

\* What a summed prefix and a closed replay say together.
LEMMA ReplayParts ==
  ASSUME NEW b \in Checkpoint, NEW p, Splits(p, b), ReplayClosed(b), Summary(b, p)
  PROVE  /\ ReplayedTxns(b, "COMMIT") \subseteq ReplayedTxns(b, "PREPARE")
         /\ TxnsIn(p, "PREPARE") \cap ReplayedTxns(b, "PREPARE") = {}
         /\ TxnsIn(p, "COMMIT") \subseteq TxnsIn(p, "PREPARE")
         /\ \A kind \in Kinds : /\ TxnsIn(p, kind) = TxnsIn(p, "COMMIT")
                                /\ ReplayedTxns(b, kind) \subseteq ReplayedTxns(b, "COMMIT")
         /\ TxnsIn(p, "COMMIT") \cap ReplayedTxns(b, "COMMIT") = {}
<1>1. ReplayedTxns(b, "COMMIT") \subseteq ReplayedTxns(b, "PREPARE")
  BY DEF ReplayClosed, ReplayedTxns, TxnsOf
<1>2. TxnsIn(p, "PREPARE") \cap ReplayedTxns(b, "PREPARE") = {}
  BY DEF Splits, TxnsIn, ReplayedTxns, TxnsOf
<1> QED BY <1>1, <1>2 DEF ReplayClosed, Summary, Splits

LEMMA SameOpen ==
  ASSUME log \in Seq(Record), NEW b \in Checkpoint, NEW p,
         Splits(p, b), ReplayClosed(b), Summary(b, p)
  PROVE  /\ ReplayedOpen(b) = ReplayedOpen(NoCheckpoint)
         /\ \A t \in ReplayedOpen(b), kind \in Kinds :
              t \in ReplayedTxns(b, kind) <=> t \in TxnsIn(log, kind)
<1>1. /\ TxnsIn(p, "COMMIT") \cap ReplayedTxns(b, "COMMIT") = {}
      /\ \A kind \in Kinds : TxnsIn(p, kind) = TxnsIn(p, "COMMIT")
  BY ReplayParts
<1>2. \A type : TxnsIn(log, type) = TxnsIn(p, type) \cup ReplayedTxns(b, type)
  BY DEF Splits
<1>3. \A type : ReplayedTxns(NoCheckpoint, type) = TxnsIn(log, type)
  BY WholeReplay
<1>4. ASSUME NEW t \in ReplayedTxns(b, "COMMIT"), NEW kind \in Kinds
      PROVE  t \in ReplayedTxns(b, kind) <=> t \in TxnsIn(log, kind)
  BY <1>1, <1>2
<1>5. ASSUME NEW t \in ReplayedOpen(NoCheckpoint)
      PROVE  t \in ReplayedOpen(b)
  <2>1. /\ t \in TxnsIn(log, "COMMIT")
        /\ \E kind \in Kinds : t \notin TxnsIn(log, kind)
    BY <1>3 DEF ReplayedOpen
  <2>2. t \notin TxnsIn(p, "COMMIT")
    BY <1>1, <1>2, <2>1
  <2>3. t \in ReplayedTxns(b, "COMMIT")
    BY <1>2, <2>1, <2>2
  <2> QED BY <1>4, <2>1, <2>3 DEF ReplayedOpen
<1>6. ASSUME NEW t \in ReplayedOpen(b)
      PROVE  t \in ReplayedOpen(NoCheckpoint)
  <2>1. /\ t \in ReplayedTxns(b, "COMMIT")
        /\ \E kind \in Kinds : t \notin ReplayedTxns(b, kind)
    BY DEF ReplayedOpen
  <2>2. t \in TxnsIn(log, "COMMIT")
    BY <1>2, <2>1
  <2> QED BY <1>3, <1>4, <2>1, <2>2 DEF ReplayedOpen
<1> QED BY <1>4, <1>5, <1>6 DEF ReplayedOpen

LEMMA DecideEntry ==
  ASSUME NEW r, NEW S
  PROVE  decide(Entry(r), S) = decide(r, S) /\ Entry(r).txn = r.txn
  BY DEF decide, Entry

LEMMA SameHot ==
  ASSUME log \in Seq(Record), NEW b \in Checkpoint, NEW p,
         Splits(p, b), ReplayClosed(b), Summary(b, p)
  PROVE  {q \in ReplayedPrepares(b) : q.txn \in ReplayedOpen(b)} =
         {q \in ReplayedPrepares(NoCheckpoint) : q.txn \in ReplayedOpen(NoCheckpoint)}
<1>1. /\ TxnsIn(p, "PREPARE") \cap ReplayedTxns(b, "PREPARE") = {}
      /\ ReplayedTxns(b, "COMMIT") \subseteq ReplayedTxns(b, "PREPARE")
  BY ReplayParts
<1>2. Of(log, "PREPARE") = Of(p, "PREPARE") \cup Replayed(b, "PREPARE")
  BY DEF Splits
<1>3. Replayed(NoCheckpoint, "PREPARE") = Of(log, "PREPARE")
  BY WholeReplay
<1>4. ReplayedOpen(b) = ReplayedOpen(NoCheckpoint) /\ ReplayedOpen(b) \subseteq ReplayedTxns(b, "COMMIT")
  BY SameOpen DEF ReplayedOpen
<1>5. \A r \in Of(p, "PREPARE") : r.txn \notin ReplayedOpen(b)
  BY <1>1, <1>4 DEF TxnsIn, TxnsOf
<1>6. /\ ReplayedPrepares(b) = {Entry(r) : r \in Replayed(b, "PREPARE")}
      /\ ReplayedPrepares(NoCheckpoint) = {Entry(r) : r \in Of(log, "PREPARE")}
  BY <1>3 DEF ReplayedPrepares, Entry
<1>7. \A r : Entry(r).txn = r.txn
  BY DEF Entry
<1> QED BY <1>2, <1>4, <1>5, <1>6, <1>7

LEMMA SameDecisions ==
  ASSUME log \in Seq(Record), NEW b \in Checkpoint, NEW p,
         Splits(p, b), ReplayClosed(b), Summary(b, p)
  PROVE  finish_recovery(b) = finish_recovery(NoCheckpoint)
<1> DEFINE SC == ReplayedTxns(b, "COMMIT")
           LC == TxnsIn(log, "COMMIT")
           PC == TxnsIn(p, "COMMIT")
           open == ReplayedOpen(b)
<1>1. /\ TxnsIn(p, "PREPARE") \cap ReplayedTxns(b, "PREPARE") = {}
      /\ SC \subseteq ReplayedTxns(b, "PREPARE") /\ PC \subseteq TxnsIn(p, "PREPARE")
  BY ReplayParts
<1>2. /\ Of(log, "PREPARE") = Of(p, "PREPARE") \cup Replayed(b, "PREPARE")
      /\ LC = PC \cup SC
  BY DEF Splits
<1>3. /\ Replayed(NoCheckpoint, "PREPARE") = Of(log, "PREPARE")
      /\ ReplayedTxns(NoCheckpoint, "COMMIT") = LC
  BY WholeReplay
<1>4. open = ReplayedOpen(NoCheckpoint) /\ open \subseteq SC
  BY SameOpen DEF ReplayedOpen
<1>5. /\ ReplayedPrepares(b) = {Entry(r) : r \in Replayed(b, "PREPARE")}
      /\ ReplayedPrepares(NoCheckpoint) = {Entry(r) : r \in Of(log, "PREPARE")}
  BY <1>3 DEF ReplayedPrepares, Entry
<1>6. b.decisions = {decide(r, PC) : r \in Of(p, "PREPARE")}
  BY DEF Summary
<1>7. \A r \in Of(p, "PREPARE") : r.txn \notin SC /\ r.txn \notin open
  BY <1>1, <1>4 DEF TxnsIn, TxnsOf
<1>8. \A r \in Replayed(b, "PREPARE") : r.txn \notin PC
  BY <1>1 DEF ReplayedTxns, TxnsOf
<1>9. /\ \A r \in Of(p, "PREPARE") : decide(r, PC) = decide(r, LC)
      /\ \A r \in Replayed(b, "PREPARE") : decide(r, SC) = decide(r, LC)
  <2>1. /\ \A r \in Of(p, "PREPARE") : r.txn \in PC <=> r.txn \in LC
        /\ \A r \in Replayed(b, "PREPARE") : r.txn \in SC <=> r.txn \in LC
    BY <1>2, <1>7, <1>8
  <2> QED BY <2>1 DEF decide
<1>10. finish_recovery(b) =
         {decide(r, LC) : r \in Of(p, "PREPARE")} \cup
         {decide(r, LC) : r \in {s \in Replayed(b, "PREPARE") : s.txn \notin open}}
  <2>0. \A r \in Replayed(b, "PREPARE") :
          decide(Entry(r), SC) = decide(r, LC) /\ Entry(r).txn = r.txn
    BY <1>9, DecideEntry
  <2>1. {decide(q, SC) : q \in {s \in ReplayedPrepares(b) : s.txn \notin open}} =
        {decide(r, LC) : r \in {s \in Replayed(b, "PREPARE") : s.txn \notin open}}
    <3> HIDE DEF SC, LC, open
    <3>1. \A q \in ReplayedPrepares(b) : q.txn \notin open =>
            \E r \in Replayed(b, "PREPARE") : r.txn \notin open /\ decide(q, SC) = decide(r, LC)
      BY <1>5, <2>0
    <3>2. \A r \in Replayed(b, "PREPARE") : r.txn \notin open =>
            \E q \in ReplayedPrepares(b) : q.txn \notin open /\ decide(q, SC) = decide(r, LC)
      BY <1>5, <2>0
    <3> QED BY <3>1, <3>2
  <2>2. b.decisions = {decide(r, LC) : r \in Of(p, "PREPARE")}
    BY <1>6, <1>9
  <2> QED BY <2>1, <2>2 DEF finish_recovery
<1>11. finish_recovery(NoCheckpoint) =
         {decide(r, LC) : r \in {s \in Of(log, "PREPARE") : s.txn \notin open}}
  <2>1. finish_recovery(NoCheckpoint) =
          {decide(q, LC) : q \in {s \in ReplayedPrepares(NoCheckpoint) : s.txn \notin open}}
    BY <1>3, <1>4 DEF finish_recovery, NoCheckpoint
  <2> QED BY <1>5, <2>1, DecideEntry
<1> HIDE DEF SC, LC, PC, open
<1> QED BY <1>2, <1>7, <1>10, <1>11

LEMMA DisjointCardinality ==
  ASSUME NEW S, NEW T, IsFiniteSet(S), IsFiniteSet(T), S \cap T = {}
  PROVE  Cardinality(S \cup T) = Cardinality(S) + Cardinality(T)
<1>1. Cardinality(S \cup T) = Cardinality(S) + Cardinality(T) - Cardinality({})
  BY FS_Union
<1>2. Cardinality({}) = 0 /\ Cardinality(S) \in Nat /\ Cardinality(T) \in Nat
  BY FS_EmptySet, FS_CardinalityType
<1> QED BY <1>1, <1>2

SeqsOf(S) == {r.seq : r \in S}

LEMMA SameCounters ==
  ASSUME log \in Seq(Record), NEW b \in Checkpoint, NEW p \in Seq(Record),
         Splits(p, b), ReplayClosed(b), Summary(b, p)
  PROVE  /\ ReplayedSequence(b) = ReplayedSequence(NoCheckpoint)
         /\ ReplayedMaxCommitted(b) = ReplayedMaxCommitted(NoCheckpoint)
         /\ b.committed_count + Cardinality(ReplayedTxns(b, "COMMIT")) =
              Cardinality(TxnsIn(log, "COMMIT"))
<1>1. \A type : /\ Of(log, type) = Of(p, type) \cup Replayed(b, type)
                /\ TxnsIn(log, type) = TxnsIn(p, type) \cup ReplayedTxns(b, type)
                /\ Replayed(NoCheckpoint, type) = Of(log, type)
  BY WholeReplay DEF Splits
<1>2. \A type : SeqsOf(Of(log, type)) = SeqsOf(Of(p, type)) \cup SeqsOf(Replayed(b, type))
  BY <1>1 DEF SeqsOf
<1>3. ASSUME NEW type
      PROVE  SeqsOf(Of(log, type)) \subseteq Nat /\ TxnsIn(log, type) \subseteq Txn
  <2>1. Of(log, type) \subseteq Record /\ TxnsIn(log, type) \subseteq Txn
    BY OfType
  <2> QED BY <2>1 DEF Record, SeqsOf
<1>4. ReplayedSequence(b) = ReplayedSequence(NoCheckpoint)
  <2>1. \A c : {q.seq : q \in ReplayedPrepares(c)} = SeqsOf(Replayed(c, "PREPARE"))
    <3>1. \A c : ReplayedPrepares(c) = {Entry(r) : r \in Replayed(c, "PREPARE")}
      BY DEF ReplayedPrepares, Entry
    <3>2. \A r : Entry(r).seq = r.seq
      BY DEF Entry
    <3> QED BY <3>1, <3>2 DEF SeqsOf
  <2>2. b.next_sequence \in Greatest({0} \cup SeqsOf(Of(p, "PREPARE")))
    BY DEF Summary, SeqsOf
  <2>3. Greatest({b.next_sequence} \cup SeqsOf(Replayed(b, "PREPARE"))) =
        Greatest({0} \cup SeqsOf(Of(p, "PREPARE")) \cup SeqsOf(Replayed(b, "PREPARE")))
    <3>0. SeqsOf(Of(log, "PREPARE")) \subseteq Nat
      BY <1>3
    <3>1. /\ {0} \cup SeqsOf(Of(p, "PREPARE")) \in SUBSET Nat
          /\ SeqsOf(Replayed(b, "PREPARE")) \in SUBSET Nat
      BY <1>2, <3>0
    <3> QED BY <2>2, <3>1, GreatestMerge
  <2>4. ReplayedSequence(b) = Greatest({b.next_sequence} \cup SeqsOf(Replayed(b, "PREPARE")))
    BY <2>1 DEF ReplayedSequence
  <2>5. ReplayedSequence(NoCheckpoint) = Greatest({0} \cup SeqsOf(Of(log, "PREPARE")))
    BY <1>1, <2>1 DEF ReplayedSequence, NoCheckpoint
  <2>6. {0} \cup SeqsOf(Of(log, "PREPARE")) =
        {0} \cup SeqsOf(Of(p, "PREPARE")) \cup SeqsOf(Replayed(b, "PREPARE"))
    BY <1>2
  <2> QED BY <2>3, <2>4, <2>5, <2>6
<1>5. ReplayedMaxCommitted(b) = ReplayedMaxCommitted(NoCheckpoint)
  <2>2. b.max_committed_sequence \in Greatest({0} \cup SeqsOf(Of(p, "COMMIT")))
    BY DEF Summary, SeqsOf
  <2>3. Greatest({b.max_committed_sequence} \cup SeqsOf(Replayed(b, "COMMIT"))) =
        Greatest({0} \cup SeqsOf(Of(p, "COMMIT")) \cup SeqsOf(Replayed(b, "COMMIT")))
    <3>0. SeqsOf(Of(log, "COMMIT")) \subseteq Nat
      BY <1>3
    <3>1. /\ {0} \cup SeqsOf(Of(p, "COMMIT")) \in SUBSET Nat
          /\ SeqsOf(Replayed(b, "COMMIT")) \in SUBSET Nat
      BY <1>2, <3>0
    <3> QED BY <2>2, <3>1, GreatestMerge
  <2>4. ReplayedMaxCommitted(b) =
          Greatest({b.max_committed_sequence} \cup SeqsOf(Replayed(b, "COMMIT")))
    BY DEF ReplayedMaxCommitted, SeqsOf
  <2>5. ReplayedMaxCommitted(NoCheckpoint) = Greatest({0} \cup SeqsOf(Of(log, "COMMIT")))
    BY <1>1 DEF ReplayedMaxCommitted, NoCheckpoint, SeqsOf
  <2>6. {0} \cup SeqsOf(Of(log, "COMMIT")) =
        {0} \cup SeqsOf(Of(p, "COMMIT")) \cup SeqsOf(Replayed(b, "COMMIT"))
    BY <1>2
  <2> QED BY <2>3, <2>4, <2>5, <2>6
<1>6. b.committed_count + Cardinality(ReplayedTxns(b, "COMMIT")) =
        Cardinality(TxnsIn(log, "COMMIT"))
  <2> DEFINE PC == TxnsIn(p, "COMMIT")
             SC == ReplayedTxns(b, "COMMIT")
  <2>1. PC \cap SC = {} /\ TxnsIn(log, "COMMIT") = PC \cup SC
    BY <1>1, ReplayParts
  <2>2. PC \in SUBSET Txn /\ SC \in SUBSET Txn /\ IsFiniteSet(Txn)
    BY <1>3, <2>1, ConstantsAssumption
  <2>3. b.committed_count = Cardinality(PC)
    BY DEF Summary
  <2> HIDE DEF PC, SC
  <2>4. IsFiniteSet(PC) /\ IsFiniteSet(SC)
    BY <2>2, FS_Subset
  <2>7. Cardinality(PC \cup SC) = Cardinality(PC) + Cardinality(SC)
    BY <2>1, <2>4, DisjointCardinality
  <2> QED BY <2>1, <2>3, <2>7 DEF SC
<1> QED BY <1>4, <1>5, <1>6

(***************************************************************************)
(* What opening rebuilds, from the whole log.                              *)
(***************************************************************************)
OpenIn(L) == {t \in TxnsIn(L, "COMMIT") : ~(\A kind \in Kinds : t \in TxnsIn(L, kind))}
EntriesIn(L) == {Entry(r) : r \in Of(L, "PREPARE")}
HotIn(L) == {q \in EntriesIn(L) : q.txn \in OpenIn(L)}
ColdIn(L) ==
  {decide(q, TxnsIn(L, "COMMIT")) : q \in {s \in EntriesIn(L) : s.txn \notin OpenIn(L)}}
MarksIn(L) == {x \in OpenIn(L) \X Kinds : x[1] \in TxnsIn(L, x[2])}

LEMMA EntryFields ==
  ASSUME NEW L \in Seq(Record)
  PROVE  /\ \A r \in Of(L, "PREPARE") :
              /\ Entry(r).txn = r.txn /\ Entry(r).seq = r.seq /\ Entry(r).key = r.key
              /\ Rec(Entry(r)) = r
              /\ Entry(r) \in Prepare
         /\ \A q \in EntriesIn(L) :
              q \in Prepare /\ Rec(q) \in Of(L, "PREPARE") /\ q = Entry(Rec(q))
<1>1. \A r \in Of(L, "PREPARE") : r \in Record /\ r.type = "PREPARE"
  BY OfType
<1>2. ASSUME NEW r \in Of(L, "PREPARE")
      PROVE  /\ Entry(r).txn = r.txn /\ Entry(r).seq = r.seq /\ Entry(r).key = r.key
             /\ Rec(Entry(r)) = r
             /\ Entry(r) \in Prepare
  <2>1. /\ r = [type |-> r.type, txn |-> r.txn, seq |-> r.seq, key |-> r.key]
        /\ r.txn \in Txn /\ r.seq \in Nat /\ r.key \in Keys
    BY <1>1 DEF Record
  <2>2. Entry(r).txn = r.txn /\ Entry(r).seq = r.seq /\ Entry(r).key = r.key
    BY DEF Entry
  <2>3. Entry(r) \in Prepare
    BY <2>1 DEF Entry, Prepare
  <2>4. Rec(Entry(r)) = [type |-> "PREPARE", txn |-> r.txn, seq |-> r.seq, key |-> r.key]
    BY <2>2 DEF Rec
  <2>5. r.type = "PREPARE"
    BY <1>1
  <2> QED BY <2>1, <2>2, <2>3, <2>4, <2>5, Zenon
<1>3. \A q \in EntriesIn(L) : \E r \in Of(L, "PREPARE") : q = Entry(r)
  BY DEF EntriesIn
<1> QED BY <1>2, <1>3

LEMMA ColdFacts ==
  ASSUME NEW L \in Seq(Record)
  PROVE  /\ \A q \in EntriesIn(L) : q.txn \notin OpenIn(L) =>
              \E d \in ColdIn(L) : Rec(d) = Rec(q) /\ d.seq = q.seq
         /\ \A d \in ColdIn(L) :
              /\ d \in Decision /\ d.txn \notin OpenIn(L)
              /\ d.state = "Committed" <=> d.txn \in TxnsIn(L, "COMMIT")
              /\ \E q \in EntriesIn(L) : Rec(d) = Rec(q) /\ d.seq = q.seq
<1> DEFINE T == TxnsIn(L, "COMMIT")
<1>1. \A q \in EntriesIn(L) : q \in Prepare
  BY EntryFields
<1>2. \A q \in EntriesIn(L) :
        /\ Rec(decide(q, T)) = Rec(q) /\ decide(q, T).txn = q.txn
        /\ decide(q, T).seq = q.seq
        /\ decide(q, T).state = "Committed" <=> q.txn \in T
        /\ decide(q, T) \in Decision
  BY <1>1, DecideRec, DecideType
<1>3. /\ \A q \in EntriesIn(L) : q.txn \notin OpenIn(L) => decide(q, T) \in ColdIn(L)
      /\ \A d \in ColdIn(L) : \E q \in EntriesIn(L) : q.txn \notin OpenIn(L) /\ d = decide(q, T)
  BY DEF ColdIn
<1> HIDE DEF T
<1>4. \A q \in EntriesIn(L) : q.txn \notin OpenIn(L) =>
              \E d \in ColdIn(L) : Rec(d) = Rec(q) /\ d.seq = q.seq
  BY <1>2, <1>3
<1>5. \A d \in ColdIn(L) :
              /\ d \in Decision /\ d.txn \notin OpenIn(L)
              /\ d.state = "Committed" <=> d.txn \in T
              /\ \E q \in EntriesIn(L) : Rec(d) = Rec(q) /\ d.seq = q.seq
  BY <1>2, <1>3
<1> QED BY <1>4, <1>5 DEF T

LEMMA RebuiltMirror ==
  ASSUME NEW L \in Seq(Record), Sound(L)
  PROVE  Mirror(L, HotIn(L), ColdIn(L), OpenIn(L), {}, MarksIn(L), {}, KeysOf(HotIn(L)))
<1>1. /\ \A r \in Of(L, "PREPARE") :
           Entry(r).txn = r.txn /\ Rec(Entry(r)) = r /\ Entry(r) \in EntriesIn(L)
      /\ \A q \in EntriesIn(L) :
           q \in Prepare /\ Rec(q) \in Of(L, "PREPARE") /\ q = Entry(Rec(q))
  BY EntryFields DEF EntriesIn
<1>2. \A x : Rec(x).txn = x.txn /\ Rec(x).key = x.key
  BY DEF Rec
<1>3. \A q, s \in EntriesIn(L) : q.txn = s.txn => q = s
  BY <1>1, <1>2 DEF Sound
<1>4. \A q, s \in EntriesIn(L) : q.key = s.key => q.key = NoKey \/ q = s
  BY <1>1, <1>2 DEF Sound
<1>5. HotIn(L) \subseteq EntriesIn(L) /\ \A q \in EntriesIn(L) : q \in HotIn(L) <=> q.txn \in OpenIn(L)
  BY DEF HotIn
<1>6. OpenIn(L) \subseteq TxnsIn(L, "COMMIT")
  BY DEF OpenIn
<1>7. PreparesMirror(L, HotIn(L), ColdIn(L))
  <2>1. ASSUME NEW r \in Of(L, "PREPARE")
        PROVE  \E x \in HotIn(L) \cup ColdIn(L) : Rec(x) = r
    <3>1. CASE Entry(r).txn \in OpenIn(L)
      BY <1>1, <1>5, <3>1
    <3>2. CASE Entry(r).txn \notin OpenIn(L)
      BY <1>1, <3>2, ColdFacts
    <3> QED BY <3>1, <3>2
  <2>2. \A d \in ColdIn(L) : Rec(d) \in Of(L, "PREPARE")
    BY <1>1, ColdFacts
  <2>3. TxnsOf(HotIn(L)) \cap TxnsOf(ColdIn(L)) = {}
    BY <1>5, ColdFacts DEF TxnsOf
  <2> QED BY <1>1, <1>3, <1>4, <1>5, <2>1, <2>2, <2>3 DEF PreparesMirror
<1>8. CommitsMirror(L, HotIn(L), ColdIn(L), OpenIn(L), {})
  <2>1. ASSUME NEW t \in TxnsIn(L, "COMMIT")
        PROVE  \E r \in Of(L, "PREPARE") : r.txn = t
    BY DEF Sound, TxnsIn, TxnsOf
  <2>2. OpenIn(L) \subseteq TxnsOf(HotIn(L))
    BY <1>1, <1>5, <1>6, <2>1 DEF TxnsOf
  <2>3. ASSUME NEW t \in TxnsIn(L, "COMMIT"), t \notin OpenIn(L)
        PROVE  t \in TxnsOf(ColdIn(L))
    <3>1. PICK q \in EntriesIn(L) : q.txn = t
      BY <1>1, <2>1
    <3>2. PICK d \in ColdIn(L) : Rec(d) = Rec(q)
      BY <2>3, <3>1, ColdFacts
    <3> QED BY <1>2, <3>1, <3>2 DEF TxnsOf
  <2>4. \A d \in ColdIn(L) : d.state = "Committed" <=> d.txn \in TxnsIn(L, "COMMIT")
    BY ColdFacts
  <2>5. \A d \in ColdIn(L), kind \in Kinds : d.state = "Committed" => d.txn \in TxnsIn(L, kind)
    BY <2>4, ColdFacts DEF OpenIn
  <2> QED BY <1>6, <2>2, <2>3, <2>4, <2>5 DEF CommitsMirror
<1>9. MarksMirror(L, OpenIn(L), MarksIn(L), {})
  BY DEF MarksMirror, MarksIn
<1>10. /\ HotIn(L) \subseteq Prepare /\ ColdIn(L) \subseteq Decision
       /\ OpenIn(L) \subseteq Txn
  BY <1>1, <1>5, <1>6, ColdFacts, OfType
<1>11. MarksIn(L) \subseteq Txn \X Kinds
  BY <1>10 DEF MarksIn
<1> QED BY <1>7, <1>8, <1>9, <1>10, <1>11 DEF Mirror

LEMMA RebuiltCounters ==
  ASSUME NEW L \in Seq(Record), Sound(L)
  PROVE  /\ Decided(ColdIn(L), OpenIn(L)) = TxnsIn(L, "COMMIT")
         /\ AllSeqs(HotIn(L), ColdIn(L)) = SeqsOf(Of(L, "PREPARE"))
         /\ DecidedSeqs(HotIn(L), ColdIn(L), OpenIn(L)) = SeqsOf(Of(L, "COMMIT"))
         /\ \A kind \in Kinds :
              Unprojected(OpenIn(L), MarksIn(L), kind) = OpenIn(L) \ TxnsIn(L, kind)
<1>1. Mirror(L, HotIn(L), ColdIn(L), OpenIn(L), {}, MarksIn(L), {}, KeysOf(HotIn(L)))
  BY RebuiltMirror
<1>2. /\ Decided(ColdIn(L), OpenIn(L)) = TxnsIn(L, "COMMIT")
      /\ DecidedSeqs(HotIn(L), ColdIn(L), OpenIn(L)) = SeqsOf(Of(L, "COMMIT"))
  BY <1>1, DecidedIsLogged DEF SeqsOf
<1>3. AllSeqs(HotIn(L), ColdIn(L)) = SeqsOf(Of(L, "PREPARE"))
  <2>1. \A x : Rec(x).seq = x.seq
    BY DEF Rec
  <2>2. \A r \in Of(L, "PREPARE") : \E x \in HotIn(L) \cup ColdIn(L) : x.seq = r.seq
    BY <1>1, <2>1 DEF Mirror, PreparesMirror
  <2>3. \A x \in HotIn(L) \cup ColdIn(L) : \E r \in Of(L, "PREPARE") : r.seq = x.seq
    <3>1. \A x \in HotIn(L) : Rec(x) \in Of(L, "PREPARE")
      BY EntryFields DEF HotIn
    <3>2. \A x \in ColdIn(L) : Rec(x) \in Of(L, "PREPARE")
      BY <1>1 DEF Mirror, PreparesMirror
    <3> QED BY <2>1, <3>1, <3>2
  <2> QED BY <2>2, <2>3 DEF AllSeqs, SeqsOf
<1>4. \A kind \in Kinds :
        Unprojected(OpenIn(L), MarksIn(L), kind) = OpenIn(L) \ TxnsIn(L, kind)
  BY DEF Unprojected, MarksIn
<1> QED BY <1>2, <1>3, <1>4

LEMMA EmptySummary ==
  ASSUME log \in Seq(Record)
  PROVE  SubSeq(log, 1, NoCheckpoint.lsn) = << >> /\ Summary(NoCheckpoint, << >>)
<1>1. SubSeq(log, 1, NoCheckpoint.lsn) = << >>
  <2>1. SubSeq(log, 1, 0) = << >>
    OBVIOUS
  <2> QED BY <2>1 DEF NoCheckpoint
<1>2. \A type : Of(<< >>, type) = {} /\ TxnsIn(<< >>, type) = {}
  BY DEF Of, TxnsIn, TxnsOf
<1>3. 0 \in Greatest({0} \cup {})
  BY DEF Greatest
<1>4. Cardinality({}) = 0 /\ Len(<< >>) = 0
  BY FS_EmptySet
<1>5. Summary(NoCheckpoint, << >>)
  BY <1>2, <1>3, <1>4 DEF Summary, NoCheckpoint
<1> QED BY <1>1, <1>5

\* The base b of a replay sums the part of the log that it covers.
Based(b) == b.lsn <= Len(log) /\ Summary(b, SubSeq(log, 1, b.lsn))

LEMMA EmptyBased ==
  ASSUME log \in Seq(Record)
  PROVE  Based(NoCheckpoint)
<1>1. NoCheckpoint.lsn <= Len(log)
  BY DEF NoCheckpoint
<1> QED BY <1>1, EmptySummary DEF Based

LEMMA SameReplay ==
  ASSUME log \in Seq(Record), NEW b \in Checkpoint, Based(b), Accepts(log),
         replay_accepts(b)
  PROVE  /\ ReplayedOpen(b) = ReplayedOpen(NoCheckpoint)
         /\ \A t \in ReplayedOpen(b), kind \in Kinds :
              t \in ReplayedTxns(b, kind) <=> t \in TxnsIn(log, kind)
         /\ {q \in ReplayedPrepares(b) : q.txn \in ReplayedOpen(b)} =
            {q \in ReplayedPrepares(NoCheckpoint) : q.txn \in ReplayedOpen(NoCheckpoint)}
         /\ finish_recovery(b) = finish_recovery(NoCheckpoint)
         /\ ReplayedSequence(b) = ReplayedSequence(NoCheckpoint)
         /\ ReplayedMaxCommitted(b) = ReplayedMaxCommitted(NoCheckpoint)
         /\ b.committed_count + Cardinality(ReplayedTxns(b, "COMMIT")) =
              Cardinality(TxnsIn(log, "COMMIT"))
<1>1. PICK p \in Seq(Record) : p = SubSeq(log, 1, b.lsn)
  <2>1. b.lsn \in Nat /\ b.lsn <= Len(log) /\ Len(log) \in Nat
    BY DEF Checkpoint, Based
  <2>2. SubSeq(log, 1, b.lsn) \in Seq(Record)
    BY <2>1
  <2> QED BY <2>2
<1>2. b.lsn <= Len(log) /\ Summary(b, p)
  BY <1>1 DEF Based
<1>3. Splits(p, b) /\ ReplayClosed(b)
  BY <1>1, <1>2, LogSplits, ReplayCloses
<1>4. /\ ReplayedOpen(b) = ReplayedOpen(NoCheckpoint)
      /\ \A t \in ReplayedOpen(b), kind \in Kinds :
           t \in ReplayedTxns(b, kind) <=> t \in TxnsIn(log, kind)
  BY <1>2, <1>3, SameOpen
<1>5. {q \in ReplayedPrepares(b) : q.txn \in ReplayedOpen(b)} =
      {q \in ReplayedPrepares(NoCheckpoint) : q.txn \in ReplayedOpen(NoCheckpoint)}
  BY <1>2, <1>3, SameHot
<1>6. finish_recovery(b) = finish_recovery(NoCheckpoint)
  BY <1>2, <1>3, SameDecisions
<1>7. /\ ReplayedSequence(b) = ReplayedSequence(NoCheckpoint)
      /\ ReplayedMaxCommitted(b) = ReplayedMaxCommitted(NoCheckpoint)
      /\ b.committed_count + Cardinality(ReplayedTxns(b, "COMMIT")) =
           Cardinality(TxnsIn(log, "COMMIT"))
  BY <1>2, <1>3, SameCounters
<1> QED BY <1>4, <1>5, <1>6, <1>7

\* In the terms of the log.
LEMMA WholeRebuilds ==
  ASSUME log \in Seq(Record)
  PROVE  /\ ReplayedOpen(NoCheckpoint) = OpenIn(log)
         /\ {q \in ReplayedPrepares(NoCheckpoint) : q.txn \in ReplayedOpen(NoCheckpoint)}
              = HotIn(log)
         /\ finish_recovery(NoCheckpoint) = ColdIn(log)
         /\ ReplayedSequence(NoCheckpoint) = Greatest({0} \cup SeqsOf(Of(log, "PREPARE")))
         /\ ReplayedMaxCommitted(NoCheckpoint) = Greatest({0} \cup SeqsOf(Of(log, "COMMIT")))
<1>1. \A type : /\ Replayed(NoCheckpoint, type) = Of(log, type)
                /\ ReplayedTxns(NoCheckpoint, type) = TxnsIn(log, type)
  BY WholeReplay
<1>2. ReplayedOpen(NoCheckpoint) = OpenIn(log)
  BY <1>1 DEF ReplayedOpen, OpenIn
<1>3. ReplayedPrepares(NoCheckpoint) = EntriesIn(log)
  BY <1>1 DEF ReplayedPrepares, EntriesIn, Entry
<1>4. NoCheckpoint.decisions = {} /\ NoCheckpoint.next_sequence = 0
      /\ NoCheckpoint.max_committed_sequence = 0
  BY DEF NoCheckpoint
<1>5. finish_recovery(NoCheckpoint) = ColdIn(log)
  BY <1>1, <1>2, <1>3, <1>4 DEF finish_recovery, ColdIn
<1>6. {q.seq : q \in EntriesIn(log)} = SeqsOf(Of(log, "PREPARE"))
  <2>1. \A r : Entry(r).seq = r.seq
    BY DEF Entry
  <2> QED BY <2>1 DEF SeqsOf, EntriesIn
<1>7. ReplayedSequence(NoCheckpoint) = Greatest({0} \cup SeqsOf(Of(log, "PREPARE")))
  BY <1>3, <1>4, <1>6 DEF ReplayedSequence
<1>8. ReplayedMaxCommitted(NoCheckpoint) = Greatest({0} \cup SeqsOf(Of(log, "COMMIT")))
  BY <1>1, <1>4 DEF ReplayedMaxCommitted, SeqsOf
<1> QED BY <1>2, <1>3, <1>5, <1>7, <1>8 DEF HotIn

\* Opening rebuilds maps and counters that mirror the log.
LEMMA InstallMirror ==
  ASSUME log \in Seq(Record), NEW b \in Checkpoint, Based(b), Accepts(log),
         replay_accepts(b), install(b)
  PROVE  /\ prepares' = HotIn(log) /\ decisions' = ColdIn(log)
         /\ commits' = OpenIn(log) /\ projections' = MarksIn(log)
         /\ unknown' = {} /\ completed' = {}
         /\ Mirror(log, prepares', decisions', commits', {}, projections', {}, idempotency')
         /\ CountersMirror(prepares', decisions', commits', projections',
                           committed_count', next_sequence', max_committed_sequence',
                           pending_storage', pending_audit')
<1>1. Sound(log)
  BY AcceptsSound
<1>2. ReplayedOpen(b) = OpenIn(log)
  BY SameReplay, WholeRebuilds
<1>3. {q \in ReplayedPrepares(b) : q.txn \in ReplayedOpen(b)} = HotIn(log)
  BY SameReplay, WholeRebuilds
<1>4. finish_recovery(b) = ColdIn(log)
  BY SameReplay, WholeRebuilds
<1>5. \A t \in OpenIn(log), kind \in Kinds :
        t \in ReplayedTxns(b, kind) <=> t \in TxnsIn(log, kind)
  BY <1>2, SameReplay
<1>6. /\ prepares' = HotIn(log) /\ commits' = OpenIn(log) /\ decisions' = ColdIn(log)
      /\ unknown' = {} /\ completed' = {} /\ idempotency' = KeysOf(HotIn(log))
  BY <1>2, <1>3, <1>4 DEF install
<1>7. projections' = MarksIn(log)
  <2>1. projections' = {x \in OpenIn(log) \X Kinds : x[1] \in ReplayedTxns(b, x[2])}
    BY <1>2 DEF install
  <2> QED BY <1>5, <2>1 DEF MarksIn
<1>8. committed_count' = Cardinality(TxnsIn(log, "COMMIT"))
  BY SameReplay DEF install
<1>9. /\ next_sequence' \in Greatest({0} \cup SeqsOf(Of(log, "PREPARE")))
      /\ max_committed_sequence' \in Greatest({0} \cup SeqsOf(Of(log, "COMMIT")))
  <2>1. next_sequence' \in ReplayedSequence(b) /\ max_committed_sequence' \in ReplayedMaxCommitted(b)
    BY DEF install
  <2> QED BY <2>1, SameReplay, WholeRebuilds
<1>10. /\ pending_storage' = Cardinality(OpenIn(log) \ TxnsIn(log, "storage"))
       /\ pending_audit' = Cardinality(OpenIn(log) \ TxnsIn(log, "audit"))
  <2>1. \A kind \in Kinds : OpenIn(log) \ ReplayedTxns(b, kind) = OpenIn(log) \ TxnsIn(log, kind)
    BY <1>5
  <2>2. "storage" \in Kinds /\ "audit" \in Kinds
    BY DEF Kinds
  <2>3. /\ pending_storage' = Cardinality(OpenIn(log) \ ReplayedTxns(b, "storage"))
        /\ pending_audit' = Cardinality(OpenIn(log) \ ReplayedTxns(b, "audit"))
    BY <1>2 DEF install
  <2> QED BY <2>1, <2>2, <2>3
<1>11. Mirror(log, prepares', decisions', commits', {}, projections', {}, idempotency')
  BY <1>1, <1>6, <1>7, RebuiltMirror
<1>12. CountersMirror(prepares', decisions', commits', projections',
                      committed_count', next_sequence', max_committed_sequence',
                      pending_storage', pending_audit')
  <2>1. "storage" \in Kinds /\ "audit" \in Kinds
    BY DEF Kinds
  <2>2. /\ Decided(ColdIn(log), OpenIn(log)) = TxnsIn(log, "COMMIT")
        /\ AllSeqs(HotIn(log), ColdIn(log)) = SeqsOf(Of(log, "PREPARE"))
        /\ DecidedSeqs(HotIn(log), ColdIn(log), OpenIn(log)) = SeqsOf(Of(log, "COMMIT"))
        /\ Unprojected(OpenIn(log), MarksIn(log), "storage") = OpenIn(log) \ TxnsIn(log, "storage")
        /\ Unprojected(OpenIn(log), MarksIn(log), "audit") = OpenIn(log) \ TxnsIn(log, "audit")
    BY <1>1, <2>1, RebuiltCounters
  <2> QED BY <1>6, <1>7, <1>8, <1>9, <1>10, <2>2 DEF CountersMirror
<1> QED BY <1>6, <1>7, <1>11, <1>12

(***************************************************************************)
(* The steps.                                                              *)
(***************************************************************************)
LEMMA MirrorInit == Init => MirrorInv
<1> SUFFICES ASSUME Init PROVE MirrorInv
  OBVIOUS
<1>0. AuthorityInv
  BY AuthorityInit
<1>1. log \in Seq(Record) /\ log = << >> /\ format = 1 /\ stage = "idle" /\ up = TRUE
      /\ current = Idle /\ unknown = {} /\ prepares = {} /\ decisions = {} /\ commits = {}
      /\ projections = {} /\ completed = {} /\ idempotency = {}
      /\ cache = NoCheckpoint /\ authority = NoCheckpoint /\ poisoned = FALSE
  BY DEF Init
<1>2. \A type : Of(log, type) = {} /\ TxnsIn(log, type) = {}
  BY <1>1 DEF Of, TxnsIn, TxnsOf
<1>3. LogAccepted
  BY <1>1, <1>2 DEF LogAccepted, Accepts, Keyed
<1>4. CacheSums
  <2>1. NoCheckpoint.prefix = << >>
    BY DEF NoCheckpoint
  <2> QED BY <1>1, <2>1, EmptySummary DEF CacheSums
<1>5. AuthoritySums
  BY <1>1 DEF AuthoritySums
<1>6. Undecided = {}
  BY <1>1 DEF Undecided
<1>7. TxnsOf({}) = {} /\ KeysOf({}) = {}
  BY DEF TxnsOf, KeysOf
<1>8. MapsMirror
  BY <1>1, <1>2, <1>6, <1>7
     DEF MapsMirror, Mirror, PreparesMirror, CommitsMirror, MarksMirror
<1>9. CountersSo
  <2>1. /\ Decided({}, {}) = {} /\ AllSeqs({}, {}) = {} /\ DecidedSeqs({}, {}, {}) = {}
        /\ \A kind : Unprojected({}, {}, kind) = {}
    BY <1>7 DEF Decided, AllSeqs, DecidedSeqs, Unprojected
  <2>2. 0 \in Greatest({0} \cup {}) /\ Cardinality({}) = 0
    BY FS_EmptySet DEF Greatest
  <2>3. /\ committed_count = 0 /\ next_sequence = 0 /\ max_committed_sequence = 0
        /\ pending_storage = 0 /\ pending_audit = 0
    BY DEF Init
  <2> QED BY <1>1, <2>1, <2>2, <2>3 DEF CountersSo, CountersMirror
<1>10. OperationMirror /\ MarksKnown /\ UnknownAnswered
  BY <1>1 DEF OperationMirror, MarksKnown, UnknownAnswered
<1> QED BY <1>0, <1>3, <1>4, <1>5, <1>8, <1>9, <1>10 DEF MirrorInv

LEMMA LogTyped ==
  ASSUME AuthorityInv
  PROVE  /\ log \in Seq(Record) /\ Len(log) \in Nat
         /\ cache \in Checkpoint /\ authority \in Checkpoint
         /\ format \in 1 .. 3
  BY DEF AuthorityInv, TypeInv, TypeOK, DiskType

LEMMA SameDisk ==
  ASSUME MirrorInv, UNCHANGED <<log, format, cache, authority>>,
         stage' # "migrate" \/ stage' = stage
  PROVE  LogAccepted' /\ CacheSums' /\ AuthoritySums'
  BY DEF MirrorInv, LogAccepted, CacheSums, AuthoritySums

LEMMA QuietMirror ==
  ASSUME MirrorInv, AuthorityInv', UNCHANGED <<disk, process, maps, answer>>,
         UNCHANGED <<committed_count, next_sequence, max_committed_sequence,
                     pending_storage, pending_audit>>
  PROVE  MirrorInv'
<1>1. UNCHANGED <<log, format, cache, authority, up, poisoned, stage, current,
                  idempotency, prepares, commits, projections, unknown, decisions,
                  completed>>
  BY DEF disk, process, maps
<1>2. LogAccepted' /\ CacheSums' /\ AuthoritySums'
  BY <1>1, SameDisk
<1>3. Undecided' = Undecided
  BY <1>1 DEF Undecided
<1>4. MapsMirror' /\ CountersSo'
  BY <1>1, <1>3 DEF MirrorInv, MapsMirror, CountersSo
<1>5. OperationMirror' /\ MarksKnown' /\ UnknownAnswered'
  BY <1>1 DEF MirrorInv, OperationMirror, MarksKnown, UnknownAnswered
<1> QED BY <1>2, <1>4, <1>5 DEF MirrorInv

\* SubSeq of an appended log.
LEMMA AppendPrefix ==
  ASSUME NEW L \in Seq(Record), NEW r \in Record, NEW n \in 0 .. Len(L)
  PROVE  SubSeq(Append(L, r), 1, n) = SubSeq(L, 1, n)
<1> DEFINE M == Append(L, r)
<1>1. /\ M \in Seq(Record) /\ Len(M) = Len(L) + 1 /\ Len(L) \in Nat
      /\ \A i \in 1 .. Len(L) : M[i] = L[i]
  OBVIOUS
<1>2. /\ SubSeq(M, 1, n) \in Seq(Record) /\ Len(SubSeq(M, 1, n)) = n
      /\ SubSeq(L, 1, n) \in Seq(Record) /\ Len(SubSeq(L, 1, n)) = n
      /\ \A i \in 1 .. n : SubSeq(M, 1, n)[i] = M[i] /\ SubSeq(L, 1, n)[i] = L[i]
  BY <1>1
<1> HIDE DEF M
<1>3. \A i \in 1 .. n : SubSeq(M, 1, n)[i] = SubSeq(L, 1, n)[i]
  BY <1>1, <1>2
<1>4. SubSeq(M, 1, n) = SubSeq(L, 1, n)
  <2>1. PICK A \in Seq(Record) : A = SubSeq(M, 1, n)
    BY <1>2
  <2>2. PICK B \in Seq(Record) : B = SubSeq(L, 1, n)
    BY <1>2
  <2>3. Len(A) = Len(B) /\ \A i \in 1 .. Len(A) : A[i] = B[i]
    BY <1>2, <1>3, <2>1, <2>2
  <2>4. A = B
    BY <2>3
  <2> QED BY <2>1, <2>2, <2>4
<1> QED BY <1>4 DEF M

\* A log that grows by a record that replay takes.
LEMMA AppendDisk ==
  ASSUME MirrorInv, up, NEW r \in Record, log' = Append(log, r),
         Acceptable(log, r), r.type # "PREPARE",
         UNCHANGED <<format, cache, authority>>, stage' # "migrate"
  PROVE  /\ LogAccepted' /\ CacheSums' /\ AuthoritySums'
         /\ Grown(log, log', r)
<1>1. /\ log \in Seq(Record) /\ Len(log) \in Nat /\ authority \in Checkpoint
  BY LogTyped DEF MirrorInv
<1>2. Accepts(log) /\ Keyed(log, format)
  BY DEF MirrorInv, LogAccepted
<1>3. Accepts(log')
  BY <1>1, <1>2, AppendAccepted
<1>4. Grown(log, log', r)
  BY <1>1, AppendGrown
<1>5. LogAccepted'
  BY <1>2, <1>3, <1>4 DEF LogAccepted, Keyed, Grown
<1>6. CacheSums'
  BY DEF MirrorInv, CacheSums
<1>7. AuthoritySums'
  <2>1. SUFFICES ASSUME format = 3
                 PROVE  Summary(authority, SubSeq(log', 1, authority.lsn))
    BY DEF AuthoritySums
  <2>2. authority.lsn <= Len(log) /\ authority.lsn \in Nat
    BY <1>1, <2>1 DEF MirrorInv, AuthorityInv, AuthorityCovers, Checkpoint
  <2>3. SubSeq(log', 1, authority.lsn) = SubSeq(log, 1, authority.lsn)
    BY <1>1, <2>2, AppendPrefix
  <2> QED BY <2>1, <2>2, <2>3 DEF MirrorInv, AuthoritySums
<1> QED BY <1>4, <1>5, <1>6, <1>7

LEMMA MirrorTypes ==
  ASSUME NEW L, NEW P, NEW D, NEW C, NEW V, NEW X, NEW K, NEW I,
         Mirror(L, P, D, C, V, X, K, I)
  PROVE  /\ Decided(D, C) \subseteq Txn /\ IsFiniteSet(Decided(D, C))
         /\ \A kind : Unprojected(C, X, kind) \subseteq Txn /\ IsFiniteSet(Unprojected(C, X, kind))
         /\ AllSeqs(P, D) \subseteq Nat
         /\ DecidedSeqs(P, D, C) \subseteq AllSeqs(P, D)
<1>1. P \subseteq Prepare /\ D \subseteq Decision /\ C \subseteq Txn
  BY DEF Mirror
<1>2. /\ \A p \in P : p.txn \in Txn /\ p.seq \in Nat
      /\ \A d \in D : d.txn \in Txn /\ d.seq \in Nat
  BY <1>1 DEF Prepare, Decision
<1>3. Decided(D, C) \subseteq Txn /\ \A kind : Unprojected(C, X, kind) \subseteq Txn
  BY <1>1, <1>2 DEF Decided, Unprojected, TxnsOf
<1>4. AllSeqs(P, D) \subseteq Nat /\ DecidedSeqs(P, D, C) \subseteq AllSeqs(P, D)
  BY <1>2 DEF AllSeqs, DecidedSeqs
<1>5. \A S : S \subseteq Txn => IsFiniteSet(S)
  BY FS_Subset, ConstantsAssumption
<1> QED BY <1>3, <1>4, <1>5

LEMMA SyncPrepareMirror ==
  ASSUME MirrorInv, AuthorityInv', sync_prepare
  PROVE  MirrorInv'
<1>1. /\ up /\ stage = "prepare" /\ stage' = "prepared"
      /\ UNCHANGED <<log, format, cache, authority, up, poisoned, current,
                     idempotency, prepares, commits, projections, unknown, decisions,
                     completed, committed_count, next_sequence, max_committed_sequence,
                     pending_storage, pending_audit, answer>>
  BY DEF sync_prepare, maps, counters
<1>2. LogAccepted' /\ CacheSums' /\ AuthoritySums'
  BY <1>1, SameDisk
<1>3. Undecided' = Undecided
  BY <1>1 DEF Undecided
<1>4. MapsMirror' /\ CountersSo'
  BY <1>1, <1>3 DEF MirrorInv, MapsMirror, CountersSo
<1>5. OperationMirror' /\ MarksKnown' /\ UnknownAnswered'
  BY <1>1 DEF MirrorInv, OperationMirror, MarksKnown, UnknownAnswered
<1> QED BY <1>2, <1>4, <1>5 DEF MirrorInv

\* A commit that fails is forgotten (before its COMMIT record) or unknown.
LEMMA CommitFailsMirror ==
  ASSUME MirrorInv, AuthorityInv', NEW told \in {"failed", "unknown"},
         commit_fails(told), UNCHANGED log,
         stage \in {"prepare", "prepared", "commit"},
         \/ told = "failed" /\ stage = "prepare" /\ unknown' = unknown
         \/ told = "unknown" /\ unknown' = unknown \cup {current.txn}
  PROVE  MirrorInv'
<1>1. /\ stage' = "idle" /\ poisoned' = TRUE /\ answer' = [answer EXCEPT ![current.txn] = told]
      /\ UNCHANGED <<log, format, cache, authority, up,
                     idempotency, prepares, commits, projections, decisions,
                     completed, committed_count, next_sequence, max_committed_sequence,
                     pending_storage, pending_audit>>
  BY DEF commit_fails
<1>2. LogAccepted' /\ CacheSums' /\ AuthoritySums'
  BY <1>1, SameDisk
<1>3. up /\ current.txn \in Txn /\ answer \in [Txn -> Answers] /\ unknown \subseteq Txn
      /\ answer[current.txn] = "none"
  BY DEF MirrorInv, AuthorityInv, TypeInv, TypeOK, StageOwned, MapsType, InFlight
<1>4. Entry(current) \in prepares /\ current.txn \notin commits
  BY DEF MirrorInv, OperationMirror
<1>5. current.txn \in TxnsOf(prepares)
  BY <1>4 DEF Entry, TxnsOf
<1>6. Mirror(log, prepares, decisions, commits, Undecided, projections, completed, idempotency)
  BY <1>3 DEF MirrorInv, MapsMirror
<1>7. Mirror(log, prepares, decisions, commits, Undecided', projections, completed, idempotency)
  <2>1. CASE told = "failed"
    <3>1. Undecided' = Undecided
      BY <1>1, <2>1 DEF Undecided
    <3> QED BY <1>6, <3>1
  <2>2. CASE told = "unknown"
    <3>1. Undecided' = Undecided \cup {current.txn}
      BY <1>1, <2>2 DEF Undecided
    <3>2. CommitAdded(log, log, prepares, commits, Undecided, current.txn, Undecided')
      BY <1>4, <1>5, <3>1 DEF CommitAdded
    <3> QED BY <1>6, <3>2, CommitMirror
  <2> QED BY <2>1, <2>2
<1>8. MapsMirror' /\ CountersSo'
  BY <1>1, <1>7 DEF MirrorInv, MapsMirror, CountersSo
<1>9. OperationMirror' /\ MarksKnown'
  BY <1>1 DEF OperationMirror, MarksKnown
<1>10. UnknownAnswered'
  BY <1>1, <1>3 DEF MirrorInv, UnknownAnswered
<1> QED BY <1>2, <1>8, <1>9, <1>10 DEF MirrorInv

LEMMA WriteCommitMirror ==
  ASSUME MirrorInv, AuthorityInv', write_commit
  PROVE  MirrorInv'
<1>1. /\ up /\ stage = "prepared" /\ stage' = "commit"
      /\ UNCHANGED <<format, cache, authority, up, poisoned, current,
                     idempotency, prepares, commits, projections, unknown, decisions,
                     completed, committed_count, next_sequence, max_committed_sequence,
                     pending_storage, pending_audit, answer>>
  BY DEF write_commit, maps, counters
<1>2. /\ current.txn \in Txn /\ current.seq \in Nat /\ current.txn \notin TxnsIn(log, "COMMIT")
  BY <1>1, OfLogged
     DEF MirrorInv, AuthorityInv, TypeInv, TypeOK, StageOwned, ProcessType, Operand, InFlight
<1>3. PICK r : r = [type |-> "COMMIT", txn |-> current.txn, seq |-> current.seq, key |-> NoKey]
  OBVIOUS
<1>4. r \in Record /\ r.type = "COMMIT" /\ r.txn = current.txn /\ r.seq = current.seq
  BY <1>2, <1>3 DEF Record, Keys
<1>5. log' = Append(log, r)
  BY <1>3 DEF write_commit
<1>6. /\ Entry(current) \in prepares /\ Rec(current) \in Of(log, "PREPARE")
      /\ current.txn \notin commits \cup unknown /\ current.seq = next_sequence /\ ~poisoned
  BY <1>1 DEF MirrorInv, OperationMirror
<1>7. Rec(current).txn = current.txn /\ Rec(current).seq = current.seq
      /\ Entry(current).txn = current.txn /\ Rec(Entry(current)) = Rec(current)
  BY DEF Rec, Entry
<1>8. Acceptable(log, r)
  BY <1>2, <1>4, <1>6, <1>7 DEF Acceptable, Kinds
<1>9. LogAccepted' /\ CacheSums' /\ AuthoritySums' /\ Grown(log, log', r)
  BY <1>1, <1>4, <1>5, <1>8, AppendDisk
<1>10. Mirror(log, prepares, decisions, commits, Undecided, projections, completed, idempotency)
  BY <1>1 DEF MirrorInv, MapsMirror
<1>11. Undecided' = Undecided \cup {current.txn}
  BY <1>1 DEF Undecided
<1>12. \A p \in prepares : p.txn = current.txn => Rec(p) \in Of(log, "PREPARE")
  BY <1>6, <1>7, <1>10 DEF Mirror, PreparesMirror
<1>13. current.txn \in TxnsOf(prepares)
  BY <1>6, <1>7 DEF TxnsOf
<1>14. CommitAdded(log, log', prepares, commits, Undecided, current.txn, Undecided')
  BY <1>4, <1>6, <1>9, <1>11, <1>12, <1>13 DEF CommitAdded
<1>15. Mirror(log', prepares, decisions, commits, Undecided', projections, completed, idempotency)
  BY <1>10, <1>14, CommitMirror
<1>16. MapsMirror' /\ CountersSo'
  BY <1>1, <1>15 DEF MirrorInv, MapsMirror, CountersSo
<1>17. /\ Of(log', "PREPARE") = Of(log, "PREPARE")
       /\ \A kind \in Kinds : TxnsIn(log', kind) = TxnsIn(log, kind)
  BY <1>4, <1>9 DEF Grown, Kinds
<1>18. \A kind \in Kinds : current.txn \notin TxnsIn(log, kind)
  <2>1. Sound(log)
    BY LogTyped, AcceptsSound DEF MirrorInv, LogAccepted
  <2> QED BY <1>2, <2>1 DEF Sound
<1>19. OperationMirror'
  BY <1>1, <1>6, <1>17, <1>18 DEF OperationMirror
<1>20. MarksKnown' /\ UnknownAnswered'
  BY <1>1, <1>17 DEF MirrorInv, MarksKnown, UnknownAnswered
<1> QED BY <1>9, <1>16, <1>19, <1>20 DEF MirrorInv

LEMMA SyncCommitMirror ==
  ASSUME MirrorInv, AuthorityInv', sync_commit
  PROVE  MirrorInv'
<1>1. /\ up /\ stage = "commit" /\ stage' = "idle"
      /\ commits' = commits \cup {current.txn} /\ unknown' = unknown \ {current.txn}
      /\ committed_count' = committed_count + 1 /\ max_committed_sequence' = current.seq
      /\ pending_storage' = pending_storage + 1 /\ pending_audit' = pending_audit + 1
      /\ answer' = [answer EXCEPT ![current.txn] = "committed"]
      /\ UNCHANGED <<log, format, cache, authority, up, poisoned,
                     idempotency, prepares, projections, decisions,
                     completed, next_sequence>>
  BY DEF sync_commit
<1>2. /\ current.txn \in Txn /\ current.seq \in Nat /\ current.txn \in TxnsIn(log, "COMMIT")
      /\ answer \in [Txn -> Answers] /\ unknown \subseteq Txn
  BY <1>1, OfLogged
     DEF MirrorInv, AuthorityInv, TypeInv, TypeOK, StageOwned, ProcessType, Operand, InFlight,
         MapsType
<1>3. /\ Entry(current) \in prepares /\ Rec(current) \in Of(log, "PREPARE")
      /\ current.txn \notin commits \cup unknown /\ current.seq = next_sequence /\ ~poisoned
      /\ \A kind \in Kinds : current.txn \notin TxnsIn(log, kind)
  BY <1>1 DEF MirrorInv, OperationMirror
<1>4. Entry(current).txn = current.txn /\ Entry(current).seq = current.seq
  BY DEF Entry
<1>5. LogAccepted' /\ CacheSums' /\ AuthoritySums'
  BY <1>1, SameDisk
<1>6. Mirror(log, prepares, decisions, commits, Undecided, projections, completed, idempotency)
  BY <1>1 DEF MirrorInv, MapsMirror
<1>7. current.txn \in Undecided /\ Undecided' = Undecided \ {current.txn}
  BY <1>1, <1>3 DEF Undecided
<1>8. /\ Mirror(log, prepares, decisions, commits', Undecided', projections, completed, idempotency)
      /\ Decided(decisions, commits') = Decided(decisions, commits) \cup {current.txn}
      /\ current.txn \notin Decided(decisions, commits)
      /\ DecidedSeqs(prepares, decisions, commits') =
           DecidedSeqs(prepares, decisions, commits) \cup {current.seq}
      /\ \A kind \in Kinds :
           /\ Unprojected(commits', projections, kind) =
                Unprojected(commits, projections, kind) \cup {current.txn}
           /\ current.txn \notin Unprojected(commits, projections, kind)
  <2>1. DecisionKnown(log, prepares, commits, Undecided, current.txn, current.seq,
                      commits', Undecided')
    BY <1>1, <1>2, <1>3, <1>4, <1>7 DEF DecisionKnown
  <2> QED BY <1>6, <2>1, DecideMirror
<1>9. MapsMirror'
  BY <1>1, <1>8 DEF MapsMirror
<1>10. CountersMirror(prepares, decisions, commits, projections, committed_count,
                      next_sequence, max_committed_sequence, pending_storage, pending_audit)
  BY <1>1 DEF MirrorInv, CountersSo
<1>11. committed_count' = Cardinality(Decided(decisions, commits'))
  <2>1. IsFiniteSet(Decided(decisions, commits))
    BY <1>6, MirrorTypes
  <2> QED BY <1>1, <1>8, <1>10, <2>1, FS_AddElement DEF CountersMirror
<1>12. /\ pending_storage' = Cardinality(Unprojected(commits', projections, "storage"))
       /\ pending_audit' = Cardinality(Unprojected(commits', projections, "audit"))
  <2>1. /\ IsFiniteSet(Unprojected(commits, projections, "storage"))
        /\ IsFiniteSet(Unprojected(commits, projections, "audit"))
        /\ "storage" \in Kinds /\ "audit" \in Kinds
    BY <1>6, MirrorTypes DEF Kinds
  <2> QED BY <1>1, <1>8, <1>10, <2>1, FS_AddElement DEF CountersMirror
<1>13. max_committed_sequence' \in Greatest({0} \cup DecidedSeqs(prepares, decisions, commits'))
  <2>1. /\ AllSeqs(prepares, decisions) \subseteq Nat
        /\ DecidedSeqs(prepares, decisions, commits) \subseteq AllSeqs(prepares, decisions)
    BY <1>6, MirrorTypes
  <2>2. \A n \in {0} \cup AllSeqs(prepares, decisions) : n <= next_sequence
    BY <1>10 DEF CountersMirror, Greatest
  <2>3. \A n \in {0} \cup DecidedSeqs(prepares, decisions, commits') : n <= current.seq
    BY <1>2, <1>3, <1>8, <2>1, <2>2
  <2>4. current.seq \in {0} \cup DecidedSeqs(prepares, decisions, commits')
    BY <1>8
  <2>5. current.seq \in Greatest({0} \cup DecidedSeqs(prepares, decisions, commits'))
    BY <2>3, <2>4 DEF Greatest
  <2> QED BY <1>1, <2>5
<1>14. CountersSo'
  BY <1>1, <1>10, <1>11, <1>12, <1>13 DEF CountersSo, CountersMirror
<1>15. OperationMirror'
  BY <1>1 DEF OperationMirror
<1>16. MarksKnown'
  BY <1>1, <1>3 DEF MirrorInv, MarksKnown
<1>17. UnknownAnswered'
  BY <1>1, <1>2 DEF MirrorInv, UnknownAnswered
<1> QED BY <1>5, <1>9, <1>14, <1>15, <1>16, <1>17 DEF MirrorInv

LEMMA MarkWriteMirror ==
  ASSUME MirrorInv, AuthorityInv', NEW t \in Txn, NEW kind \in Kinds,
         NEW written \in BOOLEAN, mark_projected_write(t, kind, written)
  PROVE  MirrorInv'
<1>1. /\ up /\ stage = "idle" /\ ~poisoned /\ t \in commits
      /\ UNCHANGED <<format, cache, authority, up,
                     idempotency, prepares, commits, projections, unknown, decisions,
                     completed, committed_count, next_sequence, max_committed_sequence,
                     pending_storage, pending_audit, answer>>
  BY DEF mark_projected_write, maps, counters, Unlocked
<1>2. <<t, kind>> \notin projections
  BY DEF mark_projected_write, projected
<1>3. Mirror(log, prepares, decisions, commits, Undecided, projections, completed, idempotency)
  BY <1>1 DEF MirrorInv, MapsMirror
<1>4. CASE ~written
  <2>1. poisoned' = TRUE /\ UNCHANGED <<log, stage, current>>
    BY <1>4 DEF mark_projected_write
  <2>2. LogAccepted' /\ CacheSums' /\ AuthoritySums'
    BY <1>1, <2>1, SameDisk
  <2>3. Undecided' = Undecided
    BY <1>1, <2>1 DEF Undecided
  <2>4. MapsMirror' /\ CountersSo'
    BY <1>1, <2>1, <2>3 DEF MirrorInv, MapsMirror, CountersSo
  <2>5. OperationMirror' /\ MarksKnown' /\ UnknownAnswered'
    BY <1>1, <2>1 DEF MirrorInv, OperationMirror, MarksKnown, UnknownAnswered
  <2> QED BY <2>2, <2>4, <2>5 DEF MirrorInv
<1>5. CASE written
  <2>1. PICK r : r = [type |-> kind, txn |-> t, seq |-> 0, key |-> NoKey]
    OBVIOUS
  <2>2. r \in Record /\ r.type = kind /\ r.txn = t /\ kind # "PREPARE" /\ kind # "COMMIT"
    BY <2>1 DEF Record, Keys, Kinds
  <2>3. /\ log' = Append(log, r) /\ stage' = "mark" /\ UNCHANGED poisoned
        /\ current'.txn = t /\ current'.kind = kind
    BY <1>5, <2>1 DEF mark_projected_write
  <2>4. t \in TxnsIn(log, "COMMIT")
    BY <1>1, <1>3 DEF Mirror, CommitsMirror
  <2>5. t \notin TxnsIn(log, kind)
    BY <1>1, <1>2 DEF MirrorInv, MarksKnown
  <2>6. Acceptable(log, r)
    BY <2>2, <2>4, <2>5 DEF Acceptable
  <2>7. LogAccepted' /\ CacheSums' /\ AuthoritySums' /\ Grown(log, log', r)
    BY <1>1, <2>2, <2>3, <2>6, AppendDisk
  <2>8. Mirror(log', prepares, decisions, commits, Undecided, projections, completed, idempotency)
    BY <1>1, <1>3, <2>2, <2>7, MarkLogged
  <2>9. Undecided' = Undecided
    BY <1>1, <2>3 DEF Undecided
  <2>10. MapsMirror' /\ CountersSo'
    BY <1>1, <2>8, <2>9 DEF MirrorInv, MapsMirror, CountersSo
  <2>11. /\ TxnsIn(log', kind) = TxnsIn(log, kind) \cup {t}
         /\ \A k \in Kinds : k # kind => TxnsIn(log', k) = TxnsIn(log, k)
    BY <2>2, <2>7 DEF Grown
  <2>12. OperationMirror'
    BY <1>1, <1>2, <2>3, <2>11 DEF OperationMirror
  <2>13. MarksKnown'
    BY <1>1, <2>3, <2>11 DEF MirrorInv, MarksKnown
  <2>14. UnknownAnswered'
    BY <1>1 DEF MirrorInv, UnknownAnswered
  <2> QED BY <2>7, <2>10, <2>12, <2>13, <2>14 DEF MirrorInv
<1> QED BY <1>4, <1>5

LEMMA MarkSyncMirror ==
  ASSUME MirrorInv, AuthorityInv', mark_projected_sync
  PROVE  MirrorInv'
<1> DEFINE t == current.txn
           kind == current.kind
<1>1. /\ up /\ stage = "mark" /\ stage' = "idle"
      /\ projections' = projections \cup {<<t, kind>>}
      /\ UNCHANGED <<log, format, cache, authority, up, poisoned,
                     idempotency, prepares, commits, unknown, decisions,
                     committed_count, next_sequence, max_committed_sequence, answer>>
  BY DEF mark_projected_sync
<1>2. /\ completed' \subseteq completed \cup {t}
      /\ t \in completed' => t \in completed \/ \A k \in Kinds : <<t, k>> \in projections'
  BY DEF mark_projected_sync, terminal
<1>3. kind \in Kinds
  BY DEF MirrorInv, AuthorityInv, TypeInv, TypeOK, ProcessType, Operand
<1>4. t \in commits /\ <<t, kind>> \notin projections /\ t \in TxnsIn(log, kind) /\ ~poisoned
  BY <1>1 DEF MirrorInv, OperationMirror
<1>5. LogAccepted' /\ CacheSums' /\ AuthoritySums'
  BY <1>1, SameDisk
<1>6. Mirror(log, prepares, decisions, commits, Undecided, projections, completed, idempotency)
  BY <1>1 DEF MirrorInv, MapsMirror
<1>7. t \in completed => \A k \in Kinds : <<t, k>> \in projections'
  BY <1>1, <1>6 DEF Mirror, MarksMirror
<1>8. Undecided' = Undecided
  BY <1>1 DEF Undecided
<1> HIDE DEF t, kind
<1>9. /\ Mirror(log, prepares, decisions, commits, Undecided, projections', completed', idempotency)
      /\ Unprojected(commits, projections', kind) = Unprojected(commits, projections, kind) \ {t}
      /\ t \in Unprojected(commits, projections, kind)
      /\ \A k \in Kinds : k # kind =>
           Unprojected(commits, projections', k) = Unprojected(commits, projections, k)
  <2>1. PICK X2, K2 : X2 = projections' /\ K2 = completed'
    OBVIOUS
  <2>2. /\ X2 = projections \cup {<<t, kind>>} /\ K2 \subseteq completed \cup {t}
        /\ t \in K2 => \A k \in Kinds : <<t, k>> \in X2
    BY <1>1, <1>2, <1>7, <2>1
  <2>3. /\ Mirror(log, prepares, decisions, commits, Undecided, X2, K2, idempotency)
        /\ Unprojected(commits, X2, kind) = Unprojected(commits, projections, kind) \ {t}
        /\ t \in Unprojected(commits, projections, kind)
        /\ \A k \in Kinds : k # kind =>
             Unprojected(commits, X2, k) = Unprojected(commits, projections, k)
    BY <1>3, <1>4, <1>6, <2>2, MarkMirror
  <2> QED BY <2>1, <2>3
<1>10. MapsMirror'
  BY <1>1, <1>8, <1>9 DEF MapsMirror
<1>11. CountersMirror(prepares, decisions, commits, projections, committed_count,
                      next_sequence, max_committed_sequence, pending_storage, pending_audit)
  BY <1>1 DEF MirrorInv, CountersSo
<1>12. /\ pending_storage' = Cardinality(Unprojected(commits, projections', "storage"))
       /\ pending_audit' = Cardinality(Unprojected(commits, projections', "audit"))
  <2>1. IsFiniteSet(Unprojected(commits, projections, kind))
    BY <1>6, MirrorTypes
  <2>2. Cardinality(Unprojected(commits, projections', kind)) =
        Cardinality(Unprojected(commits, projections, kind)) - 1
    BY <1>9, <2>1, FS_RemoveElement
  <2>3. "storage" \in Kinds /\ "audit" \in Kinds /\ (kind = "storage" \/ kind = "audit")
    BY <1>3 DEF Kinds
  <2>4. CASE kind = "storage"
    <3>1. pending_storage' = pending_storage - 1 /\ pending_audit' = pending_audit
      BY <2>4 DEF mark_projected_sync, kind
    <3> QED BY <1>9, <1>11, <2>2, <2>3, <2>4, <3>1 DEF CountersMirror
  <2>5. CASE kind = "audit"
    <3>1. pending_audit' = pending_audit - 1 /\ pending_storage' = pending_storage
      BY <2>5 DEF mark_projected_sync, kind
    <3> QED BY <1>9, <1>11, <2>2, <2>3, <2>5, <3>1 DEF CountersMirror
  <2> QED BY <2>3, <2>4, <2>5
<1>13. CountersSo'
  BY <1>1, <1>11, <1>12 DEF CountersSo, CountersMirror
<1>14. OperationMirror' /\ UnknownAnswered'
  BY <1>1 DEF MirrorInv, OperationMirror, UnknownAnswered
<1>15. MarksKnown'
  BY <1>1 DEF MirrorInv, MarksKnown, t, kind
<1> QED BY <1>5, <1>10, <1>13, <1>14, <1>15 DEF MirrorInv

LEMMA MarkFailsMirror ==
  ASSUME MirrorInv, AuthorityInv', mark_projected_sync_fails
  PROVE  MirrorInv'
<1>1. /\ stage = "mark" /\ stage' = "idle" /\ poisoned' = TRUE
      /\ UNCHANGED <<log, format, cache, authority, up,
                     idempotency, prepares, commits, projections, unknown, decisions,
                     completed, committed_count, next_sequence, max_committed_sequence,
                     pending_storage, pending_audit, answer>>
  BY DEF mark_projected_sync_fails, disk, maps, counters
<1>2. LogAccepted' /\ CacheSums' /\ AuthoritySums'
  BY <1>1, SameDisk
<1>3. Undecided' = Undecided
  BY <1>1 DEF Undecided
<1>4. MapsMirror' /\ CountersSo'
  BY <1>1, <1>3 DEF MirrorInv, MapsMirror, CountersSo
<1>5. OperationMirror' /\ MarksKnown' /\ UnknownAnswered'
  BY <1>1 DEF MirrorInv, OperationMirror, MarksKnown, UnknownAnswered
<1> QED BY <1>2, <1>4, <1>5 DEF MirrorInv

LEMMA SubSeqPrefix ==
  ASSUME NEW L \in Seq(Record), NEW m \in 0 .. Len(L), NEW n \in 0 .. m
  PROVE  SubSeq(SubSeq(L, 1, m), 1, n) = SubSeq(L, 1, n)
<1>1. PICK M \in Seq(Record) : M = SubSeq(L, 1, m)
  <2>1. SubSeq(L, 1, m) \in Seq(Record)
    OBVIOUS
  <2> QED BY <2>1
<1>2. Len(M) = m /\ Len(L) \in Nat /\ m \in Nat /\ n \in Nat /\ \A i \in 1 .. m : M[i] = L[i]
  BY <1>1
<1>3. /\ SubSeq(M, 1, n) \in Seq(Record) /\ Len(SubSeq(M, 1, n)) = n
      /\ SubSeq(L, 1, n) \in Seq(Record) /\ Len(SubSeq(L, 1, n)) = n
      /\ \A i \in 1 .. n : SubSeq(M, 1, n)[i] = M[i] /\ SubSeq(L, 1, n)[i] = L[i]
  BY <1>2
<1>4. PICK A \in Seq(Record) : A = SubSeq(M, 1, n)
  BY <1>3
<1>5. PICK B \in Seq(Record) : B = SubSeq(L, 1, n)
  BY <1>3
<1>6. Len(A) = Len(B) /\ \A i \in 1 .. Len(A) : A[i] = B[i]
  BY <1>2, <1>3, <1>4, <1>5
<1>7. A = B
  BY <1>6
<1> QED BY <1>1, <1>4, <1>5, <1>7

LEMMA CrashMirror ==
  ASSUME MirrorInv, AuthorityInv', kill \/ power_loss
  PROVE  MirrorInv'
<1>1. /\ up' = FALSE /\ stage' = "idle" /\ unknown' = {}
      /\ UNCHANGED <<format, cache, authority, answer>>
  BY DEF kill, power_loss, forget
<1>2. log \in Seq(Record) /\ Len(log) \in Nat /\ authority \in Checkpoint
  BY LogTyped DEF MirrorInv
<1>3. PICK n \in 0 .. Len(log) : log' = SubSeq(log, 1, n)
  <2>1. CASE kill
    <3>1. log = SubSeq(log, 1, Len(log))
      BY <1>2
    <3>2. log' = log
      BY <2>1 DEF kill
    <3>3. Len(log) \in 0 .. Len(log)
      BY <1>2
    <3>4. log' = SubSeq(log, 1, Len(log))
      BY <3>1, <3>2, Zenon
    <3> QED BY <3>3, <3>4
  <2>2. CASE power_loss
    BY <2>2 DEF power_loss, MirrorInv, AuthorityInv, TypeInv, TypeOK, DiskType
  <2> QED BY <2>1, <2>2
<1>4. LogAccepted'
  <2>1. Accepts(log) /\ Keyed(log, format)
    BY DEF MirrorInv, LogAccepted
  <2>2. Accepts(log')
    BY <1>2, <1>3, <2>1, PrefixAccepted
  <2>3. Len(log') = n /\ \A i \in 1 .. n : log'[i] = log[i] /\ i \in 1 .. Len(log)
    BY <1>2, <1>3
  <2>4. Of(log', "PREPARE") \subseteq Of(log, "PREPARE")
    BY <2>3 DEF Of
  <2> QED BY <1>1, <2>1, <2>2, <2>4 DEF LogAccepted, Keyed
<1>5. CacheSums'
  BY <1>1 DEF MirrorInv, CacheSums
<1>6. AuthoritySums'
  <2>1. SUFFICES ASSUME format = 3, authority.lsn <= Len(log')
                 PROVE  Summary(authority, SubSeq(log', 1, authority.lsn))
    BY <1>1 DEF AuthoritySums
  <2>2. Len(log') = n /\ authority.lsn \in Nat
    BY <1>2, <1>3 DEF Checkpoint
  <2>3. authority.lsn \in 0 .. n /\ authority.lsn <= Len(log)
    BY <1>2, <2>1, <2>2
  <2>4. SubSeq(log', 1, authority.lsn) = SubSeq(log, 1, authority.lsn)
    BY <1>2, <1>3, <2>3, SubSeqPrefix
  <2> QED BY <2>1, <2>3, <2>4 DEF MirrorInv, AuthoritySums
<1>7. MapsMirror' /\ CountersSo' /\ OperationMirror' /\ MarksKnown' /\ UnknownAnswered'
  BY <1>1 DEF MapsMirror, CountersSo, OperationMirror, MarksKnown, UnknownAnswered
<1> QED BY <1>4, <1>5, <1>6, <1>7 DEF MirrorInv

\* Eviction, as checkpoint_completed_frontier and commit_inner do it first.
LEMMA EvictMirror ==
  ASSUME MirrorInv, up, stage = "idle", NEW ids \in SUBSET completed, flush_decisions(ids),
         NEW hot, hot = {p \in prepares : p.txn \notin ids},
         NEW I2, I2 = idempotency \ KeysOf(prepares \ hot)
  PROVE  /\ Mirror(log, hot, decisions', commits', unknown, projections', completed', I2)
         /\ CountersMirror(hot, decisions', commits', projections', committed_count,
                           next_sequence, max_committed_sequence, pending_storage, pending_audit)
         /\ commits' \subseteq commits
         /\ \A x \in projections : x[1] \in commits' => x \in projections'
         /\ TxnsOf(decisions') \subseteq TxnsOf(prepares) \cup TxnsOf(decisions)
<1>1. PICK D2, C2, X2, K2 :
        D2 = decisions' /\ C2 = commits' /\ X2 = projections' /\ K2 = completed'
  OBVIOUS
<1>2. Flushed(ids, prepares, decisions, commits, projections, completed, idempotency,
              hot, D2, C2, X2, K2, I2)
  BY <1>1 DEF Flushed, flush_decisions
<1>3. Undecided = unknown
  BY DEF Undecided
<1>4. Mirror(log, prepares, decisions, commits, unknown, projections, completed, idempotency)
  BY <1>3 DEF MirrorInv, MapsMirror
<1>5. Mirror(log, hot, D2, C2, unknown, X2, K2, I2)
  BY <1>2, <1>4, FlushMirror
<1>6. /\ Decided(D2, C2) = Decided(decisions, commits)
      /\ AllSeqs(hot, D2) = AllSeqs(prepares, decisions)
      /\ DecidedSeqs(hot, D2, C2) = DecidedSeqs(prepares, decisions, commits)
      /\ \A kind \in Kinds : Unprojected(C2, X2, kind) = Unprojected(commits, projections, kind)
  BY <1>2, <1>4, FlushCounters
<1>7. CountersMirror(prepares, decisions, commits, projections, committed_count,
                     next_sequence, max_committed_sequence, pending_storage, pending_audit)
  BY DEF MirrorInv, CountersSo
<1>8. CountersMirror(hot, D2, C2, X2, committed_count, next_sequence,
                     max_committed_sequence, pending_storage, pending_audit)
  BY <1>6, <1>7 DEF CountersMirror, Kinds
<1>9. /\ commits' \subseteq commits
      /\ \A x \in projections : x[1] \in commits' => x \in projections'
  BY DEF flush_decisions
<1>10. \A d \in decisions' : d.txn \in TxnsOf(prepares) \cup TxnsOf(decisions)
  <2>1. \A p : decide(p, commits).txn = p.txn
    BY DEF decide
  <2> QED BY <2>1 DEF flush_decisions, TxnsOf
<1>11. TxnsOf(decisions') \subseteq TxnsOf(prepares) \cup TxnsOf(decisions)
  <2>1. PICK U : U = TxnsOf(prepares) \cup TxnsOf(decisions)
    OBVIOUS
  <2>2. \A d \in decisions' : d.txn \in U
    BY <1>10, <2>1
  <2>3. TxnsOf(decisions') \subseteq U
    BY <2>2 DEF TxnsOf
  <2> QED BY <2>1, <2>3
<1> QED BY <1>1, <1>5, <1>8, <1>9, <1>11

\* What is stored once nothing is hot sums the log.
LEMMA StoredSummary ==
  ASSUME log \in Seq(Record), Accepts(log),
         NEW D, NEW C, NEW X, NEW K, NEW I, NEW V, V = {},
         Mirror(log, {}, D, C, V, X, K, I),
         NEW count, NEW next, NEW max, NEW storage, NEW audit,
         CountersMirror({}, D, C, X, count, next, max, storage, audit),
         NEW cp, cp = [prefix |-> log, lsn |-> Len(log), next_sequence |-> next,
                       max_committed_sequence |-> max, committed_count |-> count,
                       decisions |-> D]
  PROVE  Summary(cp, log)
<1>1. Sound(log)
  BY AcceptsSound
<1>2. /\ cp.lsn = Len(log) /\ cp.decisions = D
      /\ cp.committed_count = Cardinality(Decided(D, C))
      /\ cp.next_sequence \in Greatest({0} \cup AllSeqs({}, D))
      /\ cp.max_committed_sequence \in Greatest({0} \cup DecidedSeqs({}, D, C))
  BY DEF CountersMirror
<1> QED BY <1>1, <1>2, PublishSummary

LEMMA StoreSums ==
  ASSUME log \in Seq(Record), CacheSums, NEW cp \in Checkpoint, cp.prefix = log,
         cp.lsn = Len(log), Summary(cp, log), store_checkpoint(cp)
  PROVE  /\ CacheSums'
         /\ format # 3 => authority' = authority
         /\ format = 3 => /\ authority'.lsn = Len(log)
                          /\ Summary(authority', SubSeq(log, 1, Len(log)))
<1>1. CASE format = 3
  <2>1. authority' = [cp EXCEPT !.prefix = << >>] /\ cache' = cache
    BY <1>1 DEF store_checkpoint, publish_at
  <2>2. PICK a : a = [cp EXCEPT !.prefix = << >>]
    OBVIOUS
  <2>3. /\ a.lsn = cp.lsn /\ a.decisions = cp.decisions
        /\ a.next_sequence = cp.next_sequence
        /\ a.max_committed_sequence = cp.max_committed_sequence
        /\ a.committed_count = cp.committed_count
    BY <2>2 DEF Checkpoint
  <2>4. Summary(a, log)
    BY <2>3 DEF Summary
  <2>5. SubSeq(log, 1, Len(log)) = log
    OBVIOUS
  <2>6. CacheSums'
    BY <2>1 DEF CacheSums
  <2>7. authority' = a
    BY <2>1, <2>2
  <2> QED BY <1>1, <2>3, <2>4, <2>5, <2>6, <2>7
<1>2. CASE format # 3
  <2>1. cache' = cp /\ authority' = authority
    BY <1>2 DEF store_checkpoint, publish_cache
  <2>2. Summary(cache', cache'.prefix)
    BY <2>1
  <2> QED BY <1>2, <2>1, <2>2 DEF CacheSums
<1> QED BY <1>1, <1>2

LEMMA CheckpointMirror ==
  ASSUME MirrorInv, AuthorityInv', NEW expired \in BOOLEAN,
         checkpoint_completed_frontier(expired)
  PROVE  MirrorInv'
<1> DEFINE hot == {p \in prepares : p.txn \notin completed}
<1>1. /\ up /\ stage = "idle" /\ unknown = {} /\ flush_decisions(completed)
      /\ prepares' = hot /\ idempotency' = idempotency \ KeysOf(prepares \ hot)
      /\ UNCHANGED <<log, format, up, poisoned, stage, current, unknown, committed_count,
                     next_sequence, max_committed_sequence, pending_storage,
                     pending_audit, answer>>
  BY DEF checkpoint_completed_frontier, Unlocked, publishable, quiescent, process
<1>2. PICK H, I2 : H = hot /\ I2 = idempotency \ KeysOf(prepares \ hot)
  OBVIOUS
<1> HIDE DEF hot
<1>3. /\ Mirror(log, H, decisions', commits', unknown, projections', completed', I2)
      /\ CountersMirror(H, decisions', commits', projections', committed_count,
                        next_sequence, max_committed_sequence, pending_storage, pending_audit)
      /\ commits' \subseteq commits
      /\ \A x \in projections : x[1] \in commits' => x \in projections'
  BY <1>1, <1>2, EvictMirror DEF hot
<1>4. Undecided' = unknown
  BY <1>1 DEF Undecided
<1>5. MapsMirror' /\ CountersSo'
  BY <1>1, <1>2, <1>3, <1>4 DEF MapsMirror, CountersSo
<1>6. OperationMirror' /\ UnknownAnswered'
  BY <1>1 DEF MirrorInv, OperationMirror, UnknownAnswered
<1>7. MarksKnown'
  BY <1>1, <1>3 DEF MirrorInv, MarksKnown
<1>8. /\ log \in Seq(Record) /\ Accepts(log) /\ CacheSums /\ authority \in Checkpoint
  BY LogTyped DEF MirrorInv, LogAccepted
<1>9. LogAccepted'
  BY <1>1 DEF MirrorInv, LogAccepted
<1>10. CacheSums' /\ AuthoritySums'
  <2>1. CASE hot = {}
    <3>1. PICK cp : cp = [prefix |-> log, lsn |-> Len(log),
                   next_sequence |-> next_sequence,
                   max_committed_sequence |-> max_committed_sequence,
                   committed_count |-> committed_count,
                   decisions |-> decisions']
      OBVIOUS
    <3>2. store_checkpoint(cp)
      BY <2>1, <3>1 DEF checkpoint_completed_frontier, hot
    <3>3. cp \in Checkpoint
      <4>1. decisions' \subseteq Decision
        BY DEF AuthorityInv, TypeInv, TypeOK, MapsType
      <4> QED BY <1>8, <3>1, <4>1, FrontierType DEF MirrorInv, AuthorityInv, TypeInv
    <3>4. Summary(cp, log)
      BY <1>1, <1>2, <1>3, <1>8, <2>1, <3>1, StoredSummary
    <3>5. cp.prefix = log /\ cp.lsn = Len(log)
      BY <3>1
    <3>6. /\ CacheSums'
          /\ format # 3 => authority' = authority
          /\ format = 3 => /\ authority'.lsn = Len(log)
                           /\ Summary(authority', SubSeq(log, 1, Len(log)))
      BY <1>8, <3>2, <3>3, <3>4, <3>5, StoreSums
    <3> QED BY <1>1, <3>6 DEF MirrorInv, AuthoritySums
  <2>2. CASE hot # {}
    <3>1. UNCHANGED <<cache, authority>>
      BY <2>2 DEF checkpoint_completed_frontier, hot
    <3> QED BY <1>1, <3>1 DEF MirrorInv, CacheSums, AuthoritySums
  <2> QED BY <2>1, <2>2
<1> QED BY <1>5, <1>6, <1>7, <1>9, <1>10 DEF MirrorInv

\* The maintenance that commit_inner does before it reserves a sequence.
Maintained(ids, H, I2) ==
  /\ ids \in SUBSET completed /\ flush_decisions(ids)
  /\ H = {p \in prepares : p.txn \notin ids}
  /\ I2 = idempotency \ KeysOf(prepares \ H)
  /\ \/ UNCHANGED <<cache, authority>>
     \/ /\ H = {} /\ unknown = {}
        /\ store_checkpoint([prefix |-> log, lsn |-> Len(log),
                             next_sequence |-> next_sequence,
                             max_committed_sequence |-> max_committed_sequence,
                             committed_count |-> committed_count,
                             decisions |-> decisions'])

LEMMA BeginMaintains ==
  ASSUME NEW t, NEW k, NEW written, commit_inner_begin(t, k, written)
  PROVE  \E ids, H, I2 :
           /\ Maintained(ids, H, I2)
           /\ idempotency' = I2 \cup ({k} \ {NoKey})
           /\ prepares' = H \cup {[txn |-> t, seq |-> next_sequence + 1, key |-> k]}
<1> DEFINE due == next_sequence - checkpointed_sequence >= CheckpointInterval
           publish == due /\ publishable(FALSE)
           ids == IF publish \/ Cardinality(completed) >= DecisionBatch
                  THEN completed ELSE {}
           H == {p \in prepares : p.txn \notin ids}
           I2 == idempotency \ KeysOf(prepares \ H)
<1>1. /\ flush_decisions(ids)
      /\ IF publish /\ H = {}
         THEN store_checkpoint([prefix |-> log, lsn |-> Len(log),
                             next_sequence |-> next_sequence,
                             max_committed_sequence |-> max_committed_sequence,
                             committed_count |-> committed_count,
                             decisions |-> decisions'])
         ELSE UNCHANGED <<cache, authority>>
      /\ idempotency' = I2 \cup ({k} \ {NoKey})
      /\ prepares' = H \cup {[txn |-> t, seq |-> next_sequence + 1, key |-> k]}
  BY Zenon DEF commit_inner_begin
<1>2. publish => unknown = {}
  BY DEF publishable, quiescent
<1>3. ids \in SUBSET completed
  OBVIOUS
<1> HIDE DEF publish, ids
<1>4. Maintained(ids, H, I2)
  BY <1>1, <1>2, <1>3, Zenon DEF Maintained
<1> QED BY <1>1, <1>4, Zenon

LEMMA MaintainMirror ==
  ASSUME MirrorInv, up, stage = "idle", decisions' \subseteq Decision,
         NEW ids, NEW H, NEW I2, Maintained(ids, H, I2)
  PROVE  /\ Mirror(log, H, decisions', commits', unknown, projections', completed', I2)
         /\ CountersMirror(H, decisions', commits', projections', committed_count,
                           next_sequence, max_committed_sequence, pending_storage, pending_audit)
         /\ commits' \subseteq commits
         /\ \A x \in projections : x[1] \in commits' => x \in projections'
         /\ TxnsOf(decisions') \subseteq TxnsOf(prepares) \cup TxnsOf(decisions)
         /\ CacheSums'
         /\ format = 3 => /\ authority'.lsn \in 0 .. Len(log)
                          /\ Summary(authority', SubSeq(log, 1, authority'.lsn))
<1>1. /\ Mirror(log, H, decisions', commits', unknown, projections', completed', I2)
      /\ CountersMirror(H, decisions', commits', projections', committed_count,
                        next_sequence, max_committed_sequence, pending_storage, pending_audit)
      /\ commits' \subseteq commits
      /\ \A x \in projections : x[1] \in commits' => x \in projections'
      /\ TxnsOf(decisions') \subseteq TxnsOf(prepares) \cup TxnsOf(decisions)
  BY EvictMirror DEF Maintained
<1>2. /\ log \in Seq(Record) /\ Len(log) \in Nat /\ Accepts(log) /\ CacheSums
      /\ authority \in Checkpoint
  BY LogTyped DEF MirrorInv, LogAccepted
<1>3. CASE UNCHANGED <<cache, authority>>
  <2>1. CacheSums'
    BY <1>2, <1>3 DEF CacheSums
  <2>2. format = 3 => authority.lsn <= Len(log) /\ authority.lsn \in Nat
    BY <1>2 DEF MirrorInv, AuthorityInv, AuthorityCovers, Checkpoint
  <2>3. format = 3 => Summary(authority, SubSeq(log, 1, authority.lsn))
    BY <2>2 DEF MirrorInv, AuthoritySums
  <2> QED BY <1>1, <1>2, <1>3, <2>1, <2>2, <2>3
<1>4. CASE ~UNCHANGED <<cache, authority>>
  <2>1. PICK cp : cp = [prefix |-> log, lsn |-> Len(log),
                   next_sequence |-> next_sequence,
                   max_committed_sequence |-> max_committed_sequence,
                   committed_count |-> committed_count,
                   decisions |-> decisions']
    OBVIOUS
  <2>2. store_checkpoint(cp) /\ H = {} /\ unknown = {}
    BY <1>4, <2>1 DEF Maintained
  <2>3. cp \in Checkpoint
    BY <1>2, <2>1, FrontierType DEF MirrorInv, AuthorityInv, TypeInv
  <2>4. Summary(cp, log)
    BY <1>1, <1>2, <2>1, <2>2, StoredSummary
  <2>5. cp.prefix = log /\ cp.lsn = Len(log)
    BY <2>1
  <2>6. /\ CacheSums'
        /\ format = 3 => /\ authority'.lsn = Len(log)
                         /\ Summary(authority', SubSeq(log, 1, Len(log)))
    BY <1>2, <2>2, <2>3, <2>4, <2>5, StoreSums
  <2> QED BY <1>1, <1>2, <2>6
<1> QED BY <1>3, <1>4

\* The reserved PREPARE, at the end of the log.
LEMMA PrepareAcceptable ==
  ASSUME MirrorInv, up, NEW p \in Prepare, p.seq = next_sequence + 1,
         stage = "idle",
         p.txn \notin TxnsOf(prepares) \cup TxnsOf(decisions),
         p.key # NoKey => ~consumed_key(p.key)
  PROVE  /\ \A type \in {"PREPARE", "COMMIT"} \cup Kinds : p.txn \notin TxnsIn(log, type)
         /\ Rec(p) \in Record /\ Rec(p).type = "PREPARE" /\ Rec(p).key = p.key
         /\ Acceptable(log, Rec(p))
<1>1. log \in Seq(Record)
  BY LogTyped DEF MirrorInv
<1>2. \A type : p.txn \notin TxnsIn(log, type)
  <2>1. \A i \in 1 .. Len(log) : log[i].txn # p.txn
    BY DEF MirrorInv, AuthorityInv, LogKnown, Known
  <2> QED BY <2>1 DEF TxnsIn, TxnsOf, Of
<1>3. /\ Rec(p).type = "PREPARE" /\ Rec(p).key = p.key /\ Rec(p).seq = p.seq
      /\ Rec(p).txn = p.txn
  BY DEF Rec
<1>4. Rec(p) \in Record /\ p.seq \in Nat /\ next_sequence \in Nat
  BY DEF Rec, Record, Prepare, MirrorInv, AuthorityInv, TypeInv, TypeOK, CountersType
<1>5. Mirror(log, prepares, decisions, commits, Undecided, projections, completed, idempotency)
      /\ CountersMirror(prepares, decisions, commits, projections, committed_count,
                        next_sequence, max_committed_sequence, pending_storage, pending_audit)
  BY DEF MirrorInv, MapsMirror, CountersSo
<1>6. \A n \in AllSeqs(prepares, decisions) : n <= next_sequence
  BY <1>5 DEF CountersMirror, Greatest
<1>7. ASSUME NEW s \in Of(log, "PREPARE")
      PROVE  s.txn # p.txn /\ s.seq < p.seq /\ (p.key # NoKey => s.key # p.key)
  <2>1. PICK x \in prepares \cup decisions : Rec(x) = s
    BY <1>5 DEF Mirror, PreparesMirror
  <2>2. s.seq = x.seq /\ s.key = x.key /\ s \in Record
    BY <1>1, <2>1, OfType DEF Rec
  <2>3. x.seq \in AllSeqs(prepares, decisions) /\ s.seq \in Nat
    BY <2>2 DEF AllSeqs, Record
  <2>4. s.seq < p.seq
    BY <1>4, <1>6, <2>2, <2>3
  <2>5. s.txn # p.txn
    BY <1>2 DEF TxnsIn, TxnsOf
  <2>6. ASSUME p.key # NoKey, s.key = p.key
        PROVE  FALSE
    <3>1. x.key \in KeysOf(prepares) \cup KeysOf(decisions)
      BY <2>2, <2>6 DEF KeysOf
    <3>2. KeysOf(prepares) \subseteq idempotency
      BY <1>5 DEF Mirror
    <3> QED BY <2>2, <2>6, <3>1, <3>2 DEF consumed_key
  <2> QED BY <2>4, <2>5, <2>6
<1>8. Acceptable(log, Rec(p))
  <2>1. p.seq > 0
    BY <1>4
  <2> QED BY <1>3, <1>7, <2>1 DEF Acceptable, Kinds
<1> QED BY <1>2, <1>3, <1>4, <1>8

LEMMA CommitBeginMirror ==
  ASSUME MirrorInv, AuthorityInv', NEW t \in Txn, NEW k \in Keys,
         NEW written \in BOOLEAN, commit_inner_begin(t, k, written)
  PROVE  MirrorInv'
<1>1. /\ up /\ stage = "idle" /\ ~poisoned /\ answer[t] = "none"
      /\ t \notin TxnsOf(prepares) \cup TxnsOf(decisions)
      /\ k # NoKey => ~consumed_key(k)
      /\ format' = IF k # NoKey /\ format = 1 THEN 2 ELSE format
      /\ next_sequence' = next_sequence + 1
      /\ UNCHANGED <<up, unknown, committed_count,
                     max_committed_sequence, pending_storage, pending_audit>>
  BY DEF commit_inner_begin, Unlocked
<1>2. PICK p : p = [txn |-> t, seq |-> next_sequence + 1, key |-> k]
  OBVIOUS
<1>3. p.txn = t /\ p.seq = next_sequence + 1 /\ p.key = k
  BY <1>2
<1>4. p \in Prepare /\ next_sequence \in Nat
  <2>1. next_sequence \in Nat
    BY DEF MirrorInv, AuthorityInv, TypeInv, TypeOK, CountersType
  <2> QED BY <1>2, <2>1 DEF Prepare
<1>5. PICK ids, H, I2 :
        /\ Maintained(ids, H, I2)
        /\ idempotency' = I2 \cup ({k} \ {NoKey})
        /\ prepares' = H \cup {p}
  BY <1>2, BeginMaintains
<1>6. /\ log \in Seq(Record) /\ Len(log) \in Nat /\ Accepts(log) /\ Keyed(log, format)
      /\ decisions' \subseteq Decision /\ format \in 1 .. 3
      /\ answer \in [Txn -> Answers]
  BY LogTyped DEF MirrorInv, LogAccepted, AuthorityInv, TypeInv, TypeOK, MapsType
<1>7. /\ Mirror(log, H, decisions', commits', unknown, projections', completed', I2)
      /\ CountersMirror(H, decisions', commits', projections', committed_count,
                        next_sequence, max_committed_sequence, pending_storage, pending_audit)
      /\ commits' \subseteq commits
      /\ \A x \in projections : x[1] \in commits' => x \in projections'
      /\ TxnsOf(decisions') \subseteq TxnsOf(prepares) \cup TxnsOf(decisions)
      /\ CacheSums'
      /\ format = 3 => /\ authority'.lsn \in 0 .. Len(log)
                       /\ Summary(authority', SubSeq(log, 1, authority'.lsn))
  BY <1>1, <1>5, <1>6, MaintainMirror
<1>8. /\ \A type \in {"PREPARE", "COMMIT"} \cup Kinds : p.txn \notin TxnsIn(log, type)
      /\ Rec(p) \in Record /\ Rec(p).type = "PREPARE" /\ Rec(p).key = p.key
      /\ Acceptable(log, Rec(p))
  BY <1>1, <1>3, <1>4, PrepareAcceptable
<1>9. (format = 3 <=> format' = 3) /\ (format > 1 => format' > 1) /\ (k # NoKey => format' > 1)
  BY <1>1, <1>6
<1>10. \/ /\ log' = log /\ UNCHANGED <<stage, current>> /\ poisoned' = TRUE
          /\ answer' = [answer EXCEPT ![t] = "failed"]
       \/ /\ log' = Append(log, Rec(p)) /\ stage' = "prepare"
          /\ current'.txn = t /\ current'.seq = p.seq /\ current'.key = k
          /\ UNCHANGED <<poisoned, answer>>
  <2>1. Rec(p) = [type |-> "PREPARE", txn |-> t, seq |-> next_sequence + 1, key |-> k]
    BY <1>3 DEF Rec
  <2>2. CASE written
    <3>1. /\ log' = Append(log, Rec(p)) /\ stage' = "prepare" /\ UNCHANGED <<poisoned, answer>>
          /\ current' = [txn |-> t, seq |-> next_sequence + 1, key |-> k, kind |-> "storage"]
      BY <2>1, <2>2, Zenon DEF commit_inner_begin
    <3> QED BY <1>3, <3>1
  <2>3. CASE ~written
    BY <2>3 DEF commit_inner_begin
  <2> QED BY <2>2, <2>3
<1>11. log' = log \/ Grown(log, log', Rec(p))
  BY <1>6, <1>8, <1>10, AppendGrown
<1>12. LogAccepted'
  <2>1. Accepts(log')
    BY <1>6, <1>8, <1>10, AppendAccepted
  <2>2. Of(log', "PREPARE") \subseteq Of(log, "PREPARE") \cup {Rec(p)}
    BY <1>8, <1>11 DEF Grown
  <2>3. Keyed(log', format')
    BY <1>3, <1>6, <1>8, <1>9, <2>2 DEF Keyed
  <2> QED BY <2>1, <2>3 DEF LogAccepted
<1>13. AuthoritySums'
  <2>1. stage' # "migrate"
    BY <1>1, <1>10
  <2>2. SUFFICES ASSUME format = 3
                 PROVE  Summary(authority', SubSeq(log', 1, authority'.lsn))
    BY <1>9, <2>1 DEF AuthoritySums
  <2>3. PICK a : a = authority'
    OBVIOUS
  <2>4. a.lsn \in 0 .. Len(log) /\ Summary(a, SubSeq(log, 1, a.lsn))
    BY <1>7, <2>2, <2>3
  <2>5. SubSeq(log', 1, a.lsn) = SubSeq(log, 1, a.lsn)
    BY <1>6, <1>8, <1>10, <2>4, AppendPrefix
  <2> QED BY <2>3, <2>4, <2>5
<1>14. Undecided' = unknown
  BY <1>1, <1>10 DEF Undecided
<1>15. PrepareAdded(log, log', H, decisions', I2, p, prepares', idempotency')
  <2>1. H \subseteq prepares
    BY <1>5 DEF Maintained
  <2>2. p.txn \notin TxnsOf(H) \cup TxnsOf(decisions')
    BY <1>1, <1>3, <1>7, <2>1 DEF TxnsOf
  <2>3. p.key # NoKey => p.key \notin I2
    BY <1>1, <1>3, <1>5 DEF Maintained, consumed_key
  <2> QED BY <1>3, <1>4, <1>5, <1>8, <1>11, <2>2, <2>3 DEF PrepareAdded
<1>16. PICK D2, C2, X2, K2, P2, J2 :
         /\ D2 = decisions' /\ C2 = commits' /\ X2 = projections' /\ K2 = completed'
         /\ P2 = prepares' /\ J2 = idempotency'
  OBVIOUS
<1>17. /\ Mirror(log', P2, D2, C2, unknown, X2, K2, J2)
       /\ AllSeqs(P2, D2) = AllSeqs(H, D2) \cup {p.seq}
       /\ DecidedSeqs(P2, D2, C2) = DecidedSeqs(H, D2, C2)
  BY <1>7, <1>15, <1>16, PrepareMirror
<1>18. MapsMirror'
  BY <1>14, <1>16, <1>17 DEF MapsMirror
<1>19. CountersSo'
  <2>1. CountersMirror(H, D2, C2, X2, committed_count,
                       next_sequence, max_committed_sequence, pending_storage, pending_audit)
    BY <1>7, <1>16
  <2>2. AllSeqs(H, D2) \subseteq Nat
    BY <1>7, <1>16, MirrorTypes
  <2>3. \A n \in {0} \cup AllSeqs(H, D2) : n <= next_sequence /\ n \in Nat
    BY <2>1, <2>2 DEF CountersMirror, Greatest
  <2>4. next_sequence + 1 \in Greatest({0} \cup (AllSeqs(H, D2) \cup {next_sequence + 1}))
    BY <1>4, <2>3 DEF Greatest
  <2>5. CountersMirror(P2, D2, C2, X2, committed_count,
                       next_sequence + 1, max_committed_sequence, pending_storage, pending_audit)
    BY <1>3, <1>17, <2>1, <2>4 DEF CountersMirror
  <2> QED BY <1>1, <1>16, <2>5 DEF CountersSo
<1>20. OperationMirror'
  <2>1. CASE log' = log /\ stage' = stage
    BY <1>1, <2>1 DEF OperationMirror
  <2>2. CASE log' = Append(log, Rec(p)) /\ stage' = "prepare"
    <3>1. current'.txn = t /\ current'.seq = p.seq /\ current'.key = k /\ ~poisoned'
      BY <1>1, <1>10, <2>2
    <3>2. Entry(current') = p
      BY <1>2, <1>3, <3>1, Zenon DEF Entry
    <3>3. Rec(current') = Rec(p)
      BY <1>3, <3>1, Zenon DEF Rec
    <3>4. Rec(p) \in Of(log', "PREPARE")
      <4>1. Grown(log, log', Rec(p))
        BY <1>6, <1>8, <2>2, AppendGrown
      <4> QED BY <1>8, <4>1 DEF Grown
    <3>5. t \notin commits' \cup unknown'
      <4>1. t \notin commits
        BY <1>1 DEF MirrorInv, AuthorityInv, CommitsPrepared
      <4>2. t \notin unknown
        BY <1>1 DEF MirrorInv, UnknownAnswered
      <4> QED BY <1>1, <1>7, <4>1, <4>2
    <3>6. p \in prepares' /\ p.seq = next_sequence'
      BY <1>1, <1>3, <1>5
    <3>7. /\ Entry(current') \in prepares' /\ Rec(current') \in Of(log', "PREPARE")
          /\ current'.seq = next_sequence' /\ current'.txn \notin commits' \cup unknown'
      BY <3>1, <3>2, <3>3, <3>4, <3>5, <3>6
    <3> QED BY <2>2, <3>1, <3>7 DEF OperationMirror
  <2> QED BY <1>10, <2>1, <2>2
<1>21. MarksKnown'
  <2>1. \A kind \in Kinds : TxnsIn(log', kind) = TxnsIn(log, kind)
    <3>1. \A kind \in Kinds : kind # Rec(p).type
      BY <1>8 DEF Kinds
    <3> QED BY <1>11, <3>1 DEF Grown
  <2>2. \A s \in commits, kind \in Kinds : s \in TxnsIn(log, kind) => <<s, kind>> \in projections
    BY <1>1 DEF MirrorInv, MarksKnown
  <2> QED BY <1>7, <2>1, <2>2 DEF MarksKnown
<1>22. UnknownAnswered'
  <2>1. t \notin unknown /\ unknown \subseteq Txn
    BY <1>1 DEF MirrorInv, UnknownAnswered, AuthorityInv, TypeInv, TypeOK, MapsType
  <2>2. \A s \in unknown : answer'[s] = answer[s]
    BY <1>6, <1>10, <2>1
  <2> QED BY <1>1, <2>2 DEF MirrorInv, UnknownAnswered
<1> QED BY <1>7, <1>12, <1>13, <1>18, <1>19, <1>20, <1>21, <1>22 DEF MirrorInv

\* A usable checkpoint sums the part of the log it covers.
LEMMA BaseBased ==
  ASSUME MirrorInv, open_succeeds
  PROVE  recovery_base \in Checkpoint /\ Based(recovery_base) /\ replay_accepts(recovery_base)
<1>1. /\ log \in Seq(Record) /\ cache \in Checkpoint /\ authority \in Checkpoint
  BY LogTyped DEF MirrorInv
<1>2. replay_accepts(recovery_base) /\ (format = 3 => authority.lsn <= Len(log))
  BY DEF open_succeeds
<1>3. CASE format = 3
  <2>1. recovery_base = authority
    BY <1>3 DEF recovery_base
  <2>2. Based(authority)
    BY <1>2, <1>3 DEF MirrorInv, AuthoritySums, Based
  <2> QED BY <1>1, <1>2, <2>1, <2>2
<1>4. CASE format # 3 /\ cache_matches
  <2>1. recovery_base = cache
    BY <1>4 DEF recovery_base
  <2>2. cache.lsn <= Len(log) /\ SubSeq(log, 1, cache.lsn) = cache.prefix
    BY <1>4 DEF cache_matches
  <2>3. Based(cache)
    BY <2>2 DEF MirrorInv, CacheSums, Based
  <2> QED BY <1>1, <1>2, <2>1, <2>3
<1>5. CASE format # 3 /\ ~cache_matches
  <2>1. recovery_base = NoCheckpoint
    BY <1>5 DEF recovery_base
  <2>2. NoCheckpoint \in Checkpoint
    BY NoCheckpointType
  <2> QED BY <1>1, <1>2, <2>1, <2>2, EmptyBased
<1> QED BY <1>3, <1>4, <1>5

LEMMA RebuiltMarks ==
  ASSUME NEW L
  PROVE  \A t \in OpenIn(L), kind \in Kinds :
           t \in TxnsIn(L, kind) => <<t, kind>> \in MarksIn(L)
  BY DEF MarksIn

LEMMA OpenMirror ==
  ASSUME MirrorInv, AuthorityInv', NEW expired \in BOOLEAN, open_inner(expired)
  PROVE  MirrorInv'
<1>1. /\ ~up /\ up' = TRUE /\ open_succeeds /\ install(recovery_base)
      /\ UNCHANGED <<log, format, poisoned, stage, current, answer>>
  BY DEF open_inner
<1>2. PICK b : b = recovery_base
  OBVIOUS
<1>3. b \in Checkpoint /\ Based(b) /\ replay_accepts(b) /\ install(b)
  BY <1>1, <1>2, BaseBased
<1>4. /\ log \in Seq(Record) /\ Accepts(log) /\ CacheSums /\ stage = "idle"
  BY <1>1, LogTyped DEF MirrorInv, LogAccepted, AuthorityInv, TypeInv, StageOwned
<1>5. /\ prepares' = HotIn(log) /\ decisions' = ColdIn(log)
      /\ commits' = OpenIn(log) /\ projections' = MarksIn(log)
      /\ unknown' = {} /\ completed' = {}
      /\ Mirror(log, prepares', decisions', commits', {}, projections', {}, idempotency')
      /\ CountersMirror(prepares', decisions', commits', projections',
                        committed_count', next_sequence', max_committed_sequence',
                        pending_storage', pending_audit')
  BY <1>3, <1>4, InstallMirror
<1>6. Undecided' = {}
  BY <1>1, <1>4, <1>5 DEF Undecided
<1>7. MapsMirror' /\ CountersSo'
  BY <1>1, <1>5, <1>6 DEF MapsMirror, CountersSo
<1>8. OperationMirror' /\ UnknownAnswered'
  BY <1>1, <1>4, <1>5 DEF OperationMirror, UnknownAnswered
<1>9. MarksKnown'
  BY <1>1, <1>5, RebuiltMarks DEF MarksKnown
<1>10. LogAccepted'
  BY <1>1 DEF MirrorInv, LogAccepted
<1>11. CacheSums' /\ AuthoritySums'
  <2>1. CASE UNCHANGED <<cache, authority>>
    BY <1>1, <2>1 DEF MirrorInv, CacheSums, AuthoritySums
  <2>2. CASE ~UNCHANGED <<cache, authority>>
    <3>1. PICK cp : cp = [prefix |-> log, lsn |-> Len(log),
                   next_sequence |-> next_sequence',
                   max_committed_sequence |-> max_committed_sequence',
                   committed_count |-> committed_count',
                   decisions |-> decisions']
      OBVIOUS
    <3>2. store_checkpoint(cp) /\ ReplayedOpen(b) = {}
      BY <1>2, <2>2, <3>1 DEF open_inner
    <3>3. cp \in Checkpoint
      <4>1. /\ next_sequence' \in Nat /\ max_committed_sequence' \in Nat
            /\ committed_count' \in Nat /\ decisions' \subseteq Decision
        BY DEF AuthorityInv, TypeInv, TypeOK, CountersType, MapsType
      <4>2. Len(log) \in Nat
        BY <1>4
      <4> QED BY <1>4, <3>1, <4>1, <4>2 DEF Checkpoint
    <3>4. HotIn(log) = {}
      <4>1. ReplayedOpen(b) = OpenIn(log)
        BY <1>3, <1>4, SameReplay, WholeRebuilds
      <4> QED BY <3>2, <4>1 DEF HotIn
    <3>5. Summary(cp, log)
      <4>1. PICK D2, C2, X2, I2, count, next, max, storage, audit :
              /\ D2 = decisions' /\ C2 = commits' /\ X2 = projections' /\ I2 = idempotency'
              /\ count = committed_count' /\ next = next_sequence'
              /\ max = max_committed_sequence'
              /\ storage = pending_storage' /\ audit = pending_audit'
        OBVIOUS
      <4>2. /\ Mirror(log, {}, D2, C2, {}, X2, {}, I2)
            /\ CountersMirror({}, D2, C2, X2, count, next, max, storage, audit)
        BY <1>5, <3>4, <4>1
      <4>3. cp = [prefix |-> log, lsn |-> Len(log), next_sequence |-> next,
                  max_committed_sequence |-> max, committed_count |-> count,
                  decisions |-> D2]
        BY <3>1, <4>1
      <4> QED BY <1>4, <4>2, <4>3, StoredSummary
    <3>6. cp.prefix = log /\ cp.lsn = Len(log)
      BY <3>1
    <3>7. /\ CacheSums'
          /\ format # 3 => authority' = authority
          /\ format = 3 => /\ authority'.lsn = Len(log)
                           /\ Summary(authority', SubSeq(log, 1, Len(log)))
      BY <1>4, <3>2, <3>3, <3>5, <3>6, StoreSums
    <3> QED BY <1>1, <1>4, <3>7 DEF MirrorInv, AuthoritySums
  <2> QED BY <2>1, <2>2
<1> QED BY <1>7, <1>8, <1>9, <1>10, <1>11 DEF MirrorInv

\* A log without an open decision, summed by the replay of the whole of it.
LEMMA MigratedSums ==
  ASSUME log \in Seq(Record), Accepts(log), OpenIn(log) = {},
         NEW b, b.lsn = Len(log), b.decisions = ColdIn(log),
         b.committed_count = Cardinality(TxnsIn(log, "COMMIT")),
         b.next_sequence \in Greatest({0} \cup SeqsOf(Of(log, "PREPARE"))),
         b.max_committed_sequence \in Greatest({0} \cup SeqsOf(Of(log, "COMMIT")))
  PROVE  Summary(b, log)
<1>1. Sound(log)
  BY AcceptsSound
<1>2. HotIn(log) = {}
  BY DEF HotIn
<1>3. /\ Decided(ColdIn(log), OpenIn(log)) = TxnsIn(log, "COMMIT")
      /\ AllSeqs(HotIn(log), ColdIn(log)) = SeqsOf(Of(log, "PREPARE"))
      /\ DecidedSeqs(HotIn(log), ColdIn(log), OpenIn(log)) = SeqsOf(Of(log, "COMMIT"))
  BY <1>1, RebuiltCounters
<1>4. Mirror(log, HotIn(log), ColdIn(log), OpenIn(log), {}, MarksIn(log), {}, KeysOf(HotIn(log)))
  BY <1>1, RebuiltMirror
<1>5. PICK D, C, X, I : D = ColdIn(log) /\ C = OpenIn(log) /\ X = MarksIn(log) /\ I = KeysOf(HotIn(log))
  OBVIOUS
<1>6. /\ Mirror(log, {}, D, C, {}, X, {}, I)
      /\ b.decisions = D /\ b.committed_count = Cardinality(Decided(D, C))
      /\ b.next_sequence \in Greatest({0} \cup AllSeqs({}, D))
      /\ b.max_committed_sequence \in Greatest({0} \cup DecidedSeqs({}, D, C))
  BY <1>2, <1>3, <1>4, <1>5
<1> QED BY <1>1, <1>6, PublishSummary

LEMMA MigratePublishMirror ==
  ASSUME MirrorInv, AuthorityInv', migrate_publish
  PROVE  MirrorInv'
<1>1. /\ up /\ stage = "idle" /\ stage' = "migrate" /\ ~poisoned
      /\ UNCHANGED <<log, format, cache, up, poisoned, current, idempotency, prepares,
                     commits, projections, unknown, decisions, completed, committed_count,
                     next_sequence, max_committed_sequence, pending_storage, pending_audit,
                     answer>>
  BY DEF migrate_publish, Unlocked, maps, counters
<1>2. /\ log \in Seq(Record) /\ Accepts(log)
  BY LogTyped DEF MirrorInv, LogAccepted
<1>3. LogAccepted' /\ CacheSums'
  BY <1>1 DEF MirrorInv, LogAccepted, CacheSums
<1>4. AuthoritySums'
  <2>1. PICK n \in ReplayedSequence(NoCheckpoint), m \in ReplayedMaxCommitted(NoCheckpoint) :
          authority' = [prefix |-> << >>, lsn |-> Len(log),
                       next_sequence |-> n, max_committed_sequence |-> m,
                       committed_count |-> Cardinality(ReplayedTxns(NoCheckpoint, "COMMIT")),
                       decisions |-> finish_recovery(NoCheckpoint)]
    BY DEF migrate_publish
  <2>2. PICK a : a = authority'
    OBVIOUS
  <2>3. /\ a.lsn = Len(log) /\ a.decisions = finish_recovery(NoCheckpoint)
        /\ a.next_sequence = n /\ a.max_committed_sequence = m
        /\ a.committed_count = Cardinality(ReplayedTxns(NoCheckpoint, "COMMIT"))
    BY <2>1, <2>2
  <2>4. ReplayedOpen(NoCheckpoint) = {}
    BY DEF migrate_publish
  <2>5. /\ OpenIn(log) = {} /\ a.decisions = ColdIn(log)
        /\ a.committed_count = Cardinality(TxnsIn(log, "COMMIT"))
        /\ a.next_sequence \in Greatest({0} \cup SeqsOf(Of(log, "PREPARE")))
        /\ a.max_committed_sequence \in Greatest({0} \cup SeqsOf(Of(log, "COMMIT")))
    BY <1>2, <2>1, <2>3, <2>4, WholeRebuilds, WholeReplay
  <2>6. Summary(a, log)
    BY <1>2, <2>3, <2>5, MigratedSums
  <2>7. SubSeq(log, 1, Len(log)) = log
    BY <1>2
  <2>8. Summary(a, SubSeq(log, 1, a.lsn))
    BY <2>3, <2>6, <2>7
  <2> QED BY <1>1, <2>2, <2>8 DEF AuthoritySums
<1>5. Undecided' = Undecided
  BY <1>1 DEF Undecided
<1>6. MapsMirror' /\ CountersSo'
  BY <1>1, <1>5 DEF MirrorInv, MapsMirror, CountersSo
<1>7. OperationMirror' /\ MarksKnown' /\ UnknownAnswered'
  BY <1>1 DEF MirrorInv, OperationMirror, MarksKnown, UnknownAnswered
<1> QED BY <1>3, <1>4, <1>6, <1>7 DEF MirrorInv

LEMMA MigrateActivateMirror ==
  ASSUME MirrorInv, AuthorityInv', migrate_activate
  PROVE  MirrorInv'
<1>1. /\ up /\ stage = "migrate" /\ stage' = "idle" /\ install(NoCheckpoint) /\ format' = 3
      /\ UNCHANGED <<log, cache, authority, up, poisoned, current, answer>>
  BY DEF migrate_activate
<1>2. /\ log \in Seq(Record) /\ Accepts(log) /\ format \in 1 .. 3
      /\ replay_accepts(NoCheckpoint) /\ NoCheckpoint \in Checkpoint
  BY <1>1, LogTyped, NoCheckpointType
     DEF MirrorInv, LogAccepted, AuthorityInv, MigrationReplays
<1>3. /\ prepares' = HotIn(log) /\ decisions' = ColdIn(log)
      /\ commits' = OpenIn(log) /\ projections' = MarksIn(log)
      /\ unknown' = {} /\ completed' = {}
      /\ Mirror(log, prepares', decisions', commits', {}, projections', {}, idempotency')
      /\ CountersMirror(prepares', decisions', commits', projections',
                        committed_count', next_sequence', max_committed_sequence',
                        pending_storage', pending_audit')
  BY <1>1, <1>2, EmptyBased, InstallMirror
<1>4. Undecided' = {}
  BY <1>1, <1>3 DEF Undecided
<1>5. MapsMirror' /\ CountersSo'
  BY <1>1, <1>3, <1>4 DEF MapsMirror, CountersSo
<1>6. OperationMirror' /\ UnknownAnswered'
  BY <1>1, <1>3 DEF OperationMirror, UnknownAnswered
<1>7. MarksKnown'
  BY <1>1, <1>3, RebuiltMarks DEF MarksKnown
<1>8. LogAccepted'
  BY <1>1, <1>2 DEF MirrorInv, LogAccepted, Keyed
<1>9. CacheSums' /\ AuthoritySums'
  BY <1>1 DEF MirrorInv, CacheSums, AuthoritySums
<1> QED BY <1>5, <1>6, <1>7, <1>8, <1>9 DEF MirrorInv

LEMMA MirrorStep == MirrorInv /\ [Next]_vars => MirrorInv'
<1> SUFFICES ASSUME MirrorInv, [Next]_vars PROVE MirrorInv'
  OBVIOUS
<1>0. AuthorityInv'
  BY AuthorityStep DEF MirrorInv
<1>1. ASSUME NEW k \in Key, begin_idempotent(k) \/ drop_guard(k)
      PROVE MirrorInv'
  BY <1>0, <1>1, QuietMirror DEF begin_idempotent, drop_guard, counters
<1>2. ASSUME NEW t \in Txn, NEW k \in Keys, NEW written \in BOOLEAN,
             commit_inner_begin(t, k, written)
      PROVE MirrorInv'
  BY <1>0, <1>2, CommitBeginMirror
<1>3. ASSUME NEW t \in Txn, NEW k \in Key, commit_inner_refused(t, k)
      PROVE MirrorInv'
  BY <1>0, <1>3, QuietMirror DEF commit_inner_refused
<1>4. CASE sync_prepare
  BY <1>0, <1>4, SyncPrepareMirror
<1>5. CASE sync_prepare_fails \/ write_commit_fails \/ sync_commit_fails
  <2>1. CASE sync_prepare_fails
    BY <1>0, <2>1, CommitFailsMirror DEF sync_prepare_fails
  <2>2. CASE write_commit_fails
    BY <1>0, <2>2, CommitFailsMirror DEF write_commit_fails
  <2>3. CASE sync_commit_fails
    BY <1>0, <2>3, CommitFailsMirror DEF sync_commit_fails
  <2> QED BY <1>5, <2>1, <2>2, <2>3
<1>6. CASE write_commit
  BY <1>0, <1>6, WriteCommitMirror
<1>7. CASE sync_commit
  BY <1>0, <1>7, SyncCommitMirror
<1>8. ASSUME NEW t \in Txn, NEW kind \in Kinds, NEW written \in BOOLEAN,
             mark_projected_write(t, kind, written)
      PROVE MirrorInv'
  BY <1>0, <1>8, MarkWriteMirror
<1>9. CASE mark_projected_sync
  BY <1>0, <1>9, MarkSyncMirror
<1>10. CASE mark_projected_sync_fails
  BY <1>0, <1>10, MarkFailsMirror
<1>11. ASSUME NEW expired \in BOOLEAN, checkpoint_completed_frontier(expired)
      PROVE MirrorInv'
  BY <1>0, <1>11, CheckpointMirror
<1>12. CASE kill \/ power_loss
  BY <1>0, <1>12, CrashMirror
<1>13. ASSUME NEW expired \in BOOLEAN, open_inner(expired)
      PROVE MirrorInv'
  BY <1>0, <1>13, OpenMirror
<1>14. CASE migrate_publish
  BY <1>0, <1>14, MigratePublishMirror
<1>15. CASE migrate_activate
  BY <1>0, <1>15, MigrateActivateMirror
<1>16. CASE UNCHANGED vars
  BY <1>0, <1>16, QuietMirror DEF vars, counters
<1> QED BY <1>1, <1>2, <1>3, <1>4, <1>5, <1>6, <1>7, <1>8, <1>9, <1>10, <1>11,
           <1>12, <1>13, <1>14, <1>15, <1>16
  DEF Next

\* The log replays, checkpoints sum what they cover, and a live journal's maps
\* and counters mirror its log, in every reachable state.
THEOREM JournalMirrorsLog == Spec => []MirrorInv
  BY MirrorInit, MirrorStep, PTL DEF Spec

(***************************************************************************)
(* What follows from the mirror.                                           *)
(***************************************************************************)
LEMMA IdleMirror ==
  ASSUME MirrorInv, Unlocked
  PROVE  /\ Mirror(log, prepares, decisions, commits, unknown, projections,
                   completed, idempotency)
         /\ CountersMirror(prepares, decisions, commits, projections, committed_count,
                           next_sequence, max_committed_sequence, pending_storage,
                           pending_audit)
<1>1. up /\ Undecided = unknown
  BY DEF Unlocked, Undecided
<1> QED BY <1>1 DEF MirrorInv, MapsMirror, CountersSo

LEMMA AnswersFollow == MirrorInv => AnswersHold
<1> SUFFICES ASSUME MirrorInv, NEW t \in Txn
             PROVE  /\ answer[t] = "committed" =>
                         /\ t \in Durable("COMMIT")
                         /\ Unlocked => checked_status(t) = "Committed"
                    /\ answer[t] = "failed" =>
                         /\ t \notin Logged("COMMIT")
                         /\ Unlocked => checked_status(t) # "Committed"
  BY DEF AnswersHold
<1>1. /\ answer[t] = "committed" => t \in Durable("COMMIT")
      /\ answer[t] = "failed" => t \notin Logged("COMMIT")
  BY DEF MirrorInv, AuthorityInv, AnswersDurable
<1>2. answer[t] = "committed" => t \in TxnsIn(log, "COMMIT") /\ t \notin unknown
  BY <1>1, DurableLogged, OfLogged
     DEF MirrorInv, AuthorityInv, TypeInv, UnknownAnswered
<1>3. answer[t] = "failed" => t \notin TxnsIn(log, "COMMIT")
  BY <1>1, OfLogged
<1>4. ASSUME Unlocked, answer[t] = "committed"
      PROVE  checked_status(t) = "Committed"
  <2>1. /\ CommitsMirror(log, prepares, decisions, commits, unknown)
        /\ TxnsOf(prepares) \cap TxnsOf(decisions) = {}
    BY <1>4, IdleMirror DEF Mirror, PreparesMirror
  <2>2. CASE t \in commits
    <3>1. t \in TxnsOf(prepares)
      BY <2>1, <2>2 DEF CommitsMirror
    <3> QED BY <2>2, <3>1 DEF checked_status, hot_status
  <2>3. CASE t \notin commits
    <3>1. t \in TxnsOf(decisions)
      BY <1>2, <1>4, <2>1, <2>3 DEF CommitsMirror
    <3>2. PICK d \in decisions : d.txn = t
      BY <3>1 DEF TxnsOf
    <3>3. d.state = "Committed"
      BY <1>2, <1>4, <2>1, <3>2 DEF CommitsMirror
    <3>4. t \notin TxnsOf(prepares) \cup unknown
      BY <1>2, <1>4, <2>1, <3>1
    <3> QED BY <3>1, <3>2, <3>3, <3>4 DEF checked_status
  <2> QED BY <2>2, <2>3
<1>5. ASSUME Unlocked, answer[t] = "failed"
      PROVE  checked_status(t) # "Committed"
  <2>1. CommitsMirror(log, prepares, decisions, commits, unknown)
    BY <1>5, IdleMirror DEF Mirror
  <2>2. t \notin commits /\ ~\E d \in decisions : d.txn = t /\ d.state = "Committed"
    BY <1>3, <1>5, <2>1 DEF CommitsMirror
  <2> QED BY <2>2 DEF checked_status, hot_status
<1> QED BY <1>1, <1>4, <1>5

LEMMA KeysFollow == MirrorInv => KeysConsumedOnce
<1> SUFFICES ASSUME MirrorInv PROVE KeysConsumedOnce
  OBVIOUS
<1> DEFINE keyed == {i \in 1 .. Len(log) : log[i].type = "PREPARE" /\ log[i].key # NoKey}
<1>1. log \in Seq(Record) /\ Len(log) \in Nat /\ Accepts(log)
  BY LogTyped DEF MirrorInv, LogAccepted
<1>2. ASSUME NEW i \in keyed, NEW j \in keyed, log[i].key = log[j].key, i < j
      PROVE  FALSE
  <2>1. PrepareAccepted(log, j) /\ i \in 1 .. j - 1
    BY <1>1, <1>2 DEF Accepts
  <2> QED BY <1>2, <2>1 DEF PrepareAccepted
<1>3. \A i, j \in keyed : log[i].key = log[j].key => i = j
  BY <1>2
<1>4. ASSUME Unlocked, NEW i \in keyed
      PROVE  consumed_key(log[i].key)
  <2>1. log[i] \in Of(log, "PREPARE") /\ log[i].key # NoKey
    BY DEF Of
  <2>2. /\ PreparesMirror(log, prepares, decisions) /\ KeysOf(prepares) \subseteq idempotency
    BY <1>4, IdleMirror DEF Mirror
  <2>3. PICK x \in prepares \cup decisions : Rec(x) = log[i]
    BY <2>1, <2>2 DEF PreparesMirror
  <2>4. x.key = log[i].key
    BY <2>3 DEF Rec
  <2>5. log[i].key \in KeysOf(prepares) \cup KeysOf(decisions)
    BY <2>1, <2>4 DEF KeysOf
  <2> QED BY <2>2, <2>5 DEF consumed_key
<1> QED BY <1>3, <1>4 DEF KeysConsumedOnce

LEMMA GreatestUnique ==
  ASSUME NEW S \in SUBSET Nat, NEW n \in Greatest(S)
  PROVE  Greatest(S) = {n}
<1>1. n \in S /\ n \in Nat /\ \A m \in S : m <= n /\ m \in Nat
  BY DEF Greatest
<1>2. ASSUME NEW m \in Greatest(S)
      PROVE  m = n
  <2>1. m \in S /\ n <= m
    BY <1>1 DEF Greatest
  <2> QED BY <1>1, <2>1
<1> QED BY <1>2

LEMMA FrontiersFollow == MirrorInv => FrontiersAreSettled
<1> SUFFICES ASSUME MirrorInv, Unlocked, quiescent
             PROVE  /\ Logged("COMMIT") \subseteq Logged("storage")
                    /\ pending_audit = 0 =>
                         /\ Logged("COMMIT") \subseteq Logged("storage") \cap Logged("audit")
                         /\ {max_committed_sequence} = ReplayedMaxCommitted(NoCheckpoint)
  BY DEF FrontiersAreSettled, stable_visibility_frontier, completed_commit_frontier
<1>1. /\ Mirror(log, prepares, decisions, commits, {}, projections, completed, idempotency)
      /\ CountersMirror(prepares, decisions, commits, projections, committed_count,
                        next_sequence, max_committed_sequence, pending_storage,
                        pending_audit)
      /\ pending_storage = 0
  BY IdleMirror DEF quiescent
<1>2. \A kind \in Kinds : IsFiniteSet(Unprojected(commits, projections, kind))
  BY <1>1, MirrorTypes
<1>3. /\ "storage" \in Kinds /\ "audit" \in Kinds
      /\ Unprojected(commits, projections, "storage") = {}
      /\ pending_audit = 0 => Unprojected(commits, projections, "audit") = {}
  BY <1>1, <1>2, FS_EmptySet DEF CountersMirror, Kinds
<1>4. ASSUME NEW kind \in Kinds, Unprojected(commits, projections, kind) = {}
      PROVE  Logged("COMMIT") \subseteq Logged(kind)
  <2>1. /\ CommitsMirror(log, prepares, decisions, commits, {})
        /\ \A x \in projections : x[1] \in TxnsIn(log, x[2])
    BY <1>1 DEF Mirror, MarksMirror
  <2>2. \A t \in commits : <<t, kind>> \in projections
    BY <1>4 DEF Unprojected
  <2>3. \A t \in commits : t \in TxnsIn(log, kind)
    BY <2>1, <2>2
  <2>4. ASSUME NEW t \in TxnsIn(log, "COMMIT"), t \notin commits
        PROVE  t \in TxnsIn(log, kind)
    <3>1. PICK d \in decisions : d.txn = t
      BY <2>1, <2>4 DEF CommitsMirror, TxnsOf
    <3> QED BY <2>1, <3>1 DEF CommitsMirror
  <2> QED BY <2>3, <2>4, OfLogged
<1>5. {max_committed_sequence} = ReplayedMaxCommitted(NoCheckpoint)
  <2>1. log \in Seq(Record) /\ Sound(log)
    BY LogTyped, AcceptsSound DEF MirrorInv, LogAccepted
  <2>2. DecidedSeqs(prepares, decisions, commits) = SeqsOf(Of(log, "COMMIT"))
    BY <1>1, <2>1, DecidedIsLogged DEF SeqsOf
  <2>3. {0} \cup DecidedSeqs(prepares, decisions, commits) \in SUBSET Nat
    BY <1>1, MirrorTypes
  <2>4. max_committed_sequence \in Greatest({0} \cup SeqsOf(Of(log, "COMMIT")))
    BY <1>1, <2>2 DEF CountersMirror
  <2>5. ReplayedMaxCommitted(NoCheckpoint) = Greatest({0} \cup SeqsOf(Of(log, "COMMIT")))
    BY <2>1, WholeRebuilds
  <2>6. PICK S \in SUBSET Nat : S = {0} \cup SeqsOf(Of(log, "COMMIT"))
    BY <2>2, <2>3
  <2> QED BY <2>4, <2>5, <2>6, GreatestUnique
<1> QED BY <1>3, <1>4, <1>5

LEMMA CheckpointsFollow == MirrorInv => CheckpointTransparent
<1> SUFFICES ASSUME MirrorInv, open_succeeds, NEW b, b = recovery_base
             PROVE  /\ finish_recovery(b) = finish_recovery(NoCheckpoint)
                    /\ ReplayedOpen(b) = ReplayedOpen(NoCheckpoint)
                    /\ ReplayedSequence(b) = ReplayedSequence(NoCheckpoint)
                    /\ ReplayedMaxCommitted(b) = ReplayedMaxCommitted(NoCheckpoint)
                    /\ b.committed_count + Cardinality(ReplayedTxns(b, "COMMIT"))
                         = Cardinality(ReplayedTxns(NoCheckpoint, "COMMIT"))
  BY DEF CheckpointTransparent
<1>1. b \in Checkpoint /\ Based(b) /\ replay_accepts(b)
  BY BaseBased
<1>2. log \in Seq(Record) /\ Accepts(log)
  BY LogTyped DEF MirrorInv, LogAccepted
<1>3. ReplayedTxns(NoCheckpoint, "COMMIT") = TxnsIn(log, "COMMIT")
  BY <1>2, WholeReplay
<1> QED BY <1>1, <1>2, <1>3, SameReplay

LEMMA SameSize ==
  ASSUME NEW S, NEW T, IsFiniteSet(T), NEW f \in [S -> T],
         \A a, b \in S : f[a] = f[b] => a = b,
         \A t \in T : \E a \in S : f[a] = t
  PROVE  IsFiniteSet(S) /\ Cardinality(S) = Cardinality(T)
<1>1. f \in Injection(S, T) /\ f \in Surjection(S, T)
  BY Fun_IsInj, Fun_IsSurj
<1> QED BY <1>1, FS_Injection

\* The entries of R as many as their transactions, where each is on one.
LEMMA TxnsSize ==
  ASSUME NEW R, NEW T, IsFiniteSet(T), TxnsOf(R) = T,
         \A p, q \in R : p.txn = q.txn => p = q
  PROVE  IsFiniteSet(R) /\ Cardinality(R) = Cardinality(T)
<1>1. PICK f : f = [p \in R |-> p.txn]
  OBVIOUS
<1>2. f \in [R -> T] /\ \A p \in R : f[p] = p.txn
  BY <1>1 DEF TxnsOf
<1>3. \A t \in T : \E p \in R : f[p] = t
  BY <1>2 DEF TxnsOf
<1>4. \A p, q \in R : f[p] = f[q] => p = q
  BY <1>2
<1> QED BY <1>2, <1>3, <1>4, SameSize

\* ... and as many as their sequences, where no two share one.
LEMMA SeqsSize ==
  ASSUME NEW R, NEW N, IsFiniteSet(R), SeqsOf(R) = N,
         \A p, q \in R : p.seq = q.seq => p = q
  PROVE  Cardinality(N) = Cardinality(R)
<1>1. PICK f : f = [p \in R |-> p.seq]
  OBVIOUS
<1>2. f \in [R -> N] /\ \A p \in R : f[p] = p.seq
  BY <1>1 DEF SeqsOf
<1>3. f \in Surjection(R, N)
  <2>1. \A n \in N : \E p \in R : f[p] = n
    BY <1>2 DEF SeqsOf
  <2> QED BY <1>2, <2>1, Fun_IsSurj
<1>4. f \in Injection(R, N)
  <2>1. \A p, q \in R : f[p] = f[q] => p = q
    BY <1>2
  <2> QED BY <1>2, <2>1, Fun_IsInj
<1> QED BY <1>3, <1>4, FS_Surjection

Scanned(cold, hot, P, D, C) ==
  cold = {d \in D : d.state = "Committed"} /\ hot = {p \in P : p.txn \in C}

\* The decisions of a mirror are on different transactions and sequences.
LEMMA DecidedApart ==
  ASSUME NEW L \in Seq(Record), Sound(L), NEW P, NEW D, NEW C, NEW V, NEW X, NEW K, NEW I,
         Mirror(L, P, D, C, V, X, K, I),
         NEW cold, NEW hot, Scanned(cold, hot, P, D, C)
  PROVE  /\ \A x \in hot \cup cold : Rec(x) \in Of(L, "PREPARE")
         /\ \A p, q \in hot : p.txn = q.txn => p = q
         /\ \A p, q \in cold : p.txn = q.txn => p = q
         /\ TxnsOf(hot) = C
         /\ C \cap TxnsOf(cold) = {}
         /\ \A x, y \in hot \cup cold : x.seq = y.seq => x = y
<1>0. cold = {d \in D : d.state = "Committed"} /\ hot = {p \in P : p.txn \in C}
  BY DEF Scanned
<1>1. PreparesMirror(L, P, D) /\ CommitsMirror(L, P, D, C, V) /\ D \subseteq Decision
  BY DEF Mirror
<1>2. ASSUME NEW p \in hot
      PROVE  Rec(p) \in Of(L, "PREPARE")
  <2>1. p \in P /\ p.txn \in TxnsIn(L, "COMMIT")
    BY <1>0, <1>1 DEF CommitsMirror
  <2> QED BY <1>1, <2>1 DEF PreparesMirror
<1>3. \A x \in hot \cup cold : Rec(x) \in Of(L, "PREPARE")
  BY <1>0, <1>1, <1>2 DEF PreparesMirror
<1>4. \A p, q \in hot : p.txn = q.txn => p = q
  BY <1>0, <1>1 DEF PreparesMirror
<1>5. ASSUME NEW d \in cold, NEW e \in cold, d.txn = e.txn
      PROVE  d = e
  <2>1. Rec(d) = Rec(e)
    <3>1. Rec(d) \in Of(L, "PREPARE") /\ Rec(e) \in Of(L, "PREPARE")
      BY <1>3
    <3>2. Rec(d).txn = d.txn /\ Rec(e).txn = e.txn
      BY DEF Rec
    <3> QED BY <1>5, <3>1, <3>2 DEF Sound
  <2>2. d.seq = e.seq /\ d.key = e.key
    <3>1. /\ Rec(d).seq = d.seq /\ Rec(e).seq = e.seq
          /\ Rec(d).key = d.key /\ Rec(e).key = e.key
      BY DEF Rec
    <3> QED BY <2>1, <3>1
  <2>3. d \in Decision /\ e \in Decision /\ d.state = e.state
    BY <1>0, <1>1
  <2>4. /\ d = [txn |-> d.txn, seq |-> d.seq, key |-> d.key, state |-> d.state]
        /\ e = [txn |-> e.txn, seq |-> e.seq, key |-> e.key, state |-> e.state]
    BY <2>3 DEF Decision
  <2> QED BY <1>5, <2>2, <2>3, <2>4, Zenon
<1>6. TxnsOf(hot) = C
  <2>1. C \subseteq TxnsOf(P)
    BY <1>0, <1>1 DEF CommitsMirror
  <2> QED BY <1>0, <2>1 DEF TxnsOf
<1>7. C \cap TxnsOf(cold) = {}
  <2>1. TxnsOf(cold) \subseteq TxnsOf(D)
    BY <1>0 DEF TxnsOf
  <2>2. C \subseteq TxnsOf(P)
    BY <1>0, <1>1 DEF CommitsMirror
  <2> QED BY <1>1, <2>1, <2>2 DEF PreparesMirror
<1>8. ASSUME NEW x \in hot \cup cold, NEW y \in hot \cup cold, x.seq = y.seq
      PROVE  x = y
  <2>1. x.txn = y.txn
    <3>1. Rec(x) \in Of(L, "PREPARE") /\ Rec(y) \in Of(L, "PREPARE")
      BY <1>3
    <3>2. /\ Rec(x).txn = x.txn /\ Rec(y).txn = y.txn
          /\ Rec(x).seq = x.seq /\ Rec(y).seq = y.seq
      BY DEF Rec
    <3>3. Rec(x) = Rec(y)
      BY <1>8, <3>1, <3>2 DEF Sound
    <3> QED BY <3>2, <3>3
  <2>2. x \in hot <=> y \in hot
    <3>1. \A z \in hot : z.txn \in C
      BY <1>0
    <3>2. \A z \in cold : z.txn \notin C
      BY <1>7 DEF TxnsOf
    <3> QED BY <2>1, <3>1, <3>2
  <2> QED BY <1>4, <1>5, <2>1, <2>2
<1> QED BY <1>3, <1>4, <1>5, <1>6, <1>7, <1>8

LEMMA ScanFollows == MirrorInv => ScanFindsNoCorruption
<1> SUFFICES ASSUME MirrorInv, Unlocked,
                    NEW cold, NEW hot, Scanned(cold, hot, prepares, decisions, commits),
                    NEW seqs, seqs = {r.seq : r \in cold} \cup {r.seq : r \in hot}
             PROVE  /\ commits \subseteq TxnsOf(prepares)
                    /\ Cardinality(seqs) = committed_count
                    /\ Cardinality(cold) + Cardinality(hot) = committed_count
                    /\ \A n \in seqs : 0 < n /\ n <= max_committed_sequence
                    /\ completed \subseteq commits \ unknown
                    /\ completed \X Kinds \subseteq projections
  BY DEF ScanFindsNoCorruption, Scanned
<1>1. /\ Mirror(log, prepares, decisions, commits, unknown, projections,
                completed, idempotency)
      /\ CountersMirror(prepares, decisions, commits, projections, committed_count,
                        next_sequence, max_committed_sequence, pending_storage,
                        pending_audit)
  BY IdleMirror
<1>2. log \in Seq(Record) /\ Sound(log)
  BY LogTyped, AcceptsSound DEF MirrorInv, LogAccepted
<1>3. /\ \A x \in hot \cup cold : Rec(x) \in Of(log, "PREPARE")
      /\ \A p, q \in hot : p.txn = q.txn => p = q
      /\ \A p, q \in cold : p.txn = q.txn => p = q
      /\ TxnsOf(hot) = commits
      /\ commits \cap TxnsOf(cold) = {}
      /\ \A x, y \in hot \cup cold : x.seq = y.seq => x = y
  BY <1>1, <1>2, DecidedApart
<1>4. Decided(decisions, commits) = commits \cup TxnsOf(cold)
  BY DEF Decided, Scanned
<1>5. IsFiniteSet(commits) /\ IsFiniteSet(TxnsOf(cold))
  <2>1. IsFiniteSet(Decided(decisions, commits))
    BY <1>1, MirrorTypes
  <2> QED BY <1>4, <2>1, FS_Subset
<1>6. /\ IsFiniteSet(hot) /\ Cardinality(hot) = Cardinality(commits)
      /\ IsFiniteSet(cold) /\ Cardinality(cold) = Cardinality(TxnsOf(cold))
  BY <1>3, <1>5, TxnsSize
<1>7. Cardinality(cold) + Cardinality(hot) = committed_count
  <2>1. Cardinality(commits \cup TxnsOf(cold)) = Cardinality(commits) + Cardinality(TxnsOf(cold))
    BY <1>3, <1>5, DisjointCardinality
  <2>2. committed_count = Cardinality(commits \cup TxnsOf(cold))
    BY <1>1, <1>4 DEF CountersMirror
  <2>3. Cardinality(commits) \in Nat /\ Cardinality(TxnsOf(cold)) \in Nat
    BY <1>5, FS_CardinalityType
  <2> QED BY <1>6, <2>1, <2>2, <2>3
<1>8. hot \cap cold = {}
  BY <1>3 DEF TxnsOf
<1>9. Cardinality(seqs) = committed_count
  <2>1. PICK R : R = hot \cup cold
    OBVIOUS
  <2>2. SeqsOf(R) = seqs
    BY <2>1 DEF SeqsOf
  <2>3. IsFiniteSet(R)
    BY <1>6, <2>1, FS_Union
  <2>4. Cardinality(seqs) = Cardinality(R)
    BY <1>3, <2>1, <2>2, <2>3, SeqsSize
  <2>5. Cardinality(R) = Cardinality(hot) + Cardinality(cold)
    BY <1>6, <1>8, <2>1, DisjointCardinality
  <2>6. Cardinality(hot) \in Nat /\ Cardinality(cold) \in Nat
    BY <1>6, FS_CardinalityType
  <2> QED BY <1>7, <2>4, <2>5, <2>6
<1>10. ASSUME NEW n \in seqs
       PROVE  0 < n /\ n <= max_committed_sequence
  <2>1. PICK x \in hot \cup cold : x.seq = n
    OBVIOUS
  <2>2. Rec(x).seq = n /\ Rec(x) \in Of(log, "PREPARE")
    BY <1>3, <2>1 DEF Rec
  <2>3. n > 0
    BY <1>2, <2>2 DEF Sound
  <2>4. n \in DecidedSeqs(prepares, decisions, commits)
    BY DEF DecidedSeqs, Scanned
  <2>5. n <= max_committed_sequence
    BY <1>1, <2>4 DEF CountersMirror, Greatest
  <2> QED BY <2>3, <2>5
<1>11. /\ commits \subseteq TxnsOf(prepares) /\ commits \cap unknown = {}
       /\ projections \subseteq commits \X Kinds /\ completed \X Kinds \subseteq projections
  BY <1>1 DEF Mirror, CommitsMirror, MarksMirror
<1>12. completed \subseteq commits \ unknown
  <2>1. ASSUME NEW t \in completed
        PROVE  t \in commits
    <3>1. <<t, "storage">> \in completed \X Kinds
      BY DEF Kinds
    <3>2. <<t, "storage">> \in commits \X Kinds
      BY <1>11, <3>1
    <3> QED BY <3>2
  <2> QED BY <1>11, <2>1
<1> QED BY <1>7, <1>9, <1>10, <1>11, <1>12

\* What a caller of commit was told stays true: a "committed" transaction is
\* in the synced prefix and every later lookup, hot, evicted or after any
\* restart, says so; a "failed" one never gets a COMMIT record nor that status.
THEOREM AnswersAlwaysHold == Spec => []AnswersHold
  BY JournalMirrorsLog, AnswersFollow, PTL

\* An idempotency key is prepared at most once, and the journal still knows it
\* as consumed after eviction, checkpoints, migration and restarts.
THEOREM KeysAreConsumedOnce == Spec => []KeysConsumedOnce
  BY JournalMirrorsLog, KeysFollow, PTL

\* A visibility frontier is handed out only when every COMMIT in the log is
\* projected to storage, a backup frontier only when audit is projected too,
\* and that frontier is the greatest committed sequence of the log.
THEOREM FrontiersAlwaysSettled == Spec => []FrontiersAreSettled
  BY JournalMirrorsLog, FrontiersFollow, PTL

\* Opening from a checkpoint (cache or authority) and the records after it
\* gives the state that replaying the whole log gives.
THEOREM CheckpointsAreTransparent == Spec => []CheckpointTransparent
  BY JournalMirrorsLog, CheckpointsFollow, PTL

\* for_each_decision meets none of the corruptions it tests for: sequences of
\* the committed decisions, hot and evicted, are distinct, within
\* max_committed_sequence and as many as committed_count.
THEOREM ScansFindNoCorruption == Spec => []ScanFindsNoCorruption
  BY JournalMirrorsLog, ScanFollows, PTL

(***************************************************************************)
(* Where crashes are of one kind, no crash takes back what a checkpoint    *)
(* covers.  (A power loss after a kill can: the killed process leaves      *)
(* records that the next one reads and sums before they are synced.)       *)
(***************************************************************************)
OneKind == ~({"kill", "power"} \subseteq Crashes)

\* What every crash that may happen leaves of the log.
Lasting == IF "power" \in Crashes THEN synced ELSE Len(log)

\* Checkpoint b covers no more than n records, and everything it decided is
\* among D and, where T has the transaction, committed.
Lasts(b, n, D, T) ==
  /\ b.lsn <= n
  /\ b.decisions \subseteq D
  /\ \A d \in b.decisions : d.txn \in T => d.state = "Committed"

Evicted(b) == IF up /\ stage # "migrate" THEN decisions ELSE b.decisions

CacheLasts ==
  format # 3 =>
    /\ Lasts(cache, Lasting, Evicted(cache), TxnsIn(log, "COMMIT"))
    /\ cache.prefix = SubSeq(log, 1, cache.lsn)

AuthorityLasts ==
  /\ format = 3 \/ stage = "migrate" =>
       Lasts(authority, Lasting, Evicted(authority), TxnsIn(log, "COMMIT"))
  /\ stage = "migrate" => authority.lsn = Len(log)

SyncedAtRest ==
  "power" \in Crashes =>
    /\ ~up => synced = Len(log)
    /\ ~poisoned /\ stage \in {"idle", "prepared", "migrate"} => synced = Len(log)

\* A failed operation left something that stops every publication.
PoisonBlocks ==
  poisoned =>
    /\ up
    /\ \/ unknown # {}
       \/ \E p \in prepares : p.txn \notin commits
       \/ \E t \in commits, kind \in Kinds : <<t, kind>> \notin projections

LastInv == MirrorInv /\ CacheLasts /\ AuthorityLasts /\ SyncedAtRest /\ PoisonBlocks

\* The records after a checkpoint that lasts are acceptable to replay.
LEMMA SuffixReplays ==
  ASSUME log \in Seq(Record), Accepts(log), Keyed(log, format),
         NEW b \in Checkpoint, Based(b),
         \A d \in b.decisions : d.txn \in TxnsIn(log, "COMMIT") => d.state = "Committed"
  PROVE  replay_accepts(b)
<1>1. b.lsn \in Nat /\ Len(log) \in Nat /\ b.lsn <= Len(log) /\ b.next_sequence \in Nat
  BY DEF Checkpoint, Based
<1>2. PICK p : p = SubSeq(log, 1, b.lsn)
  OBVIOUS
<1>3. Len(p) = b.lsn /\ \A j \in 1 .. b.lsn : p[j] = log[j]
  BY <1>1, <1>2
<1>4. Summary(b, p)
  BY <1>2 DEF Based
<1>5. \A type : \A j \in 1 .. b.lsn : log[j].type = type =>
        log[j] \in Of(p, type) /\ log[j].txn \in TxnsIn(p, type)
  BY <1>3 DEF Of, TxnsIn, TxnsOf
<1>6. \A type : \A r \in Of(p, type) : \E j \in 1 .. b.lsn : r = log[j] /\ log[j].type = type
  BY <1>3 DEF Of
<1>7. \A type : \A t \in TxnsIn(p, type) : \E j \in 1 .. b.lsn : t = log[j].txn /\ log[j].type = type
  BY <1>6 DEF TxnsIn, TxnsOf
<1>8. \A d \in b.decisions : \E j \in 1 .. b.lsn :
        /\ log[j].type = "PREPARE" /\ d.txn = log[j].txn /\ d.key = log[j].key
        /\ d.state = "Committed" => d.txn \in TxnsIn(p, "COMMIT")
  <2>1. \A d \in b.decisions : \E r \in Of(p, "PREPARE") : d = decide(r, TxnsIn(p, "COMMIT"))
    BY <1>4 DEF Summary
  <2>2. \A r, S : /\ decide(r, S).txn = r.txn /\ decide(r, S).key = r.key
                  /\ decide(r, S).state = "Committed" => r.txn \in S
    BY DecideRec
  <2> QED BY <1>6, <2>1, <2>2
<1>9. \A j \in 1 .. b.lsn : log[j].type = "PREPARE" => \E d \in b.decisions : d.txn = log[j].txn
  <2>1. \A r \in Of(p, "PREPARE") : decide(r, TxnsIn(p, "COMMIT")) \in b.decisions
    BY <1>4 DEF Summary
  <2>2. \A r, S : decide(r, S).txn = r.txn
    BY DecideRec
  <2> QED BY <1>5, <2>1, <2>2
<1>10. \A i \in Suffix(b) : /\ i \in 1 .. Len(log) /\ i \in Nat /\ log[i] \in Record
                            /\ \A j \in 1 .. b.lsn : j \in 1 .. i - 1
                            /\ \A j \in 1 .. i - 1 : j \in 1 .. b.lsn \/ j \in Before(b, i)
                            /\ \A j \in Before(b, i) : j \in 1 .. i - 1
  BY <1>1 DEF Suffix, Before
<1>11. ASSUME NEW i \in Suffix(b), log[i].type = "PREPARE"
       PROVE  apply_record_accepts(b, i)
  <2>1. PrepareAccepted(log, i)
    BY <1>10, <1>11 DEF Accepts
  <2>2. \A j \in 1 .. i - 1 : log[j].type = "PREPARE" =>
           /\ log[j].txn # log[i].txn /\ log[j].seq < log[i].seq
           /\ log[i].key # NoKey => log[j].key # log[i].key
    BY <2>1 DEF PrepareAccepted
  <2>3. log[i].txn \notin TxnsOf(b.decisions)
    BY <1>8, <1>10, <2>2 DEF TxnsOf
  <2>4. log[i].key # NoKey => log[i].key \notin KeysOf(b.decisions)
    BY <1>8, <1>10, <2>2 DEF KeysOf
  <2>5. log[i].key # NoKey => format > 1
    <3>1. log[i] \in Of(log, "PREPARE")
      BY <1>10, <1>11 DEF Of
    <3> QED BY <3>1 DEF Keyed
  <2>6. log[i].seq > b.next_sequence
    <3>1. b.next_sequence \in {0} \cup {r.seq : r \in Of(p, "PREPARE")}
      BY <1>4 DEF Summary, Greatest
    <3>2. CASE b.next_sequence = 0
      BY <2>1, <3>2 DEF PrepareAccepted
    <3>3. CASE \E r \in Of(p, "PREPARE") : b.next_sequence = r.seq
      BY <1>6, <1>10, <2>2, <3>3
    <3> QED BY <3>1, <3>2, <3>3
  <2>7. \A j \in {n \in Before(b, i) : log[n].type = "PREPARE"} :
          /\ log[j].txn # log[i].txn
          /\ log[j].seq < log[i].seq
          /\ log[i].key # NoKey => log[j].key # log[i].key
    BY <1>10, <2>2
  <2> QED BY <1>11, <2>3, <2>4, <2>5, <2>6, <2>7 DEF apply_record_accepts
<1>12. ASSUME NEW i \in Suffix(b), log[i].type = "COMMIT"
       PROVE  apply_record_accepts(b, i)
  <2>1. CommitAccepted(log, i)
    BY <1>10, <1>12 DEF Accepts
  <2>2. \A j \in 1 .. i - 1 : log[j].type = "COMMIT" => log[j].txn # log[i].txn
    BY <2>1 DEF CommitAccepted
  <2>3. PICK j \in 1 .. i - 1 :
          log[j].type = "PREPARE" /\ log[j].txn = log[i].txn /\ log[j].seq = log[i].seq
    BY <2>1 DEF CommitAccepted
  <2>4. j \notin 1 .. b.lsn
    <3>1. SUFFICES ASSUME j \in 1 .. b.lsn PROVE FALSE
      OBVIOUS
    <3>2. PICK d \in b.decisions : d.txn = log[i].txn
      BY <1>9, <2>3, <3>1
    <3>3. log[i].txn \in TxnsIn(log, "COMMIT")
      BY <1>10, <1>12 DEF TxnsIn, TxnsOf, Of
    <3>4. d.state = "Committed"
      BY <3>2, <3>3
    <3>5. PICK e \in 1 .. b.lsn :
            log[e].type = "PREPARE" /\ d.txn = log[e].txn /\ d.txn \in TxnsIn(p, "COMMIT")
      BY <1>8, <3>4
    <3>6. PICK c \in 1 .. b.lsn : d.txn = log[c].txn /\ log[c].type = "COMMIT"
      BY <1>7, <3>5
    <3> QED BY <1>10, <2>2, <3>2, <3>6
  <2>5. j \in Before(b, i)
    BY <1>10, <2>4
  <2>6. \A n \in Before(b, i) : log[n].type = "COMMIT" => log[n].txn # log[i].txn
    BY <1>10, <2>2
  <2> QED BY <1>12, <2>3, <2>5, <2>6 DEF apply_record_accepts
<1>13. ASSUME NEW i \in Suffix(b), log[i].type \in Kinds
       PROVE  apply_record_accepts(b, i)
  <2>1. MarkAccepted(log, i)
    BY <1>10, <1>13 DEF Accepts
  <2>2. \A j \in 1 .. i - 1 : log[j].type = log[i].type => log[j].txn # log[i].txn
    BY <2>1 DEF MarkAccepted
  <2>3. PICK j \in 1 .. i - 1 : log[j].type = "COMMIT" /\ log[j].txn = log[i].txn
    BY <2>1 DEF MarkAccepted
  <2>4. j \notin 1 .. b.lsn
    <3>1. SUFFICES ASSUME j \in 1 .. b.lsn PROVE FALSE
      OBVIOUS
    <3>2. log[i].txn \in TxnsIn(p, "COMMIT")
      BY <1>5, <2>3, <3>1
    <3>3. log[i].txn \in TxnsIn(p, log[i].type)
      BY <1>4, <1>13, <3>2 DEF Summary
    <3>4. PICK c \in 1 .. b.lsn : log[i].txn = log[c].txn /\ log[c].type = log[i].type
      BY <1>7, <3>3
    <3> QED BY <1>10, <2>2, <3>4
  <2>5. j \in Before(b, i)
    BY <1>10, <2>4
  <2>6. \A n \in Before(b, i) : log[n].type = log[i].type => log[n].txn # log[i].txn
    BY <1>10, <2>2
  <2>7. log[i].type # "PREPARE" /\ log[i].type # "COMMIT"
    BY <1>13 DEF Kinds
  <2> QED BY <2>3, <2>5, <2>6, <2>7 DEF apply_record_accepts
<1>14. \A i \in Suffix(b) : log[i].type \in {"PREPARE", "COMMIT"} \cup Kinds
  BY <1>10 DEF Record
<1> QED BY <1>11, <1>12, <1>13, <1>14 DEF replay_accepts

LEMMA ReopenFollows == LastInv => Reopenable
<1> SUFFICES ASSUME LastInv, ~up PROVE open_succeeds
  BY DEF Reopenable
<1>1. /\ log \in Seq(Record) /\ cache \in Checkpoint /\ authority \in Checkpoint
      /\ Accepts(log) /\ Keyed(log, format) /\ Len(log) \in Nat
  BY LogTyped DEF LastInv, MirrorInv, LogAccepted
<1>2. Lasting <= Len(log) /\ Lasting \in Nat
  BY <1>1 DEF Lasting, LastInv, MirrorInv, AuthorityInv, TypeInv, TypeOK, DiskType
<1>3. CASE format = 3
  <2>1. Lasts(authority, Lasting, Evicted(authority), TxnsIn(log, "COMMIT"))
    BY <1>3 DEF LastInv, AuthorityLasts
  <2>2. authority.lsn <= Len(log) /\ authority.lsn \in Nat
    BY <1>1, <1>2, <2>1 DEF Lasts, Checkpoint
  <2>3. Based(authority)
    BY <1>3, <2>2 DEF LastInv, MirrorInv, AuthoritySums, Based
  <2>4. replay_accepts(authority)
    BY <1>1, <2>1, <2>3, SuffixReplays DEF Lasts
  <2> QED BY <1>3, <2>2, <2>4 DEF open_succeeds, recovery_base
<1>4. CASE format # 3
  <2>1. /\ Lasts(cache, Lasting, Evicted(cache), TxnsIn(log, "COMMIT"))
        /\ cache.prefix = SubSeq(log, 1, cache.lsn)
    BY <1>4 DEF LastInv, CacheLasts
  <2>2. cache.lsn <= Len(log) /\ cache.lsn \in Nat
    BY <1>1, <1>2, <2>1 DEF Lasts, Checkpoint
  <2>3. Based(cache)
    BY <2>1, <2>2 DEF LastInv, MirrorInv, CacheSums, Based
  <2>4. replay_accepts(cache)
    BY <1>1, <2>1, <2>3, SuffixReplays DEF Lasts
  <2>5. cache_matches
    BY <2>1, <2>2 DEF cache_matches
  <2> QED BY <1>4, <2>4, <2>5 DEF open_succeeds, recovery_base
<1> QED BY <1>3, <1>4

LEMMA LastTypes ==
  ASSUME LastInv
  PROVE  /\ MirrorInv /\ AuthorityInv
         /\ log \in Seq(Record) /\ Len(log) \in Nat /\ synced \in Nat /\ synced <= Len(log)
         /\ cache \in Checkpoint /\ authority \in Checkpoint
         /\ cache.lsn \in Nat /\ authority.lsn \in Nat /\ format \in 1 .. 3
         /\ Lasting \in Nat /\ Lasting <= Len(log)
         /\ stage # "migrate" \/ up
<1>1. MirrorInv /\ AuthorityInv
  BY DEF LastInv, MirrorInv
<1>2. /\ log \in Seq(Record) /\ synced \in Nat /\ synced <= Len(log)
      /\ cache \in Checkpoint /\ authority \in Checkpoint /\ format \in 1 .. 3
  BY <1>1 DEF AuthorityInv, TypeInv, TypeOK, DiskType
<1>3. Len(log) \in Nat /\ cache.lsn \in Nat /\ authority.lsn \in Nat
  BY <1>2 DEF Checkpoint
<1>4. Lasting \in Nat /\ Lasting <= Len(log)
  BY <1>2, <1>3 DEF Lasting
<1>5. stage # "migrate" \/ up
  BY <1>1 DEF AuthorityInv, TypeInv, StageOwned
<1> QED BY <1>1, <1>2, <1>3, <1>4, <1>5

LEMMA LastInit == Init => LastInv
<1> SUFFICES ASSUME Init PROVE LastInv
  OBVIOUS
<1>1. MirrorInv
  BY MirrorInit
<1>2. /\ log = << >> /\ synced = 0 /\ cache = NoCheckpoint /\ up /\ ~poisoned /\ stage = "idle"
      /\ format = 1 /\ Len(log) = 0
  BY DEF Init
<1>3. /\ cache.lsn = 0 /\ cache.decisions = {} /\ cache.prefix = << >>
  BY <1>2 DEF NoCheckpoint
<1>4. SubSeq(log, 1, 0) = << >>
  BY <1>2
<1>5. Lasting = 0
  BY <1>2 DEF Lasting
<1>6. CacheLasts
  BY <1>3, <1>4, <1>5 DEF CacheLasts, Lasts
<1> QED BY <1>1, <1>2, <1>6 DEF LastInv, AuthorityLasts, SyncedAtRest, PoisonBlocks

\* A step that leaves the log, the checkpoints and the evicted decisions.
LEMMA StillLast ==
  ASSUME LastInv, UNCHANGED <<log, format, cache, authority, up, decisions>>,
         synced' \in {synced, Len(log)},
         stage' = stage \/ (stage # "migrate" /\ stage' # "migrate")
  PROVE  CacheLasts' /\ AuthorityLasts'
<1>1. Lasting <= Lasting'
  BY LastTypes DEF Lasting
<1>2. Lasting \in Nat /\ Lasting' \in Nat /\ cache.lsn \in Nat /\ authority.lsn \in Nat
  BY LastTypes DEF Lasting
<1>4. Evicted(cache)' = Evicted(cache) /\ Evicted(authority)' = Evicted(authority)
  BY DEF Evicted
<1>5. CacheLasts'
  BY <1>1, <1>2, <1>4 DEF LastInv, CacheLasts, Lasts
<1>6. AuthorityLasts'
  BY <1>1, <1>2, <1>4 DEF LastInv, AuthorityLasts, Lasts
<1> QED BY <1>5, <1>6

\* A record is written behind the log.
LEMMA AppendLast ==
  ASSUME LastInv, up, NEW r \in Record, log' = Append(log, r), synced' = synced,
         UNCHANGED <<format, cache, authority, up, decisions>>,
         stage # "migrate", stage' # "migrate",
         r.type = "COMMIT" => r.txn \notin TxnsOf(decisions)
  PROVE  CacheLasts' /\ AuthorityLasts'
<1>1. /\ Lasting \in Nat /\ cache.lsn \in Nat /\ authority.lsn \in Nat /\ Len(log) \in Nat
      /\ Lasting <= Len(log) /\ log \in Seq(Record)
  BY LastTypes
<1>2. Len(log') = Len(log) + 1
  BY <1>1
<1>3. Lasting <= Lasting' /\ Lasting' \in Nat
  BY <1>1, <1>2, LastTypes DEF Lasting
<1>4. \A t \in TxnsIn(log', "COMMIT") : t \in TxnsIn(log, "COMMIT") \/ t \notin TxnsOf(decisions)
  <2>1. Grown(log, log', r)
    BY <1>1, AppendGrown
  <2>2. CASE r.type = "COMMIT"
    BY <2>1, <2>2 DEF Grown
  <2>3. CASE r.type # "COMMIT"
    BY <2>1, <2>3 DEF Grown
  <2> QED BY <2>2, <2>3
<1>5. ASSUME NEW b, b.lsn \in Nat, Lasts(b, Lasting, decisions, TxnsIn(log, "COMMIT"))
      PROVE  /\ Lasts(b, Lasting', decisions, TxnsIn(log', "COMMIT"))
             /\ SubSeq(log', 1, b.lsn) = SubSeq(log, 1, b.lsn)
  <2>1. b.lsn <= Lasting' /\ b.lsn \in 0 .. Len(log)
    BY <1>1, <1>3, <1>5 DEF Lasts
  <2>2. \A d \in b.decisions : d.txn \in TxnsOf(decisions)
    BY <1>5 DEF Lasts, TxnsOf
  <2>3. Lasts(b, Lasting', decisions, TxnsIn(log', "COMMIT"))
    BY <1>4, <1>5, <2>1, <2>2 DEF Lasts
  <2> QED BY <1>1, <2>1, <2>3, AppendPrefix
<1>6. /\ Evicted(cache) = decisions /\ Evicted(authority) = decisions
      /\ Evicted(cache)' = decisions /\ Evicted(authority)' = decisions
  BY DEF Evicted
<1>7. CacheLasts'
  BY <1>1, <1>5, <1>6 DEF LastInv, CacheLasts
<1>8. AuthorityLasts'
  BY <1>1, <1>5, <1>6 DEF LastInv, AuthorityLasts
<1> QED BY <1>7, <1>8

LEMMA QuietLast ==
  ASSUME LastInv, MirrorInv', UNCHANGED <<disk, process, maps>>
  PROVE  LastInv'
<1>1. UNCHANGED <<log, synced, format, cache, authority, up, poisoned, stage, current,
                  prepares, commits, projections, unknown, decisions>>
  BY DEF disk, process, maps
<1>2. CacheLasts' /\ AuthorityLasts'
  BY <1>1, StillLast
<1>3. SyncedAtRest' /\ PoisonBlocks'
  BY <1>1 DEF LastInv, SyncedAtRest, PoisonBlocks
<1> QED BY <1>2, <1>3 DEF LastInv

LEMMA SyncPrepareLast ==
  ASSUME LastInv, MirrorInv', sync_prepare
  PROVE  LastInv'
<1>1. /\ up /\ stage = "prepare" /\ stage' = "prepared" /\ synced' = Len(log)
      /\ UNCHANGED <<log, format, cache, authority, up, poisoned, decisions, unknown,
                     prepares, commits, projections>>
  BY DEF sync_prepare, fsync, maps
<1>2. CacheLasts' /\ AuthorityLasts'
  BY <1>1, StillLast
<1>3. SyncedAtRest' /\ PoisonBlocks'
  BY <1>1 DEF LastInv, SyncedAtRest, PoisonBlocks
<1> QED BY <1>2, <1>3 DEF LastInv

LEMMA CommitFailsLast ==
  ASSUME LastInv, MirrorInv', NEW told, commit_fails(told), UNCHANGED <<log, synced>>,
         up, stage \in {"prepare", "prepared", "commit"}, unknown \subseteq unknown'
  PROVE  LastInv'
<1>1. /\ stage' = "idle" /\ poisoned' = TRUE
      /\ UNCHANGED <<format, cache, authority, up, decisions, prepares, commits, projections>>
  BY DEF commit_fails
<1>2. CacheLasts' /\ AuthorityLasts'
  BY <1>1, StillLast
<1>3. Entry(current) \in prepares /\ Entry(current).txn \notin commits
  BY DEF LastInv, MirrorInv, OperationMirror, Entry
<1>4. SyncedAtRest' /\ PoisonBlocks'
  BY <1>1, <1>3 DEF SyncedAtRest, PoisonBlocks
<1> QED BY <1>2, <1>4 DEF LastInv

LEMMA WriteCommitLast ==
  ASSUME LastInv, MirrorInv', write_commit
  PROVE  LastInv'
<1>1. /\ up /\ stage = "prepared" /\ stage' = "commit" /\ synced' = synced
      /\ UNCHANGED <<format, cache, authority, up, poisoned, decisions, unknown,
                     prepares, commits, projections>>
  BY DEF write_commit, maps
<1>2. PICK r : r = [type |-> "COMMIT", txn |-> current.txn, seq |-> current.seq, key |-> NoKey]
  OBVIOUS
<1>3. current.txn \in Txn /\ current.seq \in Nat
  BY <1>1, LastTypes DEF AuthorityInv, TypeInv, TypeOK, StageOwned, ProcessType, Operand
<1>4. r \in Record /\ r.txn = current.txn /\ log' = Append(log, r)
  BY <1>2, <1>3 DEF write_commit, Record, Keys
<1>5. current.txn \notin TxnsOf(decisions)
  <2>1. current.txn \in TxnsOf(prepares)
    BY <1>1, LastTypes DEF AuthorityInv, InFlight
  <2>2. TxnsOf(prepares) \cap TxnsOf(decisions) = {}
    BY <1>1 DEF LastInv, MirrorInv, MapsMirror, Mirror, PreparesMirror
  <2> QED BY <2>1, <2>2
<1>6. CacheLasts' /\ AuthorityLasts'
  BY <1>1, <1>4, <1>5, AppendLast
<1>7. SyncedAtRest' /\ PoisonBlocks'
  BY <1>1 DEF LastInv, SyncedAtRest, PoisonBlocks
<1> QED BY <1>6, <1>7 DEF LastInv

LEMMA SyncCommitLast ==
  ASSUME LastInv, MirrorInv', sync_commit
  PROVE  LastInv'
<1>1. /\ up /\ stage = "commit" /\ stage' = "idle" /\ synced' = Len(log)
      /\ UNCHANGED <<log, format, cache, authority, up, poisoned, decisions>>
  BY DEF sync_commit, fsync
<1>2. ~poisoned
  BY <1>1 DEF LastInv, MirrorInv, OperationMirror
<1>3. CacheLasts' /\ AuthorityLasts'
  BY <1>1, StillLast
<1>4. SyncedAtRest' /\ PoisonBlocks'
  BY <1>1, <1>2 DEF SyncedAtRest, PoisonBlocks
<1> QED BY <1>3, <1>4 DEF LastInv

LEMMA MarkWriteLast ==
  ASSUME LastInv, MirrorInv', NEW t \in Txn, NEW kind \in Kinds,
         NEW written \in BOOLEAN, mark_projected_write(t, kind, written)
  PROVE  LastInv'
<1>1. /\ up /\ stage = "idle" /\ t \in commits /\ <<t, kind>> \notin projections
      /\ UNCHANGED <<synced, format, cache, authority, up, decisions, unknown,
                     prepares, commits, projections>>
  BY DEF mark_projected_write, maps, Unlocked, projected
<1>2. CASE written
  <2>1. PICK r : r = [type |-> kind, txn |-> t, seq |-> 0, key |-> NoKey]
    OBVIOUS
  <2>2. r \in Record /\ r.type # "COMMIT"
    BY <2>1 DEF Record, Keys, Kinds
  <2>3. log' = Append(log, r) /\ stage' = "mark" /\ poisoned' = poisoned
    BY <1>2, <2>1 DEF mark_projected_write
  <2>4. CacheLasts' /\ AuthorityLasts'
    BY <1>1, <2>2, <2>3, AppendLast
  <2>5. SyncedAtRest' /\ PoisonBlocks'
    BY <1>1, <2>3 DEF LastInv, SyncedAtRest, PoisonBlocks
  <2> QED BY <2>4, <2>5 DEF LastInv
<1>3. CASE ~written
  <2>1. poisoned' = TRUE /\ UNCHANGED <<log, stage>>
    BY <1>3 DEF mark_projected_write
  <2>2. CacheLasts' /\ AuthorityLasts'
    BY <1>1, <2>1, StillLast
  <2>3. SyncedAtRest' /\ PoisonBlocks'
    BY <1>1, <2>1 DEF LastInv, SyncedAtRest, PoisonBlocks
  <2> QED BY <2>2, <2>3 DEF LastInv
<1> QED BY <1>2, <1>3

LEMMA MarkSyncLast ==
  ASSUME LastInv, MirrorInv', mark_projected_sync \/ mark_projected_sync_fails
  PROVE  LastInv'
<1>1. /\ up /\ stage = "mark" /\ stage' = "idle" /\ synced' \in {synced, Len(log)}
      /\ UNCHANGED <<log, format, cache, authority, up, decisions>>
  BY DEF mark_projected_sync, mark_projected_sync_fails, disk, maps, fsync
<1>2. /\ ~poisoned /\ current.txn \in commits /\ <<current.txn, current.kind>> \notin projections
  BY <1>1 DEF LastInv, MirrorInv, OperationMirror
<1>3. CacheLasts' /\ AuthorityLasts'
  BY <1>1, StillLast
<1>4. CASE mark_projected_sync
  <2>1. synced' = Len(log) /\ poisoned' = poisoned
    BY <1>4 DEF mark_projected_sync, fsync
  <2>2. SyncedAtRest' /\ PoisonBlocks'
    BY <1>1, <1>2, <2>1 DEF SyncedAtRest, PoisonBlocks
  <2> QED BY <1>3, <2>2 DEF LastInv
<1>5. CASE mark_projected_sync_fails
  <2>1. poisoned' = TRUE /\ UNCHANGED <<commits, projections>>
    BY <1>5 DEF mark_projected_sync_fails, maps
  <2>2. current.kind \in Kinds
    BY LastTypes DEF AuthorityInv, TypeInv, TypeOK, ProcessType, Operand
  <2>3. SyncedAtRest' /\ PoisonBlocks'
    BY <1>1, <1>2, <2>1, <2>2 DEF SyncedAtRest, PoisonBlocks
  <2> QED BY <1>3, <2>3 DEF LastInv
<1> QED BY <1>4, <1>5

\* What is stored at rest lasts.
LEMMA StoredLasts ==
  ASSUME LastInv, NEW cp \in Checkpoint, cp.prefix = log, cp.lsn = Len(log),
         Lasting = Len(log), store_checkpoint(cp),
         \A d \in cp.decisions : d.txn \in TxnsIn(log, "COMMIT") => d.state = "Committed"
  PROVE  /\ format # 3 => /\ Lasts(cache', Lasting, cp.decisions, TxnsIn(log, "COMMIT"))
                          /\ cache'.prefix = SubSeq(log, 1, cache'.lsn)
         /\ format = 3 => Lasts(authority', Lasting, cp.decisions, TxnsIn(log, "COMMIT"))
<1>1. log \in Seq(Record) /\ Len(log) \in Nat
  BY LastTypes
<1>2. Len(log) <= Len(log) /\ SubSeq(log, 1, Len(log)) = log
  BY <1>1
<1>3. Lasts(cp, Lasting, cp.decisions, TxnsIn(log, "COMMIT"))
  BY <1>2 DEF Lasts
<1>4. CASE format # 3
  <2>1. cache' = cp
    BY <1>4 DEF store_checkpoint, publish_cache
  <2> QED BY <1>2, <1>3, <1>4, <2>1
<1>5. CASE format = 3
  <2>1. PICK a : a = [cp EXCEPT !.prefix = << >>]
    OBVIOUS
  <2>2. a.lsn = cp.lsn /\ a.decisions = cp.decisions
    BY <2>1 DEF Checkpoint
  <2>3. Lasts(a, Lasting, cp.decisions, TxnsIn(log, "COMMIT"))
    BY <1>3, <2>2 DEF Lasts
  <2>4. authority' = a
    BY <1>5, <2>1 DEF store_checkpoint, publish_at
  <2> QED BY <1>5, <2>3, <2>4
<1> QED BY <1>4, <1>5

LEMMA MaintainLast ==
  ASSUME LastInv, up, stage = "idle", decisions' \subseteq Decision,
         NEW ids, NEW H, NEW I2, Maintained(ids, H, I2),
         ~UNCHANGED <<cache, authority>> => ~poisoned
  PROVE  /\ format # 3 => /\ Lasts(cache', Lasting, decisions', TxnsIn(log, "COMMIT"))
                          /\ cache'.prefix = SubSeq(log, 1, cache'.lsn)
         /\ format = 3 => Lasts(authority', Lasting, decisions', TxnsIn(log, "COMMIT"))
<1>1. CASE UNCHANGED <<cache, authority>>
  <2>1. decisions \subseteq decisions'
    BY DEF Maintained, flush_decisions
  <2>2. Evicted(cache) = decisions /\ Evicted(authority) = decisions
    BY DEF Evicted
  <2>3. format # 3 => /\ Lasts(cache, Lasting, decisions', TxnsIn(log, "COMMIT"))
                      /\ cache.prefix = SubSeq(log, 1, cache.lsn)
    BY <2>1, <2>2 DEF LastInv, CacheLasts, Lasts
  <2>4. format = 3 => Lasts(authority, Lasting, decisions', TxnsIn(log, "COMMIT"))
    BY <2>1, <2>2 DEF LastInv, AuthorityLasts, Lasts
  <2> QED BY <1>1, <2>3, <2>4
<1>2. CASE ~UNCHANGED <<cache, authority>>
  <2>1. PICK cp : cp = [prefix |-> log, lsn |-> Len(log),
                   next_sequence |-> next_sequence,
                   max_committed_sequence |-> max_committed_sequence,
                   committed_count |-> committed_count,
                   decisions |-> decisions']
    OBVIOUS
  <2>2. store_checkpoint(cp)
    BY <1>2, <2>1 DEF Maintained
  <2>3. cp \in Checkpoint
    BY <2>1, FrontierType, LastTypes DEF AuthorityInv, TypeInv
  <2>4. cp.prefix = log /\ cp.lsn = Len(log) /\ cp.decisions = decisions'
    BY <2>1
  <2>5. Lasting = Len(log)
    BY <1>2 DEF LastInv, SyncedAtRest, Lasting
  <2>6. \A d \in decisions' : d.txn \in TxnsIn(log, "COMMIT") => d.state = "Committed"
    <3>1. Mirror(log, H, decisions', commits', unknown, projections', completed', I2)
      BY LastTypes, MaintainMirror
    <3> QED BY <3>1 DEF Mirror, CommitsMirror
  <2>7. /\ format # 3 => /\ Lasts(cache', Lasting, cp.decisions, TxnsIn(log, "COMMIT"))
                         /\ cache'.prefix = SubSeq(log, 1, cache'.lsn)
        /\ format = 3 => Lasts(authority', Lasting, cp.decisions, TxnsIn(log, "COMMIT"))
    BY <2>2, <2>3, <2>4, <2>5, <2>6, StoredLasts
  <2> QED BY <2>4, <2>7
<1> QED BY <1>1, <1>2

LEMMA CheckpointLast ==
  ASSUME LastInv, MirrorInv', NEW expired \in BOOLEAN,
         checkpoint_completed_frontier(expired)
  PROVE  LastInv'
<1> DEFINE hot == {p \in prepares : p.txn \notin completed}
<1>1. /\ up /\ stage = "idle" /\ unknown = {} /\ flush_decisions(completed)
      /\ pending_storage = 0 /\ pending_audit = 0
      /\ prepares' = hot /\ idempotency' = idempotency \ KeysOf(prepares \ hot)
      /\ UNCHANGED <<log, synced, format, up, poisoned, stage, unknown>>
  BY DEF checkpoint_completed_frontier, Unlocked, publishable, quiescent, process
<1>2. Mirror(log, prepares, decisions, commits, unknown, projections, completed, idempotency)
      /\ CountersMirror(prepares, decisions, commits, projections, committed_count,
                        next_sequence, max_committed_sequence, pending_storage,
                        pending_audit)
  BY <1>1, LastTypes, IdleMirror DEF Unlocked
<1>3. \A t \in commits, kind \in Kinds : <<t, kind>> \in projections
  <2>1. \A kind : IsFiniteSet(Unprojected(commits, projections, kind))
    BY <1>2, MirrorTypes
  <2>2. /\ Unprojected(commits, projections, "storage") = {}
        /\ Unprojected(commits, projections, "audit") = {}
    BY <1>1, <1>2, <2>1, FS_EmptySet DEF CountersMirror
  <2> QED BY <2>2 DEF Unprojected, Kinds
<1>4. completed \subseteq commits
  <2>1. ASSUME NEW t \in completed
        PROVE  t \in commits
    <3>1. <<t, "storage">> \in completed \X Kinds
      BY DEF Kinds
    <3>2. <<t, "storage">> \in commits \X Kinds
      BY <1>2, <3>1 DEF Mirror, MarksMirror
    <3> QED BY <3>2
  <2> QED BY <2>1
<1>5. poisoned => \E p \in hot : p.txn \notin commits
  BY <1>1, <1>3, <1>4 DEF LastInv, PoisonBlocks
<1>6. PoisonBlocks'
  <2>1. commits' \subseteq commits
    BY <1>1 DEF flush_decisions
  <2> QED BY <1>1, <1>5, <2>1 DEF PoisonBlocks
<1>7. SyncedAtRest'
  BY <1>1 DEF LastInv, SyncedAtRest
<1>8. IF hot = {}
      THEN store_checkpoint([prefix |-> log, lsn |-> Len(log),
                             next_sequence |-> next_sequence,
                             max_committed_sequence |-> max_committed_sequence,
                             committed_count |-> committed_count,
                             decisions |-> decisions'])
      ELSE UNCHANGED <<cache, authority>>
  BY Zenon DEF checkpoint_completed_frontier
<1>9. PICK H, I2 : H = hot /\ I2 = idempotency'
  OBVIOUS
<1>10. Maintained(completed, H, I2)
  <2>1. completed \in SUBSET completed /\ H = {p \in prepares : p.txn \notin completed}
        /\ I2 = idempotency \ KeysOf(prepares \ H)
    BY <1>1, <1>9
  <2>2. IF H = {}
        THEN store_checkpoint([prefix |-> log, lsn |-> Len(log),
                             next_sequence |-> next_sequence,
                             max_committed_sequence |-> max_committed_sequence,
                             committed_count |-> committed_count,
                             decisions |-> decisions'])
        ELSE UNCHANGED <<cache, authority>>
    BY <1>8, <1>9, Zenon
  <2> HIDE DEF hot
  <2> QED BY <1>1, <2>1, <2>2, Zenon DEF Maintained
<1>11. ~UNCHANGED <<cache, authority>> => ~poisoned
  BY <1>5, <1>8
<1>12. decisions' \subseteq Decision
  BY DEF MirrorInv, AuthorityInv, TypeInv, TypeOK, MapsType
<1> HIDE DEF hot
<1>13. /\ format # 3 => /\ Lasts(cache', Lasting, decisions', TxnsIn(log, "COMMIT"))
                        /\ cache'.prefix = SubSeq(log, 1, cache'.lsn)
       /\ format = 3 => Lasts(authority', Lasting, decisions', TxnsIn(log, "COMMIT"))
  BY <1>1, <1>10, <1>11, <1>12, MaintainLast
<1>14. Lasting' = Lasting /\ Evicted(cache)' = decisions' /\ Evicted(authority)' = decisions'
  BY <1>1 DEF Lasting, Evicted
<1>15. CacheLasts' /\ AuthorityLasts'
  BY <1>1, <1>13, <1>14 DEF CacheLasts, AuthorityLasts
<1> QED BY <1>6, <1>7, <1>15 DEF LastInv

LEMMA CommitBeginLast ==
  ASSUME LastInv, MirrorInv', NEW t \in Txn, NEW k \in Keys,
         NEW written \in BOOLEAN, commit_inner_begin(t, k, written)
  PROVE  LastInv'
<1>1. /\ up /\ up' /\ stage = "idle" /\ ~poisoned
      /\ t \notin TxnsOf(prepares) \cup TxnsOf(decisions)
      /\ format' = IF k # NoKey /\ format = 1 THEN 2 ELSE format
      /\ synced' = synced
  BY DEF commit_inner_begin, Unlocked
<1>2. PICK p : p = [txn |-> t, seq |-> next_sequence + 1, key |-> k]
  OBVIOUS
<1>3. PICK ids, H, I2 :
        /\ Maintained(ids, H, I2)
        /\ idempotency' = I2 \cup ({k} \ {NoKey})
        /\ prepares' = H \cup {p}
  BY <1>2, BeginMaintains
<1>4. /\ log \in Seq(Record) /\ Len(log) \in Nat /\ format \in 1 .. 3
      /\ decisions' \subseteq Decision /\ cache' \in Checkpoint /\ authority' \in Checkpoint
      /\ synced \in Nat /\ Lasting \in Nat /\ Lasting <= Len(log) /\ next_sequence \in Nat
  BY LastTypes DEF MirrorInv, AuthorityInv, TypeInv, TypeOK, DiskType, MapsType, CountersType
<1>5. /\ format # 3 => /\ Lasts(cache', Lasting, decisions', TxnsIn(log, "COMMIT"))
                       /\ cache'.prefix = SubSeq(log, 1, cache'.lsn)
      /\ format = 3 => Lasts(authority', Lasting, decisions', TxnsIn(log, "COMMIT"))
  BY <1>1, <1>3, <1>4, MaintainLast
<1>6. PICK r : r = [type |-> "PREPARE", txn |-> t, seq |-> next_sequence + 1, key |-> k]
  OBVIOUS
<1>7. r \in Record /\ r.type = "PREPARE"
  BY <1>4, <1>6 DEF Record
<1>8. \/ /\ log' = log /\ stage' = stage /\ poisoned' = TRUE
      \/ /\ log' = Append(log, r) /\ stage' = "prepare" /\ poisoned' = poisoned
  <2>1. CASE written
    BY <1>6, <2>1, Zenon DEF commit_inner_begin
  <2>2. CASE ~written
    BY <2>2 DEF commit_inner_begin
  <2> QED BY <2>1, <2>2
<1>9. TxnsIn(log', "COMMIT") = TxnsIn(log, "COMMIT")
  <2>1. log' = log \/ Grown(log, log', r)
    BY <1>4, <1>7, <1>8, AppendGrown
  <2> QED BY <1>7, <2>1 DEF Grown
<1>10. Lasting' \in Nat /\ Lasting <= Lasting'
  <2>1. Len(log') \in Nat /\ Len(log') >= Len(log)
    BY <1>4, <1>8
  <2> QED BY <1>1, <1>4, <2>1 DEF Lasting
<1>11. \A n \in Nat : n <= Lasting => SubSeq(log', 1, n) = SubSeq(log, 1, n)
  <2>1. ASSUME NEW n \in Nat, n <= Lasting
        PROVE  SubSeq(log', 1, n) = SubSeq(log, 1, n)
    <3>1. n \in 0 .. Len(log)
      BY <1>4, <2>1
    <3> QED BY <1>4, <1>7, <1>8, <3>1, AppendPrefix
  <2> QED BY <2>1
<1>12. \A b, D, T : b.lsn \in Nat /\ Lasts(b, Lasting, D, T) => Lasts(b, Lasting', D, T)
  BY <1>4, <1>10 DEF Lasts
<1>13. /\ Evicted(cache)' = decisions' /\ Evicted(authority)' = decisions'
       /\ stage' # "migrate" /\ (format' = 3 <=> format = 3)
  BY <1>1, <1>4, <1>8 DEF Evicted
<1>14. cache'.lsn \in Nat /\ authority'.lsn \in Nat
  BY <1>4 DEF Checkpoint
<1>15. CacheLasts'
  <2>1. SUFFICES ASSUME format # 3
                 PROVE  /\ Lasts(cache', Lasting', decisions', TxnsIn(log', "COMMIT"))
                        /\ cache'.prefix = SubSeq(log', 1, cache'.lsn)
    BY <1>13 DEF CacheLasts
  <2>2. cache'.lsn <= Lasting
    BY <1>5, <2>1 DEF Lasts
  <2>3. SubSeq(log', 1, cache'.lsn) = SubSeq(log, 1, cache'.lsn)
    BY <1>11, <1>14, <2>2
  <2> QED BY <1>5, <1>9, <1>12, <1>14, <2>1, <2>3
<1>16. AuthorityLasts'
  BY <1>5, <1>9, <1>12, <1>13, <1>14 DEF AuthorityLasts
<1>17. SyncedAtRest'
  BY <1>1, <1>8 DEF LastInv, SyncedAtRest
<1>18. PoisonBlocks'
  <2>1. p \in prepares' /\ p.txn = t
    BY <1>2, <1>3
  <2>2. t \notin commits
    BY <1>1, LastTypes DEF AuthorityInv, CommitsPrepared
  <2>3. commits' \subseteq commits
    BY <1>3 DEF Maintained, flush_decisions
  <2> QED BY <1>1, <2>1, <2>2, <2>3 DEF PoisonBlocks
<1> QED BY <1>15, <1>16, <1>17, <1>18 DEF LastInv

LEMMA CrashLast ==
  ASSUME OneKind, LastInv, MirrorInv', kill \/ power_loss
  PROVE  LastInv'
<1>1. /\ up' = FALSE /\ poisoned' = FALSE /\ stage' = "idle"
      /\ UNCHANGED <<format, cache, authority>>
  BY DEF kill, power_loss, forget
<1>2. /\ log \in Seq(Record) /\ Len(log) \in Nat /\ synced \in Nat /\ synced <= Len(log)
      /\ cache.lsn \in Nat /\ authority.lsn \in Nat /\ Lasting \in Nat /\ Lasting <= Len(log)
  BY LastTypes
<1>3. PICK n \in 0 .. Len(log) :
        /\ log' = SubSeq(log, 1, n) /\ Lasting <= n /\ Lasting' = n
        /\ "power" \in Crashes => synced' = n
  <2>1. CASE kill
    <3>1. "power" \notin Crashes /\ log' = log
      BY <2>1 DEF kill, OneKind
    <3>2. SubSeq(log, 1, Len(log)) = log
      BY <1>2
    <3>3. Lasting = Len(log) /\ Lasting' = Len(log)
      BY <3>1 DEF Lasting
    <3>4. Len(log) \in 0 .. Len(log) /\ Len(log) <= Len(log)
      BY <1>2
    <3>5. log' = SubSeq(log, 1, Len(log))
      BY <3>1, <3>2, Zenon
    <3> QED BY <3>1, <3>3, <3>4, <3>5
  <2>2. CASE power_loss
    <3>1. PICK n \in synced .. Len(log) : log' = SubSeq(log, 1, n) /\ synced' = n
      BY <2>2 DEF power_loss
    <3>2. "power" \in Crashes
      BY <2>2 DEF power_loss
    <3>3. Lasting = synced /\ Lasting' = n
      BY <3>1, <3>2 DEF Lasting
    <3>4. n \in 0 .. Len(log) /\ synced <= n
      BY <1>2
    <3> QED BY <3>1, <3>3, <3>4
  <2> QED BY <2>1, <2>2
<1>4. Len(log') = n /\ n \in Nat
  BY <1>2, <1>3
<1>5. TxnsIn(log', "COMMIT") \subseteq TxnsIn(log, "COMMIT")
  <2>1. \A i \in 1 .. n : log'[i] = log[i] /\ i \in 1 .. Len(log)
    BY <1>2, <1>3
  <2> QED BY <1>4, <2>1 DEF TxnsIn, TxnsOf, Of
<1>6. ASSUME NEW b, NEW D, b.lsn \in Nat, Lasts(b, Lasting, D, TxnsIn(log, "COMMIT"))
      PROVE  /\ Lasts(b, Lasting', b.decisions, TxnsIn(log', "COMMIT"))
             /\ SubSeq(log', 1, b.lsn) = SubSeq(log, 1, b.lsn)
  <2>1. b.lsn <= n /\ b.lsn \in 0 .. n
    BY <1>2, <1>3, <1>4, <1>6 DEF Lasts
  <2>2. Lasts(b, Lasting', b.decisions, TxnsIn(log', "COMMIT"))
    BY <1>3, <1>5, <1>6, <2>1 DEF Lasts
  <2> QED BY <1>2, <1>3, <2>1, <2>2, SubSeqPrefix
<1>7. Evicted(cache)' = cache.decisions /\ Evicted(authority)' = authority.decisions
  BY <1>1 DEF Evicted
<1>8. CacheLasts'
  BY <1>1, <1>2, <1>6, <1>7 DEF LastInv, CacheLasts
<1>9. AuthorityLasts'
  BY <1>1, <1>2, <1>6, <1>7 DEF LastInv, AuthorityLasts
<1>10. SyncedAtRest' /\ PoisonBlocks'
  BY <1>1, <1>3, <1>4 DEF SyncedAtRest, PoisonBlocks
<1> QED BY <1>8, <1>9, <1>10 DEF LastInv

LEMMA OpenLast ==
  ASSUME LastInv, MirrorInv', NEW expired \in BOOLEAN, open_inner(expired)
  PROVE  LastInv'
<1>1. /\ ~up /\ up' = TRUE /\ install(recovery_base)
      /\ UNCHANGED <<log, synced, format, poisoned, stage>>
  BY DEF open_inner
<1>2. /\ log \in Seq(Record) /\ Len(log) \in Nat /\ Lasting = Len(log) /\ Lasting' = Lasting
      /\ stage # "migrate" /\ cache.lsn \in Nat
  BY <1>1, LastTypes DEF LastInv, SyncedAtRest, Lasting
<1>3. /\ format = 3 => recovery_base = authority
      /\ format # 3 => recovery_base = cache
  <2>1. format # 3 => cache_matches
    BY <1>2 DEF LastInv, CacheLasts, Lasts, cache_matches
  <2> QED BY <2>1 DEF recovery_base
<1>4. recovery_base.decisions \subseteq decisions'
  BY <1>1 DEF install, finish_recovery
<1>5. \A d \in decisions' : d.txn \in TxnsIn(log, "COMMIT") => d.state = "Committed"
  BY <1>1 DEF MirrorInv, MapsMirror, Mirror, CommitsMirror
<1>6. /\ format # 3 => /\ Lasts(cache', Lasting, decisions', TxnsIn(log, "COMMIT"))
                       /\ cache'.prefix = SubSeq(log, 1, cache'.lsn)
      /\ format = 3 => Lasts(authority', Lasting, decisions', TxnsIn(log, "COMMIT"))
  <2>1. CASE UNCHANGED <<cache, authority>>
    <3>1. format # 3 => /\ Lasts(cache, Lasting, decisions', TxnsIn(log, "COMMIT"))
                        /\ cache.prefix = SubSeq(log, 1, cache.lsn)
      BY <1>3, <1>4 DEF LastInv, CacheLasts, Lasts
    <3>2. format = 3 => Lasts(authority, Lasting, decisions', TxnsIn(log, "COMMIT"))
      BY <1>3, <1>4 DEF LastInv, AuthorityLasts, Lasts
    <3> QED BY <2>1, <3>1, <3>2
  <2>2. CASE ~UNCHANGED <<cache, authority>>
    <3>1. PICK cp : cp = [prefix |-> log, lsn |-> Len(log),
                   next_sequence |-> next_sequence',
                   max_committed_sequence |-> max_committed_sequence',
                   committed_count |-> committed_count',
                   decisions |-> decisions']
      OBVIOUS
    <3>2. store_checkpoint(cp)
      BY <2>2, <3>1 DEF open_inner
    <3>3. cp \in Checkpoint
      <4>1. /\ next_sequence' \in Nat /\ max_committed_sequence' \in Nat
            /\ committed_count' \in Nat /\ decisions' \subseteq Decision
        BY DEF MirrorInv, AuthorityInv, TypeInv, TypeOK, CountersType, MapsType
      <4> QED BY <1>2, <3>1, <4>1 DEF Checkpoint
    <3>4. cp.prefix = log /\ cp.lsn = Len(log) /\ cp.decisions = decisions'
      BY <3>1
    <3>5. /\ format # 3 => /\ Lasts(cache', Lasting, cp.decisions, TxnsIn(log, "COMMIT"))
                           /\ cache'.prefix = SubSeq(log, 1, cache'.lsn)
          /\ format = 3 => Lasts(authority', Lasting, cp.decisions, TxnsIn(log, "COMMIT"))
      BY <1>2, <1>5, <3>2, <3>3, <3>4, StoredLasts
    <3> QED BY <3>4, <3>5
  <2> QED BY <2>1, <2>2
<1>7. Evicted(cache)' = decisions' /\ Evicted(authority)' = decisions'
  BY <1>1, <1>2 DEF Evicted
<1>8. CacheLasts' /\ AuthorityLasts'
  BY <1>1, <1>2, <1>6, <1>7 DEF CacheLasts, AuthorityLasts
<1>9. SyncedAtRest' /\ PoisonBlocks'
  BY <1>1 DEF LastInv, SyncedAtRest, PoisonBlocks
<1> QED BY <1>8, <1>9 DEF LastInv

LEMMA MigratePublishLast ==
  ASSUME LastInv, MirrorInv', migrate_publish
  PROVE  LastInv'
<1>1. /\ up /\ stage = "idle" /\ ~poisoned /\ stage' = "migrate" /\ synced' = Len(log)
      /\ UNCHANGED <<log, format, cache, up, poisoned>> /\ authority'.lsn = Len(log)
  BY DEF migrate_publish, Unlocked, fsync
<1>2. /\ log \in Seq(Record) /\ Len(log) \in Nat /\ Lasting \in Nat /\ Lasting <= Len(log)
      /\ cache.lsn \in Nat
  BY LastTypes
<1>3. Lasting' = Len(log)
  BY <1>1 DEF Lasting
<1>4. Evicted(cache)' = cache.decisions /\ Evicted(authority)' = authority'.decisions
  BY <1>1 DEF Evicted
<1>5. CacheLasts'
  BY <1>1, <1>2, <1>3, <1>4 DEF LastInv, CacheLasts, Lasts
<1>6. AuthorityLasts'
  <2>1. PICK a : a = authority'
    OBVIOUS
  <2>2. SubSeq(log, 1, Len(log)) = log /\ Len(log) <= Len(log)
    BY <1>2
  <2>3. a.lsn = Len(log)
    BY <1>1, <2>1
  <2>4. Summary(a, SubSeq(log, 1, Len(log)))
    BY <1>1, <2>1, <2>2, <2>3 DEF MirrorInv, AuthoritySums
  <2>5. Summary(a, log)
    BY <2>2, <2>4
  <2>6. \A d \in a.decisions : d.txn \in TxnsIn(log, "COMMIT") => d.state = "Committed"
    <3>1. \A r, S : decide(r, S).txn = r.txn /\ (decide(r, S).state = "Committed" <=> r.txn \in S)
      BY DecideRec
    <3> QED BY <2>5, <3>1 DEF Summary
  <2>7. Lasts(a, Len(log), a.decisions, TxnsIn(log, "COMMIT"))
    BY <2>2, <2>3, <2>6 DEF Lasts
  <2> QED BY <1>1, <1>3, <1>4, <2>1, <2>7 DEF AuthorityLasts
<1>7. SyncedAtRest' /\ PoisonBlocks'
  BY <1>1 DEF SyncedAtRest, PoisonBlocks
<1> QED BY <1>5, <1>6, <1>7 DEF LastInv

LEMMA MigrateActivateLast ==
  ASSUME LastInv, MirrorInv', migrate_activate
  PROVE  LastInv'
<1>1. /\ up /\ stage = "migrate" /\ stage' = "idle" /\ install(NoCheckpoint) /\ format' = 3
      /\ UNCHANGED <<log, synced, authority, up, poisoned>>
  BY DEF migrate_activate
<1>2. /\ log \in Seq(Record) /\ Len(log) \in Nat /\ Accepts(log)
  BY LastTypes DEF MirrorInv, LogAccepted
<1>3. ~poisoned /\ authority.lsn = Len(log)
  BY <1>1 DEF LastInv, MirrorInv, OperationMirror, AuthorityLasts
<1>4. Summary(authority, log)
  <2>1. SubSeq(log, 1, Len(log)) = log /\ Len(log) <= Len(log)
    BY <1>2
  <2>2. Summary(authority, SubSeq(log, 1, Len(log)))
    BY <1>1, <1>3, <2>1 DEF LastInv, MirrorInv, AuthoritySums
  <2> QED BY <2>1, <2>2
<1>5. decisions' = ColdIn(log)
  <2>1. decisions' = finish_recovery(NoCheckpoint)
    BY <1>1 DEF install
  <2> QED BY <1>2, <2>1, WholeRebuilds
<1>6. OpenIn(log) = {}
  BY <1>4 DEF OpenIn, Summary
<1>7. authority.decisions \subseteq decisions'
  <2>1. ASSUME NEW r \in Of(log, "PREPARE")
        PROVE  decide(r, TxnsIn(log, "COMMIT")) \in ColdIn(log)
    <3>1. Entry(r) \in EntriesIn(log)
      BY DEF EntriesIn
    <3>2. decide(Entry(r), TxnsIn(log, "COMMIT")) \in ColdIn(log)
      BY <1>6, <3>1 DEF ColdIn
    <3> QED BY <3>2, DecideEntry
  <2> QED BY <1>4, <1>5, <2>1 DEF Summary
<1>8. Lasting' = Lasting /\ Evicted(authority)' = decisions'
  BY <1>1 DEF Lasting, Evicted
<1>9. AuthorityLasts'
  BY <1>1, <1>7, <1>8 DEF LastInv, AuthorityLasts, Lasts
<1>10. CacheLasts'
  BY <1>1 DEF CacheLasts
<1>11. SyncedAtRest' /\ PoisonBlocks'
  BY <1>1, <1>3 DEF LastInv, SyncedAtRest, PoisonBlocks
<1> QED BY <1>9, <1>10, <1>11 DEF LastInv

LEMMA LastStep ==
  ASSUME OneKind
  PROVE  LastInv /\ [Next]_vars => LastInv'
<1> SUFFICES ASSUME LastInv, [Next]_vars PROVE LastInv'
  OBVIOUS
<1>0. MirrorInv'
  BY MirrorStep DEF LastInv
<1>1. ASSUME NEW k \in Key, begin_idempotent(k) \/ drop_guard(k)
      PROVE LastInv'
  BY <1>0, <1>1, QuietLast DEF begin_idempotent, drop_guard
<1>2. ASSUME NEW t \in Txn, NEW k \in Keys, NEW written \in BOOLEAN,
             commit_inner_begin(t, k, written)
      PROVE LastInv'
  BY <1>0, <1>2, CommitBeginLast
<1>3. ASSUME NEW t \in Txn, NEW k \in Key, commit_inner_refused(t, k)
      PROVE LastInv'
  BY <1>0, <1>3, QuietLast DEF commit_inner_refused
<1>4. CASE sync_prepare
  BY <1>0, <1>4, SyncPrepareLast
<1>5. CASE sync_prepare_fails \/ write_commit_fails \/ sync_commit_fails
  <2>1. CASE sync_prepare_fails
    BY <1>0, <2>1, CommitFailsLast DEF sync_prepare_fails
  <2>2. CASE write_commit_fails
    BY <1>0, <2>2, CommitFailsLast DEF write_commit_fails
  <2>3. CASE sync_commit_fails
    BY <1>0, <2>3, CommitFailsLast DEF sync_commit_fails
  <2> QED BY <1>5, <2>1, <2>2, <2>3
<1>6. CASE write_commit
  BY <1>0, <1>6, WriteCommitLast
<1>7. CASE sync_commit
  BY <1>0, <1>7, SyncCommitLast
<1>8. ASSUME NEW t \in Txn, NEW kind \in Kinds, NEW written \in BOOLEAN,
             mark_projected_write(t, kind, written)
      PROVE LastInv'
  BY <1>0, <1>8, MarkWriteLast
<1>9. CASE mark_projected_sync \/ mark_projected_sync_fails
  BY <1>0, <1>9, MarkSyncLast
<1>10. ASSUME NEW expired \in BOOLEAN, checkpoint_completed_frontier(expired)
      PROVE LastInv'
  BY <1>0, <1>10, CheckpointLast
<1>11. CASE kill \/ power_loss
  BY <1>0, <1>11, CrashLast
<1>12. ASSUME NEW expired \in BOOLEAN, open_inner(expired)
      PROVE LastInv'
  BY <1>0, <1>12, OpenLast
<1>13. CASE migrate_publish
  BY <1>0, <1>13, MigratePublishLast
<1>14. CASE migrate_activate
  BY <1>0, <1>14, MigrateActivateLast
<1>15. CASE UNCHANGED vars
  BY <1>0, <1>15, QuietLast DEF vars
<1> QED BY <1>1, <1>2, <1>3, <1>4, <1>5, <1>6, <1>7, <1>8, <1>9, <1>10, <1>11,
           <1>12, <1>13, <1>14, <1>15
  DEF Next

\* Where the environment's crashes are of one kind, open() rebuilds the
\* journal after every crash: no record sequence and no checkpoint the code
\* leaves behind is reported as corruption.
THEOREM OpensAfterCrashes ==
  ASSUME OneKind
  PROVE  Spec => []Reopenable
<1>1. LastInv /\ [Next]_vars => LastInv'
  BY LastStep
<1> QED BY LastInit, ReopenFollows, <1>1, PTL DEF Spec
=============================================================================
