--------------------- MODULE TransactionProjectionProofs ---------------------
(***************************************************************************)
(* ReadyIsProjected, ServesAudited, RelationalRecovered,                   *)
(* CollectionRecovered, MemoryFollowsJournal and TypeOK for any number of  *)
(* clients, decisions, failed writes and crashes.                          *)
(*                                                                         *)
(* None is inductive.  Inv carries the first two: a decision that no       *)
(* request works on any more is projected because the request that left it *)
(* had either finished each step or marked the database degraded on the    *)
(* way (JobProgress), and because startup has gone through the whole       *)
(* journal twice before it serves: once for storage and once for the audit *)
(* chain (StartupProgress).  Locks says who holds what.  RelInv carries    *)
(* the relational store: state and checkpoint hold at position i a         *)
(* decision of number i, and the numbers follow the commit order.  ColInv  *)
(* carries the collection: only the last catalog decision can be           *)
(* unfinished, and catalog, directories, requests and memory agree on what *)
(* is missing of it.  The replays of the two WALs are folds, unfolded once *)
(* into the chain of their states (FoldChain).                             *)
(***************************************************************************)
EXTENDS TransactionProjection, FiniteSetTheorems, WellFoundedInduction, TLAPS

PCs == {"idle", "gate", "decide", "append", "append_collection", "install", "checkpoint",
        "prefix", "trash", "mark", "degrade", "audit", "audit_mark"}

Undecided == {"idle", "gate", "decide"}

\* The journal is a sequence and everything that is recorded about its
\* decisions is about decisions it holds.
Recorded ==
  /\ journal \in Seq(Range(journal))
  /\ stored \subseteq DOMAIN journal
  /\ audited \subseteq DOMAIN journal /\ audit_log \subseteq DOMAIN journal
  /\ cursor \in Nat /\ degraded \in BOOLEAN

Jobs ==
  /\ job \in [Clients -> [pc : PCs, op : AllOps \cup {"none"}, tx : Nat, ok : BOOLEAN]]
  /\ phase # "up" => \A c \in Clients : job[c] = Idle
  /\ \A c \in Clients :
       IF job[c].pc \in Undecided THEN job[c].tx = 0 ELSE job[c].tx \in DOMAIN journal

\* The database no longer claims to be ready.
Excused == degraded \/ "journal" \in poisoned

JobProgress ==
  \A c \in Clients :
    /\ job[c].pc \in {"audit", "audit_mark"} => Excused \/ job[c].tx \in stored
    /\ job[c].pc = "audit_mark" => job[c].tx \in audit_log

Owed == {k \in DOMAIN journal : k \notin stored \cap audited \cap audit_log}

Ready == phase = "up" => Excused \/ \A k \in Owed : \E c \in Clients : job[c].tx = k

StartupProgress ==
  /\ phase \in {"storage", "marking"} => \A k \in DOMAIN journal : k < cursor => k \in stored
  /\ phase = "marking" => cursor \in DOMAIN journal
  /\ phase \in {"load", "catalog", "prefix", "audit"} => DOMAIN journal \subseteq stored
  /\ phase \in {"catalog", "prefix"} => cursor = 1
  /\ phase = "audit" => \A k \in DOMAIN journal : k < cursor => k \in audited \cap audit_log

Inv == Recorded /\ Jobs /\ JobProgress /\ Ready /\ StartupProgress

-----------------------------------------------------------------------------
(* Sequences *)

LEMMA SequenceDomain ==
  ASSUME NEW s, s \in Seq(Range(s))
  PROVE  Len(s) \in Nat /\ DOMAIN s = 1 .. Len(s)
  OBVIOUS

LEMMA EmptySequence == ASSUME NEW S PROVE <<>> \in Seq(S)
  OBVIOUS

LEMMA SequenceOf ==
  ASSUME NEW S, NEW s \in Seq(S), NEW R, \A i \in 1 .. Len(s) : s[i] \in R
  PROVE  s \in Seq(R)
  OBVIOUS

LEMMA AppendSequence ==
  ASSUME NEW s, NEW e, s \in Seq(Range(s))
  PROVE  /\ Append(s, e) \in Seq(Range(Append(s, e)))
         /\ Len(Append(s, e)) = Len(s) + 1
         /\ DOMAIN Append(s, e) = 1 .. Len(s) + 1
<1> DEFINE S == Range(s) \cup {e}
<1>1. s \in Seq(S)
  BY DEF Range
<1>2. Append(s, e) \in Seq(S)
  BY <1>1
<1>3. Len(Append(s, e)) = Len(s) + 1
  BY <1>1
<1>4. DOMAIN Append(s, e) = 1 .. Len(s) + 1
  BY <1>2, <1>3
<1>5. \A i \in 1 .. Len(Append(s, e)) : Append(s, e)[i] \in Range(Append(s, e))
  BY <1>3, <1>4 DEF Range
<1>6. Append(s, e) \in Seq(Range(Append(s, e)))
  <2> HIDE DEF S
  <2> QED BY <1>2, <1>5, SequenceOf
<1> QED
  BY <1>3, <1>4, <1>6

LEMMA InitInv == Init => Inv
<1> SUFFICES ASSUME Init PROVE Inv
  OBVIOUS
<1>1. <<>> \in Seq(Range(<<>>))
  BY EmptySequence
<1>a. Recorded
  BY <1>1 DEF Init, Recorded
<1>2. Jobs
  BY DEF Init, Jobs, Idle, PCs, Undecided
<1>3. JobProgress /\ Ready /\ StartupProgress
  BY DEF Init, JobProgress, Ready, Owed, StartupProgress, Idle
<1> QED
  BY <1>a, <1>2, <1>3 DEF Inv
-----------------------------------------------------------------------------
(* Requests *)

Job == [pc : PCs, op : AllOps \cup {"none"}, tx : Nat, ok : BOOLEAN]

LEMMA IdleJob == Idle \in Job /\ Idle.pc = "idle" /\ Idle.tx = 0
  BY DEF Idle, Job, PCs

\* A request that is under way.
LEMMA Running ==
  ASSUME Inv, NEW c \in Clients, job[c].pc # "idle"
  PROVE  /\ phase = "up" /\ job[c] \in Job
         /\ job[c].pc \notin Undecided => job[c].tx \in DOMAIN journal
  BY DEF Inv, Jobs, Idle, Job

\* What a write does to the excuse.
LEMMA StaysExcused ==
  ASSUME NEW yes \in BOOLEAN, degraded \in BOOLEAN, Degrade(yes),
         poisoned \subseteq poisoned'
  PROVE  /\ degraded' \in BOOLEAN /\ (Excused => Excused') /\ (yes => Excused')
  BY DEF Degrade, Excused

\* A step of a decided request, which may record something about its own
\* decision and leaves it only when nothing is owed or the database is excused.
LEMMA JobStep ==
  ASSUME Inv, NEW c \in Clients, NEW r \in Job,
         job[c].pc \notin Undecided, job' = [job EXCEPT ![c] = r],
         UNCHANGED <<journal, cursor, phase>>,
         stored \subseteq stored', stored' \subseteq stored \cup {job[c].tx},
         audited \subseteq audited', audited' \subseteq audited \cup {job[c].tx},
         audit_log \subseteq audit_log', audit_log' \subseteq audit_log \cup {job[c].tx},
         degraded' \in BOOLEAN, Excused => Excused',
         \/ /\ r.tx = job[c].tx /\ r.pc \notin Undecided
            /\ r.pc \in {"audit", "audit_mark"} => Excused' \/ r.tx \in stored'
            /\ r.pc = "audit_mark" => r.tx \in audit_log'
         \/ /\ r.tx = 0 /\ r.pc \in Undecided
            /\ Excused' \/ job[c].tx \in (stored \cap audited \cap audit_log)'
  PROVE  Inv'
<1> USE DEF Inv
<1>0. phase = "up" /\ job[c].tx \in DOMAIN journal
  BY Running DEF Undecided
<1>k. \A d \in Clients : job'[d] = IF d = c THEN r ELSE job[d]
  BY DEF Jobs
<1>1. Recorded'
  BY <1>0 DEF Recorded
<1>2. Jobs'
  BY <1>0 DEF Jobs, Job, Undecided
<1>3. JobProgress'
  BY <1>0, <1>k DEF JobProgress, Undecided
<1>4. Ready'
  <2> SUFFICES ASSUME ~Excused', NEW k \in Owed' PROVE \E d \in Clients : job'[d].tx = k
    BY DEF Ready
  <2>1. k \in Owed
    BY DEF Owed
  <2>2. PICK d \in Clients : job[d].tx = k
    BY <1>0, <2>1 DEF Ready
  <2>3. CASE d = c
    BY <2>2, <2>3, <1>k DEF Owed
  <2>4. CASE d # c
    BY <2>2, <2>4, <1>k
  <2> QED
    BY <2>3, <2>4
<1>5. StartupProgress'
  BY <1>0 DEF StartupProgress
<1> QED
  BY <1>1, <1>2, <1>3, <1>4, <1>5

\* A step of a decided request that writes neither markers nor audit records.
LEMMA QuietStep ==
  ASSUME Inv, NEW c \in Clients, NEW r \in Job,
         job[c].pc \notin Undecided, job' = [job EXCEPT ![c] = r],
         r.tx = job[c].tx, r.pc \notin Undecided \cup {"audit_mark"},
         r.pc = "audit" => Excused',
         UNCHANGED <<journal, stored, audited, audit_log, cursor, phase>>,
         degraded' \in BOOLEAN, Excused => Excused'
  PROVE  Inv'
  BY JobStep

LEMMA BeginInv ==
  ASSUME Inv, NEW c \in Clients, NEW op \in Ops, Begin(c, op) PROVE Inv'
<1> USE DEF Inv
<1> DEFINE r == [Idle EXCEPT !.op = op, !.pc = IF op = "sql" THEN "gate" ELSE "decide"]
<1>0. /\ phase = "up" /\ job[c] = Idle /\ job' = [job EXCEPT ![c] = r]
      /\ UNCHANGED <<journal, stored, audited, audit_log, cursor, phase, degraded, poisoned>>
  BY DEF Begin
<1>r. r \in Job /\ r.tx = 0 /\ r.pc \in {"gate", "decide"}
  BY ConstantsAssumption DEF Idle, Job, PCs
<1> HIDE DEF r
<1>1. Recorded'
  BY <1>0 DEF Recorded
<1>2. Jobs'
  BY <1>0, <1>r DEF Jobs, Job, Undecided
<1>3. JobProgress'
  BY <1>0, <1>r DEF JobProgress, Jobs, Excused
<1>4. Ready'
  <2>1. \A d \in Clients : job'[d].tx = job[d].tx
    BY <1>0, <1>r DEF Jobs, Idle
  <2> QED
    BY <1>0, <2>1 DEF Ready, Owed, Excused
<1>5. StartupProgress'
  BY <1>0 DEF StartupProgress
<1> QED
  BY <1>1, <1>2, <1>3, <1>4, <1>5

LEMMA EnterGateInv == ASSUME Inv, NEW c \in Clients, EnterGate(c) PROVE Inv'
<1> USE DEF Inv
<1>0. /\ job[c].pc = "gate" /\ job' = [job EXCEPT ![c].pc = "decide"]
      /\ UNCHANGED <<journal, stored, audited, audit_log, cursor, phase, degraded, poisoned>>
  BY DEF EnterGate, To, disk
<1>1. Recorded'
  BY <1>0 DEF Recorded
<1>2. Jobs'
  BY <1>0, Running DEF Jobs, PCs, Undecided
<1>3. JobProgress'
  BY <1>0 DEF JobProgress, Jobs, Excused
<1>4. Ready'
  <2>1. \A d \in Clients : job'[d].tx = job[d].tx
    BY <1>0 DEF Jobs
  <2> QED
    BY <1>0, <2>1 DEF Ready, Owed, Excused
<1>5. StartupProgress'
  BY <1>0 DEF StartupProgress
<1> QED
  BY <1>1, <1>2, <1>3, <1>4, <1>5

\* The decision.  One that a failed append left in the journal belongs to no
\* request, and the poisoned handle excuses it.
LEMMA DecideInv == ASSUME Inv, NEW c \in Clients, Decide(c) PROVE Inv'
<1> USE DEF Inv
<1>0. PICK o \in Outcomes("journal") :
        /\ Wrote("journal", o)
        /\ journal' = IF Happened(o)
                      THEN Append(journal, [op |-> job[c].op, number |-> Number(job[c].op)])
                      ELSE journal
        /\ IF o = "ok"
           THEN job' = [job EXCEPT ![c].pc = "append", ![c].tx = Len(journal')]
           ELSE Finish(c)
        /\ Degrade(o # "ok" /\ job[c].op \notin {"sql", "multi"})
  BY DEF Decide
<1>1. /\ job[c].pc = "decide" /\ phase = "up" /\ job[c] \in Job /\ job[c].tx = 0
      /\ UNCHANGED <<stored, audited, audit_log, cursor, phase>>
  BY Running DEF Decide, Jobs, Undecided
<1>2. /\ journal' \in Seq(Range(journal')) /\ Len(journal) \in Nat
      /\ DOMAIN journal = 1 .. Len(journal)
      /\ DOMAIN journal' = IF Happened(o) THEN 1 .. Len(journal) + 1 ELSE DOMAIN journal
      /\ Happened(o) => Len(journal') = Len(journal) + 1
  BY <1>0, SequenceDomain, AppendSequence DEF Recorded
<1>3. /\ degraded' \in BOOLEAN /\ (Excused => Excused')
      /\ (o # "ok" /\ Happened(o) => Excused')
  BY <1>0 DEF Wrote, Degrade, Excused, Recorded, Happened
<1>4. Recorded'
  BY <1>1, <1>2, <1>3 DEF Recorded
<1> DEFINE r == IF o = "ok" THEN [job[c] EXCEPT !.pc = "append", !.tx = Len(journal')] ELSE Idle
<1>r. r \in Job /\ (o = "ok" => r.pc = "append" /\ r.tx = Len(journal) + 1)
      /\ (o # "ok" => r = Idle /\ r.pc = "idle" /\ r.tx = 0)
  <2>1. CASE o = "ok"
    <3>1. Len(journal') = Len(journal) + 1 /\ Len(journal) + 1 \in Nat
      BY <2>1, <1>2 DEF Happened
    <3> QED
      BY <2>1, <3>1, <1>1 DEF Job, PCs
  <2>2. CASE o # "ok"
    BY <2>2, IdleJob
  <2> QED
    BY <2>1, <2>2
<1>j. job' = [job EXCEPT ![c] = r]
  BY <1>0 DEF Finish, Jobs
<1>h. o = "ok" => Happened(o)
  BY DEF Happened
<1> HIDE DEF r
<1>k. \A d \in Clients : job'[d] = IF d = c THEN r ELSE job[d]
  BY <1>j DEF Jobs
<1>5. Jobs'
  <2>1. \A d \in Clients :
          IF job'[d].pc \in Undecided THEN job'[d].tx = 0 ELSE job'[d].tx \in DOMAIN journal'
    BY <1>r, <1>h, <1>k, <1>2 DEF Jobs, Undecided
  <2>2. job' \in [Clients -> Job]
    BY <1>r, <1>j DEF Jobs, Job
  <2> QED
    BY <2>1, <2>2, <1>1 DEF Jobs, Job
<1>6. JobProgress'
  BY <1>1, <1>3, <1>r, <1>k DEF JobProgress
<1>7. Ready'
  <2>1. \A d \in Clients : job[d].tx \in DOMAIN journal => job'[d].tx = job[d].tx
    BY <1>1, <1>2, <1>k
  <2>2. CASE o = "ok"
    <3>1. job'[c].tx = Len(journal) + 1
      BY <2>2, <1>r, <1>k
    <3>2. DOMAIN journal' = DOMAIN journal \cup {Len(journal) + 1}
      BY <2>2, <1>2, <1>h
    <3> QED
      BY <1>1, <1>3, <2>1, <3>1, <3>2 DEF Ready, Owed
  <2>3. CASE o # "ok" /\ ~Happened(o)
    BY <2>3, <1>0, <1>1, <1>3, <2>1 DEF Ready, Owed
  <2>4. CASE o # "ok" /\ Happened(o)
    BY <2>4, <1>3 DEF Ready
  <2> QED
    BY <2>2, <2>3, <2>4
<1>8. StartupProgress'
  BY <1>1 DEF StartupProgress
<1> QED
  BY <1>4, <1>5, <1>6, <1>7, <1>8

\* A write poisons handles and forgives none.
LEMMA WroteExcused ==
  ASSUME NEW log, NEW o, Wrote(log, o) PROVE poisoned \subseteq poisoned'
  BY DEF Wrote

\* The projection into the stores.
LEMMA AppendPutInv == ASSUME Inv, NEW c \in Clients, AppendPut(c) PROVE Inv'
<1>0. PICK o \in Outcomes("collection") :
        /\ Wrote("collection", o)
        /\ To(c, IF o = "ok" THEN "mark" ELSE "audit") /\ Degrade(o # "ok")
  BY DEF AppendPut
<1> DEFINE r == [job[c] EXCEPT !.pc = IF o = "ok" THEN "mark" ELSE "audit"]
<1>1. r \in Job /\ r.tx = job[c].tx /\ r.pc = IF o = "ok" THEN "mark" ELSE "audit"
  BY Running DEF AppendPut, Job, PCs
<1>2. degraded' \in BOOLEAN /\ (Excused => Excused') /\ (o # "ok" => Excused')
  BY <1>0, WroteExcused, StaysExcused DEF Inv, Recorded
<1>3. job' = [job EXCEPT ![c] = r]
  BY <1>0 DEF To
<1>4. job[c].pc \notin Undecided /\ UNCHANGED <<journal, stored, audited, audit_log, cursor, phase>>
  BY DEF AppendPut, Undecided
<1> HIDE DEF r
<1> QED
  BY <1>1, <1>2, <1>3, <1>4, QuietStep DEF Undecided

LEMMA AppendRelationalInv == ASSUME Inv, NEW c \in Clients, AppendRelational(c) PROVE Inv'
<1>0. PICK o \in Outcomes("relational") :
        /\ Wrote("relational", o)
        /\ To(c, IF o # "ok" THEN "degrade" ELSE IF job[c].op = "sql" THEN "mark" ELSE "append_collection")
        /\ UNCHANGED degraded
  BY DEF AppendRelational
<1> DEFINE pc == IF o # "ok" THEN "degrade" ELSE IF job[c].op = "sql" THEN "mark" ELSE "append_collection"
<1> DEFINE r == [job[c] EXCEPT !.pc = pc]
<1>1. r \in Job /\ r.tx = job[c].tx /\ r.pc = pc
  BY Running DEF AppendRelational, Job, PCs
<1>2. degraded' \in BOOLEAN /\ (Excused => Excused')
  BY <1>0, WroteExcused DEF Excused, Inv, Recorded
<1>3. job' = [job EXCEPT ![c] = r]
  BY <1>0 DEF To, Inv, Jobs
<1>4. job[c].pc \notin Undecided /\ UNCHANGED <<journal, stored, audited, audit_log, cursor, phase>>
  BY DEF AppendRelational, Undecided
<1> HIDE DEF r
<1> QED
  BY <1>1, <1>2, <1>3, <1>4, QuietStep DEF Undecided

LEMMA AppendCollectionInv == ASSUME Inv, NEW c \in Clients, AppendCollection(c) PROVE Inv'
<1>0. PICK o \in Outcomes("collection") :
        /\ Wrote("collection", o)
        /\ To(c, IF o = "ok" THEN "mark" ELSE "degrade")
        /\ UNCHANGED degraded
  BY DEF AppendCollection
<1> DEFINE pc == IF o = "ok" THEN "mark" ELSE "degrade"
<1> DEFINE r == [job[c] EXCEPT !.pc = pc]
<1>1. r \in Job /\ r.tx = job[c].tx /\ r.pc = pc
  BY Running DEF AppendCollection, Job, PCs
<1>2. degraded' \in BOOLEAN /\ (Excused => Excused')
  BY <1>0, WroteExcused DEF Excused, Inv, Recorded
<1>3. job' = [job EXCEPT ![c] = r]
  BY <1>0 DEF To, Inv, Jobs
<1>4. job[c].pc \notin Undecided /\ UNCHANGED <<journal, stored, audited, audit_log, cursor, phase>>
  BY DEF AppendCollection, Undecided
<1> HIDE DEF r
<1> QED
  BY <1>1, <1>2, <1>3, <1>4, QuietStep DEF Undecided

LEMMA AppendCatalogInv == ASSUME Inv, NEW c \in Clients, AppendCatalog(c) PROVE Inv'
<1>0. PICK o \in Outcomes("catalog") :
        /\ Wrote("catalog", o)
        /\ job' = [job EXCEPT ![c].pc = "install", ![c].ok = (o = "ok")]
        /\ Degrade(o # "ok")
  BY DEF AppendCatalog, To
<1> DEFINE pc == "install"
<1> DEFINE r == [job[c] EXCEPT !.pc = pc, !.ok = (o = "ok")]
<1>1. r \in Job /\ r.tx = job[c].tx /\ r.pc = pc
  BY Running DEF AppendCatalog, Job, PCs
<1>2. degraded' \in BOOLEAN /\ (Excused => Excused')
  BY <1>0, WroteExcused, StaysExcused DEF Inv, Recorded
<1>3. job' = [job EXCEPT ![c] = r]
  BY <1>0 DEF To, Inv, Jobs
<1>4. job[c].pc \notin Undecided /\ UNCHANGED <<journal, stored, audited, audit_log, cursor, phase>>
  BY DEF AppendCatalog, Undecided
<1> HIDE DEF r
<1> QED
  BY <1>1, <1>2, <1>3, <1>4, QuietStep DEF Undecided

LEMMA InstallCreateInv == ASSUME Inv, NEW c \in Clients, InstallCreate(c) PROVE Inv'
<1>0. PICK o \in FileOutcomes :
        /\ WroteFile(o)
        /\ To(c, IF o = "ok" THEN "checkpoint" ELSE "audit")
        /\ Degrade(o # "ok")
  BY DEF InstallCreate
<1> DEFINE pc == IF o = "ok" THEN "checkpoint" ELSE "audit"
<1> DEFINE r == [job[c] EXCEPT !.pc = pc]
<1>1. r \in Job /\ r.tx = job[c].tx /\ r.pc = pc
  BY Running DEF InstallCreate, Job, PCs
<1>2. degraded' \in BOOLEAN /\ (Excused => Excused') /\ (o # "ok" => Excused')
  BY <1>0, StaysExcused DEF Inv, Recorded, WroteFile
<1>3. job' = [job EXCEPT ![c] = r]
  BY <1>0 DEF To, Inv, Jobs
<1>4. job[c].pc \notin Undecided /\ UNCHANGED <<journal, stored, audited, audit_log, cursor, phase>>
  BY DEF InstallCreate, Undecided
<1> HIDE DEF r
<1> QED
  BY <1>1, <1>2, <1>3, <1>4, QuietStep DEF Undecided

LEMMA InstallDropInv == ASSUME Inv, NEW c \in Clients, InstallDrop(c) PROVE Inv'
<1>0. PICK o \in FileOutcomes :
        /\ WroteFile(o)
        /\ job' = [job EXCEPT ![c].pc = "checkpoint", ![c].ok = @ /\ o = "ok"]
        /\ Degrade(o # "ok")
  BY DEF InstallDrop, To
<1> DEFINE pc == "checkpoint"
<1> DEFINE r == [job[c] EXCEPT !.pc = pc, !.ok = @ /\ o = "ok"]
<1>1. r \in Job /\ r.tx = job[c].tx /\ r.pc = pc
  BY Running DEF InstallDrop, Job, PCs
<1>2. degraded' \in BOOLEAN /\ (Excused => Excused')
  BY <1>0, StaysExcused DEF Inv, Recorded, WroteFile
<1>3. job' = [job EXCEPT ![c] = r]
  BY <1>0 DEF To, Inv, Jobs
<1>4. job[c].pc \notin Undecided /\ UNCHANGED <<journal, stored, audited, audit_log, cursor, phase>>
  BY DEF InstallDrop, Undecided
<1> HIDE DEF r
<1> QED
  BY <1>1, <1>2, <1>3, <1>4, QuietStep DEF Undecided

LEMMA CheckpointCatalogInv == ASSUME Inv, NEW c \in Clients, CheckpointCatalog(c) PROVE Inv'
<1>0. PICK o \in (IF replay_catalog_wal.ok THEN FileOutcomes ELSE {"refused"}) :
        /\ WroteFile(o)
        /\ To(c, IF o = "ok" /\ ~(Protected /\ job[c].op = "create") THEN "prefix"
              ELSE IF job[c].op = "drop" THEN "trash" ELSE "mark")
        /\ Degrade(o # "ok")
  BY DEF CheckpointCatalog
<1> DEFINE pc == IF o = "ok" /\ ~(Protected /\ job[c].op = "create") THEN "prefix"
              ELSE IF job[c].op = "drop" THEN "trash" ELSE "mark"
<1> DEFINE r == [job[c] EXCEPT !.pc = pc]
<1>1. r \in Job /\ r.tx = job[c].tx /\ r.pc = pc
  BY Running DEF CheckpointCatalog, Job, PCs
<1>2. degraded' \in BOOLEAN /\ (Excused => Excused')
  BY <1>0, StaysExcused DEF Inv, Recorded, WroteFile
<1>3. job' = [job EXCEPT ![c] = r]
  BY <1>0 DEF To, Inv, Jobs
<1>4. job[c].pc \notin Undecided /\ UNCHANGED <<journal, stored, audited, audit_log, cursor, phase>>
  BY DEF CheckpointCatalog, Undecided
<1> HIDE DEF r
<1> QED
  BY <1>1, <1>2, <1>3, <1>4, QuietStep DEF Undecided

LEMMA DropCatalogPrefixInv == ASSUME Inv, NEW c \in Clients, DropCatalogPrefix(c) PROVE Inv'
<1>0. PICK o \in Outcomes("catalog") :
        /\ Wrote("catalog", o)
        /\ To(c, IF job[c].op = "drop" THEN "trash" ELSE "mark")
        /\ Degrade(o # "ok")
  BY DEF DropCatalogPrefix
<1> DEFINE pc == IF job[c].op = "drop" THEN "trash" ELSE "mark"
<1> DEFINE r == [job[c] EXCEPT !.pc = pc]
<1>1. r \in Job /\ r.tx = job[c].tx /\ r.pc = pc
  BY Running DEF DropCatalogPrefix, Job, PCs
<1>2. degraded' \in BOOLEAN /\ (Excused => Excused')
  BY <1>0, WroteExcused, StaysExcused DEF Inv, Recorded
<1>3. job' = [job EXCEPT ![c] = r]
  BY <1>0 DEF To, Inv, Jobs
<1>4. job[c].pc \notin Undecided /\ UNCHANGED <<journal, stored, audited, audit_log, cursor, phase>>
  BY DEF DropCatalogPrefix, Undecided
<1> HIDE DEF r
<1> QED
  BY <1>1, <1>2, <1>3, <1>4, QuietStep DEF Undecided

LEMMA RemoveTrashInv == ASSUME Inv, NEW c \in Clients, RemoveTrash(c) PROVE Inv'
<1>0. PICK o \in (IF "trash" \in DOMAIN dirs THEN FileOutcomes ELSE {"ok"}) :
        /\ WroteFile(o)
        /\ To(c, "mark")
        /\ Degrade(o # "ok")
  BY DEF RemoveTrash
<1> DEFINE pc == "mark"
<1> DEFINE r == [job[c] EXCEPT !.pc = pc]
<1>1. r \in Job /\ r.tx = job[c].tx /\ r.pc = pc
  BY Running DEF RemoveTrash, Job, PCs
<1>2. degraded' \in BOOLEAN /\ (Excused => Excused')
  BY <1>0, StaysExcused DEF Inv, Recorded, WroteFile
<1>3. job' = [job EXCEPT ![c] = r]
  BY <1>0 DEF To, Inv, Jobs
<1>4. job[c].pc \notin Undecided /\ UNCHANGED <<journal, stored, audited, audit_log, cursor, phase>>
  BY DEF RemoveTrash, Undecided
<1> HIDE DEF r
<1> QED
  BY <1>1, <1>2, <1>3, <1>4, QuietStep DEF Undecided

LEMMA NoticeFailureInv == ASSUME Inv, NEW c \in Clients, NoticeFailure(c) PROVE Inv'
<1> DEFINE r == [job[c] EXCEPT !.pc = "audit"]
<1>1. r \in Job /\ r.tx = job[c].tx /\ r.pc = "audit"
  BY Running DEF NoticeFailure, Job, PCs
<1>2. /\ job' = [job EXCEPT ![c] = r] /\ degraded' \in BOOLEAN /\ Excused'
      /\ job[c].pc \notin Undecided /\ UNCHANGED <<journal, stored, audited, audit_log, cursor, phase>>
  BY DEF NoticeFailure, To, Excused, Undecided, disk
<1> HIDE DEF r
<1> QED
  BY <1>1, <1>2, QuietStep DEF Undecided

\* The Storage marker.
LEMMA MarkStoredInv == ASSUME Inv, NEW c \in Clients, MarkStored(c) PROVE Inv'
<1>0. PICK o \in (IF job[c].ok THEN Outcomes("journal") ELSE {"refused"}) :
        /\ Wrote("journal", o)
        /\ stored' = IF Happened(o) THEN stored \cup {job[c].tx} ELSE stored
        /\ To(c, IF o # "ok" /\ job[c].op \in {"sql", "multi"} THEN "degrade" ELSE "audit")
        /\ Degrade(o # "ok" /\ job[c].op \notin {"sql", "multi"})
  BY DEF MarkStored
<1> DEFINE pc == IF o # "ok" /\ job[c].op \in {"sql", "multi"} THEN "degrade" ELSE "audit"
<1> DEFINE r == [job[c] EXCEPT !.pc = pc]
<1>1. r \in Job /\ r.tx = job[c].tx /\ r.pc = pc
  BY Running DEF MarkStored, Job, PCs
<1>2. /\ degraded' \in BOOLEAN /\ (Excused => Excused')
      /\ (o # "ok" /\ job[c].op \notin {"sql", "multi"} => Excused')
  BY <1>0, WroteExcused, StaysExcused DEF Inv, Recorded
<1>3. job' = [job EXCEPT ![c] = r]
  BY <1>0 DEF To
<1>4. job[c].pc \notin Undecided /\ UNCHANGED <<journal, audited, audit_log, cursor, phase>>
  BY DEF MarkStored, Undecided
<1>5. /\ stored \subseteq stored' /\ stored' \subseteq stored \cup {job[c].tx}
      /\ o = "ok" => job[c].tx \in stored'
  BY <1>0 DEF Happened
<1>6. pc = "audit" => Excused' \/ job[c].tx \in stored'
  BY <1>2, <1>5
<1>7. pc \in {"degrade", "audit"}
  OBVIOUS
<1> HIDE DEF r, pc
<1> QED
  BY <1>1, <1>2, <1>3, <1>4, <1>5, <1>6, <1>7, JobStep DEF Undecided

\* The audit record.
LEMMA ProjectAuditInv == ASSUME Inv, NEW c \in Clients, ProjectAudit(c) PROVE Inv'
<1>0. PICK o \in Outcomes("audit") :
        /\ Wrote("audit", o)
        /\ audit_log' = IF Happened(o) THEN audit_log \cup {job[c].tx} ELSE audit_log
        /\ IF o = "ok" THEN To(c, "audit_mark") ELSE Finish(c)
        /\ Degrade(o # "ok")
  BY DEF ProjectAudit
<1> DEFINE r == IF o = "ok" THEN [job[c] EXCEPT !.pc = "audit_mark"] ELSE Idle
<1>1. /\ r \in Job
      /\ o = "ok" => r.tx = job[c].tx /\ r.pc = "audit_mark"
      /\ o # "ok" => r.tx = 0 /\ r.pc = "idle"
  <2>1. CASE o = "ok"
    BY <2>1, Running DEF ProjectAudit, Job, PCs
  <2>2. CASE o # "ok"
    BY <2>2, IdleJob
  <2> QED
    BY <2>1, <2>2
<1>2. degraded' \in BOOLEAN /\ (Excused => Excused') /\ (o # "ok" => Excused')
  BY <1>0, WroteExcused, StaysExcused DEF Inv, Recorded
<1>3. job' = [job EXCEPT ![c] = r]
  BY <1>0 DEF To, Finish
<1>4. /\ job[c].pc \notin Undecided /\ UNCHANGED <<journal, stored, audited, cursor, phase>>
      /\ Excused \/ job[c].tx \in stored
  BY DEF ProjectAudit, Undecided, Inv, JobProgress
<1>5. /\ audit_log \subseteq audit_log' /\ audit_log' \subseteq audit_log \cup {job[c].tx}
      /\ o = "ok" => job[c].tx \in audit_log'
  BY <1>0 DEF Happened
<1> HIDE DEF r
<1>6. CASE o = "ok"
  BY <1>1, <1>2, <1>3, <1>4, <1>5, <1>6, JobStep DEF Undecided
<1>7. CASE o # "ok"
  BY <1>1, <1>2, <1>3, <1>4, <1>5, <1>7, JobStep DEF Undecided
<1> QED
  BY <1>6, <1>7

\* The Audit marker, with which the request leaves its decision.
LEMMA MarkAuditedInv == ASSUME Inv, NEW c \in Clients, MarkAudited(c) PROVE Inv'
<1>0. PICK o \in Outcomes("journal") :
        /\ Wrote("journal", o)
        /\ audited' = IF Happened(o) THEN audited \cup {job[c].tx} ELSE audited
        /\ Degrade(o # "ok")
  BY DEF MarkAudited
<1>1. degraded' \in BOOLEAN /\ (Excused => Excused') /\ (o # "ok" => Excused')
  BY <1>0, WroteExcused, StaysExcused DEF Inv, Recorded
<1>2. /\ job' = [job EXCEPT ![c] = Idle]
      /\ job[c].pc \notin Undecided /\ UNCHANGED <<journal, stored, audit_log, cursor, phase>>
      /\ Excused \/ job[c].tx \in stored
      /\ job[c].tx \in audit_log
  BY DEF MarkAudited, Finish, Undecided, Inv, JobProgress
<1>3. /\ audited \subseteq audited' /\ audited' \subseteq audited \cup {job[c].tx}
      /\ o = "ok" => job[c].tx \in audited'
  BY <1>0 DEF Happened
<1>4. Excused' \/ job[c].tx \in (stored \cap audited \cap audit_log)'
  BY <1>1, <1>2, <1>3
<1> QED
  BY <1>1, <1>2, <1>3, <1>4, IdleJob, JobStep DEF Undecided

LEMMA RequestInv == ASSUME Inv, NEW c \in Clients, Request(c) PROVE Inv'
  BY BeginInv, EnterGateInv, DecideInv, AppendPutInv, AppendRelationalInv, AppendCollectionInv,
     AppendCatalogInv, InstallCreateInv, InstallDropInv, CheckpointCatalogInv,
     DropCatalogPrefixInv, RemoveTrashInv, MarkStoredInv, NoticeFailureInv, ProjectAuditInv,
     MarkAuditedInv DEF Request
-----------------------------------------------------------------------------
(* Startup, crashes and checkpoints *)

\* A step that leaves decisions, requests and the phase alone, or ends in a
\* phase that promises nothing.
LEMMA StillStep ==
  ASSUME Inv, UNCHANGED <<journal, stored, audited, audit_log, cursor, degraded, job, poisoned>>,
         phase' = phase \/ (phase # "up" /\ phase' \in {"refused", "down"})
  PROVE  Inv'
<1> USE DEF Inv
<1>1. Recorded'
  BY DEF Recorded
<1>2. Jobs'
  BY DEF Jobs
<1>3. JobProgress'
  BY DEF JobProgress, Excused
<1>4. Ready'
  BY DEF Ready, Owed, Excused
<1>5. StartupProgress'
  BY DEF StartupProgress
<1> QED
  BY <1>1, <1>2, <1>3, <1>4, <1>5

\* A step of startup, which moves the cursor or the phase and may record
\* something about decisions.
LEMMA StartupStep ==
  ASSUME Inv, phase # "up", UNCHANGED <<journal, degraded, poisoned, job>>,
         cursor' \in Nat,
         stored \subseteq stored', stored' \subseteq DOMAIN journal,
         audited \subseteq audited', audited' \subseteq DOMAIN journal,
         audit_log \subseteq audit_log', audit_log' \subseteq DOMAIN journal,
         Ready', StartupProgress'
  PROVE  Inv'
<1> USE DEF Inv
<1>1. Recorded'
  BY DEF Recorded
<1>2. Jobs'
  BY DEF Jobs, Idle
<1>3. JobProgress'
  BY DEF JobProgress, Jobs, Idle
<1> QED
  BY <1>1, <1>2, <1>3

LEMMA CrashInv == ASSUME Inv, Crash PROVE Inv'
<1> USE DEF Inv
<1>0. /\ UNCHANGED <<journal, stored, audited, audit_log>>
      /\ phase' = "down" /\ cursor' = 0 /\ degraded' = FALSE
      /\ job' = [c \in Clients |-> Idle]
  BY DEF Crash, disk
<1>1. Recorded'
  BY <1>0 DEF Recorded
<1>2. Jobs'
  BY <1>0, IdleJob DEF Jobs, Undecided, Job
<1>3. JobProgress'
  BY <1>0, IdleJob DEF JobProgress
<1>4. Ready' /\ StartupProgress'
  BY <1>0 DEF Ready, StartupProgress
<1> QED
  BY <1>1, <1>2, <1>3, <1>4

LEMMA BackgroundInv == ASSUME Inv, CheckpointRelational \/ DropRelationalPrefix PROVE Inv'
  BY StillStep DEF CheckpointRelational, DropRelationalPrefix, memory

\* Appends to the stores, and what loading does to them, record nothing.
LEMMA StoreInv ==
  ASSUME Inv, \/ RecoverCatalogRecord \/ RecoverRelationalRecord \/ RecoverCollectionRecord
              \/ RecoverRename
  PROVE  Inv'
  BY StillStep DEF RecoverCatalogRecord, RecoverRelationalRecord, RecoverCollectionRecord,
                   RecoverRename, memory

LEMMA OpenInv == ASSUME Inv, Open PROVE Inv'
<1>1. /\ phase = "down" /\ phase' = "storage" /\ cursor' = 1
      /\ UNCHANGED <<journal, stored, audited, audit_log, degraded, poisoned, job>>
  BY DEF Open, disk, memory
<1>2. DOMAIN journal = 1 .. Len(journal)
  BY SequenceDomain DEF Inv, Recorded
<1>3. Ready' /\ StartupProgress'
  BY <1>1, <1>2 DEF Ready, StartupProgress
<1> QED
  BY <1>1, <1>3, StartupStep DEF Inv, Recorded

LEMMA RecoverPassedInv == ASSUME Inv, RecoverPassed PROVE Inv'
<1>1. /\ phase = "storage" /\ cursor \in DOMAIN journal
      /\ UNCHANGED <<journal, audited, audit_log, degraded, poisoned, job>>
  BY DEF RecoverPassed, Recovering, memory
<1>2. CASE MissingStorage
  BY <1>1, <1>2, StillStep DEF RecoverPassed
<1>3. CASE ~MissingStorage
  <2>1. stored' = stored \cup {cursor} /\ cursor' = cursor + 1 /\ phase' = phase
    BY <1>3 DEF RecoverPassed
  <2>2. DOMAIN journal = 1 .. Len(journal) /\ cursor \in Nat
    BY SequenceDomain DEF Inv, Recorded
  <2>3. Ready' /\ StartupProgress'
    BY <1>1, <2>1, <2>2 DEF Inv, Ready, StartupProgress
  <2> QED
    BY <1>1, <2>1, <2>2, <2>3, StartupStep DEF Inv, Recorded
<1> QED
  BY <1>2, <1>3

LEMMA RecoverInstalledInv == ASSUME Inv, RecoverInstalled PROVE Inv'
<1>1. /\ phase = "storage" /\ cursor \in DOMAIN journal /\ phase' = "marking"
      /\ UNCHANGED <<journal, stored, audited, audit_log, cursor, degraded, poisoned, job>>
  BY DEF RecoverInstalled, Pending, Recovering, memory
<1>2. Ready' /\ StartupProgress'
  BY <1>1 DEF Inv, Ready, StartupProgress
<1> QED
  BY <1>1, <1>2, StartupStep DEF Inv, Recorded

LEMMA RecoverMarkInv == ASSUME Inv, RecoverMark PROVE Inv'
<1>1. /\ phase \in {"storage", "marking"} /\ cursor \in DOMAIN journal /\ phase' = "storage"
      /\ stored' = stored \cup {cursor} /\ cursor' = cursor + 1
      /\ UNCHANGED <<journal, audited, audit_log, degraded, poisoned, job>>
  BY DEF RecoverMark, Pending, Recovering, memory, Inv, StartupProgress
<1>2. DOMAIN journal = 1 .. Len(journal) /\ cursor \in Nat
  BY SequenceDomain DEF Inv, Recorded
<1>3. Ready' /\ StartupProgress'
  BY <1>1, <1>2 DEF Inv, Ready, StartupProgress
<1> QED
  BY <1>1, <1>2, <1>3, StartupStep DEF Inv, Recorded

\* The relational state is loaded when the cursor has passed every decision.
LEMMA LoadRelationalInv == ASSUME Inv, LoadRelational PROVE Inv'
<1>1. /\ phase = "storage" /\ cursor = Len(journal) + 1 /\ phase' \in {"load", "refused"}
      /\ UNCHANGED <<journal, stored, audited, audit_log, cursor, degraded, poisoned, job>>
  BY DEF LoadRelational
<1>2. DOMAIN journal = 1 .. Len(journal) /\ Len(journal) \in Nat
  BY SequenceDomain DEF Inv, Recorded
<1>3. Ready' /\ StartupProgress'
  BY <1>1, <1>2 DEF Inv, Ready, StartupProgress
<1> QED
  BY <1>1, <1>3, StartupStep DEF Inv, Recorded

LEMMA LoadCatalogInv == ASSUME Inv, LoadCatalog PROVE Inv'
<1>1. /\ phase = "load" /\ UNCHANGED <<journal, stored, audited, audit_log, degraded, poisoned, job>>
      /\ \/ phase' \in {"catalog", "audit"} /\ cursor' = 1
         \/ phase' = "refused" /\ cursor' = cursor
  BY DEF LoadCatalog
<1>2. DOMAIN journal = 1 .. Len(journal)
  BY SequenceDomain DEF Inv, Recorded
<1>3. Ready' /\ StartupProgress'
  BY <1>1, <1>2 DEF Inv, Ready, StartupProgress
<1> QED
  BY <1>1, <1>3, StartupStep DEF Inv, Recorded

LEMMA LoadedCatalogInv ==
  ASSUME Inv, LoadedCatalogWrite \/ LoadedCatalogPrefix PROVE Inv'
<1>1. /\ \/ phase = "catalog" /\ phase' = "prefix"
         \/ phase = "prefix" /\ phase' = "audit"
      /\ UNCHANGED <<journal, stored, audited, audit_log, cursor, degraded, poisoned, job>>
  BY DEF LoadedCatalogWrite, LoadedCatalogPrefix, memory
<1>2. DOMAIN journal = 1 .. Len(journal)
  BY SequenceDomain DEF Inv, Recorded
<1>3. Ready' /\ StartupProgress'
  BY <1>1, <1>2 DEF Inv, Ready, StartupProgress
<1> QED
  BY <1>1, <1>3, StartupStep DEF Inv, Recorded

LEMMA RecoverAuditRecordInv == ASSUME Inv, RecoverAuditRecord PROVE Inv'
<1>1. /\ phase = "audit" /\ cursor \in DOMAIN journal
      /\ audit_log' = audit_log \cup {cursor}
      /\ UNCHANGED <<journal, stored, audited, cursor, phase, degraded, poisoned, job>>
  BY DEF RecoverAuditRecord, memory
<1>2. Ready' /\ StartupProgress'
  BY <1>1 DEF Inv, Ready, StartupProgress
<1> QED
  BY <1>1, <1>2, StartupStep DEF Inv, Recorded

LEMMA RecoverAuditMarkInv == ASSUME Inv, RecoverAuditMark PROVE Inv'
<1>1. /\ phase = "audit" /\ cursor \in audit_log
      /\ audited' = audited \cup {cursor} /\ cursor' = cursor + 1
      /\ UNCHANGED <<journal, stored, audit_log, phase, degraded, poisoned, job>>
  BY DEF RecoverAuditMark, memory
<1>2. DOMAIN journal = 1 .. Len(journal) /\ cursor \in Nat
  BY SequenceDomain DEF Inv, Recorded
<1>3. Ready' /\ StartupProgress'
  BY <1>1, <1>2 DEF Inv, Ready, StartupProgress
<1> QED
  BY <1>1, <1>2, <1>3, StartupStep DEF Inv, Recorded

\* What startup has done when it serves.
LEMMA ServeCompletes ==
  ASSUME Inv, Serve
  PROVE  stored = DOMAIN journal /\ audited = DOMAIN journal /\ audit_log = DOMAIN journal
<1>1. DOMAIN journal = 1 .. Len(journal) /\ Len(journal) \in Nat
  BY SequenceDomain DEF Inv, Recorded
<1>2. \A k \in DOMAIN journal : k < cursor
  BY <1>1 DEF Serve
<1> QED
  BY <1>2 DEF Serve, Inv, Recorded, StartupProgress

LEMMA ServeInv == ASSUME Inv, Serve PROVE Inv'
<1>1. /\ phase = "audit" /\ phase' = "up" /\ cursor' = 0
      /\ UNCHANGED <<journal, stored, audited, audit_log, degraded, poisoned, job>>
  BY DEF Serve, disk, memory
<1>2. Ready' /\ StartupProgress'
  BY <1>1, ServeCompletes DEF Ready, Owed, StartupProgress
<1> QED
  BY <1>1, <1>2, StartupStep DEF Inv, Recorded

LEMMA StartupInv == ASSUME Inv, Startup PROVE Inv'
  BY OpenInv, RecoverPassedInv, StoreInv, RecoverInstalledInv, RecoverMarkInv,
     LoadRelationalInv, LoadCatalogInv, LoadedCatalogInv, RecoverAuditRecordInv,
     RecoverAuditMarkInv, ServeInv DEF Startup
-----------------------------------------------------------------------------
LEMMA NextInv == Inv /\ [Next]_vars => Inv'
<1> SUFFICES ASSUME Inv, [Next]_vars PROVE Inv'
  OBVIOUS
<1>1. CASE Startup
  BY <1>1, StartupInv
<1>2. CASE Crash
  BY <1>2, CrashInv
<1>3. CASE CheckpointRelational \/ DropRelationalPrefix
  BY <1>3, BackgroundInv
<1>4. ASSUME NEW c \in Clients, Request(c) PROVE Inv'
  BY <1>4, RequestInv
<1>5. CASE UNCHANGED vars
  BY <1>5, StillStep DEF vars, disk, memory
<1> QED
  BY <1>1, <1>2, <1>3, <1>4, <1>5 DEF Next

LEMMA InvAlways == Spec => []Inv
  BY InitInv, NextInv, PTL DEF Spec

\* A database that reports itself ready has projected, marked and audited every
\* decision that no request is still working on, for any number of clients,
\* decisions, failed writes and crashes.
THEOREM ReadyIsProjectedAlways == Spec => []ReadyIsProjected
<1>1. Inv => ReadyIsProjected
  BY DEF Inv, Ready, Owed, Excused, ReadyIsProjected
<1> QED
  BY <1>1, InvAlways, PTL

\* Whenever startup begins to serve, the audit chain and its markers hold
\* exactly the decisions of the journal.
THEOREM AuditedWhenServed == Spec => ServesAudited
<1>1. Inv /\ [Next]_vars =>
        [phase # "up" /\ phase' = "up" =>
           audit_log = DOMAIN journal /\ audited = DOMAIN journal]_vars
  <2> SUFFICES ASSUME Inv, Next, phase # "up", phase' = "up"
               PROVE  audit_log = DOMAIN journal /\ audited = DOMAIN journal
    OBVIOUS
  <2>1. Serve
    <3>1. ASSUME NEW c \in Clients, Request(c) PROVE phase' = phase
      BY <3>1 DEF Request, Begin, EnterGate, Decide, AppendPut, AppendRelational,
         AppendCollection, AppendCatalog, InstallCreate, InstallDrop, CheckpointCatalog,
         DropCatalogPrefix, RemoveTrash, MarkStored, NoticeFailure, ProjectAudit, MarkAudited
    <3>2. ~Crash /\ ~CheckpointRelational /\ ~DropRelationalPrefix
      BY DEF Crash, CheckpointRelational, DropRelationalPrefix
    <3>3. Startup
      BY <3>1, <3>2 DEF Next
    <3>4. ~Open /\ ~RecoverPassed /\ ~RecoverCatalogRecord /\ ~RecoverRelationalRecord
          /\ ~RecoverCollectionRecord /\ ~RecoverRename /\ ~RecoverInstalled /\ ~RecoverMark
      BY DEF Open, RecoverPassed, RecoverCatalogRecord, RecoverRelationalRecord,
         RecoverCollectionRecord, RecoverRename, RecoverInstalled, RecoverMark
    <3>5. ~LoadRelational /\ ~LoadCatalog /\ ~LoadedCatalogWrite /\ ~LoadedCatalogPrefix
          /\ ~RecoverAuditRecord /\ ~RecoverAuditMark
      BY DEF LoadRelational, LoadCatalog, LoadedCatalogWrite, LoadedCatalogPrefix,
         RecoverAuditRecord, RecoverAuditMark
    <3> QED
      BY <3>3, <3>4, <3>5 DEF Startup
  <2> QED
    BY <2>1, ServeCompletes
<1> QED
  BY <1>1, InvAlways, PTL DEF Spec, ServesAudited
-----------------------------------------------------------------------------
(***************************************************************************)
(* Numbers.                                                                *)
(***************************************************************************)
\* A set of numbers has a least element, and a bounded one a greatest.
LEMMA LeastOf ==
  ASSUME NEW S \in SUBSET Nat, S # {}
  PROVE  \E x \in S : \A y \in S : x <= y
<1>1. PICK x \in S : \A y \in S : ~(<<y, x>> \in OpToRel(<, Nat))
  BY NatLessThanWellFounded, WFMin
<1>2. \A y \in S : ~(y < x)
  BY <1>1 DEF OpToRel
<1> QED BY <1>2

LEMMA MaxOf ==
  ASSUME NEW S \in SUBSET Nat, S # {}, NEW b \in Nat, \A x \in S : x <= b
  PROVE  Max(S) \in S /\ \A y \in S : y <= Max(S)
<1> DEFINE T == {k \in Nat : \E x \in S : k + x = b}
<1>1. T \in SUBSET Nat /\ T # {}
  <2>1. PICK x \in S : TRUE
    OBVIOUS
  <2>2. b - x \in Nat /\ (b - x) + x = b
    OBVIOUS
  <2> QED BY <2>2
<1>2. PICK z \in T : \A y \in T : z <= y
  BY <1>1, LeastOf
<1>3. PICK x \in S : z + x = b
  OBVIOUS
<1>4. \A y \in S : x >= y
  <2> TAKE y \in S
  <2>1. b - y \in T
    OBVIOUS
  <2>2. z <= b - y
    BY <1>2, <2>1
  <2>3. x \in Nat /\ y \in Nat /\ z \in Nat
    OBVIOUS
  <2> HIDE DEF T
  <2> QED BY <1>3, <2>2, <2>3
<1>5. Max(S) \in S /\ \A y \in S : Max(S) >= y
  BY <1>4, Zenon DEF Max
<1>6. Max(S) \in Nat
  BY <1>5
<1> QED BY <1>5, <1>6

\* Induction on numbers, for a set of them.
LEMMA EveryNumber ==
  ASSUME NEW T, 0 \in T, \A k \in Nat : k \in T => k + 1 \in T
  PROVE  \A k \in Nat : k \in T
<1> SUFFICES ASSUME NEW k \in Nat, k \notin T PROVE FALSE
  OBVIOUS
<1>1. PICK x \in Nat \ T : \A y \in Nat \ T : x <= y
  <2>1. Nat \ T \in SUBSET Nat /\ Nat \ T # {}
    OBVIOUS
  <2> QED BY <2>1, LeastOf
<1>2. x # 0 /\ x - 1 \in Nat /\ (x - 1) + 1 = x
  BY <1>1
<1>3. x - 1 \in T
  BY <1>1, <1>2
<1> QED BY <1>1, <1>2, <1>3

-----------------------------------------------------------------------------
(***************************************************************************)
(* The replay of a WAL is a fold over its records.  The fold has a         *)
(* solution, which goes from one record to the next.  A work is a log to   *)
(* replay, the state to start from and the records.                        *)
(***************************************************************************)
Apply(log, r, tx) == IF log = "relational" THEN RelationalApply(r, tx) ELSE CatalogApply(r, tx)
Replay(log, start, records) == [log |-> log, start |-> start, records |-> records]

FoldValue(w, f, s) ==
  IF s = {} THEN w.start ELSE Apply(w.log, f[s \ {Max(s)}], w.records[Max(s)])
Folds(w, S, f) == f = [s \in SUBSET S |-> FoldValue(w, f, s)]

UpTo(S, k) == {s \in SUBSET S : Cardinality(s) <= k}
Solves(w, S, k, f) == f = [s \in UpTo(S, k) |-> FoldValue(w, f, s)]

LEMMA SubsetSize ==
  ASSUME NEW n \in Nat, NEW s \in SUBSET (1 .. n)
  PROVE  IsFiniteSet(s) /\ Cardinality(s) \in Nat /\ Cardinality(s) <= n
<1>1. IsFiniteSet(1 .. n) /\ Cardinality(1 .. n) = n
  <2>1. 1 \in Int /\ n \in Int
    OBVIOUS
  <2> QED BY <2>1, FS_Interval
<1>2. IsFiniteSet(s) /\ Cardinality(s) <= n
  BY <1>1, FS_Subset
<1> QED BY <1>2, FS_CardinalityType

LEMMA WithoutMax ==
  ASSUME NEW n \in Nat, NEW s \in SUBSET (1 .. n), s # {}
  PROVE  /\ Max(s) \in s /\ IsFiniteSet(s) /\ Cardinality(s) \in Nat
         /\ Cardinality(s \ {Max(s)}) \in Nat /\ Cardinality(s \ {Max(s)}) + 1 = Cardinality(s)
<1>1. s \in SUBSET Nat /\ \A x \in s : x <= n
  OBVIOUS
<1>2. Max(s) \in s
  BY <1>1, MaxOf
<1>3. IsFiniteSet(s)
  BY SubsetSize
<1>4. Cardinality(s) \in Nat
  BY <1>3, FS_CardinalityType
<1>5. IsFiniteSet(s \ {Max(s)}) /\ Cardinality(s \ {Max(s)}) = Cardinality(s) - 1
  BY <1>2, <1>3, FS_RemoveElement
<1>6. Cardinality(s \ {Max(s)}) \in Nat
  BY <1>5, FS_CardinalityType
<1> QED BY <1>2, <1>3, <1>4, <1>5, <1>6

LEMMA SolvesMore ==
  ASSUME NEW w, NEW n \in Nat, NEW k \in Nat, NEW f, Solves(w, 1 .. n, k, f)
  PROVE  \E g : Solves(w, 1 .. n, k + 1, g)
<1> DEFINE S == 1 .. n
           g == [s \in UpTo(S, k + 1) |-> FoldValue(w, f, s)]
<1>1. \A s \in UpTo(S, k) : s \in UpTo(S, k + 1) /\ g[s] = f[s]
  <2> TAKE s \in UpTo(S, k)
  <2>1. s \in SUBSET S /\ Cardinality(s) <= k
    BY DEF UpTo
  <2>2. Cardinality(s) \in Nat
    BY <2>1, SubsetSize
  <2>3. s \in UpTo(S, k + 1)
    BY <2>1, <2>2 DEF UpTo
  <2>4. f[s] = FoldValue(w, f, s)
    <3> HIDE DEF S
    <3> QED BY Zenon DEF Solves, S
  <2> QED BY <2>3, <2>4, Zenon
<1>2. \A s \in UpTo(S, k + 1) : s # {} => s \ {Max(s)} \in UpTo(S, k)
  <2> SUFFICES ASSUME NEW s \in UpTo(S, k + 1), s # {}
               PROVE  s \ {Max(s)} \in UpTo(S, k)
    OBVIOUS
  <2>1. s \in SUBSET S /\ Cardinality(s) <= k + 1
    BY DEF UpTo
  <2>2. Cardinality(s \ {Max(s)}) <= k
    <3>1. Cardinality(s \ {Max(s)}) \in Nat /\ Cardinality(s \ {Max(s)}) + 1 = Cardinality(s)
      BY <2>1, WithoutMax
    <3> HIDE DEF g
    <3> QED BY <2>1, <3>1
  <2>3. s \ {Max(s)} \in SUBSET S
    BY <2>1
  <2> QED BY <2>2, <2>3 DEF UpTo
<1>3. \A s \in UpTo(S, k + 1) : s # {} => f[s \ {Max(s)}] = g[s \ {Max(s)}]
  <2> HIDE DEF S, g
  <2> QED BY <1>1, <1>2, Zenon
<1>4. \A s \in UpTo(S, k + 1) : FoldValue(w, f, s) = FoldValue(w, g, s)
  <2> HIDE DEF S, g
  <2> QED BY <1>3, Zenon DEF FoldValue
<1>5. g = [s \in UpTo(S, k + 1) |-> FoldValue(w, g, s)]
  <2> DEFINE G(s) == FoldValue(w, g, s)
             F(s) == FoldValue(w, f, s)
  <2>1. \A s \in UpTo(S, k + 1) : F(s) = G(s)
    BY <1>4
  <2>2. g = [s \in UpTo(S, k + 1) |-> F(s)]
    OBVIOUS
  <2> HIDE DEF g, F, G
  <2>3. g = [s \in UpTo(S, k + 1) |-> G(s)]
    BY <2>1, <2>2, Zenon
  <2> QED BY <2>3 DEF G
<1>6. Solves(w, S, k + 1, g)
  <2> HIDE DEF g
  <2> QED BY <1>5, Zenon DEF Solves
<1> HIDE DEF g
<1> QED BY <1>6

LEMMA SolvesNone ==
  ASSUME NEW w, NEW n \in Nat
  PROVE  \E f : Solves(w, 1 .. n, 0, f)
<1> DEFINE f == [s \in UpTo(1 .. n, 0) |-> w.start]
<1>1. \A s \in UpTo(1 .. n, 0) : s = {}
  <2> SUFFICES ASSUME NEW s \in UpTo(1 .. n, 0) PROVE s = {}
    OBVIOUS
  <2>0. s \in SUBSET (1 .. n) /\ Cardinality(s) <= 0
    BY DEF UpTo
  <2>1. IsFiniteSet(s) /\ Cardinality(s) \in Nat
    BY <2>0, SubsetSize
  <2>2. Cardinality(s) = 0
    BY <2>0, <2>1
  <2> QED BY <2>1, <2>2, FS_EmptySet
<1>2. f = [s \in UpTo(1 .. n, 0) |-> FoldValue(w, f, s)]
  BY <1>1, Zenon DEF FoldValue
<1>3. Solves(w, 1 .. n, 0, f)
  BY <1>2, Zenon DEF Solves
<1> QED BY <1>3

LEMMA FoldsExist ==
  ASSUME NEW w, NEW n \in Nat
  PROVE  \E f : Folds(w, 1 .. n, f)
<1> DEFINE T == {k \in Nat : \E f : Solves(w, 1 .. n, k, f)}
<1>1. 0 \in T
  BY SolvesNone
<1>2. \A k \in Nat : k \in T => k + 1 \in T
  <2> SUFFICES ASSUME NEW k \in Nat, k \in T PROVE k + 1 \in T
    OBVIOUS
  <2>1. PICK f : Solves(w, 1 .. n, k, f)
    OBVIOUS
  <2>2. \E g : Solves(w, 1 .. n, k + 1, g)
    BY <2>1, SolvesMore
  <2> QED BY <2>2
<1>3. \A k \in Nat : k \in T
  <2> HIDE DEF T
  <2> QED BY <1>1, <1>2, EveryNumber
<1>4. PICK f : Solves(w, 1 .. n, n, f)
  BY <1>3
<1>5. UpTo(1 .. n, n) = SUBSET (1 .. n)
  <2>1. \A s \in SUBSET (1 .. n) : Cardinality(s) <= n
    BY SubsetSize
  <2> QED BY <2>1 DEF UpTo
<1>6. Folds(w, 1 .. n, f)
  BY <1>4, <1>5, Zenon DEF Solves, Folds
<1> QED BY <1>6

LEMMA IntervalMax ==
  ASSUME NEW k \in Nat
  PROVE  Max(1 .. k + 1) = k + 1
<1> DEFINE s == 1 .. k + 1
           m == k + 1
<1>1. s \in SUBSET Nat /\ s # {} /\ (\A x \in s : x <= m) /\ m \in s /\ m \in Nat
  OBVIOUS
<1> HIDE DEF s, m
<1>2. Max(s) \in s /\ \A y \in s : y <= Max(s)
  BY <1>1, MaxOf
<1>3. Max(s) \in Nat /\ Max(s) <= m /\ m <= Max(s)
  BY <1>1, <1>2
<1>4. Max(s) = m
  BY <1>1, <1>3
<1> QED BY <1>4 DEF s, m


\* The states of a replay, one after each record.
LEMMA FoldChain ==
  ASSUME NEW w, NEW n \in Nat
  PROVE  \E f : /\ f[0] = w.start /\ f[n] = (CHOOSE g : Folds(w, 1 .. n, g))[1 .. n]
                /\ \A k \in 0 .. n - 1 : f[k + 1] = Apply(w.log, f[k], w.records[k + 1])
<1>2. \E f : Folds(w, 1 .. n, f)
  BY FoldsExist
<1> DEFINE g == CHOOSE f : Folds(w, 1 .. n, f)
<1>3. Folds(w, 1 .. n, g)
  BY <1>2, Zenon
<1>4. (CHOOSE f : Folds(w, 1 .. n, f))[1 .. n] = g[1 .. n]
  OBVIOUS
<1> HIDE DEF g
<1>5. \A s \in SUBSET (1 .. n) : g[s] = FoldValue(w, g, s)
  BY <1>3, Zenon DEF Folds
<1> DEFINE f == [k \in 0 .. n |-> g[1 .. k]]
<1>6. f[0] = w.start
  <2>1. 1 .. 0 = {} /\ {} \in SUBSET (1 .. n)
    OBVIOUS
  <2>2. g[{}] = w.start
    BY <1>5, <2>1, Zenon DEF FoldValue
  <2> QED BY <2>1, <2>2
<1>7. ASSUME NEW k \in 0 .. n - 1 PROVE f[k + 1] = Apply(w.log, f[k], w.records[k + 1])
  <2> DEFINE s == 1 .. k + 1
  <2>0. k \in Nat /\ k + 1 <= n
    OBVIOUS
  <2>1. s \in SUBSET (1 .. n) /\ s # {} /\ s \ {k + 1} = 1 .. k /\ k + 1 \in 1 .. n
    <3>1. k + 1 \in s /\ k + 1 \in 1 .. n
      BY <2>0
    <3>2. s \in SUBSET (1 .. n)
      BY <2>0
    <3>3. s \ {k + 1} = 1 .. k
      BY <2>0
    <3> QED BY <3>1, <3>2, <3>3
  <2>2. Max(s) = k + 1
    <3>1. k \in Nat
      OBVIOUS
    <3> HIDE DEF f
    <3> QED BY <3>1, IntervalMax
  <2> HIDE DEF s
  <2>3. g[s] = Apply(w.log, g[1 .. k], w.records[k + 1])
    BY <1>5, <2>1, <2>2, Zenon DEF FoldValue
  <2>4. f[k + 1] = g[s] /\ f[k] = g[1 .. k]
    BY DEF s
  <2> QED BY <2>3, <2>4
<1>8. f[n] = g[1 .. n]
  OBVIOUS
<1> HIDE DEF f
<1> QED BY <1>4, <1>6, <1>7, <1>8

\* What a scan of the WAL finds after the watermark.
Behind(records, mark) == SubSeq(records, mark + 1, Len(records))

LEMMA RelationalChoose ==
  ASSUME NEW s, NEW e
  PROVE  FoldLeft(RelationalApply, e, s)
           = (CHOOSE g : Folds(Replay("relational", e, s), DOMAIN s, g))[DOMAIN s]
<1> DEFINE w == Replay("relational", e, s)
<1>1. w.log = "relational" /\ w.start = e /\ w.records = s
  BY DEF Replay
<1>2. \A r, tx : Apply(w.log, r, tx) = RelationalApply(r, tx)
  BY <1>1 DEF Apply
<1> HIDE DEF w
<1>3. \A f, S : FoldValue(w, f, S)
                  = IF S = {} THEN e ELSE RelationalApply(f[S \ {Max(S)}], s[Max(S)])
  BY <1>1, <1>2, Zenon DEF FoldValue
<1> DEFINE Q(g) == g = [S \in SUBSET DOMAIN s |->
                          IF S = {} THEN e ELSE RelationalApply(g[S \ {Max(S)}], s[Max(S)])]
<1>4. \A g : Folds(w, DOMAIN s, g) <=> Q(g)
  BY <1>3, Zenon DEF Folds
<1>5. (CHOOSE g : Folds(w, DOMAIN s, g)) = CHOOSE g : Q(g)
  BY <1>4, Zenon
<1>6. FoldLeft(RelationalApply, e, s) = (CHOOSE g : Q(g))[DOMAIN s]
  BY Zenon DEF FoldLeft, MapThenFoldSet
<1> QED BY <1>5, <1>6 DEF w
-----------------------------------------------------------------------------
(***************************************************************************)
(* Who holds what: a request works on its own decision under the gate and  *)
(* the locks that its kind takes.                                          *)
(***************************************************************************)
Holding == {"append", "append_collection", "mark"}

\* What a request may be doing, by its kind.
Sound(j) ==
  /\ j.pc = "idle" => j = Idle
  /\ j.pc # "idle" => j.op \in AllOps
  /\ j.pc = "gate" => j.op = "sql"
  /\ j.pc = "append_collection" => j.op = "multi"
  /\ j.pc = "degrade" => j.op \in {"sql", "multi"}
  /\ j.pc \in {"install", "checkpoint", "prefix", "trash"} => Alone(j.op)
  /\ j.pc = "trash" => j.op = "drop"

Owned ==
  \A c \in Clients :
    /\ Sound(job[c])
    /\ job[c].pc \notin Undecided => job[c].op = journal[job[c].tx].op

Exclusive ==
  /\ \A c, d \in Clients : HoldsRelational(c) /\ HoldsRelational(d) => c = d
  /\ \A c, d \in Clients : HoldsCollection(c) /\ HoldsCollection(d) => c = d
  /\ \A c, d \in Clients : HoldsGate(c) /\ HoldsGate(d) /\ Alone(job[c].op) => c = d

\* A catalog request finds the database ready when it decides, and its decision
\* is the last one of the journal until it has ended.
Undisturbed ==
  \A c \in Clients : Alone(job[c].op) =>
    /\ job[c].pc = "decide" => ~degraded
    /\ job[c].pc \notin Undecided => job[c].tx = Len(journal)

Locks == Owned /\ Exclusive /\ Undisturbed /\ (phase # "up" => poisoned = {})

\* A decided request's step: it goes on with its decision and takes no lock, or
\* it ends.
Carries(c, r) ==
  /\ r \in Job /\ job[c].pc \notin Undecided /\ job' = [job EXCEPT ![c] = r]
  /\ UNCHANGED <<journal, phase, cursor>>
  /\ \/ r = Idle
     \/ /\ r.op = job[c].op /\ r.tx = job[c].tx /\ r.pc \notin Undecided
        /\ Sound(r)
        /\ r.op \in {"sql", "multi"} /\ r.pc \in Holding => job[c].pc \in Holding

LEMMA JobOf ==
  ASSUME Inv, NEW c \in Clients, NEW r, job' = [job EXCEPT ![c] = r]
  PROVE  \A d \in Clients : job'[d] = IF d = c THEN r ELSE job[d]
  BY DEF Inv, Jobs

LEMMA JobTyped ==
  ASSUME Inv, NEW c \in Clients
  PROVE  /\ job[c] \in Job /\ job[c].pc \in PCs
         /\ job[c].pc \notin Undecided => job[c].tx \in DOMAIN journal
         /\ job[c].pc \in Undecided => job[c].tx = 0
         /\ job[c].pc # "idle" => phase = "up"
  BY DEF Inv, Jobs, Job, Idle

LEMMA CarriesLocks ==
  ASSUME Inv, Locks, NEW c \in Clients, NEW r, Carries(c, r)
  PROVE  Locks'
<1>1. \A d \in Clients : job'[d] = IF d = c THEN r ELSE job[d]
  BY JobOf DEF Carries
<1>2. Owned'
  <2>1. Sound(Idle)
    BY DEF Sound, Idle
  <2> QED BY <1>1, <2>1, IdleJob DEF Locks, Owned, Carries, Undecided
<1>3. HoldsGate(c)
  BY DEF Carries, HoldsGate, Undecided
<1>4. Exclusive'
  <2>1. \A d \in Clients : HoldsRelational(d)' => HoldsRelational(d)
    BY <1>1, IdleJob DEF HoldsRelational, Carries, Holding
  <2>2. \A d \in Clients : HoldsCollection(d)' => HoldsCollection(d)
    BY <1>1, IdleJob DEF HoldsCollection, Carries, Undecided
  <2>3. \A d \in Clients : HoldsGate(d)' => HoldsGate(d) /\ job'[d].op = job[d].op
    BY <1>1, IdleJob DEF HoldsGate, Carries, Undecided
  <2> QED BY <2>1, <2>2, <2>3 DEF Locks, Exclusive
<1>5. Undisturbed'
  <2> SUFFICES ASSUME NEW d \in Clients, Alone(job'[d].op)
               PROVE  /\ job'[d].pc = "decide" => ~degraded'
                      /\ job'[d].pc \notin Undecided => job'[d].tx = Len(journal')
    BY DEF Undisturbed
  <2>1. CASE d = c
    BY <2>1, <1>1, IdleJob DEF Locks, Undisturbed, Carries, Undecided
  <2>2. CASE d # c
    <3>1. ~HoldsGate(d)
      BY <2>2, <1>1, <1>3 DEF Locks, Exclusive
    <3> QED BY <2>2, <3>1, <1>1 DEF HoldsGate, Undecided
  <2> QED BY <2>1, <2>2
<1>6. phase' # "up" => poisoned' = {}
  BY Running DEF Carries, Undecided
<1> QED BY <1>2, <1>4, <1>5, <1>6 DEF Locks

\* Steps that no request takes.
LEMMA StillLocks ==
  ASSUME Inv, Locks, UNCHANGED <<journal, job, degraded, poisoned>>,
         phase' = "up" \/ poisoned = {}
  PROVE  Locks'
<1>1. Owned' /\ Undisturbed'
  BY DEF Locks, Owned, Undisturbed
<1>2. Exclusive'
  BY DEF Locks, Exclusive, HoldsRelational, HoldsCollection, HoldsGate
<1> QED BY <1>1, <1>2 DEF Locks

LEMMA ResetLocks ==
  ASSUME job' = [c \in Clients |-> Idle], poisoned' = {}
  PROVE  Locks'
<1>1. \A c \in Clients : job'[c] = Idle /\ Idle.pc = "idle" /\ Idle.op = "none"
  BY DEF Idle
<1>2. Owned' /\ Undisturbed'
  BY <1>1 DEF Owned, Undisturbed, Sound, Undecided, Alone
<1>3. Exclusive'
  BY <1>1 DEF Exclusive, HoldsRelational, HoldsCollection, HoldsGate
<1> QED BY <1>2, <1>3 DEF Locks

LEMMA InitLocks == Init => Locks
<1> SUFFICES ASSUME Init PROVE Locks
  OBVIOUS
<1>1. \A c \in Clients : job[c] = Idle /\ Idle.pc = "idle" /\ Idle.op = "none"
  BY DEF Init, Idle
<1>2. Owned /\ Undisturbed
  BY <1>1 DEF Owned, Undisturbed, Sound, Undecided, Alone
<1>3. Exclusive
  BY <1>1 DEF Exclusive, HoldsRelational, HoldsCollection, HoldsGate
<1> QED BY <1>2, <1>3 DEF Locks, Init

LEMMA BeginLocks ==
  ASSUME Inv, Locks, NEW c \in Clients, NEW op \in Ops, Begin(c, op)
  PROVE  Locks'
<1> DEFINE r == [Idle EXCEPT !.op = op, !.pc = IF op = "sql" THEN "gate" ELSE "decide"]
<1>1. /\ job' = [job EXCEPT ![c] = r] /\ phase = "up" /\ ~degraded
      /\ op # "sql" => GateOpen(op)
      /\ UNCHANGED <<journal, degraded, phase, poisoned>>
  BY DEF Begin
<1>2. r.op = op /\ r.pc = (IF op = "sql" THEN "gate" ELSE "decide") /\ op \in AllOps
  BY ConstantsAssumption DEF Idle
<1> HIDE DEF r
<1>3. \A d \in Clients : job'[d] = IF d = c THEN r ELSE job[d]
  BY <1>1, JobOf
<1>4. Owned'
  BY <1>1, <1>2, <1>3 DEF Locks, Owned, Sound, Undecided
<1>5. Exclusive'
  <2>1. ~HoldsRelational(c)' /\ ~HoldsCollection(c)' /\ (HoldsGate(c)' => op # "sql")
    BY <1>2, <1>3 DEF HoldsRelational, HoldsCollection, HoldsGate
  <2>2. \A d \in Clients : d # c =>
          /\ HoldsRelational(d)' <=> HoldsRelational(d)
          /\ HoldsCollection(d)' <=> HoldsCollection(d)
          /\ HoldsGate(d)' <=> HoldsGate(d)
          /\ job'[d].op = job[d].op
    BY <1>3 DEF HoldsRelational, HoldsCollection, HoldsGate
  <2>3. \A d \in Clients : d # c /\ HoldsGate(c)' /\ HoldsGate(d)' => ~Alone(job'[c].op) /\ ~Alone(job'[d].op)
    BY <1>1, <1>2, <1>3, <2>1, <2>2 DEF GateOpen
  <2> QED BY <2>1, <2>2, <2>3 DEF Locks, Exclusive
<1>6. Undisturbed'
  BY <1>1, <1>2, <1>3 DEF Locks, Undisturbed, Undecided
<1> QED BY <1>1, <1>4, <1>5, <1>6 DEF Locks

LEMMA EnterGateLocks ==
  ASSUME Inv, Locks, NEW c \in Clients, EnterGate(c)
  PROVE  Locks'
<1> DEFINE r == [job[c] EXCEPT !.pc = "decide"]
<1>1. /\ job' = [job EXCEPT ![c] = r] /\ job[c].pc = "gate" /\ GateOpen("sql")
      /\ UNCHANGED <<journal, degraded, phase, poisoned>>
  BY DEF EnterGate, To, disk
<1>2. r.op = "sql" /\ job[c].op = "sql" /\ r.pc = "decide" /\ r.tx = job[c].tx
  BY <1>1, JobTyped DEF Locks, Owned, Sound, Job
<1>3. \A d \in Clients : job'[d] = IF d = c THEN r ELSE job[d]
  BY <1>1, JobOf
<1> HIDE DEF r
<1>4. Owned'
  BY <1>1, <1>2, <1>3 DEF Locks, Owned, Sound, Undecided, AllOps
<1>5. Exclusive'
  <2>1. ~HoldsRelational(c)' /\ ~HoldsCollection(c)' /\ ~Alone(job'[c].op)
    BY <1>2, <1>3 DEF HoldsRelational, HoldsCollection, Alone
  <2>2. \A d \in Clients : d # c =>
          /\ HoldsRelational(d)' <=> HoldsRelational(d)
          /\ HoldsCollection(d)' <=> HoldsCollection(d)
          /\ HoldsGate(d)' <=> HoldsGate(d)
          /\ job'[d].op = job[d].op
    BY <1>3 DEF HoldsRelational, HoldsCollection, HoldsGate
  <2>3. \A d \in Clients : d # c /\ HoldsGate(d)' => ~Alone(job'[d].op)
    BY <1>1, <2>2 DEF GateOpen
  <2> QED BY <2>1, <2>2, <2>3 DEF Locks, Exclusive
<1>6. Undisturbed'
  BY <1>1, <1>2, <1>3 DEF Locks, Undisturbed, Undecided, Alone
<1> QED BY <1>1, <1>4, <1>5, <1>6, Running DEF Locks
\* The decision, with the job it leaves.
LEMMA DecideStep ==
  ASSUME Inv, Locks, NEW c \in Clients, Decide(c)
  PROVE  \E o \in Outcomes("journal"), r \in Job :
           /\ job[c].pc = "decide" /\ job[c].tx = 0 /\ phase = "up"
           /\ job[c].op \in {"put", "multi"} => \A d \in Clients : ~HoldsCollection(d)
           /\ job[c].op \in {"sql", "multi"} => \A d \in Clients : ~HoldsRelational(d)
           /\ job' = [job EXCEPT ![c] = r]
           /\ o = "ok" => r.pc = "append" /\ r.tx = Len(journal) + 1 /\ r.op = job[c].op
           /\ o # "ok" => r = Idle
           /\ ~Happened(o) => journal' = journal
           /\ Happened(o) =>
                /\ journal' = Append(journal, [op |-> job[c].op, number |-> Number(job[c].op)])
                /\ "journal" \notin poisoned
           /\ Happened(o) /\ o # "ok" => "journal" \in poisoned'
           /\ poisoned \subseteq poisoned'
           /\ "collection" \in poisoned' => "collection" \in poisoned
           /\ Degrade(o # "ok" /\ job[c].op \notin {"sql", "multi"})
           /\ o = "ok" => Happened(o)
           /\ UNCHANGED <<stored, audited, audit_log, catalog, catalog_wal, dirs, relational_wal,
                          checkpoint, collection, state, phase, cursor, broken, crashes>>
<1>0. PICK o \in Outcomes("journal") :
        /\ Wrote("journal", o)
        /\ journal' = IF Happened(o)
                      THEN Append(journal, [op |-> job[c].op, number |-> Number(job[c].op)])
                      ELSE journal
        /\ IF o = "ok"
           THEN job' = [job EXCEPT ![c].pc = "append", ![c].tx = Len(journal')]
           ELSE Finish(c)
        /\ Degrade(o # "ok" /\ job[c].op \notin {"sql", "multi"})
  BY DEF Decide
<1>1. /\ job[c].pc = "decide" /\ phase = "up" /\ job[c] \in Job /\ job[c].tx = 0
      /\ UNCHANGED <<stored, audited, audit_log, catalog, catalog_wal, dirs, relational_wal,
                          checkpoint, collection, state, phase, cursor, broken, crashes>>
      /\ job[c].op \in {"put", "multi"} => \A d \in Clients : ~HoldsCollection(d)
      /\ job[c].op \in {"sql", "multi"} => \A d \in Clients : ~HoldsRelational(d)
  BY Running DEF Decide, Inv, Jobs, Undecided
<1>2. Happened(o) => Len(journal') = Len(journal) + 1 /\ Len(journal) + 1 \in Nat
  BY <1>0, AppendSequence, SequenceDomain DEF Inv, Recorded
<1>3. /\ o = "ok" => Happened(o)
      /\ Happened(o) => "journal" \notin poisoned
      /\ Happened(o) /\ o # "ok" => "journal" \in poisoned'
      /\ poisoned \subseteq poisoned'
      /\ "collection" \in poisoned' => "collection" \in poisoned
  BY <1>0 DEF Happened, Outcomes, Wrote, Failures
<1> DEFINE r == IF o = "ok" THEN [job[c] EXCEPT !.pc = "append", !.tx = Len(journal')] ELSE Idle
<1>4. r \in Job /\ (o = "ok" => r.pc = "append" /\ r.tx = Len(journal) + 1 /\ r.op = job[c].op)
      /\ (o # "ok" => r = Idle)
  <2>1. CASE o = "ok"
    BY <2>1, <1>1, <1>2, <1>3 DEF Job, PCs
  <2>2. CASE o # "ok"
    BY <2>2, IdleJob
  <2> QED BY <2>1, <2>2
<1>5. job' = [job EXCEPT ![c] = r]
  BY <1>0 DEF Finish, Inv, Jobs
<1> HIDE DEF r
<1>6. Happened(o) => journal' = Append(journal, [op |-> job[c].op, number |-> Number(job[c].op)])
  BY <1>0
<1>7. ~Happened(o) => journal' = journal
  BY <1>0
<1> r \in Job
  BY <1>4
<1> WITNESS o \in Outcomes("journal"), r \in Job
<1> QED BY <1>0, <1>1, <1>3, <1>4, <1>5, <1>6, <1>7

LEMMA AppendedJournal ==
  ASSUME Inv, NEW d, journal' = Append(journal, d)
  PROVE  /\ Len(journal) \in Nat /\ DOMAIN journal = 1 .. Len(journal)
         /\ Len(journal') = Len(journal) + 1
         /\ DOMAIN journal' = DOMAIN journal \cup {Len(journal) + 1}
         /\ \A k \in DOMAIN journal : journal'[k] = journal[k]
         /\ journal'[Len(journal) + 1] = d
<1>1. Len(journal) \in Nat /\ DOMAIN journal = 1 .. Len(journal) /\ journal \in Seq(Range(journal))
  BY SequenceDomain DEF Inv, Recorded
<1>2. Len(journal') = Len(journal) + 1 /\ DOMAIN journal' = 1 .. Len(journal) + 1
  BY <1>1, AppendSequence
<1>3. journal \in Seq(Range(journal) \cup {d})
  BY <1>1
<1>4. /\ \A k \in DOMAIN journal : journal'[k] = journal[k]
      /\ journal'[Len(journal) + 1] = d
  BY <1>1, <1>3
<1> QED BY <1>1, <1>2, <1>4

LEMMA DecideLocks ==
  ASSUME Inv, Locks, NEW c \in Clients, Decide(c)
  PROVE  Locks'
<1>0. PICK o \in Outcomes("journal"), r \in Job :
           /\ job[c].pc = "decide" /\ job[c].tx = 0 /\ phase = "up"
           /\ job[c].op \in {"put", "multi"} => \A d \in Clients : ~HoldsCollection(d)
           /\ job[c].op \in {"sql", "multi"} => \A d \in Clients : ~HoldsRelational(d)
           /\ job' = [job EXCEPT ![c] = r]
           /\ o = "ok" => r.pc = "append" /\ r.tx = Len(journal) + 1 /\ r.op = job[c].op
           /\ o # "ok" => r = Idle
           /\ ~Happened(o) => journal' = journal
           /\ Happened(o) =>
                journal' = Append(journal, [op |-> job[c].op, number |-> Number(job[c].op)])
           /\ Degrade(o # "ok" /\ job[c].op \notin {"sql", "multi"})
           /\ o = "ok" => Happened(o)
           /\ UNCHANGED phase
  BY DecideStep
<1>1. \A d \in Clients : job'[d] = IF d = c THEN r ELSE job[d]
  BY <1>0, JobOf
<1>2. /\ \A k \in DOMAIN journal : journal'[k].op = journal[k].op
      /\ o = "ok" => journal'[Len(journal) + 1].op = job[c].op /\ Len(journal') = Len(journal) + 1
      /\ Happened(o) \/ journal' = journal
  BY <1>0, AppendedJournal
<1>3. \A d \in Clients : job[d].pc \notin Undecided => job[d].tx \in DOMAIN journal
  BY JobTyped
<1>4. Idle.pc = "idle" /\ Idle.op = "none" /\ Sound(Idle)
  BY DEF Idle, Sound
<1>5. Sound(r)
  <2>1. CASE o = "ok"
    BY <2>1, <1>0 DEF Sound, Locks, Owned
  <2>2. CASE o # "ok"
    BY <2>2, <1>0, <1>4
  <2> QED BY <2>1, <2>2
<1>6. Owned'
  <2> SUFFICES ASSUME NEW d \in Clients
               PROVE  /\ Sound(job'[d])
                      /\ job'[d].pc \notin Undecided => job'[d].op = journal'[job'[d].tx].op
    BY DEF Owned, Sound
  <2>1. CASE d = c
    BY <2>1, <1>0, <1>1, <1>2, <1>4, <1>5 DEF Undecided
  <2>2. CASE d # c
    BY <2>2, <1>1, <1>2, <1>3 DEF Locks, Owned
  <2> QED BY <2>1, <2>2
<1>7. HoldsGate(c)
  BY <1>0 DEF HoldsGate
<1>8. \A d \in Clients : HoldsGate(d)' => HoldsGate(d) /\ job'[d].op = job[d].op
  BY <1>0, <1>1, <1>4, <1>7 DEF HoldsGate
<1>9. Exclusive'
  <2>1. \A d \in Clients : d # c =>
          /\ HoldsRelational(d)' <=> HoldsRelational(d)
          /\ HoldsCollection(d)' <=> HoldsCollection(d)
    BY <1>1 DEF HoldsRelational, HoldsCollection
  <2>2. /\ HoldsRelational(c)' => job[c].op \in {"sql", "multi"}
        /\ HoldsCollection(c)' => job[c].op \in {"put", "multi"}
    BY <1>0, <1>1, <1>4 DEF HoldsRelational, HoldsCollection
  <2>3. \A d, e \in Clients : HoldsRelational(d)' /\ HoldsRelational(e)' => d = e
    BY <2>1, <2>2, <1>0 DEF Locks, Exclusive
  <2>4. \A d, e \in Clients : HoldsCollection(d)' /\ HoldsCollection(e)' => d = e
    BY <2>1, <2>2, <1>0 DEF Locks, Exclusive
  <2>5. \A d, e \in Clients : HoldsGate(d)' /\ HoldsGate(e)' /\ Alone(job'[d].op) => d = e
    BY <1>8 DEF Locks, Exclusive
  <2> QED BY <2>3, <2>4, <2>5 DEF Exclusive
<1>10. Undisturbed'
  <2> SUFFICES ASSUME NEW d \in Clients, Alone(job'[d].op)
               PROVE  /\ job'[d].pc = "decide" => ~degraded'
                      /\ job'[d].pc \notin Undecided => job'[d].tx = Len(journal')
    BY DEF Undisturbed
  <2>1. CASE d = c
    BY <2>1, <1>0, <1>1, <1>2, <1>4 DEF Undecided
  <2>2. CASE d # c
    <3>1. ~HoldsGate(d)
      BY <2>2, <1>1, <1>7 DEF Locks, Exclusive
    <3> QED BY <2>2, <3>1, <1>1 DEF HoldsGate, Undecided
  <2> QED BY <2>1, <2>2
<1> QED BY <1>0, <1>6, <1>9, <1>10 DEF Locks

\* Every other step of a request.
LEMMA Carried ==
  ASSUME Inv, Locks, NEW c \in Clients,
         \/ AppendPut(c) \/ AppendRelational(c) \/ AppendCollection(c) \/ AppendCatalog(c)
         \/ InstallCreate(c) \/ InstallDrop(c) \/ CheckpointCatalog(c)
         \/ DropCatalogPrefix(c) \/ RemoveTrash(c) \/ MarkStored(c) \/ NoticeFailure(c)
         \/ ProjectAudit(c) \/ MarkAudited(c)
  PROVE  \E r \in Job : Carries(c, r)
<1>0. /\ job[c].pc \in PCs /\ job[c] \in Job
      /\ job[c].pc \notin Undecided /\ Sound(job[c]) /\ job[c].op \in AllOps
      /\ UNCHANGED <<journal, phase, cursor>>
  <2>1. job[c].pc \notin Undecided
    BY DEF AppendPut, AppendRelational, AppendCollection, AppendCatalog, InstallCreate, InstallDrop,
           CheckpointCatalog, DropCatalogPrefix, RemoveTrash, MarkStored, NoticeFailure,
           ProjectAudit, MarkAudited, Undecided
  <2>2. UNCHANGED <<journal, phase, cursor>>
    BY DEF AppendPut, AppendRelational, AppendCollection, AppendCatalog, InstallCreate, InstallDrop,
           CheckpointCatalog, DropCatalogPrefix, RemoveTrash, MarkStored, NoticeFailure,
           ProjectAudit, MarkAudited, disk
  <2> QED BY <2>1, <2>2, JobTyped DEF Locks, Owned, Sound, Undecided
<1>1. ASSUME NEW p \in PCs \ Undecided, To(c, p), Sound([job[c] EXCEPT !.pc = p]),
             job[c].op \in {"sql", "multi"} /\ p \in Holding => job[c].pc \in Holding
      PROVE  \E r \in Job : Carries(c, r)
  <2> DEFINE r == [job[c] EXCEPT !.pc = p]
  <2>1. r \in Job /\ r.op = job[c].op /\ r.tx = job[c].tx /\ r.pc = p
    BY <1>0 DEF Job
  <2>2. job' = [job EXCEPT ![c] = r]
    BY <1>1 DEF To
  <2>3. Carries(c, r)
    <3>1. Sound(r)
      BY <1>1
    <3> HIDE DEF r
    <3> QED BY <1>0, <1>1, <2>1, <2>2, <3>1 DEF Carries
  <2> QED BY <2>1, <2>3
<1>2. ASSUME Finish(c) PROVE \E r \in Job : Carries(c, r)
  BY <1>0, <1>2, IdleJob DEF Finish, Carries
<1>p. ASSUME NEW p \in PCs
      PROVE  /\ [job[c] EXCEPT !.pc = p].pc = p /\ [job[c] EXCEPT !.pc = p].op = job[c].op
  BY <1>0 DEF Job
<1>3. CASE AppendPut(c)
  <2>1. PICK p \in {"mark", "audit"} : To(c, p)
    BY <1>3 DEF AppendPut
  <2>2. Sound([job[c] EXCEPT !.pc = p])
    BY <1>0, <1>p, <2>1 DEF Sound, PCs
  <2> QED BY <1>1, <1>3, <2>1, <2>2 DEF PCs, Undecided, AppendPut
<1>4. CASE AppendRelational(c)
  <2>1. PICK p \in {"mark", "degrade", "append_collection"} :
           To(c, p) /\ (p = "append_collection" => job[c].op = "multi")
    BY <1>4 DEF AppendRelational
  <2>2. Sound([job[c] EXCEPT !.pc = p])
    BY <1>0, <1>p, <2>1, <1>4 DEF Sound, PCs, AppendRelational
  <2> QED BY <1>1, <1>4, <2>1, <2>2 DEF PCs, Undecided, Holding, AppendRelational
<1>5. CASE AppendCollection(c)
  <2>1. PICK p \in {"mark", "degrade"} : To(c, p)
    BY <1>5 DEF AppendCollection
  <2>2. Sound([job[c] EXCEPT !.pc = p])
    BY <1>0, <1>p, <2>1, <1>5 DEF Sound, PCs, AppendCollection
  <2> QED BY <1>1, <1>5, <2>1, <2>2 DEF PCs, Undecided, Holding, AppendCollection
<1>6. CASE AppendCatalog(c) \/ InstallDrop(c)
  <2>0. PICK p \in {"install", "checkpoint"}, ok \in BOOLEAN :
          job' = [job EXCEPT ![c].pc = p, ![c].ok = ok] /\ Alone(job[c].op)
    <3>1. CASE AppendCatalog(c)
      BY <3>1 DEF AppendCatalog
    <3>2. CASE InstallDrop(c)
      <4>1. PICK o \in FileOutcomes : job' = [job EXCEPT ![c].pc = "checkpoint", ![c].ok = @ /\ o = "ok"]
        BY <3>2 DEF InstallDrop
      <4>2. job' = [job EXCEPT ![c].pc = "checkpoint", ![c].ok = (job[c].ok /\ o = "ok")]
        BY <4>1, <1>0 DEF Inv, Jobs, Job
      <4>3. Alone(job[c].op) /\ (job[c].ok /\ o = "ok") \in BOOLEAN
        BY <3>2 DEF InstallDrop, Alone
      <4> QED BY <4>2, <4>3
    <3> QED BY <1>6, <3>1, <3>2
  <2> DEFINE r == [job[c] EXCEPT !.pc = p, !.ok = ok]
  <2>1. r \in Job /\ r.op = job[c].op /\ r.tx = job[c].tx /\ r.pc = p
    BY <1>0 DEF Job, PCs
  <2>2. job' = [job EXCEPT ![c] = r]
    BY <2>0 DEF Inv, Jobs
  <2> HIDE DEF r
  <2>3. Sound(r)
    BY <1>0, <2>0, <2>1 DEF Sound
  <2>4. Carries(c, r)
    BY <1>0, <2>0, <2>1, <2>2, <2>3 DEF Carries, Undecided, Alone
  <2> QED BY <2>1, <2>4
<1>7. CASE InstallCreate(c)
  <2>1. PICK p \in {"checkpoint", "audit"} : To(c, p)
    BY <1>7 DEF InstallCreate
  <2>2. Sound([job[c] EXCEPT !.pc = p])
    BY <1>0, <1>p, <2>1, <1>7 DEF Sound, PCs, InstallCreate, Alone
  <2> QED BY <1>1, <1>7, <2>1, <2>2 DEF PCs, Undecided, Holding, InstallCreate
<1>8. CASE CheckpointCatalog(c) \/ DropCatalogPrefix(c) \/ RemoveTrash(c)
  <2>0. Alone(job[c].op) /\ (RemoveTrash(c) => job[c].op = "drop")
    BY <1>0, <1>8 DEF Sound, CheckpointCatalog, DropCatalogPrefix, RemoveTrash
  <2>1. PICK p \in {"prefix", "trash", "mark"} : To(c, p) /\ (p = "trash" => job[c].op = "drop")
    BY <1>8 DEF CheckpointCatalog, DropCatalogPrefix, RemoveTrash
  <2>2. Sound([job[c] EXCEPT !.pc = p])
    BY <1>0, <1>p, <2>0, <2>1 DEF Sound, PCs
  <2> QED BY <1>1, <2>0, <2>1, <2>2 DEF PCs, Undecided, Alone
<1>9. CASE MarkStored(c)
  <2>1. PICK p \in {"audit", "degrade"} : To(c, p) /\ (p = "degrade" => job[c].op \in {"sql", "multi"})
    BY <1>9 DEF MarkStored
  <2>2. Sound([job[c] EXCEPT !.pc = p])
    BY <1>0, <1>p, <2>1 DEF Sound, PCs
  <2> QED BY <1>1, <2>1, <2>2 DEF PCs, Undecided, Holding
<1>10. CASE NoticeFailure(c) \/ ProjectAudit(c)
  <2>1. Finish(c) \/ \E p \in {"audit", "audit_mark"} : To(c, p)
    BY <1>10 DEF NoticeFailure, ProjectAudit
  <2>2. ASSUME NEW p \in {"audit", "audit_mark"}, To(c, p) PROVE \E r \in Job : Carries(c, r)
    <3>1. Sound([job[c] EXCEPT !.pc = p])
      BY <1>0, <1>p, <2>2 DEF Sound, PCs
    <3> QED BY <1>1, <2>2, <3>1 DEF PCs, Undecided, Holding
  <2> QED BY <1>2, <2>1, <2>2
<1>11. CASE MarkAudited(c)
  BY <1>2, <1>11 DEF MarkAudited
<1> QED BY <1>3, <1>4, <1>5, <1>6, <1>7, <1>8, <1>9, <1>10, <1>11

LEMMA RequestLocks ==
  ASSUME Inv, Locks, NEW c \in Clients, Request(c)
  PROVE  Locks'
  BY BeginLocks, EnterGateLocks, DecideLocks, Carried, CarriesLocks DEF Request

LEMMA NextLocks ==
  ASSUME Inv, Locks, [Next]_vars
  PROVE  Locks'
<1>1. CASE Startup
  <2>1. UNCHANGED <<journal, job, degraded, poisoned>> /\ phase # "up"
    <3>1. CASE Open \/ Serve
      BY <3>1 DEF Open, Serve, disk, memory
    <3>2. CASE \/ RecoverPassed \/ RecoverCatalogRecord \/ RecoverRelationalRecord
               \/ RecoverCollectionRecord \/ RecoverRename \/ RecoverInstalled \/ RecoverMark
      BY <3>2 DEF RecoverPassed, RecoverCatalogRecord, RecoverRelationalRecord,
                  RecoverCollectionRecord, RecoverRename, RecoverInstalled, RecoverMark, memory,
                  Pending, Recovering
    <3>3. CASE \/ LoadRelational \/ LoadCatalog \/ LoadedCatalogWrite \/ LoadedCatalogPrefix
               \/ RecoverAuditRecord \/ RecoverAuditMark
      BY <3>3 DEF LoadRelational, LoadCatalog, LoadedCatalogWrite, LoadedCatalogPrefix,
                  RecoverAuditRecord, RecoverAuditMark, memory
    <3> QED BY <1>1, <3>1, <3>2, <3>3 DEF Startup
  <2> QED BY <2>1, StillLocks DEF Locks
<1>2. CASE Crash
  BY <1>2, ResetLocks DEF Crash
<1>3. CASE CheckpointRelational \/ DropRelationalPrefix
  BY <1>3, StillLocks DEF CheckpointRelational, DropRelationalPrefix, memory
<1>4. ASSUME NEW c \in Clients, Request(c) PROVE Locks'
  BY <1>4, RequestLocks
<1>5. CASE UNCHANGED vars
  BY <1>5, StillLocks DEF vars, memory, disk, Locks
<1> QED BY <1>1, <1>2, <1>3, <1>4, <1>5 DEF Next
-----------------------------------------------------------------------------
(***************************************************************************)
(* The relational store.  A decision carries the number of the state it    *)
(* makes; the state and the checkpoint are images, which hold at position  *)
(* i a decision of number i.                                               *)
(***************************************************************************)
Rel == {"sql", "multi"}
RelTx == Decided(Rel)
Num(k) == journal[k].number
Written(k) == \E i \in 1 .. Len(relational_wal.records) : relational_wal.records[i] = k
Loaded == {"load", "catalog", "prefix", "audit", "up"}

\* The request holds a candidate that is not published.
Candidate(c) == HoldsRelational(c) /\ (job[c].pc = "mark" => job[c].op = "sql")

RelShape ==
  /\ relational_wal \in [base : Nat, records : Seq(Nat)]
  /\ checkpoint \in [rows : Seq(Nat), sequence : Nat, mark : Nat]
  /\ state \in [rows : Seq(Nat), sequence : Nat]
  /\ checkpoint.mark <= Len(relational_wal.records)

\* The numbers follow the commit order, and none is given twice unless a
\* projection failed.
Numbered ==
  /\ \A k \in RelTx : Num(k) \in Nat \ {0}
  /\ \A k, l \in RelTx : k < l => Num(k) <= Num(l)
  /\ broken = {} => \A k, l \in RelTx : k < l => Num(k) < Num(l)

Image(rows, n) ==
  /\ rows \in Seq(Nat) /\ Len(rows) = n
  /\ \A i \in 1 .. n : rows[i] \in RelTx /\ Num(rows[i]) = i

\* The WAL holds what is marked, and the checkpoint has what is before its mark.
Logged ==
  /\ \A i \in 1 .. Len(relational_wal.records) : relational_wal.records[i] \in RelTx
  /\ \A k \in stored \cap RelTx : Written(k)
  /\ \A i \in 1 .. checkpoint.mark : Num(relational_wal.records[i]) <= checkpoint.sequence + 1
  /\ broken = {} =>
       \A i \in 1 .. checkpoint.mark : Num(relational_wal.records[i]) <= checkpoint.sequence

RelJobs ==
  \A c \in Clients : HoldsRelational(c) =>
    /\ job[c].pc # "append" => Written(job[c].tx)
    /\ Candidate(c) => Num(job[c].tx) = state.sequence + 1
    /\ ~Candidate(c) => Num(job[c].tx) <= state.sequence

\* A loaded state has every decision but a candidate, and one that a failed
\* append left in the journal.
Pendent(k) ==
  \/ \E c \in Clients : job[c].tx = k /\ Candidate(c)
  \/ "journal" \in poisoned /\ ~Written(k)
CaughtUp ==
  phase \in Loaded =>
    /\ \A k \in RelTx : Num(k) <= state.sequence + 1
    /\ broken = {} => \A k \in RelTx : Num(k) <= state.sequence \/ Pendent(k)

RelInv ==
  /\ RelShape /\ Numbered /\ Logged /\ RelJobs /\ CaughtUp
  /\ Image(checkpoint.rows, checkpoint.sequence) /\ Image(state.rows, state.sequence)

LEMMA RelTxIs ==
  ASSUME Inv
  PROVE  RelTx \subseteq Nat /\ \A k : k \in RelTx <=> k \in DOMAIN journal /\ journal[k].op \in Rel
  BY SequenceDomain DEF Inv, Recorded, RelTx, Decided

LEMMA InitRel == Init => RelInv
<1> SUFFICES ASSUME Init PROVE RelInv
  OBVIOUS
<1>1. RelTx = {} /\ Len(relational_wal.records) = 0 /\ Len(<<>>) = 0 /\ <<>> \in Seq(Nat)
  BY EmptySequence DEF Init, RelTx, Decided
<1>2. RelShape
  BY <1>1 DEF Init, RelShape
<1>3. Numbered /\ CaughtUp
  BY <1>1 DEF Numbered, CaughtUp
<1>4. Logged
  BY <1>1 DEF Logged, Init
<1>5. RelJobs
  BY IdleJob DEF RelJobs, Init, HoldsRelational
<1>6. Image(checkpoint.rows, checkpoint.sequence) /\ Image(state.rows, state.sequence)
  BY <1>1 DEF Image, Init
<1> QED BY <1>2, <1>3, <1>4, <1>5, <1>6 DEF RelInv

\* Steps that leave the relational store and its lock alone.
LEMMA RelQuiet ==
  ASSUME RelInv, UNCHANGED <<journal, relational_wal, checkpoint, state, broken>>,
         \A k \in stored' \cap RelTx : Written(k),
         "journal" \in poisoned => "journal" \in poisoned',
         \A c \in Clients : HoldsRelational(c) \/ HoldsRelational(c)' => job'[c] = job[c],
         phase' \in Loaded => phase \in Loaded
  PROVE  RelInv'
<1>1. RelTx' = RelTx /\ (\A k : Num(k)' = Num(k)) /\ (\A k : Written(k)' <=> Written(k))
  BY DEF RelTx, Decided, Num, Written
<1>2. \A c \in Clients : HoldsRelational(c)' <=> HoldsRelational(c)
  BY DEF HoldsRelational
<1>3. \A c \in Clients : Candidate(c)' <=> Candidate(c)
  BY <1>2 DEF Candidate
<1>4. \A k : Pendent(k) => Pendent(k)'
  BY <1>1, <1>2, <1>3 DEF Pendent, Candidate
<1>5. RelShape' /\ Numbered'
  BY <1>1 DEF RelInv, RelShape, Numbered
<1>6. Logged'
  BY <1>1 DEF RelInv, Logged
<1>7. RelJobs'
  BY <1>1, <1>2, <1>3 DEF RelInv, RelJobs
<1>8. CaughtUp'
  BY <1>1, <1>4 DEF RelInv, CaughtUp
<1>9. Image(checkpoint.rows, checkpoint.sequence)' /\ Image(state.rows, state.sequence)'
  BY <1>1 DEF RelInv, Image
<1> QED BY <1>5, <1>6, <1>7, <1>8, <1>9 DEF RelInv

LEMMA CrashRel ==
  ASSUME Inv, RelInv, Crash
  PROVE  RelInv'
<1>0. /\ UNCHANGED <<journal, stored, relational_wal, checkpoint, broken>> /\ phase' = "down"
      /\ state' = [rows |-> <<>>, sequence |-> 0] /\ job' = [c \in Clients |-> Idle]
  BY DEF Crash, disk
<1>1. RelTx' = RelTx /\ (\A k : Num(k)' = Num(k)) /\ (\A k : Written(k)' <=> Written(k))
  BY <1>0 DEF RelTx, Decided, Num, Written
<1>2. <<>> \in Seq(Nat) /\ Len(<<>>) = 0
  BY EmptySequence
<1>3. RelShape'
  BY <1>0, <1>2 DEF RelInv, RelShape
<1>4. Numbered' /\ Logged'
  BY <1>0, <1>1 DEF RelInv, Numbered, Logged
<1>5. RelJobs'
  BY <1>0, IdleJob DEF RelJobs, HoldsRelational
<1>6. CaughtUp'
  BY <1>0 DEF CaughtUp, Loaded
<1>7. Image(checkpoint.rows, checkpoint.sequence)'
  BY <1>0, <1>1 DEF RelInv, Image
<1>8. Image(state.rows, state.sequence)'
  BY <1>0, <1>2 DEF Image
<1> QED BY <1>3, <1>4, <1>5, <1>6, <1>7, <1>8 DEF RelInv

LEMMA HolderTx ==
  ASSUME Inv, Locks, NEW c \in Clients, HoldsRelational(c)
  PROVE  job[c].tx \in RelTx /\ job[c].tx \in Nat /\ phase = "up" /\ job[c].pc \notin Undecided
<1>1. job[c].pc \notin Undecided /\ job[c].pc # "idle" /\ job[c].op \in Rel
  BY DEF HoldsRelational, Undecided, Rel
<1> QED BY <1>1, JobTyped, RelTxIs DEF Locks, Owned

LEMMA WalGrows ==
  ASSUME Inv, RelInv, NEW tx \in RelTx,
         relational_wal' = relational_wal \/ relational_wal' = Appended(relational_wal, tx),
         UNCHANGED <<journal, stored, checkpoint>>, broken \subseteq broken'
  PROVE  /\ relational_wal' \in [base : Nat, records : Seq(Nat)]
         /\ checkpoint'.mark <= Len(relational_wal'.records)
         /\ Logged' /\ Numbered' /\ Image(checkpoint.rows, checkpoint.sequence)'
         /\ RelTx' = RelTx /\ \A k : Num(k)' = Num(k)
         /\ \A k : Written(k) => Written(k)'
         /\ \A k : Written(k)' => Written(k) \/ k = tx
         /\ relational_wal' = Appended(relational_wal, tx) => Written(tx)'
<1>1. RelTx' = RelTx /\ \A k : Num(k)' = Num(k)
  BY DEF RelTx, Decided, Num
<1>2. broken' = {} => broken = {}
  OBVIOUS
<1>3. Image(checkpoint.rows, checkpoint.sequence)'
  BY <1>1 DEF RelInv, Image
<1>4. Numbered'
  BY <1>1, <1>2 DEF RelInv, Numbered
<1>5. CASE relational_wal' = relational_wal
  <2>1. \A k : Written(k)' <=> Written(k)
    BY <1>5 DEF Written
  <2>2. Logged'
    BY <1>1, <1>2, <1>5, <2>1 DEF RelInv, Logged
  <2>3. relational_wal' # Appended(relational_wal, tx)
    <3>1. relational_wal.records \in Seq(Nat) /\ tx \in Nat /\ relational_wal \in [base : Nat, records : Seq(Nat)]
      BY RelTxIs DEF RelInv, RelShape
    <3>2. Appended(relational_wal, tx).records = Append(relational_wal.records, tx)
      BY <3>1 DEF Appended
    <3>3. Len(Append(relational_wal.records, tx)) = Len(relational_wal.records) + 1 /\ Len(relational_wal.records) \in Nat
      BY <3>1
    <3>4. Len(relational_wal.records) # Len(relational_wal.records) + 1
      BY <3>3
    <3> QED BY <1>5, <3>2, <3>3, <3>4
  <2> QED BY <1>1, <1>3, <1>4, <1>5, <2>1, <2>2, <2>3 DEF RelInv, RelShape
<1>6. CASE relational_wal' = Appended(relational_wal, tx)
  <2> DEFINE s == relational_wal.records
  <2>1. /\ s \in Seq(Nat) /\ tx \in Nat /\ Len(s) \in Nat
        /\ relational_wal \in [base : Nat, records : Seq(Nat)]
    BY RelTxIs DEF RelInv, RelShape
  <2>2. /\ relational_wal' \in [base : Nat, records : Seq(Nat)]
        /\ relational_wal'.records = Append(s, tx)
    <3>1. Append(s, tx) \in Seq(Nat)
      BY <2>1
    <3>2. relational_wal' = [relational_wal EXCEPT !.records = Append(s, tx)]
      BY <1>6 DEF Appended
    <3> HIDE DEF s
    <3>3. PICK a \in Seq(Nat) : a = Append(s, tx)
      BY <3>1
    <3> QED BY <2>1, <3>2, <3>3
  <2>3. /\ Len(relational_wal'.records) = Len(s) + 1
        /\ \A i \in 1 .. Len(s) : relational_wal'.records[i] = s[i]
        /\ relational_wal'.records[Len(s) + 1] = tx
    BY <2>1, <2>2
  <2> HIDE DEF s
  <2>4. \A k : Written(k)' <=> Written(k) \/ k = tx
    <3>1. \A i : i \in 1 .. Len(s) + 1 <=> i \in 1 .. Len(s) \/ i = Len(s) + 1
      BY <2>1
    <3> QED BY <2>3, <3>1 DEF Written, s
  <2>5. checkpoint.mark <= Len(s) /\ checkpoint.mark \in Nat
    BY DEF RelInv, RelShape, s
  <2>6. Logged'
    <3>1. \A i \in 1 .. Len(relational_wal'.records) : relational_wal'.records[i] \in RelTx
      <4>1. \A i \in 1 .. Len(s) : s[i] \in RelTx
        BY DEF RelInv, Logged, s
      <4> QED BY <4>1, <2>1, <2>3
    <3>2. \A i \in 1 .. checkpoint.mark : relational_wal'.records[i] = s[i]
      BY <2>1, <2>3, <2>5
    <3>3. \A i \in 1 .. checkpoint.mark : Num(s[i]) <= checkpoint.sequence + 1
      BY DEF RelInv, Logged, s
    <3>4. broken = {} => \A i \in 1 .. checkpoint.mark : Num(s[i]) <= checkpoint.sequence
      BY DEF RelInv, Logged, s
    <3>5. \A k \in stored \cap RelTx : Written(k)'
      BY <2>4 DEF RelInv, Logged
    <3> QED BY <1>1, <1>2, <3>1, <3>2, <3>3, <3>4, <3>5 DEF Logged
  <2>7. checkpoint'.mark <= Len(relational_wal'.records)
    BY <2>1, <2>3, <2>5
  <2> QED BY <1>1, <1>3, <1>4, <2>2, <2>4, <2>6, <2>7
<1> QED BY <1>5, <1>6

LEMMA Installs ==
  ASSUME Inv, Locks, RelInv, NEW c \in Clients, Candidate(c), UNCHANGED journal,
         state' = Installed(job[c].tx)
  PROVE  /\ state' \in [rows : Seq(Nat), sequence : Nat]
         /\ state'.sequence = state.sequence + 1 /\ Num(job[c].tx) = state'.sequence
         /\ Image(state.rows, state.sequence)'
<1> DEFINE tx == job[c].tx
           s == state.rows
<1>1. tx \in RelTx /\ tx \in Nat /\ HoldsRelational(c)
  BY HolderTx DEF Candidate
<1>2. Num(tx) = state.sequence + 1 /\ state.sequence \in Nat /\ s \in Seq(Nat)
  BY <1>1 DEF RelInv, RelJobs, RelShape
<1>3. state' = [rows |-> Append(s, tx), sequence |-> Num(tx)]
  BY DEF Installed, Num
<1>4. RelTx' = RelTx /\ \A k : Num(k)' = Num(k)
  BY DEF RelTx, Decided, Num
<1>5. Len(s) = state.sequence /\ \A i \in 1 .. Len(s) : s[i] \in RelTx /\ Num(s[i]) = i
  BY DEF RelInv, Image
<1> HIDE DEF tx, s
<1>6. /\ Append(s, tx) \in Seq(Nat) /\ Len(Append(s, tx)) = Len(s) + 1
      /\ \A i \in 1 .. Len(s) : Append(s, tx)[i] = s[i]
      /\ Append(s, tx)[Len(s) + 1] = tx
  BY <1>1, <1>2
<1>7. \A i \in 1 .. Len(s) + 1 : Append(s, tx)[i] \in RelTx /\ Num(Append(s, tx)[i]) = i
  <2> TAKE i \in 1 .. Len(s) + 1
  <2>1. CASE i \in 1 .. Len(s)
    BY <2>1, <1>5, <1>6
  <2>2. CASE i = Len(s) + 1
    BY <2>2, <1>1, <1>2, <1>5, <1>6
  <2> QED BY <2>1, <2>2, <1>2
<1>8. Image(state.rows, state.sequence)'
  <2>1. state'.rows = Append(s, tx) /\ state'.sequence = Len(s) + 1
    BY <1>2, <1>3, <1>5
  <2> QED BY <1>4, <1>6, <1>7, <2>1 DEF Image
<1> QED BY <1>1, <1>2, <1>3, <1>6, <1>8 DEF tx

\* A step after which no request holds the relational lock.
LEMMA NoRelJobs ==
  ASSUME Inv, Locks, NEW c \in Clients, NEW r, HoldsRelational(c),
         job' = [job EXCEPT ![c] = r], r.pc \notin Holding
  PROVE  RelJobs' /\ (\A d \in Clients : ~HoldsRelational(d)') /\ \A d \in Clients : Candidate(d) => d = c
<1>1. \A d \in Clients : job'[d] = IF d = c THEN r ELSE job[d]
  BY JobOf
<1>2. \A d \in Clients : HoldsRelational(d) => d = c
  BY DEF Locks, Exclusive
<1>3. \A d \in Clients : ~HoldsRelational(d)'
  BY <1>1, <1>2 DEF HoldsRelational, Holding
<1> QED BY <1>2, <1>3 DEF RelJobs, Candidate

LEMMA AppendRelationalRel ==
  ASSUME Inv, Locks, RelInv, NEW c \in Clients, AppendRelational(c)
  PROVE  RelInv'
<1>t. PICK tx : tx = job[c].tx
  OBVIOUS
<1>0. PICK o \in Outcomes("relational") :
        /\ Wrote("relational", o)
        /\ relational_wal' = IF Happened(o) THEN Appended(relational_wal, tx) ELSE relational_wal
        /\ To(c, IF o # "ok" THEN "degrade"
                 ELSE IF job[c].op = "sql" THEN "mark" ELSE "append_collection")
        /\ broken' = IF o # "ok" /\ job[c].op = "multi" THEN broken \cup {tx} ELSE broken
        /\ state' = IF o # "ok" /\ job[c].op = "sql" THEN Installed(tx) ELSE state
  BY <1>t DEF AppendRelational
<1>1. /\ job[c].pc = "append" /\ job[c].op \in Rel
      /\ UNCHANGED <<journal, stored, checkpoint, phase>>
  BY DEF AppendRelational, Rel
<1>2. HoldsRelational(c) /\ Candidate(c)
  BY <1>1 DEF HoldsRelational, Candidate, Rel
<1>3. tx \in RelTx /\ tx \in Nat /\ phase = "up" /\ Num(tx) = state.sequence + 1
  BY <1>t, <1>2, HolderTx DEF RelInv, RelJobs
<1>4. broken \subseteq broken' /\ poisoned \subseteq poisoned'
  BY <1>0, WroteExcused
<1>5. /\ relational_wal' \in [base : Nat, records : Seq(Nat)]
      /\ checkpoint'.mark <= Len(relational_wal'.records)
      /\ Logged' /\ Numbered' /\ Image(checkpoint.rows, checkpoint.sequence)'
      /\ RelTx' = RelTx /\ \A k : Num(k)' = Num(k)
      /\ \A k : Written(k) => Written(k)'
      /\ \A k : Written(k)' => Written(k) \/ k = tx
      /\ relational_wal' = Appended(relational_wal, tx) => Written(tx)'
  <2>1. relational_wal' = relational_wal \/ relational_wal' = Appended(relational_wal, tx)
    BY <1>0
  <2> QED BY <1>1, <1>3, <1>4, <2>1, WalGrows
<1>6. CASE o = "ok"
  <2>1. /\ UNCHANGED <<state, broken>> /\ Written(tx)'
    BY <1>0, <1>5, <1>6 DEF Happened
  <2> DEFINE r == [job[c] EXCEPT !.pc = IF job[c].op = "sql" THEN "mark" ELSE "append_collection"]
  <2>2. /\ job' = [job EXCEPT ![c] = r] /\ r.tx = tx /\ r.op = job[c].op
        /\ r.pc = IF job[c].op = "sql" THEN "mark" ELSE "append_collection"
    BY <1>t, <1>0, <1>6, JobTyped DEF To, Job
  <2> HIDE DEF r
  <2>3. \A d \in Clients : job'[d] = IF d = c THEN r ELSE job[d]
    BY <2>2, JobOf
  <2>4. Candidate(c)' /\ job'[c].tx = tx
    BY <1>1, <2>2, <2>3 DEF Candidate, HoldsRelational, Rel
  <2>5. \A d \in Clients : HoldsRelational(d)' \/ HoldsRelational(d) => d = c
    BY <1>2, <2>3 DEF Locks, Exclusive, HoldsRelational
  <2>6. RelJobs'
    BY <1>3, <1>5, <2>1, <2>4, <2>5 DEF RelJobs
  <2>7. \A k : Pendent(k) => Pendent(k)'
    <3>1. \A d \in Clients : Candidate(d) => d = c
      BY <2>5 DEF Candidate
    <3>2. Pendent(tx)'
      BY <2>4 DEF Pendent
    <3>3. \A k : k # tx => (Written(k)' <=> Written(k))
      BY <1>5
    <3> QED BY <1>t, <1>4, <3>1, <3>2, <3>3 DEF Pendent
  <2>8. CaughtUp'
    BY <1>1, <1>5, <2>1, <2>7 DEF RelInv, CaughtUp
  <2>9. RelShape' /\ Image(state.rows, state.sequence)'
    BY <1>1, <1>5, <2>1 DEF RelInv, RelShape, Image
  <2> QED BY <1>5, <2>6, <2>8, <2>9 DEF RelInv
<1>7. CASE o # "ok"
  <2> DEFINE r == [job[c] EXCEPT !.pc = "degrade"]
  <2>1. job' = [job EXCEPT ![c] = r] /\ r.pc \notin Holding
    BY <1>0, <1>7, JobTyped DEF To, Job, Holding
  <2> HIDE DEF r
  <2>2. RelJobs' /\ \A d \in Clients : Candidate(d) => d = c
    BY <1>2, <2>1, NoRelJobs
  <2>3. CASE job[c].op = "sql"
    <3>1. state' = Installed(tx) /\ broken' = broken
      BY <1>0, <1>7, <2>3
    <3>2. /\ state' \in [rows : Seq(Nat), sequence : Nat]
          /\ state'.sequence = state.sequence + 1 /\ Num(tx) = state'.sequence
          /\ Image(state.rows, state.sequence)'
      BY <1>1, <1>2, <3>1, <1>t, Installs
    <3>3. RelShape'
      BY <1>1, <1>5, <3>2 DEF RelInv, RelShape
    <3>4. state.sequence \in Nat /\ \A k \in RelTx : Num(k) \in Nat
      BY DEF RelInv, RelShape, Numbered
    <3>5. \A k \in RelTx : Num(k) <= state'.sequence /\ Num(k) <= state'.sequence + 1
      <4>1. \A k \in RelTx : Num(k) <= state.sequence + 1
        BY <1>3 DEF RelInv, CaughtUp, Loaded
      <4> QED BY <3>2, <3>4, <4>1
    <3>6. CaughtUp'
      BY <1>5, <3>5 DEF CaughtUp
    <3> QED BY <1>5, <2>2, <3>2, <3>3, <3>6 DEF RelInv
  <2>4. CASE job[c].op = "multi"
    <3>1. UNCHANGED state /\ broken' # {}
      BY <1>0, <1>7, <2>4
    <3>2. CaughtUp'
      BY <1>1, <1>5, <3>1 DEF RelInv, CaughtUp
    <3>3. RelShape' /\ Image(state.rows, state.sequence)'
      BY <1>1, <1>5, <3>1 DEF RelInv, RelShape, Image
    <3> QED BY <1>5, <2>2, <3>2, <3>3 DEF RelInv
  <2> QED BY <1>1, <2>3, <2>4 DEF Rel
<1> QED BY <1>6, <1>7
LEMMA AppendCollectionRel ==
  ASSUME Inv, Locks, RelInv, NEW c \in Clients, AppendCollection(c)
  PROVE  RelInv'
<1>t. PICK tx : tx = job[c].tx
  OBVIOUS
<1>0. PICK o \in Outcomes("collection") :
        /\ Wrote("collection", o)
        /\ To(c, IF o = "ok" THEN "mark" ELSE "degrade")
        /\ broken' = IF o = "ok" THEN broken ELSE broken \cup {tx}
        /\ state' = IF o = "ok" THEN Installed(tx) ELSE state
  BY <1>t DEF AppendCollection
<1>1. /\ job[c].pc = "append_collection" /\ job[c].op = "multi"
      /\ UNCHANGED <<journal, stored, checkpoint, relational_wal, phase>>
  BY DEF AppendCollection, Locks, Owned, Sound
<1>2. HoldsRelational(c) /\ Candidate(c)
  BY <1>1 DEF HoldsRelational, Candidate
<1>3. tx \in RelTx /\ tx \in Nat /\ phase = "up" /\ Num(tx) = state.sequence + 1 /\ Written(tx)
  BY <1>t, <1>1, <1>2, HolderTx DEF RelInv, RelJobs
<1>4. broken \subseteq broken' /\ poisoned \subseteq poisoned'
  BY <1>0, WroteExcused
<1>5. /\ relational_wal' \in [base : Nat, records : Seq(Nat)]
      /\ checkpoint'.mark <= Len(relational_wal'.records)
      /\ Logged' /\ Numbered' /\ Image(checkpoint.rows, checkpoint.sequence)'
      /\ RelTx' = RelTx /\ \A k : Num(k)' = Num(k)
      /\ \A k : Written(k) => Written(k)'
  BY <1>1, <1>3, <1>4, WalGrows
<1>6. CASE o = "ok"
  <2> DEFINE r == [job[c] EXCEPT !.pc = "mark"]
  <2>2. /\ job' = [job EXCEPT ![c] = r] /\ r.tx = tx /\ r.op = job[c].op /\ r.pc = "mark"
    BY <1>t, <1>0, <1>6, JobTyped DEF To, Job
  <2> HIDE DEF r
  <2>3. \A d \in Clients : job'[d] = IF d = c THEN r ELSE job[d]
    BY <2>2, JobOf
  <2>4. ~Candidate(c)' /\ job'[c].tx = tx
    BY <1>1, <2>2, <2>3 DEF Candidate, HoldsRelational
  <2>5. \A d \in Clients : HoldsRelational(d)' => d = c
    BY <1>2, <2>3 DEF Locks, Exclusive, HoldsRelational
  <2>6. /\ state' \in [rows : Seq(Nat), sequence : Nat]
        /\ state'.sequence = state.sequence + 1 /\ Num(tx) = state'.sequence
        /\ Image(state.rows, state.sequence)'
    BY <1>0, <1>1, <1>2, <1>6, <1>t, Installs
  <2>7. RelJobs'
    <3>1. Num(tx) <= state'.sequence
      BY <2>6
    <3> QED BY <1>3, <1>5, <2>4, <2>5, <3>1 DEF RelJobs
  <2>8. CaughtUp'
    <3>1. \A k \in RelTx : Num(k) <= state.sequence + 1
      BY <1>3 DEF RelInv, CaughtUp, Loaded
    <3>2. state.sequence \in Nat /\ \A k \in RelTx : Num(k) \in Nat
      BY DEF RelInv, RelShape, Numbered
    <3>3. \A k \in RelTx : Num(k) <= state'.sequence /\ Num(k) <= state'.sequence + 1
      BY <2>6, <3>1, <3>2
    <3> QED BY <1>5, <3>3 DEF CaughtUp
  <2>9. RelShape'
    BY <1>1, <1>5, <2>6 DEF RelInv, RelShape
  <2> QED BY <1>5, <2>6, <2>7, <2>8, <2>9 DEF RelInv
<1>7. CASE o # "ok"
  <2> DEFINE r == [job[c] EXCEPT !.pc = "degrade"]
  <2>1. job' = [job EXCEPT ![c] = r] /\ r.pc \notin Holding
    BY <1>0, <1>7, JobTyped DEF To, Job, Holding
  <2> HIDE DEF r
  <2>2. RelJobs'
    BY <1>2, <2>1, NoRelJobs
  <2>3. UNCHANGED state /\ broken' # {}
    BY <1>0, <1>7
  <2>4. CaughtUp'
    BY <1>1, <1>5, <2>3 DEF RelInv, CaughtUp
  <2>5. RelShape' /\ Image(state.rows, state.sequence)'
    BY <1>1, <1>5, <2>3 DEF RelInv, RelShape, Image
  <2> QED BY <1>5, <2>2, <2>4, <2>5 DEF RelInv
<1> QED BY <1>6, <1>7

LEMMA MarkStoredRel ==
  ASSUME Inv, Locks, RelInv, NEW c \in Clients, MarkStored(c)
  PROVE  RelInv'
<1>t. PICK tx : tx = job[c].tx
  OBVIOUS
<1>0. PICK o \in (IF job[c].ok THEN Outcomes("journal") ELSE {"refused"}) :
        /\ Wrote("journal", o)
        /\ stored' = IF Happened(o) THEN stored \cup {tx} ELSE stored
        /\ To(c, IF o # "ok" /\ job[c].op \in {"sql", "multi"} THEN "degrade" ELSE "audit")
  BY <1>t DEF MarkStored
<1>1. /\ job[c].pc = "mark" /\ job[c].op = journal[tx].op /\ tx \in DOMAIN journal
      /\ state' = (IF job[c].op = "sql" THEN Installed(tx) ELSE state)
      /\ UNCHANGED <<journal, checkpoint, relational_wal, phase, broken>>
  BY <1>t, JobTyped DEF MarkStored, Locks, Owned, Undecided
<1> DEFINE r == [job[c] EXCEPT !.pc = IF o # "ok" /\ job[c].op \in {"sql", "multi"} THEN "degrade" ELSE "audit"]
<1>2. job' = [job EXCEPT ![c] = r] /\ r.pc \notin Holding
  BY <1>0, JobTyped DEF To, Job, Holding
<1> HIDE DEF r
<1>3. \A d \in Clients : job'[d] = IF d = c THEN r ELSE job[d]
  BY <1>2, JobOf
<1>4. poisoned \subseteq poisoned'
  BY <1>0, WroteExcused
<1>5. CASE job[c].op \notin Rel
  <2>1. \A k \in stored' \cap RelTx : Written(k)
    BY <1>0, <1>1, <1>5, RelTxIs DEF RelInv, Logged
  <2>2. \A d \in Clients : HoldsRelational(d) \/ HoldsRelational(d)' => job'[d] = job[d]
    BY <1>2, <1>3, <1>5 DEF HoldsRelational, Holding, Rel
  <2>3. state' = state
    BY <1>1, <1>5 DEF Rel
  <2> QED BY <1>1, <1>4, <2>1, <2>2, <2>3, RelQuiet
<1>6. CASE job[c].op \in Rel
  <2>1. HoldsRelational(c)
    BY <1>1, <1>6 DEF HoldsRelational, Rel
  <2>2. RelJobs' /\ \A d \in Clients : Candidate(d) => d = c
    BY <1>2, <2>1, NoRelJobs
  <2>3. RelTx' = RelTx /\ (\A k : Num(k)' = Num(k)) /\ (\A k : Written(k)' <=> Written(k))
    BY <1>1 DEF RelTx, Decided, Num, Written
  <2>4. Written(tx) /\ phase = "up"
    BY <1>t, <1>1, <2>1, HolderTx DEF RelInv, RelJobs
  <2>5. Numbered' /\ Image(checkpoint.rows, checkpoint.sequence)'
    BY <1>1, <2>3 DEF RelInv, Numbered, Image
  <2>6. Logged'
    BY <1>0, <1>1, <2>3, <2>4 DEF RelInv, Logged
  <2>7. CASE job[c].op = "sql"
    <3>0. Candidate(c) /\ state' = Installed(tx)
      BY <1>1, <2>1, <2>7 DEF Candidate
    <3>1. /\ state' \in [rows : Seq(Nat), sequence : Nat]
          /\ state'.sequence = state.sequence + 1 /\ Num(tx) = state'.sequence
          /\ Image(state.rows, state.sequence)'
      BY <1>1, <3>0, <1>t, Installs
    <3>2. CaughtUp'
      <4>1. \A k \in RelTx : Num(k) <= state.sequence + 1
        BY <2>4 DEF RelInv, CaughtUp, Loaded
      <4>2. state.sequence \in Nat /\ \A k \in RelTx : Num(k) \in Nat
        BY DEF RelInv, RelShape, Numbered
      <4>3. \A k \in RelTx : Num(k) <= state'.sequence /\ Num(k) <= state'.sequence + 1
        BY <3>1, <4>1, <4>2
      <4> QED BY <2>3, <4>3 DEF CaughtUp
    <3>3. RelShape'
      BY <1>1, <3>1 DEF RelInv, RelShape
    <3> QED BY <2>2, <2>5, <2>6, <3>1, <3>2, <3>3 DEF RelInv
  <2>8. CASE job[c].op = "multi"
    <3>1. state' = state /\ ~Candidate(c)
      BY <1>1, <2>8 DEF Candidate
    <3>2. \A k : Pendent(k) => Pendent(k)'
      BY <1>4, <2>2, <2>3, <3>1 DEF Pendent
    <3>3. CaughtUp'
      BY <1>1, <2>3, <3>1, <3>2 DEF RelInv, CaughtUp
    <3>4. RelShape' /\ Image(state.rows, state.sequence)'
      BY <1>1, <2>3, <3>1 DEF RelInv, RelShape, Image
    <3> QED BY <2>2, <2>5, <2>6, <3>3, <3>4 DEF RelInv
  <2> QED BY <1>6, <2>7, <2>8 DEF Rel
<1> QED BY <1>5, <1>6

LEMMA DecideRel ==
  ASSUME Inv, Locks, RelInv, NEW c \in Clients, Decide(c)
  PROVE  RelInv'
<1>0. PICK o \in Outcomes("journal"), r \in Job :
           /\ job[c].pc = "decide" /\ job[c].tx = 0 /\ phase = "up"
           /\ job[c].op \in {"sql", "multi"} => \A d \in Clients : ~HoldsRelational(d)
           /\ job' = [job EXCEPT ![c] = r]
           /\ o = "ok" => r.pc = "append" /\ r.tx = Len(journal) + 1 /\ r.op = job[c].op
           /\ o # "ok" => r = Idle
           /\ ~Happened(o) => journal' = journal
           /\ Happened(o) =>
                /\ journal' = Append(journal, [op |-> job[c].op, number |-> Number(job[c].op)])
                /\ "journal" \notin poisoned
           /\ Happened(o) /\ o # "ok" => "journal" \in poisoned'
           /\ poisoned \subseteq poisoned'
           /\ o = "ok" => Happened(o)
           /\ UNCHANGED <<stored, relational_wal, checkpoint, state, phase, broken>>
  BY DecideStep
<1>1. \A d \in Clients : job'[d] = IF d = c THEN r ELSE job[d]
  BY <1>0, JobOf
<1>2. ~HoldsRelational(c)
  BY <1>0 DEF HoldsRelational
<1>3. CASE ~Happened(o)
  <2>1. r = Idle /\ journal' = journal
    BY <1>0, <1>3
  <2>2. \A d \in Clients : HoldsRelational(d) \/ HoldsRelational(d)' => job'[d] = job[d]
    BY <1>1, <1>2, <2>1, IdleJob DEF HoldsRelational
  <2> QED BY <1>0, <2>1, <2>2, RelQuiet DEF RelInv, Logged
<1>4. CASE Happened(o)
  <2>n. PICK n : n = Len(journal) + 1
    OBVIOUS
  <2>1. /\ DOMAIN journal = 1 .. Len(journal) /\ Len(journal) \in Nat /\ n \notin DOMAIN journal /\ n \in Nat
        /\ DOMAIN journal' = DOMAIN journal \cup {n}
        /\ \A k \in DOMAIN journal : journal'[k] = journal[k]
        /\ journal'[n] = [op |-> job[c].op, number |-> Number(job[c].op)]
    BY <1>0, <1>4, <2>n, AppendedJournal
  <2>2. /\ \A k : k \in RelTx' <=> k \in RelTx \/ (k = n /\ job[c].op \in Rel)
        /\ \A k \in RelTx : Num(k)' = Num(k) /\ k \in Nat /\ k < n /\ k # n
    <3>1. \A k : k \in RelTx' <=> k \in DOMAIN journal' /\ journal'[k].op \in Rel
      BY DEF RelTx, Decided, Rel
    <3>2. \A k : k \in RelTx <=> k \in DOMAIN journal /\ journal[k].op \in Rel
      BY DEF RelTx, Decided
    <3>3. journal'[n].op = job[c].op
      BY <2>1
    <3> QED BY <2>1, <2>n, <3>1, <3>2, <3>3 DEF Num
  <2>3. job[c].op \in Rel => Num(n)' = state.sequence + 1 /\ state.sequence \in Nat
    BY <2>1 DEF Num, Number, Rel, RelInv, RelShape
  <2>4. \A k \in RelTx : Num(k) \in Nat \ {0} /\ Num(k) <= state.sequence + 1
    BY <1>0 DEF RelInv, CaughtUp, Numbered, Loaded
  <2>5. ASSUME broken = {}, job[c].op \in Rel PROVE \A k \in RelTx : Num(k) <= state.sequence
    <3>1. \A k : ~Pendent(k)
      BY <1>0, <1>4, <2>5 DEF Pendent, Candidate, Rel
    <3> QED BY <1>0, <2>5, <3>1 DEF RelInv, CaughtUp, Loaded
  <2>6. Numbered'
    <3>1. \A k \in RelTx' : Num(k)' \in Nat \ {0}
      BY <2>2, <2>3, <2>4
    <3>2. \A k, l \in RelTx' : k < l => Num(k)' <= Num(l)'
      <4> SUFFICES ASSUME NEW k \in RelTx', NEW l \in RelTx', k < l PROVE Num(k)' <= Num(l)'
        OBVIOUS
      <4>1. k \in RelTx
        BY <2>1, <2>2
      <4>2. CASE l \in RelTx
        BY <2>2, <4>1, <4>2 DEF RelInv, Numbered
      <4>3. CASE l = n /\ job[c].op \in Rel
        BY <2>2, <2>3, <2>4, <4>1, <4>3
      <4> QED BY <2>2, <4>2, <4>3
    <3>3. ASSUME broken = {} PROVE \A k, l \in RelTx' : k < l => Num(k)' < Num(l)'
      <4> SUFFICES ASSUME NEW k \in RelTx', NEW l \in RelTx', k < l PROVE Num(k)' < Num(l)'
        OBVIOUS
      <4>1. k \in RelTx
        BY <2>1, <2>2
      <4>2. CASE l \in RelTx
        BY <3>3, <2>2, <4>1, <4>2 DEF RelInv, Numbered
      <4>3. CASE l = n /\ job[c].op \in Rel
        BY <3>3, <2>2, <2>3, <2>4, <2>5, <4>1, <4>3
      <4> QED BY <2>2, <4>2, <4>3
    <3> QED BY <1>0, <3>1, <3>2, <3>3 DEF Numbered
  <2>7. \A k : Written(k)' <=> Written(k)
    BY <1>0 DEF Written
  <2>8. \A k : Written(k) => k \in RelTx
    BY DEF Written, RelInv, Logged
  <2>9. Logged'
    <3>1. \A k \in stored' \cap RelTx' : Written(k)'
      <4>1. stored \subseteq DOMAIN journal
        BY DEF Inv, Recorded
      <4> QED BY <1>0, <2>1, <2>2, <2>7, <4>1 DEF RelInv, Logged
    <3>2. \A i \in 1 .. Len(relational_wal.records) : relational_wal.records[i] \in RelTx
      BY DEF RelInv, Logged
    <3>3. \A i \in 1 .. checkpoint.mark : relational_wal.records[i] \in RelTx
      BY <3>2 DEF RelInv, RelShape
    <3>4. /\ \A i \in 1 .. checkpoint.mark : Num(relational_wal.records[i]) <= checkpoint.sequence + 1
          /\ broken = {} =>
               \A i \in 1 .. checkpoint.mark : Num(relational_wal.records[i]) <= checkpoint.sequence
      BY DEF RelInv, Logged
    <3>5. \A i \in 1 .. checkpoint.mark : Num(relational_wal.records[i])' = Num(relational_wal.records[i])
      BY <1>0, <2>2, <3>3
    <3>6. \A i \in 1 .. Len(relational_wal.records) : relational_wal.records[i] \in RelTx'
      BY <3>2, <2>2
    <3> QED BY <1>0, <3>1, <3>4, <3>5, <3>6 DEF Logged
  <2>10. \A d \in Clients : HoldsRelational(d) =>
            d # c /\ job'[d] = job[d] /\ HoldsRelational(d)' /\ (Candidate(d)' <=> Candidate(d)) /\ job[d].tx \in RelTx
    BY <1>1, <1>2, HolderTx DEF HoldsRelational, Candidate
  <2>11. HoldsRelational(c)' => o = "ok" /\ job[c].op \in Rel /\ job'[c].tx = n /\ job'[c].pc = "append" /\ Candidate(c)'
    <3>1. o # "ok" => ~HoldsRelational(c)'
      BY <1>0, <1>1, IdleJob DEF HoldsRelational
    <3>2. o = "ok" => job'[c].tx = n /\ job'[c].pc = "append" /\ job'[c].op = job[c].op
      BY <1>0, <1>1, <2>n
    <3> QED BY <3>1, <3>2 DEF HoldsRelational, Candidate, Rel
  <2>12. \A d \in Clients : d # c /\ HoldsRelational(d)' => HoldsRelational(d)
    BY <1>1 DEF HoldsRelational
  <2>13. RelJobs'
    <3> SUFFICES ASSUME NEW d \in Clients, HoldsRelational(d)', NEW t, t = job'[d].tx
                 PROVE  /\ job'[d].pc # "append" => Written(t)'
                        /\ Candidate(d)' => Num(t)' = state'.sequence + 1
                        /\ ~Candidate(d)' => Num(t)' <= state'.sequence
      BY DEF RelJobs
    <3>1. CASE d = c
      <4>1. t = n /\ Candidate(c)' /\ job'[c].pc = "append" /\ job[c].op \in Rel
        BY <3>1, <2>11
      <4> QED BY <3>1, <4>1, <2>3, <1>0
    <3>2. CASE d # c
      <4>1. HoldsRelational(d) /\ job'[d] = job[d] /\ (Candidate(d)' <=> Candidate(d)) /\ t \in RelTx /\ t = job[d].tx
        BY <3>2, <2>10, <2>12
      <4>2. Num(t)' = Num(t)
        BY <4>1, <2>2
      <4>3. /\ job[d].pc # "append" => Written(t)
            /\ Candidate(d) => Num(t) = state.sequence + 1
            /\ ~Candidate(d) => Num(t) <= state.sequence
        BY <4>1 DEF RelInv, RelJobs
      <4> QED BY <1>0, <4>1, <4>2, <4>3, <2>7
    <3> QED BY <3>1, <3>2
  <2>14. CaughtUp'
    <3>1. \A k \in RelTx' : Num(k)' <= state.sequence + 1
      BY <2>2, <2>3, <2>4
    <3>2. ASSUME broken = {}, NEW k \in RelTx' PROVE Num(k)' <= state.sequence \/ Pendent(k)'
      <4>1. CASE k \in RelTx
        <5>1. Num(k)' = Num(k) /\ (Num(k) <= state.sequence \/ Pendent(k))
          BY <1>0, <2>2, <3>2, <4>1 DEF RelInv, CaughtUp, Loaded
        <5>2. Pendent(k) => Pendent(k)'
          BY <1>0, <2>7, <2>10 DEF Pendent, Candidate
        <5> QED BY <5>1, <5>2
      <4>2. CASE k = n /\ job[c].op \in Rel
        <5>1. CASE o = "ok"
          <6>1. job'[c].tx = n /\ job'[c].pc = "append" /\ job'[c].op \in Rel
            BY <1>0, <1>1, <2>n, <5>1, <4>2
          <6>2. Candidate(c)'
            BY <6>1 DEF Candidate, HoldsRelational, Rel
          <6> QED BY <4>2, <6>1, <6>2 DEF Pendent
        <5>2. CASE o # "ok"
          <6>1. ~Written(n)
            BY <2>2, <2>8
          <6> QED BY <1>0, <1>4, <2>7, <4>2, <5>2, <6>1 DEF Pendent
        <5> QED BY <5>1, <5>2
      <4> QED BY <2>2, <4>1, <4>2
    <3> QED BY <1>0, <3>1, <3>2 DEF CaughtUp
  <2>15. Image(checkpoint.rows, checkpoint.sequence)' /\ Image(state.rows, state.sequence)'
    <3>1. ASSUME NEW s, NEW m, Image(s, m)
          PROVE  s \in Seq(Nat) /\ Len(s) = m /\ \A i \in 1 .. m : s[i] \in RelTx' /\ Num(s[i])' = i
      BY <2>2, <3>1 DEF Image
    <3>2. PICK s1, m1, s2, m2 : s1 = checkpoint.rows /\ m1 = checkpoint.sequence /\ s2 = state.rows /\ m2 = state.sequence
      OBVIOUS
    <3>3. Image(s1, m1) /\ Image(s2, m2)
      BY <3>2 DEF RelInv
    <3>4. Image(s1, m1)' /\ Image(s2, m2)'
      BY <3>1, <3>3 DEF Image
    <3>5. s1 = checkpoint'.rows /\ m1 = checkpoint'.sequence /\ s2 = state'.rows /\ m2 = state'.sequence
      BY <1>0, <3>2
    <3> QED BY <3>4, <3>5 DEF Image
  <2>16. RelShape'
    BY <1>0 DEF RelInv, RelShape
  <2> QED BY <2>6, <2>9, <2>13, <2>14, <2>15, <2>16 DEF RelInv
<1> QED BY <1>3, <1>4
LEMMA CheckpointRelationalRel ==
  ASSUME Inv, Locks, RelInv, CheckpointRelational
  PROVE  RelInv'
<1>0. /\ phase = "up" /\ (\A c \in Clients : ~HoldsRelational(c))
      /\ checkpoint' = [rows |-> state.rows, sequence |-> state.sequence,
                        mark |-> Len(relational_wal.records)]
      /\ UNCHANGED <<journal, stored, relational_wal, state, poisoned, job, phase, broken>>
  BY DEF CheckpointRelational, memory
<1>1. RelTx' = RelTx /\ (\A k : Num(k)' = Num(k)) /\ (\A k : Written(k)' <=> Written(k))
  BY <1>0 DEF RelTx, Decided, Num, Written
<1>2. \A c \in Clients : HoldsRelational(c)' <=> HoldsRelational(c)
  BY <1>0 DEF HoldsRelational
<1>3. RelShape'
  BY <1>0 DEF RelInv, RelShape
<1>4. Numbered'
  BY <1>0, <1>1 DEF RelInv, Numbered
<1>5. RelJobs'
  BY <1>0, <1>2 DEF RelJobs
<1>6. \A k : Pendent(k) <=> "journal" \in poisoned /\ ~Written(k)
  BY <1>0 DEF Pendent, Candidate
<1>7. CaughtUp'
  BY <1>0, <1>1, <1>6 DEF RelInv, CaughtUp, Pendent
<1>8. Logged'
  <2>1. \A i \in 1 .. Len(relational_wal.records) :
           relational_wal.records[i] \in RelTx /\ Written(relational_wal.records[i])
    BY DEF RelInv, Logged, Written
  <2>2. \A i \in 1 .. Len(relational_wal.records) : Num(relational_wal.records[i]) <= state.sequence + 1
    BY <1>0, <2>1 DEF RelInv, CaughtUp, Loaded
  <2>3. broken = {} =>
          \A i \in 1 .. Len(relational_wal.records) : Num(relational_wal.records[i]) <= state.sequence
    BY <1>0, <1>6, <2>1 DEF RelInv, CaughtUp, Loaded
  <2>4. \A k \in stored \cap RelTx : Written(k)
    BY DEF RelInv, Logged
  <2> QED BY <1>0, <1>1, <2>1, <2>2, <2>3, <2>4 DEF Logged
<1>9. Image(checkpoint.rows, checkpoint.sequence)' /\ Image(state.rows, state.sequence)'
  BY <1>0, <1>1 DEF RelInv, Image
<1> QED BY <1>3, <1>4, <1>5, <1>7, <1>8, <1>9 DEF RelInv

\* The prefix that drop_prefix removes is of no consequence.
LEMMA BaseRel ==
  ASSUME Inv, RelInv, NEW b \in Nat, relational_wal' = [relational_wal EXCEPT !.base = b],
         UNCHANGED <<journal, stored, checkpoint, broken>>
  PROVE  /\ relational_wal' \in [base : Nat, records : Seq(Nat)]
         /\ relational_wal'.records = relational_wal.records
         /\ RelTx' = RelTx /\ (\A k : Num(k)' = Num(k)) /\ (\A k : Written(k)' <=> Written(k))
         /\ Numbered' /\ Logged' /\ Image(checkpoint.rows, checkpoint.sequence)'
<1>1. /\ relational_wal' \in [base : Nat, records : Seq(Nat)]
      /\ relational_wal'.records = relational_wal.records
  BY DEF RelInv, RelShape
<1>2. RelTx' = RelTx /\ (\A k : Num(k)' = Num(k)) /\ (\A k : Written(k)' <=> Written(k))
  BY <1>1 DEF RelTx, Decided, Num, Written
<1>3. Numbered' /\ Image(checkpoint.rows, checkpoint.sequence)'
  BY <1>2 DEF RelInv, Numbered, Image
<1>4. Logged'
  BY <1>1, <1>2 DEF RelInv, Logged
<1> QED BY <1>1, <1>2, <1>3, <1>4

LEMMA DropRelationalPrefixRel ==
  ASSUME Inv, RelInv, DropRelationalPrefix
  PROVE  RelInv'
<1>0. PICK b \in Nat : relational_wal' = [relational_wal EXCEPT !.base = b]
  <2>1. relational_wal.base \in Nat /\ checkpoint.mark \in Nat
    BY DEF RelInv, RelShape
  <2>2. PICK b \in (relational_wal.base + 1) .. checkpoint.mark : relational_wal' = [relational_wal EXCEPT !.base = b]
    BY DEF DropRelationalPrefix
  <2> QED BY <2>1, <2>2
<1>1. UNCHANGED <<journal, stored, checkpoint, state, poisoned, job, phase, broken>>
  BY DEF DropRelationalPrefix, memory
<1>2. /\ relational_wal' \in [base : Nat, records : Seq(Nat)]
      /\ relational_wal'.records = relational_wal.records
      /\ RelTx' = RelTx /\ (\A k : Num(k)' = Num(k)) /\ (\A k : Written(k)' <=> Written(k))
      /\ Numbered' /\ Logged' /\ Image(checkpoint.rows, checkpoint.sequence)'
  BY <1>0, <1>1, BaseRel
<1>3. \A c \in Clients : (HoldsRelational(c)' <=> HoldsRelational(c)) /\ (Candidate(c)' <=> Candidate(c))
  BY <1>1 DEF HoldsRelational, Candidate
<1>4. RelJobs'
  BY <1>1, <1>2, <1>3 DEF RelInv, RelJobs
<1>5. CaughtUp'
  BY <1>1, <1>2, <1>3 DEF RelInv, CaughtUp, Pendent
<1>6. RelShape' /\ Image(state.rows, state.sequence)'
  BY <1>1, <1>2 DEF RelInv, RelShape, Image
<1> QED BY <1>2, <1>4, <1>5, <1>6 DEF RelInv

\* Startup, when no request is under way.
LEMMA NobodyHolds ==
  ASSUME Inv, phase # "up"
  PROVE  /\ \A c \in Clients : ~HoldsRelational(c) /\ ~HoldsCollection(c) /\ ~HoldsGate(c)
         /\ \A c \in Clients : job[c] = Idle
  BY IdleJob DEF Inv, Jobs, HoldsRelational, HoldsCollection, HoldsGate

LEMMA RecoverRelationalRecordRel ==
  ASSUME Inv, Locks, RelInv, RecoverRelationalRecord
  PROVE  RelInv'
<1>0. /\ phase = "storage" /\ cursor \in RelTx
      /\ relational_wal' = Appended(relational_wal, cursor)
      /\ UNCHANGED <<journal, stored, checkpoint, state, poisoned, job, phase, broken>>
  BY RelTxIs DEF RecoverRelationalRecord, Pending, Recovering, Op, Rel, memory
<1>c. PICK tx \in RelTx : tx = cursor
  BY <1>0
<1>1. /\ relational_wal' \in [base : Nat, records : Seq(Nat)]
      /\ checkpoint'.mark <= Len(relational_wal'.records)
      /\ Logged' /\ Numbered' /\ Image(checkpoint.rows, checkpoint.sequence)'
      /\ RelTx' = RelTx /\ \A k : Num(k)' = Num(k)
  BY <1>0, <1>c, WalGrows
<1>2. RelJobs'
  BY <1>0, NobodyHolds DEF RelJobs, HoldsRelational
<1>3. CaughtUp'
  BY <1>0 DEF CaughtUp, Loaded
<1>4. RelShape' /\ Image(state.rows, state.sequence)'
  BY <1>0, <1>1 DEF RelInv, RelShape, Image
<1> QED BY <1>1, <1>2, <1>3, <1>4 DEF RelInv

LEMMA RetainedWritten ==
  ASSUME RelInv, NEW k, k \in Retained(relational_wal)
  PROVE  Written(k)
  BY DEF Retained, Written, RelInv, RelShape

\* Between the two parts of a catalog decision's recovery.
Marking == phase = "marking" => Alone(journal[cursor].op)

LEMMA RecoverMarkRel ==
  ASSUME Inv, Locks, RelInv, Marking, RecoverMark
  PROVE  RelInv'
<1>0. /\ phase \in {"storage", "marking"} /\ phase' = "storage" /\ stored' = stored \cup {cursor}
      /\ UNCHANGED <<journal, relational_wal, checkpoint, state, poisoned, job, broken>>
  BY DEF RecoverMark, Pending, Recovering, memory
<1>1. \A k \in stored' \cap RelTx : Written(k)
  <2>1. CASE phase = "marking"
    BY <1>0, <2>1, RelTxIs DEF Marking, RelInv, Logged, Alone, Rel
  <2>2. CASE phase # "marking"
    <3>1. journal[cursor].op \in Rel => cursor \in Retained(relational_wal)
      BY <2>2 DEF RecoverMark, Op, Rel
    <3> QED BY <1>0, <3>1, RetainedWritten, RelTxIs DEF RelInv, Logged
  <2> QED BY <2>1, <2>2
<1>2. \A c \in Clients : HoldsRelational(c) \/ HoldsRelational(c)' => job'[c] = job[c]
  BY <1>0
<1>3. phase' \in Loaded => phase \in Loaded
  BY <1>0 DEF Loaded
<1> QED BY <1>0, <1>1, <1>2, <1>3, RelQuiet

LEMMA RecoverPassedRel ==
  ASSUME Inv, Locks, RelInv, RecoverPassed
  PROVE  RelInv'
<1>0. /\ phase = "storage" /\ phase' \in {"storage", "refused"}
      /\ stored' = stored \/ (stored' = stored \cup {cursor} /\ ~Pending)
      /\ Recovering
      /\ UNCHANGED <<journal, relational_wal, checkpoint, state, poisoned, job, broken>>
  BY DEF RecoverPassed, Recovering, memory
<1>1. \A k \in stored' \cap RelTx : Written(k)
  <2>1. ~Pending => cursor \in stored \/ journal[cursor].op = "put"
    BY <1>0 DEF Pending, Op
  <2> QED BY <1>0, <2>1, RelTxIs DEF RelInv, Logged, Rel
<1>2. \A c \in Clients : HoldsRelational(c) \/ HoldsRelational(c)' => job'[c] = job[c]
  BY <1>0
<1>3. phase' \in Loaded => phase \in Loaded
  BY <1>0 DEF Loaded
<1> QED BY <1>0, <1>1, <1>2, <1>3, RelQuiet

-----------------------------------------------------------------------------
(* What the replay of the relational WAL makes of the checkpoint. *)

Reached(r, k) ==
  /\ r \in [ok : BOOLEAN, rows : Seq(Nat), sequence : Nat]
  /\ r.ok =>
       /\ Image(r.rows, r.sequence) /\ checkpoint.sequence <= r.sequence
       /\ \A i \in checkpoint.mark + 1 .. checkpoint.mark + k :
             Num(relational_wal.records[i]) <= r.sequence

LEMMA ReachedNext ==
  ASSUME Inv, RelInv, NEW k \in Nat, checkpoint.mark + k + 1 <= Len(relational_wal.records),
         NEW r, Reached(r, k)
  PROVE  Reached(RelationalApply(r, relational_wal.records[checkpoint.mark + k + 1]), k + 1)
<1>t. PICK tx : tx = relational_wal.records[checkpoint.mark + k + 1]
  OBVIOUS
<1>0. checkpoint.mark \in Nat /\ checkpoint.sequence \in Nat
  BY DEF RelInv, RelShape
<1>1. tx \in RelTx /\ Num(tx) \in Nat /\ tx \in Nat
  <2>1. checkpoint.mark + k + 1 \in 1 .. Len(relational_wal.records)
    <3>1. Len(relational_wal.records) \in Nat
      BY DEF RelInv, RelShape
    <3> QED BY <1>0, <3>1
  <2> QED BY <1>t, <2>1, RelTxIs DEF RelInv, Logged, Numbered
<1>r. PICK rr : rr = RelationalApply(r, tx)
  OBVIOUS
<1>2. rr = IF ~r.ok \/ Num(tx) <= r.sequence THEN r
           ELSE IF Num(tx) # r.sequence + 1 THEN [r EXCEPT !.ok = FALSE]
           ELSE [ok |-> TRUE, rows |-> Append(r.rows, tx), sequence |-> Num(tx)]
  BY <1>r DEF RelationalApply, Num
<1>3. \A i \in checkpoint.mark + 1 .. checkpoint.mark + (k + 1) :
         i \in checkpoint.mark + 1 .. checkpoint.mark + k \/ relational_wal.records[i] = tx
  BY <1>0, <1>t
<1>4. r \in [ok : BOOLEAN, rows : Seq(Nat), sequence : Nat]
  BY DEF Reached
<1>5. CASE ~r.ok
  BY <1>2, <1>4, <1>5, <1>t, <1>r DEF Reached
<1>6. CASE r.ok /\ Num(tx) <= r.sequence
  <2>1. rr = r
    BY <1>2, <1>6
  <2>2. \A i \in checkpoint.mark + 1 .. checkpoint.mark + (k + 1) : Num(relational_wal.records[i]) <= r.sequence
    BY <1>3, <1>6 DEF Reached
  <2>3. Reached(rr, k + 1)
    BY <1>6, <2>1, <2>2 DEF Reached
  <2> QED BY <1>t, <1>r, <2>3
<1>7. CASE r.ok /\ ~(Num(tx) <= r.sequence) /\ Num(tx) # r.sequence + 1
  <2>1. rr = [r EXCEPT !.ok = FALSE]
    BY <1>2, <1>7
  <2>2. rr \in [ok : BOOLEAN, rows : Seq(Nat), sequence : Nat] /\ ~rr.ok
    BY <1>4, <2>1
  <2> QED BY <1>t, <1>r, <2>2 DEF Reached
<1>8. CASE r.ok /\ Num(tx) = r.sequence + 1
  <2>0. r.sequence \in Nat /\ r.rows \in Seq(Nat) /\ Len(r.rows) = r.sequence /\ checkpoint.sequence <= r.sequence
    BY <1>4, <1>8 DEF Reached, Image
  <2>s. PICK s : s = r.rows
    OBVIOUS
  <2>1. rr = [ok |-> TRUE, rows |-> Append(s, tx), sequence |-> Num(tx)]
    BY <1>2, <1>8, <2>0, <2>s
  <2>2. /\ Append(s, tx) \in Seq(Nat) /\ Len(Append(s, tx)) = Len(s) + 1
        /\ \A i \in 1 .. Len(s) : Append(s, tx)[i] = s[i]
        /\ Append(s, tx)[Len(s) + 1] = tx
    BY <1>1, <2>0, <2>s
  <2>3. \A i \in 1 .. Len(s) : s[i] \in RelTx /\ Num(s[i]) = i
    BY <1>8, <2>s, <2>0 DEF Reached, Image
  <2>4. \A i \in 1 .. Len(s) + 1 : Append(s, tx)[i] \in RelTx /\ Num(Append(s, tx)[i]) = i
    <3> TAKE i \in 1 .. Len(s) + 1
    <3>1. CASE i \in 1 .. Len(s)
      BY <3>1, <2>2, <2>3
    <3>2. CASE i = Len(s) + 1
      BY <3>2, <1>1, <1>8, <2>0, <2>2, <2>s
    <3> QED BY <3>1, <3>2, <2>0, <2>s
  <2>5. Image(Append(s, tx), Num(tx))
    BY <1>8, <2>0, <2>s, <2>2, <2>4 DEF Image
  <2>6. \A i \in checkpoint.mark + 1 .. checkpoint.mark + (k + 1) : Num(relational_wal.records[i]) <= Num(tx)
    <3>1. ASSUME NEW i \in checkpoint.mark + 1 .. checkpoint.mark + k
          PROVE  Num(relational_wal.records[i]) <= Num(tx)
      <4>0. i \in 1 .. Len(relational_wal.records)
        <5>1. Len(relational_wal.records) \in Nat
          BY DEF RelInv, RelShape
        <5> QED BY <1>0, <5>1
      <4>1. Num(relational_wal.records[i]) <= r.sequence
        BY <1>8 DEF Reached
      <4>2. Num(relational_wal.records[i]) \in Nat
        BY <4>0 DEF RelInv, Logged, Numbered
      <4> QED BY <1>8, <2>0, <4>1, <4>2
    <3> QED BY <1>1, <1>3, <3>1
  <2>7. rr \in [ok : BOOLEAN, rows : Seq(Nat), sequence : Nat] /\ rr.rows = Append(s, tx) /\ rr.sequence = Num(tx)
    BY <1>1, <2>1, <2>2
  <2>8. checkpoint.sequence <= Num(tx)
    BY <1>0, <1>8, <2>0
  <2>9. Reached(rr, k + 1)
    BY <2>5, <2>6, <2>7, <2>8 DEF Reached
  <2> QED BY <1>t, <1>r, <2>9
<1> QED BY <1>1, <1>4, <1>5, <1>6, <1>7, <1>8

LEMMA BehindIs ==
  ASSUME NEW S, NEW s \in Seq(S), NEW m \in Nat, NEW n \in Nat, Len(s) = m + n
  PROVE  /\ DOMAIN Behind(s, m) = 1 .. n
         /\ \A i \in 1 .. n : Behind(s, m)[i] = s[m + i]
<1>1. Behind(s, m) = [i \in 1 .. (Len(s) - (m + 1) + 1) |-> s[(m + 1) + i - 1]]
  BY DEF Behind
<1>2. Len(s) - (m + 1) + 1 = n
  OBVIOUS
<1>3. \A i \in 1 .. n : (m + 1) + i - 1 = m + i
  OBVIOUS
<1> QED BY <1>1, <1>2, <1>3

LEMMA RelationalReplay ==
  ASSUME Inv, RelInv
  PROVE  Reached(replay_relational_wal, Len(relational_wal.records) - checkpoint.mark)
<1> DEFINE s == relational_wal.records
           m == checkpoint.mark
           e == [ok |-> TRUE, rows |-> checkpoint.rows, sequence |-> checkpoint.sequence]
           b == Behind(s, m)
<1>1. /\ s \in Seq(Nat) /\ Len(s) \in Nat /\ m \in Nat /\ m <= Len(s)
      /\ checkpoint.rows \in Seq(Nat) /\ checkpoint.sequence \in Nat
  BY DEF RelInv, RelShape
<1>n. PICK n \in Nat : n = Len(s) - m
  BY <1>1
<1>2. /\ DOMAIN b = 1 .. n
      /\ \A i \in 1 .. n : b[i] = s[m + i]
  <2>1. Len(s) = m + n
    BY <1>1, <1>n
  <2> HIDE DEF s, m
  <2> QED BY <1>1, <2>1, BehindIs
<1>3. replay_relational_wal = FoldLeft(RelationalApply, e, b)
  BY DEF replay_relational_wal, Behind
<1>e. PICK ee, bb : ee = e /\ bb = b
  OBVIOUS
<1>w. PICK w : w = Replay("relational", ee, bb)
  OBVIOUS
<1>4. w.log = "relational" /\ w.start = ee /\ w.records = bb
  BY <1>w DEF Replay
<1>5. replay_relational_wal = (CHOOSE g : Folds(w, 1 .. n, g))[1 .. n]
  <2>1. DOMAIN bb = 1 .. n
    BY <1>2, <1>e
  <2>2. FoldLeft(RelationalApply, ee, bb) = (CHOOSE g : Folds(w, DOMAIN bb, g))[DOMAIN bb]
    BY <1>w, RelationalChoose
  <2> HIDE DEF e, b
  <2> QED BY <1>3, <1>e, <2>1, <2>2
<1>6. PICK f : /\ f[0] = w.start /\ f[n] = replay_relational_wal
               /\ \A k \in 0 .. n - 1 : f[k + 1] = Apply(w.log, f[k], w.records[k + 1])
  <2>1. PICK f : /\ f[0] = w.start /\ f[n] = (CHOOSE g : Folds(w, 1 .. n, g))[1 .. n]
                 /\ \A k \in 0 .. n - 1 : f[k + 1] = Apply(w.log, f[k], w.records[k + 1])
    BY FoldChain, Zenon
  <2>2. f[n] = replay_relational_wal
    BY <1>5, <2>1, Zenon
  <2> QED BY <2>1, <2>2, Zenon
<1>7. Reached(f[0], 0)
  <2>1. f[0] = e
    BY <1>4, <1>6, <1>e
  <2>2. checkpoint.mark + 1 .. checkpoint.mark + 0 = {}
    BY <1>1
  <2>3. Image(checkpoint.rows, checkpoint.sequence)
    BY DEF RelInv
  <2> QED BY <1>1, <2>1, <2>2, <2>3 DEF Reached
<1> DEFINE T == {k \in Nat : k <= n => Reached(f[k], k)}
<1>8. 0 \in T
  BY <1>7
<1>9. ASSUME NEW k \in Nat, k \in T PROVE k + 1 \in T
  <2> SUFFICES ASSUME k + 1 <= n PROVE Reached(f[k + 1], k + 1)
    OBVIOUS
  <2>1. Reached(f[k], k)
    BY <1>9
  <2>2. k \in 0 .. n - 1 /\ k + 1 \in 1 .. n /\ m + (k + 1) = m + k + 1 /\ m + k + 1 <= Len(s)
    <3>1. n = Len(s) - m /\ Len(s) \in Nat /\ m \in Nat /\ k \in Nat /\ k + 1 <= n
      BY <1>1, <1>n
    <3> HIDE DEF s, m, b, e, T
    <3> QED BY <3>1
  <2>3. f[k + 1] = RelationalApply(f[k], bb[k + 1])
    BY <1>4, <1>6, <2>2 DEF Apply
  <2>4. bb[k + 1] = s[m + k + 1]
    BY <1>2, <1>e, <2>2
  <2> HIDE DEF T
  <2> QED BY <2>1, <2>2, <2>3, <2>4, ReachedNext
<1>10. \A k \in Nat : k \in T
  <2> HIDE DEF T
  <2> QED BY <1>8, <1>9, EveryNumber
<1>11. Reached(f[n], n)
  BY <1>10
<1> QED BY <1>6, <1>11, <1>n

LEMMA LoadRelationalRel ==
  ASSUME Inv, Inv', Locks, RelInv, LoadRelational
  PROVE  RelInv'
<1>0. /\ phase = "storage"
      /\ UNCHANGED <<journal, stored, checkpoint, poisoned, job, broken>>
  BY DEF LoadRelational
<1>1. CASE ~replay_relational_wal.ok
  <2>1. phase' = "refused" /\ UNCHANGED <<state, relational_wal>>
    BY <1>1 DEF LoadRelational
  <2> QED BY <1>0, <2>1, RelQuiet DEF Loaded, RelInv, Logged
<1>2. CASE replay_relational_wal.ok
  <2>r. PICK r : r = replay_relational_wal
    OBVIOUS
  <2>1. /\ phase' = "load" /\ state' = [rows |-> r.rows, sequence |-> r.sequence]
        /\ \E b \in relational_wal.base .. checkpoint.mark :
               relational_wal' = [relational_wal EXCEPT !.base = b]
    BY <1>2, <2>r DEF LoadRelational
  <2>2. PICK b \in Nat : relational_wal' = [relational_wal EXCEPT !.base = b]
    <3>1. relational_wal.base \in Nat /\ checkpoint.mark \in Nat
      BY DEF RelInv, RelShape
    <3> QED BY <2>1, <3>1
  <2>3. /\ relational_wal' \in [base : Nat, records : Seq(Nat)]
        /\ relational_wal'.records = relational_wal.records
        /\ RelTx' = RelTx /\ (\A k : Num(k)' = Num(k)) /\ (\A k : Written(k)' <=> Written(k))
        /\ Numbered' /\ Logged' /\ Image(checkpoint.rows, checkpoint.sequence)'
    BY <1>0, <2>2, BaseRel
  <2>4. PICK n : n = Len(relational_wal.records) - checkpoint.mark
    OBVIOUS
  <2>5. Reached(r, n)
    BY <2>r, <2>4, RelationalReplay
  <2>6. /\ r.rows \in Seq(Nat) /\ r.sequence \in Nat /\ Image(r.rows, r.sequence)
        /\ checkpoint.sequence <= r.sequence
        /\ \A i \in checkpoint.mark + 1 .. checkpoint.mark + n : Num(relational_wal.records[i]) <= r.sequence
    BY <1>2, <2>r, <2>5 DEF Reached
  <2>7. RelShape'
    BY <1>0, <2>1, <2>3, <2>6 DEF RelInv, RelShape
  <2>8. Image(state.rows, state.sequence)'
    BY <2>1, <2>3, <2>6 DEF Image
  <2>9. RelJobs'
    BY <1>0, NobodyHolds DEF RelJobs, HoldsRelational
  <2>10. CaughtUp'
    <3>1. \A k \in RelTx : Written(k)
      <4>1. DOMAIN journal \subseteq stored
        BY <1>0, <2>1 DEF Inv, StartupProgress
      <4> QED BY <4>1, RelTxIs DEF RelInv, Logged
    <3>2. ASSUME NEW k \in RelTx
          PROVE  Num(k) <= r.sequence + 1 /\ (broken = {} => Num(k) <= r.sequence)
      <4>1. PICK i \in 1 .. Len(relational_wal.records) : relational_wal.records[i] = k
        BY <3>1 DEF Written
      <4>2. checkpoint.mark \in Nat /\ checkpoint.sequence \in Nat /\ Num(k) \in Nat /\ Len(relational_wal.records) \in Nat
        BY DEF RelInv, RelShape, Numbered
      <4>3. CASE i <= checkpoint.mark
        <5>1. i \in 1 .. checkpoint.mark
          BY <4>2, <4>3
        <5>2. Num(k) <= checkpoint.sequence + 1 /\ (broken = {} => Num(k) <= checkpoint.sequence)
          BY <4>1, <5>1 DEF RelInv, Logged
        <5> QED BY <2>6, <4>2, <5>2
      <4>4. CASE ~(i <= checkpoint.mark)
        <5>1. i \in checkpoint.mark + 1 .. checkpoint.mark + n
          BY <2>4, <4>2, <4>4
        <5>2. Num(k) <= r.sequence
          BY <2>6, <4>1, <5>1
        <5> QED BY <2>6, <4>2, <5>2
      <4> QED BY <4>3, <4>4
    <3> QED BY <1>0, <2>1, <2>3, <3>2 DEF CaughtUp
  <2> QED BY <2>3, <2>7, <2>8, <2>9, <2>10 DEF RelInv
<1> QED BY <1>1, <1>2
-----------------------------------------------------------------------------
\* Startup alone enters this phase.
LEMMA MarkingBegins ==
  ASSUME Inv, [Next]_vars, phase' = "marking"
  PROVE  UNCHANGED vars \/ RecoverInstalled
<1> SUFFICES ASSUME Next, ~RecoverInstalled PROVE FALSE
  OBVIOUS
<1>1. ASSUME NEW c \in Clients, Request(c) PROVE FALSE
  <2>1. phase' = phase
    BY <1>1 DEF Request, Begin, EnterGate, Decide, AppendPut, AppendRelational,
       AppendCollection, AppendCatalog, InstallCreate, InstallDrop, CheckpointCatalog,
       DropCatalogPrefix, RemoveTrash, MarkStored, NoticeFailure, ProjectAudit, MarkAudited
  <2>2. job[c].pc # "idle" \/ phase = "up"
    BY <1>1 DEF Request, Begin, EnterGate, Decide, AppendPut, AppendRelational,
       AppendCollection, AppendCatalog, InstallCreate, InstallDrop, CheckpointCatalog,
       DropCatalogPrefix, RemoveTrash, MarkStored, NoticeFailure, ProjectAudit, MarkAudited
  <2> QED BY <2>1, <2>2, Running
<1>2. ~Crash /\ ~CheckpointRelational /\ ~DropRelationalPrefix
  BY DEF Crash, CheckpointRelational, DropRelationalPrefix
<1>3. Startup
  BY <1>1, <1>2 DEF Next
<1>4. ~Open /\ ~RecoverPassed /\ ~RecoverCatalogRecord /\ ~RecoverRelationalRecord
      /\ ~RecoverCollectionRecord /\ ~RecoverRename /\ ~RecoverMark
  BY DEF Open, RecoverPassed, RecoverCatalogRecord, RecoverRelationalRecord,
     RecoverCollectionRecord, RecoverRename, RecoverMark, Pending, Recovering
<1>5. ~LoadRelational /\ ~LoadCatalog /\ ~LoadedCatalogWrite /\ ~LoadedCatalogPrefix
      /\ ~RecoverAuditRecord /\ ~RecoverAuditMark /\ ~Serve
  BY DEF LoadRelational, LoadCatalog, LoadedCatalogWrite, LoadedCatalogPrefix,
     RecoverAuditRecord, RecoverAuditMark, Serve
<1> QED BY <1>3, <1>4, <1>5 DEF Startup

LEMMA NextMarking ==
  ASSUME Inv, Marking, [Next]_vars
  PROVE  Marking'
<1>1. CASE UNCHANGED vars
  BY <1>1 DEF vars, disk, Marking
<1>2. CASE RecoverInstalled
  BY <1>2 DEF RecoverInstalled, Op, Marking
<1>3. CASE phase' # "marking"
  BY <1>3 DEF Marking
<1> QED BY <1>1, <1>2, <1>3, MarkingBegins

\* The steps of requests that do not hold the relational lock.
LEMMA AsideRel ==
  ASSUME Inv, Locks, RelInv, NEW c \in Clients,
         \/ AppendPut(c) \/ AppendCatalog(c) \/ InstallCreate(c) \/ InstallDrop(c)
         \/ CheckpointCatalog(c) \/ DropCatalogPrefix(c) \/ RemoveTrash(c)
         \/ NoticeFailure(c) \/ ProjectAudit(c) \/ MarkAudited(c)
  PROVE  RelInv'
<1>1. PICK r \in Job : Carries(c, r)
  BY Carried
<1>2. ~HoldsRelational(c)
  <2>1. Sound(job[c])
    BY DEF Locks, Owned
  <2>2. job[c].pc \in {"append", "install", "checkpoint", "prefix", "trash", "degrade", "audit", "audit_mark"}
        /\ (job[c].pc = "append" => job[c].op = "put" \/ Alone(job[c].op))
    BY DEF AppendPut, AppendCatalog, InstallCreate, InstallDrop, CheckpointCatalog,
           DropCatalogPrefix, RemoveTrash, NoticeFailure, ProjectAudit, MarkAudited
  <2> QED BY <2>1, <2>2 DEF HoldsRelational, Alone, Sound
<1>3. \A d \in Clients : job'[d] = IF d = c THEN r ELSE job[d]
  BY <1>1, JobOf DEF Carries
<1>4. \A d \in Clients : HoldsRelational(d) \/ HoldsRelational(d)' => job'[d] = job[d]
  <2>1. ~HoldsRelational(c)'
    BY <1>1, <1>2, <1>3, IdleJob DEF HoldsRelational, Carries, Holding
  <2> QED BY <1>2, <1>3, <2>1 DEF HoldsRelational
<1>5. UNCHANGED <<journal, relational_wal, checkpoint, state, broken, stored, phase>>
  BY DEF AppendPut, AppendCatalog, InstallCreate, InstallDrop, CheckpointCatalog,
         DropCatalogPrefix, RemoveTrash, NoticeFailure, ProjectAudit, MarkAudited, disk
<1>6. poisoned \subseteq poisoned'
  BY DEF AppendPut, AppendCatalog, InstallCreate, InstallDrop, CheckpointCatalog,
         DropCatalogPrefix, RemoveTrash, NoticeFailure, ProjectAudit, MarkAudited,
         Wrote, WroteFile
<1> QED BY <1>4, <1>5, <1>6, RelQuiet DEF RelInv, Logged

LEMMA BeginRel ==
  ASSUME Inv, Locks, RelInv, NEW c \in Clients, EnterGate(c) \/ \E op \in Ops : Begin(c, op)
  PROVE  RelInv'
<1>1. /\ UNCHANGED <<journal, relational_wal, checkpoint, state, broken, stored, phase, poisoned>>
      /\ \E p : job' = [job EXCEPT ![c] = p] /\ p.pc \in {"gate", "decide"}
  <2>1. CASE EnterGate(c)
    <3>1. job' = [job EXCEPT ![c].pc = "decide"]
      BY <2>1 DEF EnterGate, To
    <3> DEFINE p == [job[c] EXCEPT !.pc = "decide"]
    <3>2. p.pc = "decide" /\ job' = [job EXCEPT ![c] = p]
      BY <3>1, JobTyped DEF Job
    <3> HIDE DEF p
    <3> QED BY <2>1, <3>2 DEF EnterGate, disk
  <2>2. ASSUME NEW op \in Ops, Begin(c, op)
        PROVE  /\ UNCHANGED <<journal, relational_wal, checkpoint, state, broken, stored, phase, poisoned>>
               /\ \E p : job' = [job EXCEPT ![c] = p] /\ p.pc \in {"gate", "decide"}
    <3> DEFINE p == [Idle EXCEPT !.op = op, !.pc = IF op = "sql" THEN "gate" ELSE "decide"]
    <3>1. p.pc \in {"gate", "decide"} /\ job' = [job EXCEPT ![c] = p]
      BY <2>2 DEF Begin, Idle
    <3> HIDE DEF p
    <3> QED BY <2>2, <3>1 DEF Begin
  <2> QED BY <2>1, <2>2
<1>2. job[c].pc \in {"idle", "gate"}
  BY IdleJob DEF EnterGate, Begin
<1>3. PICK p : job' = [job EXCEPT ![c] = p] /\ p.pc \in {"gate", "decide"}
  BY <1>1
<1>4. \A d \in Clients : job'[d] = IF d = c THEN p ELSE job[d]
  BY <1>3, JobOf
<1>5. \A d \in Clients : HoldsRelational(d) \/ HoldsRelational(d)' => job'[d] = job[d]
  BY <1>2, <1>3, <1>4 DEF HoldsRelational
<1> QED BY <1>1, <1>5, RelQuiet DEF RelInv, Logged

LEMMA RequestRel ==
  ASSUME Inv, Locks, RelInv, NEW c \in Clients, Request(c)
  PROVE  RelInv'
  BY BeginRel, DecideRel, AsideRel, AppendRelationalRel, AppendCollectionRel, MarkStoredRel DEF Request

\* The steps of startup that do not touch the relational store.
LEMMA QuietStartupRel ==
  ASSUME Inv, Locks, RelInv,
         \/ Open \/ RecoverCatalogRecord \/ RecoverCollectionRecord \/ RecoverRename
         \/ RecoverInstalled \/ LoadCatalog \/ LoadedCatalogWrite \/ LoadedCatalogPrefix
         \/ RecoverAuditRecord \/ RecoverAuditMark \/ Serve
  PROVE  RelInv'
<1>1. /\ UNCHANGED <<journal, relational_wal, checkpoint, state, broken, stored, job, poisoned>>
      /\ phase' \in Loaded => phase \in Loaded
  <2>1. CASE Open \/ Serve
    BY <2>1 DEF Open, Serve, disk, memory, Loaded
  <2>2. CASE RecoverCatalogRecord \/ RecoverCollectionRecord \/ RecoverRename \/ RecoverInstalled
    BY <2>2 DEF RecoverCatalogRecord, RecoverCollectionRecord, RecoverRename, RecoverInstalled, memory, Loaded
  <2>3. CASE \/ LoadCatalog \/ LoadedCatalogWrite \/ LoadedCatalogPrefix
             \/ RecoverAuditRecord \/ RecoverAuditMark
    BY <2>3 DEF LoadCatalog, LoadedCatalogWrite, LoadedCatalogPrefix, RecoverAuditRecord,
                RecoverAuditMark, memory, Loaded
  <2> QED BY <2>1, <2>2, <2>3
<1> QED BY <1>1, RelQuiet DEF RelInv, Logged

LEMMA NextRel ==
  ASSUME Inv, Inv', Locks, RelInv, Marking, [Next]_vars
  PROVE  RelInv'
<1>1. CASE Startup
  BY <1>1, QuietStartupRel, RecoverPassedRel, RecoverRelationalRecordRel, RecoverMarkRel,
     LoadRelationalRel DEF Startup
<1>2. CASE Crash
  BY <1>2, CrashRel
<1>3. CASE CheckpointRelational \/ DropRelationalPrefix
  BY <1>3, CheckpointRelationalRel, DropRelationalPrefixRel
<1>4. ASSUME NEW c \in Clients, Request(c) PROVE RelInv'
  BY <1>4, RequestRel
<1>5. CASE UNCHANGED vars
  <2>1. UNCHANGED <<journal, relational_wal, checkpoint, state, broken, stored, job, poisoned, phase>>
    BY <1>5 DEF vars, disk, memory
  <2> QED BY <2>1, RelQuiet DEF RelInv, Logged
<1> QED BY <1>1, <1>2, <1>3, <1>4, <1>5 DEF Next

LEMMA RelAlways == Spec => [](Inv /\ Locks /\ Marking /\ RelInv)
<1>1. Init => Inv /\ Locks /\ Marking /\ RelInv
  BY InitInv, InitLocks, InitRel DEF Init, Marking
<1>2. Inv /\ Locks /\ Marking /\ RelInv /\ [Next]_vars => Inv' /\ Locks' /\ Marking' /\ RelInv'
  BY NextInv, NextLocks, NextMarking, NextRel
<1> QED BY <1>1, <1>2, PTL DEF Spec

-----------------------------------------------------------------------------
\* An image holds its decisions in commit order.
LEMMA ImageAscends ==
  ASSUME Inv, RelInv, NEW s, NEW n, Image(s, n)
  PROVE  Ascending(s) /\ DOMAIN s = 1 .. n
<1>1. DOMAIN s = 1 .. n /\ n \in Nat
  BY DEF Image
<1> SUFFICES ASSUME NEW i \in 1 .. n, NEW j \in 1 .. n, i < j PROVE s[i] < s[j]
  BY <1>1 DEF Ascending
<1>2. s[i] \in RelTx /\ s[j] \in RelTx /\ Num(s[i]) = i /\ Num(s[j]) = j
  BY DEF Image
<1>3. s[i] \in Nat /\ s[j] \in Nat
  BY <1>2, RelTxIs
<1>4. s[j] < s[i] => Num(s[j]) <= Num(s[i])
  BY <1>2 DEF RelInv, Numbered
<1> QED BY <1>1, <1>2, <1>3, <1>4

\* When the state has reached a decision's number and no number was given
\* twice, it holds the decision.
LEMMA ImageHolds ==
  ASSUME Inv, RelInv, broken = {}, NEW s, NEW n, Image(s, n), NEW k \in RelTx, Num(k) <= n
  PROVE  Num(k) \in 1 .. n /\ s[Num(k)] = k
<1>1. n \in Nat /\ Num(k) \in Nat \ {0}
  BY DEF Image, RelInv, Numbered
<1>2. Num(k) \in 1 .. n
  BY <1>1
<1>3. s[Num(k)] \in RelTx /\ Num(s[Num(k)]) = Num(k)
  BY <1>2 DEF Image
<1>l. PICK l : l = s[Num(k)]
  OBVIOUS
<1>4. l \in RelTx /\ Num(l) = Num(k) /\ l \in Nat /\ k \in Nat
  BY <1>l, <1>3, RelTxIs
<1>5. ~(l < k) /\ ~(k < l)
  BY <1>1, <1>4 DEF RelInv, Numbered
<1> QED BY <1>2, <1>4, <1>5, <1>l

\* Startup gives the relational state every decided transaction once and in
\* commit order, for any number of clients, decisions, failed writes and crashes,
\* unless a process failed to project a multi-model transaction and went on.
THEOREM RelationalRecovers == Spec => []RelationalRecovered
<1>1. Inv /\ Locks /\ Marking /\ RelInv => RelationalRecovered
  <2> SUFFICES ASSUME Inv, Locks, RelInv, phase \in {"load", "catalog", "prefix", "audit"}
               PROVE  /\ broken = {} => InCommitOrder(state.rows, Decided({"sql", "multi"}))
                      /\ Ascending(state.rows)
    BY DEF RelationalRecovered
  <2>1. Image(state.rows, state.sequence)
    BY DEF RelInv
  <2>2. Ascending(state.rows) /\ DOMAIN state.rows = 1 .. state.sequence
    BY <2>1, ImageAscends
  <2>3. ASSUME broken = {} PROVE Range(state.rows) = RelTx
    <3>1. \A k : ~Pendent(k)
      <4>1. poisoned = {}
        BY DEF Locks
      <4> QED BY <4>1, NobodyHolds DEF Pendent, Candidate
    <3>2. \A k \in RelTx : Num(k) <= state.sequence
      BY <2>3, <3>1 DEF RelInv, CaughtUp, Loaded
    <3>3. \A k \in RelTx : Num(k) \in 1 .. state.sequence /\ state.rows[Num(k)] = k
      BY <2>1, <2>3, <3>2, ImageHolds
    <3>4. \A i \in 1 .. state.sequence : state.rows[i] \in RelTx
      BY <2>1 DEF Image
    <3> QED BY <2>2, <3>3, <3>4 DEF Range
  <2> QED BY <2>2, <2>3 DEF InCommitOrder, RelTx, Rel
<1> QED BY <1>1, RelAlways, PTL
-----------------------------------------------------------------------------
(***************************************************************************)
(* The collection.  Its catalog decisions are projected one at a time, so  *)
(* that only the last one can be unfinished; its directory holds           *)
(* transactions of the last incarnation only.                              *)
(***************************************************************************)
ColOps == {"put", "multi"}
Latest(l) == l \in CatalogDecisions /\ \A m \in CatalogDecisions : m <= l
Has(s, k) == \E i \in 1 .. Len(s) : s[i] = k
Entered(k) == Has(catalog_wal.records, k)

\* What a catalog decision finds is projected, and a collection is written
\* only while it exists.
Settled ==
  /\ \A l \in CatalogDecisions : \A k \in DOMAIN journal : k < l => k \in stored
  /\ \A k \in Decided(ColOps) : (\A l \in CatalogDecisions : l < k) => Created

\* The catalog file and its WAL agree with the decisions once the WAL has them.
CatInv ==
  /\ catalog.mark \in Nat /\ catalog.has \in BOOLEAN
  /\ catalog_wal \in [base : Nat, records : Seq(Nat)]
  /\ catalog.mark <= Len(catalog_wal.records)
  /\ \A i \in 1 .. Len(catalog_wal.records) : catalog_wal.records[i] \in CatalogDecisions
  /\ \A l \in stored \cap CatalogDecisions : Entered(l)
  /\ \A l : Latest(l) /\ Entered(l) => catalog_wal.records[Len(catalog_wal.records)] = l
  /\ (\A l \in CatalogDecisions : Entered(l)) /\ catalog.mark = Len(catalog_wal.records) =>
       (catalog.has <=> Created)

\* The collection's own WAL.
LogOf(s) ==
  /\ s \in Seq(Nat)
  /\ \A i \in 1 .. Len(s) : s[i] \in Due
  /\ \A i, j \in 1 .. Len(s) : s[i] = s[j] => i = j
  /\ \A k \in stored \cap Due : Has(s, k)
  /\ broken = {} =>
       /\ \A i, j \in 1 .. Len(s) : i < j => s[i] < s[j]
       /\ \A k \in Due : ~Has(s, k) => \A i \in 1 .. Len(s) : s[i] < k

DirInv ==
  /\ "staging" \in DOMAIN dirs => dirs["staging"] = <<>>
  /\ Created =>
       /\ NoLive <=> "staging" \in DOMAIN dirs
       /\ NoLive => Due = {} /\ \A l : Latest(l) => l \notin stored
       /\ ~NoLive => LogOf(dirs["live"])

\* A request of the collection, by what it does.
Holder(j) == j.op \in ColOps /\ j.pc \notin {"idle", "decide"}
Appending(j) == j.op \in ColOps /\ j.pc \in {"append", "append_collection"}
Unshown(j) == Appending(j) \/ (j.op = "put" /\ j.pc = "mark")
Dropping(j) == j.op = "drop" /\ j.pc \in {"append", "install"}

ColJob(j) ==
  /\ Alone(j.op) /\ j.ok /\ j.pc \in {"install", "checkpoint", "prefix", "trash", "mark"} =>
       Entered(j.tx)
  /\ j.op = "create" /\ j.pc \in {"decide", "append", "install"} =>
       ~collection.open /\ NoLive /\ "staging" \in DOMAIN dirs
  /\ j.op = "create" /\ j.pc \in {"checkpoint", "prefix", "mark"} => collection.open /\ ~NoLive
  /\ j.op = "drop" /\ j.pc \in {"checkpoint", "prefix", "trash", "mark"} => ~collection.open
  /\ j.op \in ColOps => collection.open /\ Created /\ ~NoLive
  /\ Holder(j) => j.tx \in Due /\ \A k \in Due : k <= j.tx
  /\ Appending(j) => ~Has(dirs["live"], j.tx)
  /\ j.op \in ColOps /\ j.pc = "mark" => Has(dirs["live"], j.tx)

ColJobs == \A c \in Clients : ColJob(job[c])

\* While requests run: the collection in memory exists, its WAL lacks a
\* transaction only for a reason, and memory shows what is published.
Stuck == "journal" \in poisoned /\ \A c \in Clients : ~Holder(job[c])

Opened ==
  collection.open /\ ~degraded /\ (\A c \in Clients : ~Dropping(job[c])) => Created /\ ~NoLive

Missing ==
  Created /\ ~NoLive /\ broken = {} =>
    \A k \in Due : ~Has(dirs["live"], k) =>
      \/ "collection" \in poisoned
      \/ \E c \in Clients : job[c].tx = k /\ Appending(job[c])
      \/ Stuck

Shown ==
  Created /\ collection.open /\ broken = {} =>
    /\ \A i, j \in 1 .. Len(collection.rows) : i < j => collection.rows[i] < collection.rows[j]
    /\ \A k : Has(collection.rows, k) =>
         k \in Due /\ \A c \in Clients : job[c].tx = k => ~Unshown(job[c])
    /\ \A k \in Due :
         \/ Has(collection.rows, k)
         \/ \E c \in Clients : job[c].tx = k /\ Unshown(job[c])
         \/ Stuck

Shaped == collection \in [open : BOOLEAN, rows : Seq(Nat)]

Restored ==
  phase \in {"catalog", "prefix", "audit"} =>
    /\ collection.open <=> Created
    /\ collection.rows = IF Created THEN dirs["live"] ELSE <<>>

MemInv == Shaped /\ Restored /\ (phase = "up" => Opened /\ Missing /\ Shown)

ColInv == Settled /\ CatInv /\ DirInv /\ ColJobs /\ MemInv

\* Between the two parts of a catalog decision's recovery.
Marked ==
  phase = "marking" => Entered(cursor) /\ (journal[cursor].op = "create" => ~NoLive)

\* The collection as the journal has it.
LEMMA WorldIs ==
  ASSUME Inv
  PROVE  /\ \A k : k \in CatalogDecisions <=> k \in DOMAIN journal /\ Alone(journal[k].op)
         /\ \A k : k \in Due <=> /\ k \in DOMAIN journal /\ journal[k].op \in ColOps
                                 /\ Created /\ \A l \in CatalogDecisions : l < k
         /\ Created <=> \E l : Latest(l) /\ journal[l].op = "create"
         /\ DOMAIN journal \subseteq Nat \ {0} /\ CatalogDecisions \subseteq Nat /\ Due \subseteq Nat
         /\ \A k, l : Latest(k) /\ Latest(l) => k = l
         /\ DOMAIN journal = 1 .. Len(journal) /\ Len(journal) \in Nat
<1>1. DOMAIN journal = 1 .. Len(journal) /\ Len(journal) \in Nat
  BY SequenceDomain DEF Inv, Recorded
<1>2. DOMAIN journal \subseteq Nat \ {0}
  BY <1>1
<1>3. \A k : k \in CatalogDecisions <=> k \in DOMAIN journal /\ Alone(journal[k].op)
  BY DEF CatalogDecisions
<1>4. \A k : k \in Due <=> /\ k \in DOMAIN journal /\ journal[k].op \in ColOps
                           /\ Created /\ \A l \in CatalogDecisions : l < k
  BY DEF Due, Decided, ColOps
<1>5. Created <=> \E l : Latest(l) /\ journal[l].op = "create"
  BY DEF Created, Latest
<1>6. \A k, l : Latest(k) /\ Latest(l) => k = l
  BY <1>2, <1>3 DEF Latest
<1> QED BY <1>1, <1>2, <1>3, <1>4, <1>5, <1>6

LEMMA SameWorld ==
  ASSUME UNCHANGED journal
  PROVE  /\ CatalogDecisions' = CatalogDecisions /\ (Created' <=> Created) /\ Due' = Due
         /\ \A l : Latest(l)' <=> Latest(l)
         /\ Decided(ColOps)' = Decided(ColOps)
<1>1. CatalogDecisions' = CatalogDecisions
  BY DEF CatalogDecisions
<1>2. Created' <=> Created
  BY <1>1 DEF Created
<1>3. Decided(ColOps)' = Decided(ColOps)
  BY DEF Decided
<1>4. Due' = Due
  BY <1>1, <1>2 DEF Due, Decided
<1>5. \A l : Latest(l)' <=> Latest(l)
  BY <1>1 DEF Latest
<1> QED BY <1>1, <1>2, <1>3, <1>4, <1>5

LEMMA SomeLatest ==
  ASSUME Inv, CatalogDecisions # {}
  PROVE  \E l : Latest(l)
<1>1. CatalogDecisions \in SUBSET Nat /\ \A x \in CatalogDecisions : x <= Len(journal)
  BY WorldIs
<1>2. Max(CatalogDecisions) \in CatalogDecisions /\ \A y \in CatalogDecisions : y <= Max(CatalogDecisions)
  BY <1>1, WorldIs, MaxOf
<1> QED BY <1>2 DEF Latest

\* A decision that is not marked is about the last incarnation.
LEMMA UnmarkedIsLast ==
  ASSUME Inv, Settled, NEW k \in DOMAIN journal, k \notin stored
  PROVE  /\ Alone(journal[k].op) => Latest(k)
         /\ journal[k].op \in ColOps => k \in Due
<1>1. \A l \in CatalogDecisions : ~(k < l)
  BY DEF Settled
<1>2. \A l \in CatalogDecisions : l \in Nat /\ k \in Nat
  BY WorldIs
<1>3. Alone(journal[k].op) => Latest(k)
  BY <1>1, <1>2, WorldIs DEF Latest
<1>4. ASSUME journal[k].op \in ColOps PROVE k \in Due
  <2>1. k \notin CatalogDecisions
    BY <1>4, WorldIs DEF ColOps, Alone
  <2>2. \A l \in CatalogDecisions : l < k
    BY <1>1, <1>2, <2>1
  <2>3. Created
    BY <1>4, <2>2 DEF Settled, Decided
  <2> QED BY <1>4, <2>2, <2>3, WorldIs
<1> QED BY <1>3, <1>4

\* The request that holds the gate alone.
LEMMA AloneLast ==
  ASSUME Inv, Locks, NEW c \in Clients, Alone(job[c].op), job[c].pc \notin Undecided
  PROVE  /\ Latest(job[c].tx) /\ journal[job[c].tx].op = job[c].op /\ job[c].tx = Len(journal)
         /\ Created <=> job[c].op = "create"
         /\ Due = {}
<1>1. job[c].tx \in DOMAIN journal /\ journal[job[c].tx].op = job[c].op /\ job[c].tx = Len(journal)
  BY JobTyped DEF Locks, Owned, Undisturbed
<1>2. Latest(job[c].tx)
  BY <1>1, WorldIs DEF Latest
<1>3. Created <=> job[c].op = "create"
  BY <1>1, <1>2, WorldIs
<1>4. \A k \in DOMAIN journal : ~(Len(journal) < k)
  BY WorldIs
<1>5. Due = {}
  <2> SUFFICES ASSUME NEW k \in Due PROVE FALSE
    OBVIOUS
  <2>1. k \in DOMAIN journal /\ job[c].tx < k
    BY <1>2, WorldIs DEF Latest
  <2> QED BY <1>1, <1>4, <2>1
<1> QED BY <1>1, <1>2, <1>3, <1>5

LEMMA AloneOthers ==
  ASSUME Inv, Locks, NEW c \in Clients, Alone(job[c].op), HoldsGate(c), NEW d \in Clients, d # c
  PROVE  job[d].op \in {"none", "sql"} /\ job[d].pc \in {"idle", "gate"} /\ job[d].tx = 0
<1>1. ~HoldsGate(d)
  BY DEF Locks, Exclusive
<1>2. job[d].pc \in {"idle", "gate"}
  BY <1>1 DEF HoldsGate
<1>3. job[d].tx = 0
  BY <1>2, JobTyped DEF Undecided
<1> QED BY <1>2, <1>3 DEF Locks, Owned, Sound, Idle

\* A request that has nothing to do with the collection.
LEMMA FreeJob ==
  ASSUME NEW j, j.op \in {"none", "sql"}
  PROVE  /\ ColJob(j) /\ ColJob(j)' /\ ~Holder(j) /\ ~Appending(j) /\ ~Unshown(j) /\ ~Dropping(j)
  BY DEF ColJob, Holder, Appending, Unshown, Dropping, ColOps, Alone

LEMMA OneHolder ==
  ASSUME Inv, Locks
  PROVE  /\ \A j : Unshown(j) => Holder(j)
         /\ \A j : Appending(j) => Unshown(j)
         /\ \A c \in Clients : Holder(job[c]) <=> HoldsCollection(c)
         /\ \A c, d \in Clients : Holder(job[c]) /\ Holder(job[d]) => c = d
<1>1. \A j : Unshown(j) => Holder(j)
  BY DEF Unshown, Appending, Holder, ColOps
<1>2. \A j : Appending(j) => Unshown(j)
  BY DEF Unshown
<1>3. \A c \in Clients : Holder(job[c]) <=> HoldsCollection(c)
  BY DEF Holder, HoldsCollection, ColOps
<1>4. \A c, d \in Clients : Holder(job[c]) /\ Holder(job[d]) => c = d
  BY <1>3 DEF Locks, Exclusive
<1> QED BY <1>1, <1>2, <1>3, <1>4

LEMMA InitCol == Init => ColInv /\ Marked
<1> SUFFICES ASSUME Init PROVE ColInv /\ Marked
  OBVIOUS
<1>1. DOMAIN journal = {} /\ Len(<<>>) = 0 /\ <<>> \in Seq(Nat)
  BY EmptySequence DEF Init
<1>2. CatalogDecisions = {} /\ Due = {} /\ Decided(ColOps) = {}
  BY <1>1 DEF CatalogDecisions, Due, Decided
<1>3. ~Created
  BY <1>2 DEF Created
<1>4. \A c \in Clients : job[c] = Idle /\ Idle.op = "none"
  BY DEF Init, Idle
<1>5. Settled
  BY <1>2 DEF Settled
<1>6. CatInv
  BY <1>1, <1>2, <1>3 DEF CatInv, Init, Latest
<1>7. DirInv
  BY <1>3 DEF DirInv, Init
<1>8. ColJobs
  BY <1>4, FreeJob DEF ColJobs
<1>9. MemInv
  BY <1>1, <1>3 DEF MemInv, Init, Fresh, Shaped, Restored, Opened, Missing, Shown
<1>10. Marked
  BY DEF Init, Marked
<1> QED BY <1>5, <1>6, <1>7, <1>8, <1>9, <1>10 DEF ColInv
-----------------------------------------------------------------------------
(* What keeps each part of the invariant. *)

LEMMA HasAppend ==
  ASSUME NEW s \in Seq(Nat), NEW t \in Nat
  PROVE  /\ Append(s, t) \in Seq(Nat) /\ Len(Append(s, t)) = Len(s) + 1 /\ Len(s) \in Nat
         /\ \A i \in 1 .. Len(s) : Append(s, t)[i] = s[i]
         /\ Append(s, t)[Len(s) + 1] = t
         /\ \A i : i \in 1 .. Len(Append(s, t)) <=> i \in 1 .. Len(s) \/ i = Len(s) + 1
         /\ \A k : Has(Append(s, t), k) <=> Has(s, k) \/ k = t
<1> DEFINE a == Append(s, t)
<1>1. a \in Seq(Nat) /\ Len(a) = Len(s) + 1 /\ Len(s) \in Nat
  OBVIOUS
<1>2. (\A i \in 1 .. Len(s) : a[i] = s[i]) /\ a[Len(s) + 1] = t
  OBVIOUS
<1> HIDE DEF a
<1>3. \A i : i \in 1 .. Len(a) <=> i \in 1 .. Len(s) \/ i = Len(s) + 1
  BY <1>1
<1>4. \A k : Has(a, k) <=> Has(s, k) \/ k = t
  BY <1>2, <1>3 DEF Has
<1> QED BY <1>1, <1>2, <1>3, <1>4 DEF a

LEMMA HasRange ==
  ASSUME NEW s \in Seq(Nat)
  PROVE  DOMAIN s = 1 .. Len(s) /\ \A k : k \in Range(s) <=> Has(s, k)
<1>1. DOMAIN s = 1 .. Len(s)
  OBVIOUS
<1> QED BY <1>1 DEF Range, Has

LEMMA SettledKept ==
  ASSUME Settled, UNCHANGED journal, stored \subseteq stored'
  PROVE  Settled'
  BY SameWorld DEF Settled

LEMMA CatKept ==
  ASSUME CatInv, UNCHANGED <<journal, catalog>>,
         catalog_wal' \in [base : Nat, records : Seq(Nat)],
         catalog_wal'.records = catalog_wal.records,
         \A l \in stored' \cap CatalogDecisions : Entered(l)
  PROVE  CatInv' /\ \A k : Entered(k)' <=> Entered(k)
<1>1. \A k : Entered(k)' <=> Entered(k)
  BY DEF Entered
<1> QED BY <1>1, SameWorld DEF CatInv

LEMMA CatSame ==
  ASSUME CatInv, UNCHANGED <<journal, catalog, catalog_wal>>,
         \A l \in stored' \cap CatalogDecisions : Entered(l)
  PROVE  CatInv' /\ \A k : Entered(k)' <=> Entered(k)
  BY CatKept DEF CatInv

LEMMA CatAppended ==
  ASSUME Inv, CatInv, UNCHANGED <<journal, catalog, stored>>, NEW t, Latest(t),
         catalog_wal' = Appended(catalog_wal, t)
  PROVE  CatInv' /\ Entered(t)' /\ \A k : Entered(k) => Entered(k)'
<1>s. PICK s : s = catalog_wal.records
  OBVIOUS
<1>1. s \in Seq(Nat) /\ t \in Nat /\ t \in CatalogDecisions
      /\ catalog_wal \in [base : Nat, records : Seq(Nat)]
  BY <1>s, WorldIs DEF CatInv, Latest
<1>a. PICK a : a = Append(s, t)
  OBVIOUS
<1>2. /\ a \in Seq(Nat) /\ Len(a) = Len(s) + 1 /\ Len(s) \in Nat
      /\ \A i \in 1 .. Len(s) : a[i] = s[i]
      /\ a[Len(s) + 1] = t
      /\ \A i : i \in 1 .. Len(a) <=> i \in 1 .. Len(s) \/ i = Len(s) + 1
      /\ \A k : Has(a, k) <=> Has(s, k) \/ k = t
  BY <1>1, <1>a, HasAppend
<1>3. catalog_wal' = [catalog_wal EXCEPT !.records = a]
  BY <1>s, <1>a DEF Appended
<1>4. catalog_wal' \in [base : Nat, records : Seq(Nat)] /\ catalog_wal'.records = a
  BY <1>1, <1>2, <1>3
<1>5. \A k : Entered(k)' <=> Entered(k) \/ k = t
  BY <1>2, <1>4, <1>s DEF Entered
<1>6. catalog'.mark \in Nat /\ catalog'.mark <= Len(s) /\ catalog'.has \in BOOLEAN
  BY <1>s DEF CatInv
<1>7. catalog'.mark <= Len(a) /\ catalog'.mark # Len(a)
  BY <1>2, <1>6
<1>8. \A i \in 1 .. Len(a) : a[i] \in CatalogDecisions
  BY <1>1, <1>2, <1>s DEF CatInv
<1>9. \A l : Latest(l) => a[Len(a)] = l
  BY <1>2, WorldIs
<1>10. \A l \in stored \cap CatalogDecisions : Entered(l)'
  BY <1>5 DEF CatInv
<1> QED BY <1>4, <1>5, <1>6, <1>7, <1>8, <1>9, <1>10, SameWorld DEF CatInv

LEMMA CatWritten ==
  ASSUME CatInv, Shaped, UNCHANGED <<journal, catalog_wal, stored>>, catalog' = WrittenCatalog,
         (\A l \in CatalogDecisions : Entered(l)) => (collection.open <=> Created)
  PROVE  CatInv' /\ \A k : Entered(k)' <=> Entered(k)
<1>1. \A k : Entered(k)' <=> Entered(k)
  BY DEF Entered
<1>2. catalog'.has = collection.open /\ catalog'.mark = Len(catalog_wal.records)
  BY DEF WrittenCatalog
<1>3. catalog'.mark \in Nat /\ catalog'.has \in BOOLEAN /\ catalog'.mark <= Len(catalog_wal.records)
  BY <1>2 DEF CatInv, Shaped
<1>4. (\A l \in CatalogDecisions : Entered(l)) => (catalog'.has <=> Created)
  BY <1>2
<1> QED BY <1>1, <1>3, <1>4, SameWorld DEF CatInv

\* The directories, where the collection's own is left alone.
LEMMA DirKept ==
  ASSUME DirInv, UNCHANGED journal, broken \subseteq broken',
         NoLive' <=> NoLive, "staging" \in DOMAIN dirs' <=> "staging" \in DOMAIN dirs,
         ~NoLive => dirs'["live"] = dirs["live"],
         "staging" \in DOMAIN dirs => dirs'["staging"] = dirs["staging"],
         Created /\ ~NoLive => \A k \in stored' \cap Due : Has(dirs["live"], k),
         Created /\ NoLive => \A l : Latest(l) /\ l \in stored' => l \in stored
  PROVE  DirInv'
<1>1. broken' = {} => broken = {}
  OBVIOUS
<1>2. ASSUME Created, ~NoLive PROVE LogOf(dirs["live"])'
  <2>1. LogOf(dirs["live"])
    BY <1>2 DEF DirInv
  <2>2. PICK s : s = dirs["live"]
    OBVIOUS
  <2>3. dirs'["live"] = s
    BY <1>2, <2>2
  <2>4. \A k \in stored' \cap Due : Has(s, k)
    BY <1>2, <2>2
  <2>5. LogOf(s)
    BY <2>1, <2>2
  <2>6. LogOf(s)'
    BY <1>1, <2>4, <2>5, SameWorld DEF LogOf
  <2>7. LogOf(dirs["live"])' <=> LogOf(s)'
    BY <2>3 DEF LogOf
  <2> QED BY <2>6, <2>7
<1>3. Created /\ NoLive => Due = {} /\ \A l : Latest(l) => l \notin stored'
  BY DEF DirInv
<1> QED BY <1>2, <1>3, SameWorld DEF DirInv

LEMMA DirSame ==
  ASSUME DirInv, UNCHANGED <<journal, dirs, stored>>, broken \subseteq broken'
  PROVE  DirInv'
<1>1. NoLive' <=> NoLive
  BY DEF NoLive
<1>2. Created /\ ~NoLive => \A k \in stored' \cap Due : Has(dirs["live"], k)
  BY DEF DirInv, LogOf
<1> QED BY <1>1, <1>2, DirKept

LEMMA JobsNext ==
  ASSUME \A d \in Clients : \A j : j = job'[d] => ColJob(j)'
  PROVE  ColJobs'
<1> SUFFICES ASSUME NEW d \in Clients PROVE ColJob(job[d])'
  BY DEF ColJobs
<1>1. PICK j : j = job'[d]
  OBVIOUS
<1>2. ColJob(j)'
  BY <1>1
<1> QED BY <1>1, <1>2 DEF ColJob, Holder, Appending

\* The job of a request, when nothing that the others depend on changes.
LEMMA JobsKept ==
  ASSUME Inv, ColJobs, NEW c \in Clients, NEW r, job' = [job EXCEPT ![c] = r],
         UNCHANGED journal, collection'.open = collection.open,
         \A k : Entered(k) => Entered(k)',
         NoLive' <=> NoLive, "staging" \in DOMAIN dirs => "staging" \in DOMAIN dirs',
         ~NoLive => dirs'["live"] = dirs["live"],
         ColJob(r)'
  PROVE  ColJobs'
<1>1. \A d \in Clients : job'[d] = IF d = c THEN r ELSE job[d]
  BY JobOf
<1>2. \A j : ColJob(j) => ColJob(j)'
  <2> SUFFICES ASSUME NEW j, ColJob(j) PROVE ColJob(j)'
    OBVIOUS
  <2>1. ~NoLive => \A k : Has(dirs["live"], k)' <=> Has(dirs["live"], k)
    BY DEF Has
  <2>2. j.op \in ColOps => ~NoLive
    BY DEF ColJob
  <2>3. Appending(j) => j.op \in ColOps
    BY DEF Appending
  <2>4. /\ Appending(j)' <=> Appending(j)
        /\ Holder(j)' <=> Holder(j)
    BY DEF Appending, Holder
  <2> QED BY <2>1, <2>2, <2>3, <2>4, SameWorld DEF ColJob
<1>3. \A d \in Clients : \A j : j = job'[d] => ColJob(j)'
  BY <1>1, <1>2 DEF ColJobs
<1> QED BY <1>3, JobsNext
-----------------------------------------------------------------------------
\* What requests are doing after a step of one of them.
LEMMA NextJobs ==
  ASSUME Inv, NEW c \in Clients, NEW r, job' = [job EXCEPT ![c] = r]
  PROVE  \A d \in Clients :
           /\ job'[d].tx = IF d = c THEN r.tx ELSE job[d].tx
           /\ Unshown(job[d])' <=> IF d = c THEN Unshown(r) ELSE Unshown(job[d])
           /\ Appending(job[d])' <=> IF d = c THEN Appending(r) ELSE Appending(job[d])
           /\ Holder(job[d])' <=> IF d = c THEN Holder(r) ELSE Holder(job[d])
           /\ Dropping(job[d])' <=> IF d = c THEN Dropping(r) ELSE Dropping(job[d])
<1> SUFFICES ASSUME NEW d \in Clients
             PROVE  /\ job'[d].tx = IF d = c THEN r.tx ELSE job[d].tx
                    /\ Unshown(job[d])' <=> IF d = c THEN Unshown(r) ELSE Unshown(job[d])
                    /\ Appending(job[d])' <=> IF d = c THEN Appending(r) ELSE Appending(job[d])
                    /\ Holder(job[d])' <=> IF d = c THEN Holder(r) ELSE Holder(job[d])
                    /\ Dropping(job[d])' <=> IF d = c THEN Dropping(r) ELSE Dropping(job[d])
  OBVIOUS
<1>1. job'[d] = IF d = c THEN r ELSE job[d]
  BY JobOf
<1>2. CASE d = c
  BY <1>1, <1>2 DEF Unshown, Appending, Holder, Dropping
<1>3. CASE d # c
  BY <1>1, <1>3 DEF Unshown, Appending, Holder, Dropping
<1> QED BY <1>2, <1>3

\* A step of a request that changes neither the collection nor its WAL.
LEMMA MemJob ==
  ASSUME Inv, MemInv, phase = "up", NEW c \in Clients, NEW r, job' = [job EXCEPT ![c] = r],
         UNCHANGED <<journal, collection, phase>>,
         NoLive' <=> NoLive, ~NoLive => dirs'["live"] = dirs["live"],
         broken \subseteq broken', poisoned \subseteq poisoned', degraded => degraded',
         broken' = {} /\ Unshown(job[c]) => Unshown(r) /\ r.tx = job[c].tx,
         broken' = {} /\ Appending(job[c]) => Appending(r) /\ r.tx = job[c].tx,
         Unshown(r) => Unshown(job[c]) /\ r.tx = job[c].tx,
         Holder(r) => Holder(job[c]),
         Dropping(job[c]) => Dropping(r)
  PROVE  MemInv'
<1>1. \A d \in Clients :
           /\ job'[d].tx = IF d = c THEN r.tx ELSE job[d].tx
           /\ Unshown(job[d])' <=> IF d = c THEN Unshown(r) ELSE Unshown(job[d])
           /\ Appending(job[d])' <=> IF d = c THEN Appending(r) ELSE Appending(job[d])
           /\ Holder(job[d])' <=> IF d = c THEN Holder(r) ELSE Holder(job[d])
           /\ Dropping(job[d])' <=> IF d = c THEN Dropping(r) ELSE Dropping(job[d])
  BY NextJobs
<1>2. Shaped' /\ Restored'
  BY DEF MemInv, Shaped, Restored
<1>3. Stuck => Stuck'
  BY <1>1 DEF Stuck
<1>4. Opened'
  BY <1>1, SameWorld DEF MemInv, Opened
<1>5. broken' = {} => broken = {}
  OBVIOUS
<1>6. ~NoLive => \A k : Has(dirs["live"], k)' <=> Has(dirs["live"], k)
  BY DEF Has
<1>7. Missing'
  <2> SUFFICES ASSUME Created', ~NoLive', broken' = {}, NEW k \in Due', ~Has(dirs["live"], k)'
               PROVE  \/ "collection" \in poisoned'
                      \/ \E d \in Clients : job'[d].tx = k /\ Appending(job[d])'
                      \/ Stuck'
    BY DEF Missing
  <2>1. \/ "collection" \in poisoned
        \/ \E d \in Clients : job[d].tx = k /\ Appending(job[d])
        \/ Stuck
    BY <1>5, <1>6, SameWorld DEF MemInv, Missing
  <2> QED BY <1>1, <1>3, <2>1
<1>8. Shown'
  <2> SUFFICES ASSUME Created', collection'.open, broken' = {} PROVE
    /\ \A i, j \in 1 .. Len(collection'.rows) : i < j => collection'.rows[i] < collection'.rows[j]
    /\ \A k : Has(collection.rows, k)' =>
         k \in Due' /\ \A d \in Clients : job'[d].tx = k => ~Unshown(job[d])'
    /\ \A k \in Due' :
         \/ Has(collection.rows, k)'
         \/ \E d \in Clients : job'[d].tx = k /\ Unshown(job[d])'
         \/ Stuck'
    BY DEF Shown
  <2>1. /\ \A i, j \in 1 .. Len(collection.rows) : i < j => collection.rows[i] < collection.rows[j]
        /\ \A k : Has(collection.rows, k) =>
             k \in Due /\ \A d \in Clients : job[d].tx = k => ~Unshown(job[d])
        /\ \A k \in Due :
             \/ Has(collection.rows, k)
             \/ \E d \in Clients : job[d].tx = k /\ Unshown(job[d])
             \/ Stuck
    BY <1>5, SameWorld DEF MemInv, Shown
  <2>2. \A k : Has(collection.rows, k)' <=> Has(collection.rows, k)
    BY DEF Has
  <2>3. ASSUME NEW k \in Due'
        PROVE  \/ Has(collection.rows, k)'
               \/ \E d \in Clients : job'[d].tx = k /\ Unshown(job[d])'
               \/ Stuck'
    <3>1. k \in Due
      BY SameWorld
    <3>2. CASE \E d \in Clients : job[d].tx = k /\ Unshown(job[d])
      BY <1>1, <3>2
    <3> QED BY <1>3, <2>1, <2>2, <3>1, <3>2
  <2>4. ASSUME NEW k, Has(collection.rows, k)'
        PROVE  k \in Due' /\ \A d \in Clients : job'[d].tx = k => ~Unshown(job[d])'
    BY <1>1, <2>1, <2>2, <2>4, SameWorld
  <2> QED BY <2>1, <2>3, <2>4
<1> QED BY <1>2, <1>4, <1>7, <1>8 DEF MemInv

\* Steps after which no request runs.
LEMMA MemAside ==
  ASSUME MemInv, phase' # "up", collection' = collection,
         UNCHANGED <<journal, dirs>>, phase' \in {"catalog", "prefix", "audit"} => phase \in {"catalog", "prefix", "audit"}
  PROVE  MemInv'
<1>1. Shaped' /\ Restored'
  BY SameWorld DEF MemInv, Shaped, Restored
<1> QED BY <1>1 DEF MemInv
-----------------------------------------------------------------------------
(* Steps of requests that leave the collection alone. *)

Quiet(c, r) ==
  /\ broken' = {} /\ Unshown(job[c]) => Unshown(r) /\ r.tx = job[c].tx
  /\ broken' = {} /\ Appending(job[c]) => Appending(r) /\ r.tx = job[c].tx
  /\ Unshown(r) => Unshown(job[c]) /\ r.tx = job[c].tx
  /\ Holder(r) => Holder(job[c])
  /\ Dropping(job[c]) => Dropping(r)

LEMMA UpMarked == ASSUME phase' = "up" PROVE Marked'
  BY DEF Marked

LEMMA AsideCol ==
  ASSUME Inv, ColInv, phase = "up", NEW c \in Clients, NEW r, job' = [job EXCEPT ![c] = r],
         UNCHANGED <<journal, collection, phase, dirs, catalog, catalog_wal, stored>>,
         broken \subseteq broken', poisoned \subseteq poisoned', degraded => degraded',
         Quiet(c, r), ColJob(r)
  PROVE  ColInv'
<1>1. Settled'
  BY SettledKept DEF ColInv
<1>2. CatInv' /\ \A k : Entered(k)' <=> Entered(k)
  <2>1. \A l \in stored' \cap CatalogDecisions : Entered(l)
    BY DEF ColInv, CatInv
  <2> QED BY <2>1, CatSame DEF ColInv
<1>3. DirInv'
  BY DirSame DEF ColInv
<1>4. NoLive' <=> NoLive
  BY DEF NoLive
<1>5. ColJob(r)'
  <2>1. /\ Appending(r)' <=> Appending(r)
        /\ Holder(r)' <=> Holder(r)
        /\ \A k : Has(dirs["live"], k)' <=> Has(dirs["live"], k)
    BY DEF Appending, Holder, Has
  <2> QED BY <1>2, <1>4, <2>1, SameWorld DEF ColJob
<1>6. ColJobs'
  BY <1>2, <1>4, <1>5, JobsKept DEF ColInv
<1>7. MemInv'
  BY <1>4, MemJob DEF Quiet, ColInv
<1> QED BY <1>1, <1>2, <1>3, <1>6, <1>7 DEF ColInv

LEMMA EnterGateCol ==
  ASSUME Inv, Locks, ColInv, NEW c \in Clients, EnterGate(c)
  PROVE  ColInv'
<1> DEFINE r == [job[c] EXCEPT !.pc = "decide"]
<1>1. /\ job' = [job EXCEPT ![c] = r] /\ job[c].pc = "gate"
      /\ UNCHANGED <<journal, collection, phase, dirs, catalog, catalog_wal, stored, broken, poisoned, degraded>>
  BY DEF EnterGate, To, disk
<1>2. r.op = "sql" /\ job[c].op = "sql" /\ phase = "up"
  BY <1>1, JobTyped DEF Locks, Owned, Sound, Job
<1> HIDE DEF r
<1>3. Quiet(c, r) /\ ColJob(r)
  BY <1>2, FreeJob DEF Quiet
<1> QED BY <1>1, <1>2, <1>3, AsideCol

\* The end of a request.
LEMMA LateCol ==
  ASSUME Inv, Locks, ColInv, NEW c \in Clients,
         NoticeFailure(c) \/ ProjectAudit(c) \/ MarkAudited(c)
  PROVE  ColInv'
<1>1. PICK r \in Job : Carries(c, r)
  BY Carried
<1>2. /\ UNCHANGED <<journal, collection, phase, dirs, catalog, catalog_wal, stored, broken>>
      /\ job[c].pc \in {"degrade", "audit", "audit_mark"}
  BY DEF NoticeFailure, ProjectAudit, MarkAudited, disk
<1>3. poisoned \subseteq poisoned' /\ (degraded => degraded')
  BY DEF NoticeFailure, ProjectAudit, MarkAudited, Wrote, Degrade
<1>4. r.pc \in {"idle", "audit", "audit_mark"}
  <2>0. \A d \in Clients : job'[d] = IF d = c THEN r ELSE job[d]
    BY <1>1, JobOf DEF Carries
  <2>1. job'[c] = r
    BY <2>0
  <2>2. \/ job'[c] = Idle \/ \E p \in {"audit", "audit_mark"} : job'[c] = [job[c] EXCEPT !.pc = p]
    <3>1. Finish(c) \/ \E p \in {"audit", "audit_mark"} : To(c, p)
      BY DEF NoticeFailure, ProjectAudit, MarkAudited
    <3>2. ASSUME NEW p, To(c, p) PROVE job'[c] = [job[c] EXCEPT !.pc = p]
      BY <3>2 DEF To, Inv, Jobs
    <3>3. Finish(c) => job'[c] = Idle
      BY DEF Finish, Inv, Jobs
    <3> QED BY <3>1, <3>2, <3>3
  <2>3. job[c] \in Job
    BY JobTyped
  <2>4. \A p : [job[c] EXCEPT !.pc = p].pc = p
    BY <2>3 DEF Job
  <2> QED BY <2>1, <2>2, <2>4, IdleJob
<1>5. phase = "up" /\ job' = [job EXCEPT ![c] = r]
  BY <1>1, <1>2, Running DEF Carries
<1>6. r = Idle \/ (r.op = job[c].op /\ r.tx = job[c].tx /\ r.pc \notin Undecided)
  BY <1>1 DEF Carries
<1>7. Idle.op = "none"
  BY DEF Idle
<1>8. ColJob(job[c])
  BY DEF ColInv, ColJobs
<1>9. ColJob(r)
  <2>1. CASE r = Idle
    BY <2>1, <1>7, FreeJob
  <2>2. CASE r # Idle
    <3>1. Holder(r) => Holder(job[c])
      BY <1>2, <1>6, <2>2 DEF Holder
    <3>2. ~Appending(r)
      BY <1>4 DEF Appending
    <3> QED BY <1>4, <1>6, <1>8, <2>2, <3>1, <3>2 DEF ColJob
  <2> QED BY <2>1, <2>2
<1>10. Quiet(c, r)
  BY <1>2, <1>4, <1>6, <1>7 DEF Quiet, Unshown, Appending, Holder, Dropping, ColOps
<1> QED BY <1>2, <1>3, <1>5, <1>9, <1>10, AsideCol

LEMMA AppendRelationalCol ==
  ASSUME Inv, Locks, ColInv, NEW c \in Clients, AppendRelational(c)
  PROVE  ColInv'
<1>0. PICK o \in Outcomes("relational") :
        /\ Wrote("relational", o)
        /\ To(c, IF o # "ok" THEN "degrade"
                 ELSE IF job[c].op = "sql" THEN "mark" ELSE "append_collection")
        /\ broken' = IF o # "ok" /\ job[c].op = "multi" THEN broken \cup {job[c].tx}
                     ELSE broken
  BY DEF AppendRelational
<1>1. /\ job[c].pc = "append" /\ job[c].op \in {"sql", "multi"}
      /\ UNCHANGED <<journal, collection, phase, dirs, catalog, catalog_wal, stored, degraded>>
  BY DEF AppendRelational
<1>2. broken \subseteq broken' /\ poisoned \subseteq poisoned'
  BY <1>0 DEF Wrote
<1> DEFINE p == IF o # "ok" THEN "degrade"
                ELSE IF job[c].op = "sql" THEN "mark" ELSE "append_collection"
           r == [job[c] EXCEPT !.pc = p]
<1>3. job' = [job EXCEPT ![c] = r] /\ r.op = job[c].op /\ r.tx = job[c].tx /\ r.pc = p /\ phase = "up"
  BY <1>0, <1>1, JobTyped DEF To, Job
<1>4. p \in {"degrade", "mark", "append_collection"} /\ (p = "mark" => job[c].op = "sql")
      /\ (p = "degrade" /\ job[c].op = "multi" => broken' # {})
      /\ (job[c].op = "multi" => p \in {"degrade", "append_collection"})
  BY <1>0
<1> HIDE DEF r, p
<1>5. CASE job[c].op = "sql"
  <2>1. Quiet(c, r) /\ ColJob(r)
    BY <1>3, <1>5, FreeJob DEF Quiet
  <2> QED BY <1>1, <1>2, <1>3, <2>1, AsideCol
<1>6. CASE job[c].op = "multi"
  <2>1. ColJob(job[c]) /\ Appending(job[c]) /\ Holder(job[c]) /\ Unshown(job[c])
    BY <1>1, <1>6 DEF ColInv, ColJobs, Appending, Holder, Unshown, ColOps
  <2>2. Quiet(c, r)
    BY <1>3, <1>4, <1>6, <2>1 DEF Quiet, Unshown, Appending, Dropping, ColOps
  <2>3. ColJob(r)
    BY <1>3, <1>4, <1>6, <2>1 DEF ColJob, Alone
  <2> QED BY <1>1, <1>2, <1>3, <2>2, <2>3, AsideCol
<1> QED BY <1>1, <1>5, <1>6
-----------------------------------------------------------------------------
(* Steps of a create or a drop. *)

LEMMA CatalogCol ==
  ASSUME Inv, ColInv, NEW c \in Clients, Alone(job[c].op), phase = "up",
         NEW r, job' = [job EXCEPT ![c] = r], r.op = job[c].op,
         UNCHANGED <<journal, collection, phase, broken>>,
         poisoned \subseteq poisoned', degraded => degraded',
         Settled', CatInv', DirInv', \A k : Entered(k) => Entered(k)',
         NoLive' <=> NoLive, "staging" \in DOMAIN dirs => "staging" \in DOMAIN dirs',
         ~NoLive => dirs'["live"] = dirs["live"],
         Dropping(job[c]) => Dropping(r), ColJob(r)'
  PROVE  ColInv'
<1>1. ColJobs'
  BY JobsKept DEF ColInv
<1>2. ~Unshown(r) /\ ~Unshown(job[c]) /\ ~Appending(job[c]) /\ ~Holder(r)
  BY DEF Unshown, Appending, Holder, Alone, ColOps
<1>3. MemInv'
  BY <1>2, MemJob DEF ColInv
<1> QED BY <1>1, <1>3 DEF ColInv

\* The job a step of a create or drop leaves, and what it needs.
LEMMA CatalogJob ==
  ASSUME NEW j, Alone(j.op), j.pc \in {"install", "checkpoint", "prefix", "trash", "mark"},
         j.ok => Entered(j.tx)',
         j.op = "create" /\ j.pc = "install" =>
           ~collection'.open /\ NoLive' /\ "staging" \in DOMAIN dirs',
         j.op = "create" /\ j.pc \in {"checkpoint", "prefix", "mark"} => collection'.open /\ ~NoLive',
         j.op = "drop" /\ j.pc \in {"checkpoint", "prefix", "trash", "mark"} => ~collection'.open
  PROVE  ColJob(j)'
  BY DEF ColJob, Alone, ColOps, Holder, Appending

LEMMA AppendCatalogCol ==
  ASSUME Inv, Locks, ColInv, NEW c \in Clients, AppendCatalog(c)
  PROVE  ColInv'
<1>t. PICK t : t = job[c].tx
  OBVIOUS
<1>0. PICK o \in Outcomes("catalog") :
        /\ Wrote("catalog", o)
        /\ catalog_wal' = IF Happened(o) THEN Appended(catalog_wal, t) ELSE catalog_wal
        /\ job' = [job EXCEPT ![c].pc = "install", ![c].ok = (o = "ok")]
        /\ Degrade(o # "ok")
  BY <1>t DEF AppendCatalog
<1>1. /\ job[c].pc = "append" /\ Alone(job[c].op)
      /\ UNCHANGED <<journal, stored, catalog, dirs, collection, phase, broken>>
  BY DEF AppendCatalog
<1>2. poisoned \subseteq poisoned' /\ (degraded => degraded')
  BY <1>0 DEF Wrote, Degrade
<1>r. PICK r : r = [job[c] EXCEPT !.pc = "install", !.ok = (o = "ok")]
  OBVIOUS
<1>3. /\ job' = [job EXCEPT ![c] = r] /\ r.op = job[c].op /\ r.tx = t /\ r.pc = "install" /\ phase = "up"
      /\ r.ok <=> o = "ok"
  BY <1>0, <1>1, <1>r, <1>t, JobTyped DEF Job
<1>4. Latest(t)
  BY <1>1, <1>t, AloneLast DEF Undecided
<1>5. CatInv' /\ (o = "ok" => Entered(t)') /\ \A k : Entered(k) => Entered(k)'
  <2>1. CASE Happened(o)
    BY <1>0, <1>1, <1>4, <2>1, CatAppended DEF ColInv
  <2>2. CASE ~Happened(o)
    <3>1. catalog_wal' = catalog_wal /\ o # "ok"
      BY <1>0, <2>2 DEF Happened
    <3>2. \A l \in stored' \cap CatalogDecisions : Entered(l)
      BY <1>1 DEF ColInv, CatInv
    <3> QED BY <1>1, <3>1, <3>2, CatSame DEF ColInv
  <2> QED BY <2>1, <2>2
<1>6. Settled' /\ DirInv' /\ (NoLive' <=> NoLive)
  BY <1>1, SettledKept, DirSame DEF ColInv, NoLive
<1>7. ColJob(r)'
  <2>1. ColJob(job[c])
    BY DEF ColInv, ColJobs
  <2>2. r.op = "create" => ~collection'.open /\ NoLive' /\ "staging" \in DOMAIN dirs'
    BY <1>1, <1>3, <1>6, <2>1 DEF ColJob
  <2> QED BY <1>1, <1>3, <1>5, <2>2, CatalogJob
<1>8. Dropping(job[c]) => Dropping(r)
  BY <1>3 DEF Dropping
<1> QED BY <1>1, <1>2, <1>3, <1>5, <1>6, <1>7, <1>8, CatalogCol

\* The catalog's checkpoint and what follows it.
LEMMA AfterInstall ==
  ASSUME Inv, Locks, ColInv, NEW c \in Clients,
         CheckpointCatalog(c) \/ DropCatalogPrefix(c) \/ RemoveTrash(c)
  PROVE  \E p \in {"prefix", "trash", "mark"} :
           /\ To(c, p) /\ Alone(job[c].op) /\ job[c].pc \in {"checkpoint", "prefix", "trash"}
           /\ p = "trash" => job[c].op = "drop"
           /\ UNCHANGED <<journal, stored, collection, phase, broken>>
           /\ poisoned \subseteq poisoned' /\ (degraded => degraded')
<1>0. Sound(job[c])
  BY DEF Locks, Owned
<1>1. Alone(job[c].op) /\ job[c].pc \in {"checkpoint", "prefix", "trash"}
      /\ UNCHANGED <<journal, stored, collection, phase, broken>>
  BY <1>0 DEF Sound, CheckpointCatalog, DropCatalogPrefix, RemoveTrash
<1>2. poisoned \subseteq poisoned' /\ (degraded => degraded')
  BY DEF CheckpointCatalog, DropCatalogPrefix, RemoveTrash, Wrote, WroteFile, Degrade
<1>3. \E p \in {"prefix", "trash", "mark"} : To(c, p) /\ (p = "trash" => job[c].op = "drop")
  BY DEF CheckpointCatalog, DropCatalogPrefix, RemoveTrash
<1> QED BY <1>1, <1>2, <1>3

LEMMA AfterInstallCol ==
  ASSUME Inv, Locks, ColInv, NEW c \in Clients,
         CheckpointCatalog(c) \/ DropCatalogPrefix(c) \/ RemoveTrash(c),
         CatInv', DirInv', \A k : Entered(k) => Entered(k)', NoLive' <=> NoLive,
         "staging" \in DOMAIN dirs => "staging" \in DOMAIN dirs',
         ~NoLive => dirs'["live"] = dirs["live"]
  PROVE  ColInv'
<1>1. PICK p \in {"prefix", "trash", "mark"} :
           /\ To(c, p) /\ Alone(job[c].op) /\ job[c].pc \in {"checkpoint", "prefix", "trash"}
           /\ p = "trash" => job[c].op = "drop"
           /\ UNCHANGED <<journal, stored, collection, phase, broken>>
           /\ poisoned \subseteq poisoned' /\ (degraded => degraded')
  BY AfterInstall
<1>r. PICK r : r = [job[c] EXCEPT !.pc = p]
  OBVIOUS
<1>2. /\ job' = [job EXCEPT ![c] = r] /\ r.op = job[c].op /\ r.tx = job[c].tx /\ r.pc = p
      /\ r.ok = job[c].ok /\ phase = "up"
  BY <1>1, <1>r, JobTyped DEF To, Job
<1>3. ColJob(job[c])
  BY DEF ColInv, ColJobs
<1>4. ColJob(r)'
  <2>1. r.ok => Entered(r.tx)'
    <3>1. job[c].ok => Entered(job[c].tx)
      BY <1>1, <1>3 DEF ColJob
    <3>2. PICK t : t = job[c].tx
      OBVIOUS
    <3>3. job[c].ok => Entered(t)'
      <4>1. job[c].ok => Entered(t)
        BY <3>1, <3>2
      <4> QED BY <4>1
    <3>4. Entered(r.tx)' <=> Entered(t)'
      BY <1>2, <3>2 DEF Entered
    <3> QED BY <1>2, <3>3, <3>4
  <2>2. r.op = "create" => collection'.open /\ ~NoLive'
    <3>1. Sound(job[c])
      BY DEF Locks, Owned
    <3> QED BY <1>1, <1>2, <1>3, <3>1 DEF ColJob, Sound
  <2>3. r.op = "drop" => ~collection'.open
    BY <1>1, <1>2, <1>3 DEF ColJob
  <2> QED BY <1>1, <1>2, <2>1, <2>2, <2>3, CatalogJob
<1>5. Dropping(job[c]) => Dropping(r)
  BY <1>1 DEF Dropping
<1>6. Settled'
  BY <1>1, SettledKept DEF ColInv
<1> QED BY <1>1, <1>2, <1>4, <1>5, <1>6, CatalogCol

LEMMA CheckpointCatalogCol ==
  ASSUME Inv, Locks, ColInv, NEW c \in Clients, CheckpointCatalog(c)
  PROVE  ColInv'
<1>1. /\ job[c].pc = "checkpoint" /\ catalog' \in {catalog, WrittenCatalog}
      /\ UNCHANGED <<journal, stored, catalog_wal, dirs, collection, broken>>
  BY DEF CheckpointCatalog
<1>2. DirInv' /\ (NoLive' <=> NoLive)
  BY <1>1, DirSame DEF ColInv, NoLive
<1>3. CatInv' /\ \A k : Entered(k)' <=> Entered(k)
  <2>1. CASE catalog' = catalog
    <3>1. \A l \in stored' \cap CatalogDecisions : Entered(l)
      BY <1>1 DEF ColInv, CatInv
    <3> QED BY <1>1, <2>1, <3>1, CatSame DEF ColInv
  <2>2. CASE catalog' = WrittenCatalog
    <3>1. Alone(job[c].op)
      BY <1>1 DEF Locks, Owned, Sound
    <3>2. Created <=> job[c].op = "create"
      BY <1>1, <3>1, AloneLast DEF Undecided
    <3>3. ColJob(job[c]) /\ Shaped
      BY DEF ColInv, ColJobs, MemInv
    <3>4. collection.open <=> Created
      BY <1>1, <3>1, <3>2, <3>3 DEF ColJob, Alone
    <3> QED BY <1>1, <2>2, <3>3, <3>4, CatWritten DEF ColInv
  <2> QED BY <1>1, <2>1, <2>2
<1> QED BY <1>1, <1>2, <1>3, AfterInstallCol

LEMMA DropCatalogPrefixCol ==
  ASSUME Inv, Locks, ColInv, NEW c \in Clients, DropCatalogPrefix(c)
  PROVE  ColInv'
<1>1. /\ catalog_wal' = catalog_wal \/ catalog_wal' = [catalog_wal EXCEPT !.base = catalog.mark]
      /\ UNCHANGED <<journal, stored, catalog, dirs, collection, broken>>
  BY DEF DropCatalogPrefix
<1>2. DirInv' /\ (NoLive' <=> NoLive)
  BY <1>1, DirSame DEF ColInv, NoLive
<1>3. CatInv' /\ \A k : Entered(k)' <=> Entered(k)
  <2>1. catalog_wal \in [base : Nat, records : Seq(Nat)] /\ catalog.mark \in Nat
    BY DEF ColInv, CatInv
  <2>2. catalog_wal' \in [base : Nat, records : Seq(Nat)] /\ catalog_wal'.records = catalog_wal.records
    BY <1>1, <2>1
  <2>3. \A l \in stored' \cap CatalogDecisions : Entered(l)
    BY <1>1 DEF ColInv, CatInv
  <2> QED BY <1>1, <2>2, <2>3, CatKept DEF ColInv
<1> QED BY <1>1, <1>2, <1>3, AfterInstallCol

\* Removing the trash touches no other directory.
LEMMA WithoutTrash ==
  ASSUME ColInv, UNCHANGED <<journal, stored>>, broken \subseteq broken',
         dirs' \in {dirs, Without(dirs, {"trash"})}
  PROVE  /\ DirInv' /\ (NoLive' <=> NoLive)
         /\ "staging" \in DOMAIN dirs => "staging" \in DOMAIN dirs'
         /\ ~NoLive => dirs'["live"] = dirs["live"]
<1>1. CASE dirs' = dirs
  BY <1>1, DirSame DEF ColInv, NoLive
<1>2. CASE dirs' = Without(dirs, {"trash"})
  <2>1. DOMAIN dirs' = DOMAIN dirs \ {"trash"} /\ \A x \in DOMAIN dirs' : dirs'[x] = dirs[x]
    BY <1>2 DEF Without
  <2>2. /\ NoLive' <=> NoLive
        /\ "staging" \in DOMAIN dirs' <=> "staging" \in DOMAIN dirs
        /\ ~NoLive => dirs'["live"] = dirs["live"]
        /\ "staging" \in DOMAIN dirs => dirs'["staging"] = dirs["staging"]
    BY <2>1 DEF NoLive
  <2>3. Created /\ ~NoLive => \A k \in stored' \cap Due : Has(dirs["live"], k)
    BY DEF ColInv, DirInv, LogOf
  <2> QED BY <2>2, <2>3, DirKept DEF ColInv
<1> QED BY <1>1, <1>2

LEMMA RemoveTrashCol ==
  ASSUME Inv, Locks, ColInv, NEW c \in Clients, RemoveTrash(c)
  PROVE  ColInv'
<1>1. /\ dirs' \in {dirs, Without(dirs, {"trash"})}
      /\ UNCHANGED <<journal, stored, catalog, catalog_wal, collection, broken>>
  BY DEF RemoveTrash
<1>2. CatInv' /\ \A k : Entered(k)' <=> Entered(k)
  <2>1. \A l \in stored' \cap CatalogDecisions : Entered(l)
    BY <1>1 DEF ColInv, CatInv
  <2> QED BY <1>1, <2>1, CatSame DEF ColInv
<1>3. /\ DirInv' /\ (NoLive' <=> NoLive)
      /\ "staging" \in DOMAIN dirs => "staging" \in DOMAIN dirs'
      /\ ~NoLive => dirs'["live"] = dirs["live"]
  BY <1>1, WithoutTrash
<1> QED BY <1>2, <1>3, AfterInstallCol
-----------------------------------------------------------------------------
LEMMA AloneJobs ==
  ASSUME Inv, Locks, NEW c \in Clients, Alone(job[c].op), HoldsGate(c),
         NEW r, job' = [job EXCEPT ![c] = r], ColJob(r)'
  PROVE  ColJobs'
<1>1. \A d \in Clients : job'[d] = IF d = c THEN r ELSE job[d]
  BY JobOf
<1>2. \A d \in Clients : d # c => job[d].op \in {"none", "sql"}
  BY AloneOthers
<1>3. \A d \in Clients : \A j : j = job'[d] => ColJob(j)'
  BY <1>1, <1>2, FreeJob
<1> QED BY <1>3, JobsNext

LEMMA GoesLive ==
  ASSUME dirs' = Renamed(dirs, "staging", "live")
  PROVE  /\ DOMAIN dirs' = (DOMAIN dirs \ {"staging"}) \cup {"live"}
         /\ dirs'["live"] = dirs["staging"]
         /\ ~NoLive' /\ "staging" \notin DOMAIN dirs'
<1>1. DOMAIN dirs' = (DOMAIN dirs \ {"staging"}) \cup {"live"} /\ dirs'["live"] = dirs["staging"]
  BY DEF Renamed
<1> QED BY <1>1 DEF NoLive

\* The directory of a new collection.
LEMMA CreatedDir ==
  ASSUME Inv, DirInv, UNCHANGED <<journal, stored>>, Created, NoLive,
         dirs' = Renamed(dirs, "staging", "live")
  PROVE  DirInv' /\ ~NoLive' /\ dirs'["live"] = <<>> /\ Due = {}
<1>1. dirs["staging"] = <<>> /\ Due = {}
  BY DEF DirInv
<1>2. dirs'["live"] = <<>> /\ ~NoLive' /\ "staging" \notin DOMAIN dirs'
  BY <1>1, GoesLive
<1>s. PICK s : s = <<>>
  OBVIOUS
<1>3. LogOf(s)'
  <2>1. s \in Seq(Nat) /\ Len(s) = 0
    BY <1>s, EmptySequence
  <2> QED BY <1>1, <2>1, SameWorld DEF LogOf
<1>4. LogOf(dirs["live"])' <=> LogOf(s)'
  <2>1. dirs'["live"] = s
    BY <1>2, <1>s
  <2> QED BY <2>1 DEF LogOf
<1>5. DirInv'
  BY <1>2, <1>3, <1>4 DEF DirInv
<1> QED BY <1>1, <1>2, <1>5

LEMMA InstallCreateCol ==
  ASSUME Inv, Locks, ColInv, NEW c \in Clients, InstallCreate(c)
  PROVE  ColInv'
<1>0. PICK o \in FileOutcomes :
        /\ WroteFile(o)
        /\ dirs' = IF Happened(o) THEN Renamed(dirs, "staging", "live") ELSE dirs
        /\ collection' = IF o = "ok" THEN [Fresh EXCEPT !.open = TRUE] ELSE collection
        /\ To(c, IF o = "ok" THEN "checkpoint" ELSE "audit")
        /\ Degrade(o # "ok")
  BY DEF InstallCreate
<1>1. /\ job[c].pc = "install" /\ job[c].op = "create" /\ Alone(job[c].op) /\ HoldsGate(c)
      /\ UNCHANGED <<journal, stored, catalog, catalog_wal, phase, broken>>
  BY DEF InstallCreate, Alone, HoldsGate
<1>2. Created /\ Due = {}
  BY <1>1, AloneLast DEF Undecided
<1>3. ColJob(job[c])
  BY DEF ColInv, ColJobs
<1>4. ~collection.open /\ NoLive /\ "staging" \in DOMAIN dirs
  BY <1>1, <1>3 DEF ColJob
<1>5. Settled'
  BY <1>1, SettledKept DEF ColInv
<1>6. CatInv' /\ \A k : Entered(k)' <=> Entered(k)
  <2>1. \A l \in stored' \cap CatalogDecisions : Entered(l)
    BY <1>1 DEF ColInv, CatInv
  <2> QED BY <1>1, <2>1, CatSame DEF ColInv
<1>7. DirInv' /\ (o = "ok" => ~NoLive')
  <2>1. CASE Happened(o)
    BY <1>0, <1>1, <1>2, <1>4, <2>1, CreatedDir DEF ColInv
  <2>2. CASE ~Happened(o)
    BY <1>0, <1>1, <2>2, DirSame DEF ColInv, Happened
  <2> QED BY <2>1, <2>2
<1>p. PICK p : p = IF o = "ok" THEN "checkpoint" ELSE "audit"
  OBVIOUS
<1>r. PICK r : r = [job[c] EXCEPT !.pc = p]
  OBVIOUS
<1>8. /\ job' = [job EXCEPT ![c] = r] /\ r.op = "create" /\ r.tx = job[c].tx /\ r.pc = p
      /\ r.ok = job[c].ok /\ phase = "up"
  BY <1>0, <1>1, <1>p, <1>r, JobTyped DEF To, Job
<1>9. /\ o = "ok" => collection'.open /\ collection'.rows = <<>>
      /\ o # "ok" => ~collection'.open
      /\ Shaped'
  <2>1. Shaped /\ <<>> \in Seq(Nat)
    BY EmptySequence DEF ColInv, MemInv
  <2> QED BY <1>0, <1>4, <2>1 DEF Fresh, Shaped
<1>10. ColJob(r)'
  <2>1. CASE o = "ok"
    <3>t. PICK t : t = job[c].tx
      OBVIOUS
    <3>1. r.ok => Entered(t)'
      BY <1>1, <1>3, <1>6, <1>8, <3>t DEF ColJob
    <3>2. r.ok => Entered(r.tx)'
      BY <1>8, <3>1, <3>t DEF Entered
    <3> QED BY <1>7, <1>8, <1>9, <1>p, <2>1, <3>2, CatalogJob DEF Alone
  <2>2. CASE o # "ok"
    BY <1>8, <1>p, <2>2 DEF ColJob, Alone, ColOps, Holder, Appending
  <2> QED BY <2>1, <2>2
<1>11. ColJobs'
  BY <1>1, <1>8, <1>10, AloneJobs
<1>12. MemInv'
  <2>1. Restored'
    BY <1>1, <1>8 DEF Restored
  <2>2. Created' /\ Due' = {}
    BY <1>1, <1>2, SameWorld
  <2>3. Opened'
    BY <1>7, <1>9, <2>2 DEF Opened
  <2>4. Missing'
    BY <2>2 DEF Missing
  <2>5. Shown'
    <3>1. o = "ok" => \A k : ~Has(collection.rows, k)'
      <4>1. Len(<<>>) = 0
        OBVIOUS
      <4> QED BY <1>9, <4>1 DEF Has
    <3>2. Len(<<>>) = 0
      OBVIOUS
    <3>3. o = "ok" => 1 .. Len(collection'.rows) = {}
      BY <1>9, <3>2
    <3> QED BY <1>9, <2>2, <3>1, <3>3 DEF Shown
  <2> QED BY <1>9, <2>1, <2>3, <2>4, <2>5 DEF MemInv
<1> QED BY <1>5, <1>6, <1>7, <1>11, <1>12 DEF ColInv

\* The directories of a dropped collection.
LEMMA DroppedDir ==
  ASSUME DirInv, ~Created', "staging" \in DOMAIN dirs' => "staging" \in DOMAIN dirs /\ dirs'["staging"] = dirs["staging"]
  PROVE  DirInv'
  BY DEF DirInv

LEMMA StagingStays ==
  ASSUME dirs' \in {dirs, Trashed(dirs), Renamed(dirs, "live", "trash"), Without(dirs, {"trash"})}
  PROVE  "staging" \in DOMAIN dirs' => "staging" \in DOMAIN dirs /\ dirs'["staging"] = dirs["staging"]
  BY DEF Trashed, Renamed, Without

LEMMA InstallDropCol ==
  ASSUME Inv, Locks, ColInv, NEW c \in Clients, InstallDrop(c)
  PROVE  ColInv'
<1>0. PICK o \in FileOutcomes :
        /\ WroteFile(o)
        /\ dirs' = IF Happened(o) THEN Trashed(dirs) ELSE dirs
        /\ collection' = Fresh
        /\ job' = [job EXCEPT ![c].pc = "checkpoint", ![c].ok = @ /\ o = "ok"]
        /\ Degrade(o # "ok")
  BY DEF InstallDrop
<1>1. /\ job[c].pc = "install" /\ job[c].op = "drop" /\ Alone(job[c].op) /\ HoldsGate(c)
      /\ UNCHANGED <<journal, stored, catalog, catalog_wal, phase, broken>>
  BY DEF InstallDrop, Alone, HoldsGate
<1>2. ~Created
  BY <1>1, AloneLast DEF Undecided
<1>3. ColJob(job[c])
  BY DEF ColInv, ColJobs
<1>5. Settled'
  BY <1>1, SettledKept DEF ColInv
<1>6. CatInv' /\ \A k : Entered(k)' <=> Entered(k)
  <2>1. \A l \in stored' \cap CatalogDecisions : Entered(l)
    BY <1>1 DEF ColInv, CatInv
  <2> QED BY <1>1, <2>1, CatSame DEF ColInv
<1>7. DirInv'
  <2>1. ~Created'
    BY <1>1, <1>2, SameWorld
  <2> QED BY <1>0, <2>1, StagingStays, DroppedDir DEF ColInv
<1>r. PICK r : r = [job[c] EXCEPT !.pc = "checkpoint", !.ok = (job[c].ok /\ o = "ok")]
  OBVIOUS
<1>8. /\ job' = [job EXCEPT ![c] = r] /\ r.op = "drop" /\ r.tx = job[c].tx /\ r.pc = "checkpoint"
      /\ r.ok => job[c].ok
  <2>1. job[c] \in Job
    BY JobTyped
  <2>2. job' = [job EXCEPT ![c].pc = "checkpoint", ![c].ok = (job[c].ok /\ o = "ok")]
    BY <1>0, <2>1 DEF Inv, Jobs, Job
  <2> QED BY <1>1, <1>r, <2>1, <2>2 DEF Job
<1>p. phase = "up"
  BY <1>1, JobTyped
<1>9. ~collection'.open /\ Shaped'
  <2>1. <<>> \in Seq(Nat)
    BY EmptySequence
  <2> QED BY <1>0, <2>1 DEF Fresh, Shaped
<1>10. ColJob(r)'
  <2>t. PICK t : t = job[c].tx
    OBVIOUS
  <2>1. r.ok => Entered(t)'
    BY <1>1, <1>3, <1>6, <1>8, <2>t DEF ColJob
  <2>2. r.ok => Entered(r.tx)'
    BY <1>8, <2>1, <2>t DEF Entered
  <2> QED BY <1>8, <1>9, <2>2, CatalogJob DEF Alone
<1>11. ColJobs'
  BY <1>1, <1>8, <1>10, AloneJobs
<1>12. MemInv'
  <2>1. Restored'
    BY <1>1, <1>p DEF Restored
  <2>2. ~Created'
    BY <1>1, <1>2, SameWorld
  <2>3. Opened' /\ Missing' /\ Shown'
    BY <1>9, <2>2 DEF Opened, Missing, Shown
  <2> QED BY <1>9, <2>1, <2>3 DEF MemInv
<1> QED BY <1>5, <1>6, <1>7, <1>11, <1>12 DEF ColInv
-----------------------------------------------------------------------------
(* Writes of the collection. *)

\* The holder of the collection's lock publishes its transaction.
LEMMA Publish ==
  ASSUME Inv, Locks, ColInv, phase = "up", NEW c \in Clients, Unshown(job[c]),
         NEW t, t = job[c].tx, NEW r, job' = [job EXCEPT ![c] = r], ~Unshown(r),
         UNCHANGED journal, broken \subseteq broken',
         collection' = [collection EXCEPT !.rows = Append(@, t)]
  PROVE  Shaped' /\ Shown' /\ collection'.open = collection.open
<1>s. PICK s : s = collection.rows
  OBVIOUS
<1>1. Holder(job[c]) /\ \A d \in Clients : Holder(job[d]) => d = c
  BY OneHolder
<1>2. t \in Due /\ t \in Nat /\ \A k \in Due : k <= t
  BY <1>1, WorldIs DEF ColInv, ColJobs, ColJob
<1>3. s \in Seq(Nat) /\ collection \in [open : BOOLEAN, rows : Seq(Nat)]
  BY <1>s DEF ColInv, MemInv, Shaped
<1>a. PICK a : a = Append(s, t)
  OBVIOUS
<1>4. /\ a \in Seq(Nat) /\ Len(a) = Len(s) + 1 /\ Len(s) \in Nat
      /\ \A i \in 1 .. Len(s) : a[i] = s[i]
      /\ a[Len(s) + 1] = t
      /\ \A i : i \in 1 .. Len(a) <=> i \in 1 .. Len(s) \/ i = Len(s) + 1
      /\ \A k : Has(a, k) <=> Has(s, k) \/ k = t
  BY <1>2, <1>3, <1>a, HasAppend
<1>5. collection' = [collection EXCEPT !.rows = a]
  BY <1>s, <1>a
<1>6. Shaped' /\ collection'.open = collection.open /\ collection'.rows = a
  BY <1>3, <1>4, <1>5 DEF Shaped
<1>7. \A d \in Clients :
           /\ job'[d].tx = IF d = c THEN r.tx ELSE job[d].tx
           /\ Unshown(job[d])' <=> IF d = c THEN Unshown(r) ELSE Unshown(job[d])
  BY NextJobs
<1>8. \A d \in Clients : ~Unshown(job[d])'
  BY <1>1, <1>7, OneHolder
<1>9. Shown'
  <2> SUFFICES ASSUME Created', collection'.open, broken' = {} PROVE
    /\ \A i, j \in 1 .. Len(collection'.rows) : i < j => collection'.rows[i] < collection'.rows[j]
    /\ \A k : Has(collection.rows, k)' =>
         k \in Due' /\ \A d \in Clients : job'[d].tx = k => ~Unshown(job[d])'
    /\ \A k \in Due' :
         \/ Has(collection.rows, k)'
         \/ \E d \in Clients : job'[d].tx = k /\ Unshown(job[d])'
         \/ Stuck'
    BY DEF Shown
  <2>0. broken = {} /\ Created
    BY SameWorld
  <2>1. /\ \A i, j \in 1 .. Len(s) : i < j => s[i] < s[j]
        /\ \A k : Has(s, k) => k \in Due /\ k # t
        /\ \A k \in Due : Has(s, k) \/ k = t
    <3>1. ~Stuck
      BY <1>1 DEF Stuck
    <3>2. \A d \in Clients : Unshown(job[d]) => job[d].tx = t
      BY <1>1, OneHolder
    <3> QED BY <1>6, <1>s, <2>0, <3>1, <3>2 DEF ColInv, MemInv, Shown
  <2>2. \A k : Has(collection.rows, k)' <=> Has(a, k)
    BY <1>6 DEF Has
  <2>3. \A i \in 1 .. Len(s) : s[i] < t
    <3> SUFFICES ASSUME NEW i \in 1 .. Len(s) PROVE s[i] < t
      OBVIOUS
    <3>1. Has(s, s[i])
      BY DEF Has
    <3>2. s[i] \in Due /\ s[i] # t /\ s[i] \in Nat
      BY <2>1, <3>1, WorldIs
    <3> QED BY <1>2, <3>2
  <2>4. \A i, j \in 1 .. Len(a) : i < j => a[i] < a[j]
    <3> SUFFICES ASSUME NEW i \in 1 .. Len(a), NEW j \in 1 .. Len(a), i < j PROVE a[i] < a[j]
      OBVIOUS
    <3>1. i \in 1 .. Len(s)
      BY <1>4
    <3>2. CASE j = Len(s) + 1
      BY <1>4, <2>3, <3>1, <3>2
    <3>3. CASE j \in 1 .. Len(s)
      BY <1>4, <2>1, <3>1, <3>3
    <3> QED BY <1>4, <3>2, <3>3
  <2> QED BY <1>2, <1>4, <1>6, <1>8, <2>1, <2>2, <2>4, SameWorld
<1> QED BY <1>6, <1>9

\* A marker is written for what has been projected.
LEMMA MarkKeeps ==
  ASSUME Inv, Locks, ColInv, NEW c \in Clients, MarkStored(c)
  PROVE  Settled' /\ CatInv' /\ DirInv' /\ \A k : Entered(k)' <=> Entered(k)
<1>t. PICK t : t = job[c].tx
  OBVIOUS
<1>0. /\ job[c].pc = "mark"
      /\ stored' = stored \/ (job[c].ok /\ stored' = stored \cup {t})
      /\ UNCHANGED <<journal, catalog, catalog_wal, dirs, broken>>
  BY <1>t DEF MarkStored, Happened
<1>1. ColJob(job[c])
  BY DEF ColInv, ColJobs
<1>2. t \in DOMAIN journal /\ journal[t].op = job[c].op
  BY <1>0, <1>t, JobTyped DEF Locks, Owned, Undecided, MarkStored
<1>m. job[c].pc = "mark"
  BY DEF MarkStored
<1>3. \A l \in stored' \cap CatalogDecisions : Entered(l)
  <2>1. job[c].ok /\ t \in CatalogDecisions => Entered(t)
    BY <1>m, <1>1, <1>2, <1>t, WorldIs DEF ColJob
  <2>2. \A l \in stored \cap CatalogDecisions : Entered(l)
    BY DEF ColInv, CatInv
  <2> QED BY <1>0, <2>1, <2>2
<1>4. CatInv' /\ \A k : Entered(k)' <=> Entered(k)
  BY <1>0, <1>3, CatSame DEF ColInv
<1>5. Settled'
  BY <1>0, SettledKept DEF ColInv
<1>6. DirInv'
  <2>1. Created /\ ~NoLive => \A k \in stored' \cap Due : Has(dirs["live"], k)
    <3>1. Created /\ ~NoLive => \A k \in stored \cap Due : Has(dirs["live"], k)
      BY DEF ColInv, DirInv, LogOf
    <3>2. t \in Due => Has(dirs["live"], t)
      BY <1>m, <1>1, <1>2, <1>t, WorldIs DEF ColJob
    <3> QED BY <1>0, <3>1, <3>2
  <2>2. Created /\ NoLive => \A l : Latest(l) /\ l \in stored' => l \in stored
    <3>1. Created /\ Latest(t) => job[c].op = "create"
      BY <1>2, WorldIs
    <3>2. job[c].op = "create" => ~NoLive
      BY <1>m, <1>1 DEF ColJob
    <3> QED BY <1>0, <3>1, <3>2
  <2>3. NoLive' <=> NoLive
    BY <1>0 DEF NoLive
  <2> QED BY <1>0, <2>1, <2>2, <2>3, DirKept DEF ColInv
<1> QED BY <1>4, <1>5, <1>6

LEMMA MarkStoredCol ==
  ASSUME Inv, Locks, ColInv, NEW c \in Clients, MarkStored(c)
  PROVE  ColInv'
<1>t. PICK t : t = job[c].tx
  OBVIOUS
<1>0. PICK p \in {"degrade", "audit"} :
        /\ To(c, p)
        /\ poisoned \subseteq poisoned' /\ (degraded => degraded')
  BY DEF MarkStored, Wrote, Degrade
<1>1. /\ job[c].pc = "mark"
      /\ UNCHANGED <<journal, dirs, catalog, catalog_wal, phase, broken>>
      /\ job[c].op = "put" => collection' = [collection EXCEPT !.rows = Append(@, t)]
      /\ job[c].op # "put" => collection' = collection
  BY <1>t DEF MarkStored
<1>2. Settled' /\ CatInv' /\ DirInv' /\ \A k : Entered(k)' <=> Entered(k)
  BY MarkKeeps
<1>3. NoLive' <=> NoLive
  BY <1>1 DEF NoLive
<1>r. PICK r : r = [job[c] EXCEPT !.pc = p]
  OBVIOUS
<1>4. /\ job' = [job EXCEPT ![c] = r] /\ r.op = job[c].op /\ r.tx = job[c].tx /\ r.pc = p
      /\ r.ok = job[c].ok /\ phase = "up" /\ r.pc \in {"degrade", "audit"}
  BY <1>0, <1>1, <1>r, JobTyped DEF To, Job
<1>5. ColJob(job[c])
  BY DEF ColInv, ColJobs
<1>6. ~Unshown(r) /\ ~Appending(r) /\ ~Appending(job[c]) /\ ~Dropping(job[c])
      /\ (Holder(r) => Holder(job[c])) /\ (job[c].op # "put" => ~Unshown(job[c]))
      /\ (job[c].op = "put" => Unshown(job[c]) /\ Holder(job[c]))
  BY <1>1, <1>4 DEF Unshown, Appending, Dropping, Holder, ColOps
<1>7. ASSUME collection'.open = collection.open PROVE ColJobs'
  <2>1. ColJob(r)'
    <3>1. Holder(r) => r.tx \in Due /\ \A k \in Due : k <= r.tx
      BY <1>4, <1>5, <1>6 DEF ColJob
    <3>2. r.op \in ColOps => collection.open /\ Created /\ ~NoLive
      BY <1>4, <1>5 DEF ColJob
    <3>3. ~Appending(r)' /\ (Holder(r)' <=> Holder(r))
      BY <1>6 DEF Appending, Holder
    <3> QED BY <1>1, <1>3, <1>4, <1>7, <3>1, <3>2, <3>3, SameWorld DEF ColJob
  <2> QED BY <1>1, <1>2, <1>3, <1>4, <1>7, <2>1, JobsKept DEF ColInv
<1>8. CASE job[c].op # "put"
  <2>1. MemInv'
    BY <1>0, <1>1, <1>3, <1>4, <1>6, <1>8, MemJob DEF ColInv
  <2>2. ColJobs'
    BY <1>1, <1>7, <1>8
  <2> QED BY <1>2, <2>1, <2>2 DEF ColInv
<1>9. CASE job[c].op = "put"
  <2>1. Shaped' /\ Shown' /\ collection'.open = collection.open
    BY <1>1, <1>4, <1>6, <1>9, <1>t, Publish
  <2>2. ColJobs'
    BY <1>7, <2>1
  <2>3. \A d \in Clients :
           /\ job'[d].tx = IF d = c THEN r.tx ELSE job[d].tx
           /\ Unshown(job[d])' <=> IF d = c THEN Unshown(r) ELSE Unshown(job[d])
           /\ Appending(job[d])' <=> IF d = c THEN Appending(r) ELSE Appending(job[d])
           /\ Holder(job[d])' <=> IF d = c THEN Holder(r) ELSE Holder(job[d])
           /\ Dropping(job[d])' <=> IF d = c THEN Dropping(r) ELSE Dropping(job[d])
    <3>1. job' = [job EXCEPT ![c] = r]
      BY <1>4
    <3> QED BY <3>1, NextJobs
  <2>4. Opened'
    <3>1. \A d \in Clients : Dropping(job[d]) => Dropping(job[d])'
      BY <1>6, <2>3
    <3>2. Opened
      BY <1>4 DEF ColInv, MemInv
    <3> QED BY <1>0, <1>1, <1>3, <2>1, <3>1, <3>2, SameWorld DEF Opened
  <2>5. Missing'
    <3>1. ~Stuck
      BY <1>6, <1>9 DEF Stuck
    <3>2. \A d \in Clients : ~Appending(job[d])
      BY <1>6, <1>9, OneHolder
    <3>3. Created /\ ~NoLive /\ broken = {} =>
            \A k \in Due : ~Has(dirs["live"], k) => "collection" \in poisoned
      BY <1>4, <3>1, <3>2 DEF ColInv, MemInv, Missing
    <3>4. \A k : Has(dirs["live"], k)' <=> Has(dirs["live"], k)
      BY <1>1 DEF Has
    <3> QED BY <1>0, <1>1, <1>3, <3>3, <3>4, SameWorld DEF Missing
  <2>6. Restored'
    BY <1>1, <1>4 DEF Restored
  <2> QED BY <1>2, <2>1, <2>2, <2>4, <2>5, <2>6 DEF ColInv, MemInv
<1> QED BY <1>8, <1>9
-----------------------------------------------------------------------------
LEMMA LiveLog == ASSUME NEW a, dirs'["live"] = a PROVE LogOf(dirs["live"])' <=> LogOf(a)'
  BY DEF LogOf

\* The collection's WAL takes a transaction it does not have, all earlier ones
\* being there unless a projection failed.
LEMMA LiveGrows ==
  ASSUME Inv, DirInv, Created, ~NoLive, NEW t \in Due, ~Has(dirs["live"], t),
         dirs' = [dirs EXCEPT !["live"] = Append(@, t)], UNCHANGED <<journal, stored>>,
         broken \subseteq broken',
         broken' = {} => \A k \in Due : k < t => Has(dirs["live"], k)
  PROVE  /\ DirInv' /\ ~NoLive' /\ ("staging" \in DOMAIN dirs' <=> "staging" \in DOMAIN dirs)
         /\ \A k : Has(dirs["live"], k)' <=> Has(dirs["live"], k) \/ k = t
<1>s. PICK s : s = dirs["live"]
  OBVIOUS
<1>1. LogOf(s)
  BY <1>s DEF DirInv
<1>2. s \in Seq(Nat) /\ t \in Nat
  BY <1>1, WorldIs DEF LogOf
<1>a. PICK a : a = Append(s, t)
  OBVIOUS
<1>3. /\ a \in Seq(Nat) /\ Len(a) = Len(s) + 1 /\ Len(s) \in Nat
      /\ \A i \in 1 .. Len(s) : a[i] = s[i]
      /\ a[Len(s) + 1] = t
      /\ \A i : i \in 1 .. Len(a) <=> i \in 1 .. Len(s) \/ i = Len(s) + 1
      /\ \A k : Has(a, k) <=> Has(s, k) \/ k = t
  BY <1>2, <1>a, HasAppend
<1>4. /\ DOMAIN dirs' = DOMAIN dirs /\ dirs'["live"] = a
      /\ \A x : x # "live" /\ x \in DOMAIN dirs => dirs'[x] = dirs[x]
  BY <1>s, <1>a DEF NoLive
<1>5. ~NoLive'
  BY <1>4 DEF NoLive
<1>6. \A k : Has(dirs["live"], k)' <=> Has(dirs["live"], k) \/ k = t
  <2>1. \A k : Has(dirs["live"], k)' <=> Has(a, k)
    BY <1>4 DEF Has
  <2> QED BY <1>3, <1>s, <2>1
<1>7. LogOf(a)'
  <2>0. \A i \in 1 .. Len(s) : s[i] \in Due /\ s[i] \in Nat /\ s[i] # t
    BY <1>1, <1>s, WorldIs DEF LogOf, Has
  <2>1. \A i \in 1 .. Len(a) : a[i] \in Due
    BY <1>3, <2>0
  <2>2. \A i, j \in 1 .. Len(a) : a[i] = a[j] => i = j
    <3>1. \A i, j \in 1 .. Len(s) : s[i] = s[j] => i = j
      BY <1>1 DEF LogOf
    <3> QED BY <1>3, <2>0, <3>1
  <2>3. \A k \in stored \cap Due : Has(a, k)
    BY <1>1, <1>3 DEF LogOf
  <2>4. ASSUME broken' = {}
        PROVE  /\ \A i, j \in 1 .. Len(a) : i < j => a[i] < a[j]
               /\ \A k \in Due : ~Has(a, k) => \A i \in 1 .. Len(a) : a[i] < k
    <3>1. /\ \A i, j \in 1 .. Len(s) : i < j => s[i] < s[j]
          /\ \A k \in Due : ~Has(s, k) => \A i \in 1 .. Len(s) : s[i] < k
      BY <1>1, <2>4 DEF LogOf
    <3>2. \A i \in 1 .. Len(s) : s[i] < t
      BY <1>s, <3>1
    <3>3. ASSUME NEW i \in 1 .. Len(a), NEW j \in 1 .. Len(a), i < j PROVE a[i] < a[j]
      <4>1. i \in 1 .. Len(s)
        BY <1>3, <3>3
      <4>2. CASE j = Len(s) + 1
        BY <1>3, <3>2, <4>1, <4>2
      <4>3. CASE j \in 1 .. Len(s)
        BY <1>3, <3>1, <3>3, <4>1, <4>3
      <4> QED BY <1>3, <4>2, <4>3
    <3>4. ASSUME NEW k \in Due, ~Has(a, k), NEW i \in 1 .. Len(a) PROVE a[i] < k
      <4>1. ~Has(s, k) /\ k # t /\ k \in Nat
        BY <1>3, <3>4, WorldIs
      <4>2. t < k
        BY <1>2, <1>s, <2>4, <4>1
      <4>3. CASE i = Len(s) + 1
        BY <1>3, <4>2, <4>3
      <4>4. CASE i \in 1 .. Len(s)
        BY <1>3, <3>1, <4>1, <4>4
      <4> QED BY <1>3, <4>3, <4>4
    <3> QED BY <3>3, <3>4
  <2> QED BY <1>3, <2>1, <2>2, <2>3, <2>4, SameWorld DEF LogOf
<1>8. LogOf(dirs["live"])' <=> LogOf(a)'
  <2>1. dirs'["live"] = a
    BY <1>4
  <2> QED BY <2>1, LiveLog
<1>9. DirInv'
  <2>1. "staging" \in DOMAIN dirs' => dirs'["staging"] = <<>>
    BY <1>4 DEF DirInv
  <2>2. "staging" \notin DOMAIN dirs'
    BY <1>4 DEF DirInv
  <2> QED BY <1>5, <1>7, <1>8, <2>1, <2>2 DEF DirInv
<1> QED BY <1>4, <1>5, <1>6, <1>9

Beside(c) == \A d \in Clients : d # c => ~Holder(job[d])

\* The others' jobs, when the holder writes the WAL.
LEMMA JobsBeside ==
  ASSUME Inv, ColJobs, NEW c \in Clients, NEW r, job' = [job EXCEPT ![c] = r],
         Beside(c), UNCHANGED journal, collection'.open = collection.open, \A k : Entered(k)' <=> Entered(k),
         NoLive' <=> NoLive, "staging" \in DOMAIN dirs' <=> "staging" \in DOMAIN dirs,
         ColJob(r)'
  PROVE  ColJobs'
<1>1. \A d \in Clients : job'[d] = IF d = c THEN r ELSE job[d]
  BY JobOf
<1>2. \A j : ColJob(j) /\ ~Holder(j) => ColJob(j)'
  <2> SUFFICES ASSUME NEW j, ColJob(j), ~Holder(j) PROVE ColJob(j)'
    OBVIOUS
  <2>1. ~Appending(j)' /\ ~Holder(j)' /\ (j.op \in ColOps => j.pc # "mark")
    BY DEF Appending, Holder
  <2> QED BY <2>1, SameWorld DEF ColJob
<1>3. \A d \in Clients : \A j : j = job'[d] => ColJob(j)'
  BY <1>1, <1>2 DEF ColJobs, Beside
<1> QED BY <1>3, JobsNext

\* What the holder of the collection's lock finds.
LEMMA WriterSees ==
  ASSUME Inv, Locks, ColInv, phase = "up", NEW c \in Clients, Appending(job[c])
  PROVE  /\ Created /\ ~NoLive /\ collection.open /\ Holder(job[c]) /\ Unshown(job[c])
         /\ job[c].tx \in Due /\ (\A k \in Due : k <= job[c].tx) /\ ~Has(dirs["live"], job[c].tx)
         /\ \A d \in Clients : d # c => ~Holder(job[d]) /\ ~Appending(job[d]) /\ ~Unshown(job[d])
         /\ broken = {} /\ "collection" \notin poisoned =>
              \A k \in Due : Has(dirs["live"], k) \/ k = job[c].tx
<1>1. ColJob(job[c])
  BY DEF ColInv, ColJobs
<1>2. Holder(job[c]) /\ Unshown(job[c]) /\ job[c].op \in ColOps
  BY OneHolder DEF Appending
<1>3. /\ Created /\ ~NoLive /\ collection.open
      /\ job[c].tx \in Due /\ (\A k \in Due : k <= job[c].tx) /\ ~Has(dirs["live"], job[c].tx)
  BY <1>1, <1>2 DEF ColJob
<1>4. \A d \in Clients : d # c => ~Holder(job[d]) /\ ~Appending(job[d]) /\ ~Unshown(job[d])
  BY <1>2, OneHolder
<1>5. ~Stuck
  BY <1>2 DEF Stuck
<1>6. broken = {} /\ "collection" \notin poisoned =>
        \A k \in Due : Has(dirs["live"], k) \/ k = job[c].tx
  BY <1>3, <1>4, <1>5 DEF ColInv, MemInv, Missing
<1> QED BY <1>2, <1>3, <1>4, <1>6

\* The write itself, whatever becomes of it.
LEMMA WriteCol ==
  ASSUME Inv, Locks, ColInv, phase = "up", NEW c \in Clients, Appending(job[c]),
         NEW t, t = job[c].tx, NEW o \in Outcomes("collection"), Wrote("collection", o),
         dirs' = LiveAppended(o, t), UNCHANGED <<journal, stored, catalog, catalog_wal, phase>>,
         broken \subseteq broken', collection'.open = collection.open, degraded => degraded',
         NEW r, job' = [job EXCEPT ![c] = r], r.op = job[c].op, r.tx = t,
         r.pc \in {"mark", "degrade", "audit"}, r.pc = "mark" => o = "ok",
         Shaped', Shown'
  PROVE  ColInv'
<1>1. /\ Created /\ ~NoLive /\ collection.open /\ Holder(job[c]) /\ Unshown(job[c])
      /\ t \in Due /\ (\A k \in Due : k <= t) /\ ~Has(dirs["live"], t)
      /\ \A d \in Clients : d # c => ~Holder(job[d]) /\ ~Appending(job[d]) /\ ~Unshown(job[d])
      /\ broken = {} /\ "collection" \notin poisoned =>
           \A k \in Due : Has(dirs["live"], k) \/ k = t
  BY WriterSees
<1>2. /\ Happened(o) => "collection" \notin poisoned
      /\ ~Happened(o) => "collection" \in poisoned' /\ o # "ok"
      /\ poisoned \subseteq poisoned'
  BY DEF Outcomes, Happened, Failures, Wrote
<1>3. \A k \in Due : k \in Nat /\ t \in Nat
  BY <1>1, WorldIs
<1>4. /\ DirInv' /\ ~NoLive' /\ ("staging" \in DOMAIN dirs' <=> "staging" \in DOMAIN dirs)
      /\ Happened(o) => \A k : Has(dirs["live"], k)' <=> Has(dirs["live"], k) \/ k = t
  <2>1. CASE Happened(o)
    <3>1. dirs' = [dirs EXCEPT !["live"] = Append(@, t)]
      BY <2>1 DEF LiveAppended
    <3>2. broken' = {} => \A k \in Due : k < t => Has(dirs["live"], k)
      BY <1>1, <1>2, <1>3, <2>1
    <3> QED BY <1>1, <3>1, <3>2, LiveGrows DEF ColInv
  <2>2. CASE ~Happened(o)
    <3>1. dirs' = dirs
      BY <2>2 DEF LiveAppended
    <3> QED BY <1>1, <2>2, <3>1, DirSame DEF ColInv, NoLive
  <2> QED BY <2>1, <2>2
<1>5. CatInv' /\ \A k : Entered(k)' <=> Entered(k)
  <2>1. \A l \in stored' \cap CatalogDecisions : Entered(l)
    BY DEF ColInv, CatInv
  <2> QED BY <2>1, CatSame DEF ColInv
<1>6. Settled'
  BY SettledKept DEF ColInv
<1>7. ColJobs'
  <2>1. job[c].op \in ColOps
    BY <1>1 DEF Holder
  <2>2. ColJob(r)'
    <3>1. ~Appending(r)'
      BY DEF Appending
    <3>2. r.pc = "mark" => Has(dirs["live"], t)'
      BY <1>2, <1>4
    <3>3. r.op \in ColOps /\ ~Alone(r.op) /\ r.op # "create" /\ r.op # "drop"
      BY <2>1 DEF ColOps, Alone
    <3>4. r.pc = "mark" => Has(dirs["live"], r.tx)'
      BY <3>2 DEF Has
    <3> QED BY <1>1, <1>4, <3>1, <3>3, <3>4, SameWorld DEF ColJob
  <2>3. NoLive' <=> NoLive
    BY <1>1, <1>4
  <2>4. Beside(c)
    BY <1>1 DEF Beside
  <2> QED BY <1>1, <1>4, <1>5, <2>2, <2>3, <2>4, JobsBeside DEF ColInv
<1>8. Missing'
  <2> SUFFICES ASSUME broken' = {}, NEW k \in Due', ~Has(dirs["live"], k)'
               PROVE  "collection" \in poisoned'
    BY DEF Missing
  <2>1. k \in Due
    BY SameWorld
  <2> QED BY <1>1, <1>2, <1>4, <2>1
<1>9. Opened'
  BY <1>1, <1>4, SameWorld DEF Opened
<1>10. Restored'
  BY DEF Restored
<1> QED BY <1>4, <1>5, <1>6, <1>7, <1>8, <1>9, <1>10 DEF ColInv, MemInv

LEMMA AppendPutCol ==
  ASSUME Inv, Locks, ColInv, NEW c \in Clients, AppendPut(c)
  PROVE  ColInv'
<1>t. PICK t : t = job[c].tx
  OBVIOUS
<1>0. PICK o \in Outcomes("collection") :
        /\ Wrote("collection", o)
        /\ dirs' = LiveAppended(o, t)
        /\ To(c, IF o = "ok" THEN "mark" ELSE "audit")
        /\ Degrade(o # "ok")
        /\ collection' = IF o = "ok" THEN collection
                         ELSE [collection EXCEPT !.rows = Append(@, t)]
  BY <1>t DEF AppendPut
<1>1. /\ job[c].pc = "append" /\ job[c].op = "put"
      /\ UNCHANGED <<journal, stored, catalog, catalog_wal, phase, broken>>
  BY DEF AppendPut
<1>2. degraded => degraded'
  BY <1>0 DEF Degrade
<1>p. PICK p : p = IF o = "ok" THEN "mark" ELSE "audit"
  OBVIOUS
<1>r. PICK r : r = [job[c] EXCEPT !.pc = p]
  OBVIOUS
<1>3. /\ job' = [job EXCEPT ![c] = r] /\ r.op = "put" /\ r.tx = t /\ r.pc = p /\ phase = "up"
      /\ r.op = job[c].op
  BY <1>0, <1>1, <1>p, <1>r, <1>t, JobTyped DEF To, Job
<1>4. Appending(job[c])
  BY <1>1 DEF Appending, ColOps
<1>5. Shaped' /\ Shown' /\ collection'.open = collection.open
  <2>1. CASE o = "ok"
    <3>1. collection' = collection
      BY <1>0, <2>1
    <3>2. Unshown(r)
      BY <1>3, <1>p, <2>1 DEF Unshown
    <3>3. /\ Unshown(job[c])
          /\ \A d \in Clients : d # c => ~Holder(job[d]) /\ ~Appending(job[d]) /\ ~Unshown(job[d])
          /\ ~Stuck
      BY <1>3, <1>4, WriterSees DEF Stuck
    <3>4. \A d \in Clients :
           /\ job'[d].tx = IF d = c THEN r.tx ELSE job[d].tx
           /\ Unshown(job[d])' <=> IF d = c THEN Unshown(r) ELSE Unshown(job[d])
           /\ Appending(job[d])' <=> IF d = c THEN Appending(r) ELSE Appending(job[d])
           /\ Holder(job[d])' <=> IF d = c THEN Holder(r) ELSE Holder(job[d])
           /\ Dropping(job[d])' <=> IF d = c THEN Dropping(r) ELSE Dropping(job[d])
      <4>1. job' = [job EXCEPT ![c] = r]
        BY <1>3
      <4> QED BY <4>1, NextJobs
    <3>5. \A d \in Clients : job'[d].tx = job[d].tx /\ (Unshown(job[d])' <=> Unshown(job[d]))
      BY <1>3, <1>t, <3>2, <3>3, <3>4
    <3>6. \A k : Has(collection.rows, k)' <=> Has(collection.rows, k)
      BY <3>1 DEF Has
    <3>7. Shown /\ Shaped
      BY <1>3 DEF ColInv, MemInv
    <3>8. Shown'
      BY <1>1, <3>1, <3>3, <3>5, <3>6, <3>7, SameWorld DEF Shown
    <3> QED BY <3>1, <3>7, <3>8 DEF Shaped
  <2>2. CASE o # "ok"
    <3>1. ~Unshown(r) /\ Unshown(job[c])
      BY <1>3, <1>4, <1>p, <2>2 DEF Unshown, Appending
    <3>2. collection' = [collection EXCEPT !.rows = Append(@, t)]
      BY <1>0, <2>2
    <3> QED BY <1>1, <1>3, <1>t, <3>1, <3>2, Publish
  <2> QED BY <2>1, <2>2
<1>6. r.pc \in {"mark", "degrade", "audit"} /\ (r.pc = "mark" => o = "ok")
  BY <1>3, <1>p
<1>7. broken \subseteq broken'
  BY <1>1
<1> QED BY <1>0, <1>1, <1>2, <1>3, <1>4, <1>5, <1>6, <1>7, <1>t, WriteCol

LEMMA AppendCollectionCol ==
  ASSUME Inv, Locks, ColInv, NEW c \in Clients, AppendCollection(c)
  PROVE  ColInv'
<1>t. PICK t : t = job[c].tx
  OBVIOUS
<1>0. PICK o \in Outcomes("collection") :
        /\ Wrote("collection", o)
        /\ dirs' = LiveAppended(o, t)
        /\ To(c, IF o = "ok" THEN "mark" ELSE "degrade")
        /\ broken' = IF o = "ok" THEN broken ELSE broken \cup {t}
        /\ collection' = IF o = "ok" THEN [collection EXCEPT !.rows = Append(@, t)]
                         ELSE collection
  BY <1>t DEF AppendCollection
<1>1. /\ job[c].pc = "append_collection" /\ job[c].op = "multi"
      /\ UNCHANGED <<journal, stored, catalog, catalog_wal, phase, degraded>>
  BY DEF AppendCollection, Locks, Owned, Sound
<1>p. PICK p : p = IF o = "ok" THEN "mark" ELSE "degrade"
  OBVIOUS
<1>r. PICK r : r = [job[c] EXCEPT !.pc = p]
  OBVIOUS
<1>3. /\ job' = [job EXCEPT ![c] = r] /\ r.op = "multi" /\ r.tx = t /\ r.pc = p /\ phase = "up"
      /\ r.op = job[c].op
  BY <1>0, <1>1, <1>p, <1>r, <1>t, JobTyped DEF To, Job
<1>4. Appending(job[c])
  BY <1>1 DEF Appending, ColOps
<1>5. Shaped' /\ Shown' /\ collection'.open = collection.open
  <2>1. CASE o # "ok"
    <3>1. collection' = collection /\ broken' # {}
      BY <1>0, <2>1
    <3>2. Shaped
      BY DEF ColInv, MemInv
    <3> QED BY <3>1, <3>2 DEF Shown, Shaped
  <2>2. CASE o = "ok"
    <3>1. ~Unshown(r) /\ Unshown(job[c])
      BY <1>3, <1>4, <1>p, <2>2 DEF Unshown, Appending
    <3>2. collection' = [collection EXCEPT !.rows = Append(@, t)] /\ broken \subseteq broken'
      BY <1>0, <2>2
    <3> QED BY <1>1, <1>3, <1>t, <3>1, <3>2, Publish
  <2> QED BY <2>1, <2>2
<1>6. r.pc \in {"mark", "degrade", "audit"} /\ (r.pc = "mark" => o = "ok")
  BY <1>3, <1>p
<1>7. broken \subseteq broken' /\ (degraded => degraded')
  BY <1>0, <1>1
<1> QED BY <1>0, <1>1, <1>3, <1>4, <1>5, <1>6, <1>7, <1>t, WriteCol
-----------------------------------------------------------------------------
(* Admission and decision. *)

LEMMA BeginCol ==
  ASSUME Inv, Locks, ColInv, NEW c \in Clients, NEW op \in Ops, Begin(c, op)
  PROVE  ColInv'
<1>p. PICK p : p = IF op = "sql" THEN "gate" ELSE "decide"
  OBVIOUS
<1>r. PICK r : r = [Idle EXCEPT !.op = op, !.pc = p]
  OBVIOUS
<1>1. /\ job' = [job EXCEPT ![c] = r] /\ phase = "up" /\ ~degraded /\ job[c] = Idle
      /\ op # "sql" => GateOpen(op)
      /\ UNCHANGED <<journal, stored, catalog, catalog_wal, collection, degraded, phase, poisoned, broken>>
  BY <1>p, <1>r DEF Begin
<1>2. r.op = op /\ r.pc = p /\ op \in AllOps /\ r.tx = 0
  BY <1>r, ConstantsAssumption DEF Idle
<1>3. Quiet(c, r)
  <2>1. r.pc \in {"gate", "decide"} /\ (r.pc = "gate" => r.op = "sql") /\ job[c].op = "none"
    BY <1>1, <1>2, <1>p DEF Idle
  <2>2. ~Unshown(job[c]) /\ ~Appending(job[c]) /\ ~Dropping(job[c])
    BY <2>1, FreeJob
  <2>3. ~Unshown(r) /\ ~Holder(r)
    BY <2>1 DEF Unshown, Appending, Holder, ColOps
  <2> QED BY <2>2, <2>3 DEF Quiet
<1>4. CASE op = "sql"
  <2>1. ColJob(r) /\ dirs' = dirs
    BY <1>2, <1>4, FreeJob DEF Begin
  <2> QED BY <1>1, <1>3, <2>1, AsideCol
<1>5. CASE op = "drop"
  <2>1. dirs' = dirs
    BY <1>5 DEF Begin
  <2>2. ColJob(r)
    BY <1>2, <1>5, <1>p DEF ColJob, Alone, Holder, Appending, ColOps
  <2> QED BY <1>1, <1>3, <2>1, <2>2, AsideCol
<1>6. CASE op \in ColOps
  <2>1. dirs' = dirs /\ collection.open /\ op # "sql"
    BY <1>6 DEF Begin, ColOps
  <2>2. \A d \in Clients : ~Dropping(job[d])
    BY <1>1, <2>1 DEF GateOpen, HoldsGate, Dropping, Alone
  <2>3. Created /\ ~NoLive
    BY <1>1, <2>1, <2>2 DEF ColInv, MemInv, Opened
  <2>4. ColJob(r)
    <3>1. r.op \notin {"create", "drop"} /\ ~Alone(r.op) /\ r.pc = "decide"
      BY <1>2, <1>6, <1>p, <2>1 DEF ColOps, Alone
    <3>2. ~Holder(r) /\ ~Appending(r)
      BY <3>1 DEF Holder, Appending
    <3> QED BY <2>1, <2>3, <3>1, <3>2 DEF ColJob
  <2> QED BY <1>1, <1>3, <2>1, <2>4, AsideCol
<1>7. CASE op = "create"
  <2>1. /\ ~collection.open /\ DOMAIN dirs \cap {"live", "staging"} = {} /\ GateOpen("create")
        /\ dirs' = [d \in DOMAIN dirs \cup {"staging"} |-> IF d = "staging" THEN <<>> ELSE dirs[d]]
    BY <1>7 DEF Begin
  <2>2. ~Created /\ NoLive
    BY <2>1 DEF ColInv, DirInv, NoLive
  <2>3. "staging" \in DOMAIN dirs' /\ dirs'["staging"] = <<>> /\ NoLive'
    BY <2>1, <2>2 DEF NoLive
  <2>4. ~Created' /\ ~collection'.open
    BY <1>1, <2>1, <2>2, SameWorld
  <2>5. DirInv'
    BY <2>3, <2>4 DEF DirInv
  <2>6. Settled'
    BY <1>1, SettledKept DEF ColInv
  <2>7. CatInv'
    <3>1. \A l \in stored' \cap CatalogDecisions : Entered(l)
      BY <1>1 DEF ColInv, CatInv
    <3> QED BY <1>1, <3>1, CatSame DEF ColInv
  <2>8. ColJob(r)'
    BY <1>2, <1>7, <1>p, <2>3, <2>4 DEF ColJob, Alone, Holder, Appending, ColOps
  <2>9. ColJobs'
    <3>1. \A d \in Clients : job'[d] = IF d = c THEN r ELSE job[d]
      BY <1>1, JobOf
    <3>2. \A d \in Clients : job[d].op \in {"none", "sql"}
      <4>1. \A d \in Clients : ~HoldsGate(d)
        BY <2>1 DEF GateOpen, Alone
      <4> QED BY <4>1 DEF HoldsGate, Locks, Owned, Sound, Idle
    <3>3. \A d \in Clients : \A j : j = job'[d] => ColJob(j)'
      BY <2>8, <3>1, <3>2, FreeJob
    <3> QED BY <3>3, JobsNext
  <2>10. MemInv'
    <3>1. Shaped' /\ Restored'
      BY <1>1 DEF ColInv, MemInv, Shaped, Restored
    <3>2. Opened' /\ Missing' /\ Shown'
      BY <2>4 DEF Opened, Missing, Shown
    <3> QED BY <3>1, <3>2 DEF MemInv
  <2> QED BY <2>5, <2>6, <2>7, <2>9, <2>10 DEF ColInv
<1> QED BY <1>2, <1>4, <1>5, <1>6, <1>7 DEF AllOps, ColOps

\* What a decision does to the collection's history.
LEMMA DecidedWorld ==
  ASSUME Inv, NEW d, journal' = Append(journal, d), NEW n, n = Len(journal) + 1
  PROVE  /\ n \in Nat /\ n \notin DOMAIN journal /\ (\A k \in DOMAIN journal : k < n)
         /\ DOMAIN journal' = DOMAIN journal \cup {n}
         /\ ~Alone(d.op) =>
              /\ CatalogDecisions' = CatalogDecisions /\ (Created' <=> Created)
              /\ \A l : Latest(l)' <=> Latest(l)
              /\ Due' = IF d.op \in ColOps /\ Created THEN Due \cup {n} ELSE Due
              /\ Decided(ColOps)' = IF d.op \in ColOps THEN Decided(ColOps) \cup {n} ELSE Decided(ColOps)
         /\ Alone(d.op) =>
              /\ CatalogDecisions' = CatalogDecisions \cup {n}
              /\ \A l : Latest(l)' <=> l = n
              /\ Created' <=> d.op = "create"
              /\ Due' = {} /\ Decided(ColOps)' = Decided(ColOps)
<1>1. /\ Len(journal) \in Nat /\ DOMAIN journal = 1 .. Len(journal)
      /\ DOMAIN journal' = DOMAIN journal \cup {n}
      /\ \A k \in DOMAIN journal : journal'[k] = journal[k]
      /\ journal'[n] = d
  BY AppendedJournal
<1>2. n \in Nat /\ n \notin DOMAIN journal /\ \A k \in DOMAIN journal : k < n /\ k \in Nat
  BY <1>1
<1>3. CatalogDecisions' = IF Alone(d.op) THEN CatalogDecisions \cup {n} ELSE CatalogDecisions
  BY <1>1, <1>2 DEF CatalogDecisions
<1>4. Decided(ColOps)' = IF d.op \in ColOps THEN Decided(ColOps) \cup {n} ELSE Decided(ColOps)
  BY <1>1, <1>2 DEF Decided
<1>5. CatalogDecisions \subseteq DOMAIN journal /\ Decided(ColOps) \subseteq DOMAIN journal
  BY DEF CatalogDecisions, Decided
<1>6. Due = {k \in Decided(ColOps) : Created /\ \A l \in CatalogDecisions : l < k}
  BY DEF Due, ColOps
<1>7. Due' = {k \in Decided(ColOps)' : Created' /\ \A l \in CatalogDecisions' : l < k}
  BY DEF Due, ColOps
<1>8. CASE ~Alone(d.op)
  <2>1. CatalogDecisions' = CatalogDecisions
    BY <1>3, <1>8
  <2>2. Created' <=> Created
    BY <1>1, <1>5, <2>1 DEF Created
  <2>3. \A l : Latest(l)' <=> Latest(l)
    BY <2>1 DEF Latest
  <2>4. Due' = IF d.op \in ColOps /\ Created THEN Due \cup {n} ELSE Due
    BY <1>2, <1>4, <1>5, <1>6, <1>7, <2>1, <2>2
  <2> QED BY <1>1, <1>2, <1>4, <1>8, <2>1, <2>2, <2>3, <2>4
<1>9. CASE Alone(d.op)
  <2>1. CatalogDecisions' = CatalogDecisions \cup {n} /\ d.op \notin ColOps
    BY <1>3, <1>9 DEF Alone, ColOps
  <2>2. \A l : Latest(l)' <=> l = n
    BY <1>2, <1>5, <2>1 DEF Latest
  <2>3. Created' <=> d.op = "create"
    <3>1. Created' <=> \E l : Latest(l)' /\ journal'[l].op = "create"
      BY DEF Created, Latest
    <3> QED BY <1>1, <2>2, <3>1
  <2>4. Due' = {}
    BY <1>2, <1>4, <1>5, <1>7, <2>1
  <2> QED BY <1>1, <1>2, <1>4, <1>9, <2>1, <2>2, <2>3, <2>4
<1> QED BY <1>8, <1>9
\* A decision that leaves the catalog alone.
LEMMA DecideSharedCol ==
  ASSUME Inv, Locks, ColInv, phase = "up", NEW c \in Clients, job[c].pc = "decide",
         job[c].op \in ColOps \cup {"sql"},
         NEW e, e.op = job[c].op, journal' = Append(journal, e), NEW n, n = Len(journal) + 1,
         UNCHANGED <<stored, catalog, catalog_wal, dirs, collection, phase, broken>>,
         "journal" \notin poisoned, poisoned \subseteq poisoned', degraded => degraded',
         job[c].op \in ColOps => \A d \in Clients : ~Holder(job[d]),
         NEW r, job' = [job EXCEPT ![c] = r],
         \/ r.pc = "append" /\ r.tx = n /\ r.op = job[c].op
         \/ r = Idle /\ "journal" \in poisoned'
  PROVE  ColInv'
<1>0. ~Alone(e.op)
  BY DEF Alone, ColOps
<1>1. /\ n \in Nat /\ n \notin DOMAIN journal /\ (\A k \in DOMAIN journal : k < n)
      /\ DOMAIN journal' = DOMAIN journal \cup {n}
      /\ CatalogDecisions' = CatalogDecisions /\ (Created' <=> Created)
      /\ \A l : Latest(l)' <=> Latest(l)
      /\ Due' = IF e.op \in ColOps /\ Created THEN Due \cup {n} ELSE Due
      /\ Decided(ColOps)' = IF e.op \in ColOps THEN Decided(ColOps) \cup {n} ELSE Decided(ColOps)
  BY <1>0, DecidedWorld
<1>2. /\ Due \subseteq DOMAIN journal /\ CatalogDecisions \subseteq DOMAIN journal
      /\ DOMAIN journal \subseteq Nat
  BY WorldIs
<1>3. ColJob(job[c])
  BY DEF ColInv, ColJobs
<1>4. job[c].op \in ColOps => collection.open /\ Created /\ ~NoLive
  BY <1>3 DEF ColJob
<1>5. Due' = IF e.op \in ColOps THEN Due \cup {n} ELSE Due
  BY <1>1, <1>4
<1>6. n \notin stored /\ n \notin Due
  BY <1>1, <1>2 DEF Inv, Recorded
<1>7. Settled'
  <2>1. ASSUME NEW l \in CatalogDecisions, NEW k \in DOMAIN journal', k < l PROVE k \in stored
    <3>1. l < n /\ l \in Nat
      BY <1>1, <1>2
    <3>2. k # n
      BY <1>1, <2>1, <3>1
    <3> QED BY <1>1, <2>1, <3>2 DEF ColInv, Settled
  <2>2. ASSUME NEW k \in Decided(ColOps)', \A l \in CatalogDecisions : l < k PROVE Created
    <3>1. CASE k = n /\ e.op \in ColOps
      BY <1>4, <3>1
    <3>2. CASE k \in Decided(ColOps)
      BY <2>2, <3>2 DEF ColInv, Settled
    <3> QED BY <1>1, <3>1, <3>2
  <2> QED BY <1>1, <2>1, <2>2 DEF Settled
<1>8. CatInv' /\ \A k : Entered(k)' <=> Entered(k)
  <2>1. \A k : Entered(k)' <=> Entered(k)
    BY DEF Entered
  <2> QED BY <1>1, <2>1 DEF ColInv, CatInv
<1>9. NoLive' <=> NoLive
  BY DEF NoLive
<1>10. ~NoLive /\ Created => /\ \A i \in 1 .. Len(dirs["live"]) : dirs["live"][i] \in Due
                             /\ LogOf(dirs["live"])
  BY DEF ColInv, DirInv, LogOf
<1>11. ~NoLive /\ Created => ~Has(dirs["live"], n)
  BY <1>6, <1>10 DEF Has
<1>12. DirInv'
  <2>1. ASSUME Created, ~NoLive PROVE LogOf(dirs["live"])'
    <3>s. PICK s : s = dirs["live"]
      OBVIOUS
    <3>1. LogOf(s) /\ \A i \in 1 .. Len(s) : s[i] \in Due /\ s[i] < n
      BY <1>1, <1>2, <1>10, <2>1, <3>s
    <3>2. LogOf(s)'
      <4>1. \A i \in 1 .. Len(s) : s[i] \in Due'
        BY <1>5, <3>1
      <4>2. \A k \in stored \cap Due' : Has(s, k)
        BY <1>5, <1>6, <3>1 DEF LogOf
      <4>3. broken = {} => \A k \in Due' : ~Has(s, k) => \A i \in 1 .. Len(s) : s[i] < k
        BY <1>5, <3>1 DEF LogOf
      <4> QED BY <3>1, <4>1, <4>2, <4>3 DEF LogOf
    <3> QED BY <3>2, <3>s, LiveLog
  <2>2. Created /\ NoLive => Due' = {} /\ \A l : Latest(l) => l \notin stored
    BY <1>4, <1>5 DEF ColInv, DirInv
  <2> QED BY <1>1, <1>9, <2>1, <2>2 DEF DirInv, ColInv
<1>13. /\ ~Appending(job[c]) /\ ~Unshown(job[c]) /\ ~Dropping(job[c]) /\ ~Holder(job[c])
       /\ ~Dropping(r) /\ Idle.op = "none" /\ Idle.tx = 0
  BY DEF Appending, Unshown, Dropping, Holder, Idle, ColOps
<1>14. ColJob(r)'
  <2>1. CASE r = Idle
    BY <1>13, <2>1, FreeJob
  <2>2. CASE r.op = "sql"
    BY <2>2, FreeJob
  <2>3. CASE r.pc = "append" /\ r.tx = n /\ r.op \in ColOps /\ r.op = job[c].op
    <3>1. collection'.open /\ Created' /\ ~NoLive'
      BY <1>1, <1>4, <1>9, <2>3
    <3>2. r.tx \in Due' /\ \A k \in Due' : k <= r.tx
      BY <1>1, <1>2, <1>5, <2>3
    <3>3. ~Has(dirs["live"], r.tx)'
      BY <1>4, <1>11, <2>3 DEF Has
    <3>4. r.op # "create" /\ r.op # "drop" /\ ~Alone(r.op)
      BY <2>3 DEF ColOps, Alone
    <3> QED BY <2>3, <3>1, <3>2, <3>3, <3>4 DEF ColJob
  <2> QED BY <2>1, <2>2, <2>3
<1>15. ColJobs'
  <2>1. \A d \in Clients : job'[d] = IF d = c THEN r ELSE job[d]
    BY JobOf
  <2>2. ASSUME NEW j, ColJob(j), Holder(j) => e.op \notin ColOps PROVE ColJob(j)'
    <3>1. \A k : Has(dirs["live"], k)' <=> Has(dirs["live"], k)
      BY DEF Has
    <3>2. /\ Appending(j)' <=> Appending(j)
          /\ Holder(j)' <=> Holder(j)
      BY DEF Appending, Holder
    <3>3. Holder(j) => Due' = Due
      BY <1>5, <2>2
    <3>4. Holder(j) => j.tx \in Due' /\ \A k \in Due' : k <= j.tx
      BY <2>2, <3>3 DEF ColJob
    <3> QED BY <1>1, <1>8, <1>9, <2>2, <3>1, <3>2, <3>4 DEF ColJob
  <2>3. \A d \in Clients : \A j : j = job'[d] => ColJob(j)'
    BY <1>14, <2>1, <2>2 DEF ColInv, ColJobs
  <2> QED BY <2>3, JobsNext
<1>16. \A d \in Clients :
           /\ job'[d].tx = IF d = c THEN r.tx ELSE job[d].tx
           /\ Unshown(job[d])' <=> IF d = c THEN Unshown(r) ELSE Unshown(job[d])
           /\ Appending(job[d])' <=> IF d = c THEN Appending(r) ELSE Appending(job[d])
           /\ Holder(job[d])' <=> IF d = c THEN Holder(r) ELSE Holder(job[d])
           /\ Dropping(job[d])' <=> IF d = c THEN Dropping(r) ELSE Dropping(job[d])
  BY NextJobs
<1>17. Opened'
  BY <1>1, <1>9, <1>13, <1>16 DEF ColInv, MemInv, Opened
<1>18. \A k : Has(dirs["live"], k)' <=> Has(dirs["live"], k)
  BY DEF Has
<1>19. \A k : Has(collection.rows, k)' <=> Has(collection.rows, k)
  BY DEF Has
<1>s. ~Stuck
  BY DEF Stuck
<1>20. e.op \in ColOps =>
         \/ Stuck'
         \/ job'[c].tx = n /\ Appending(job[c])' /\ Unshown(job[c])'
  <2>1. CASE r = Idle
    <3>1. ~Holder(r)
      BY <1>13, <2>1, FreeJob
    <3>2. e.op \in ColOps => \A d \in Clients : ~Holder(job[d])'
      BY <1>16, <3>1
    <3> QED BY <2>1, <3>2 DEF Stuck, Idle
  <2>2. CASE r.pc = "append" /\ r.tx = n /\ r.op = job[c].op
    <3>1. e.op \in ColOps => Appending(r) /\ Unshown(r)
      BY <2>2 DEF Appending, Unshown
    <3> QED BY <1>16, <2>2, <3>1
  <2> QED BY <2>1, <2>2
<1>21. Missing'
  <2> SUFFICES ASSUME Created, ~NoLive, broken = {}, NEW k \in Due', ~Has(dirs["live"], k)
               PROVE  \/ "collection" \in poisoned'
                      \/ \E d \in Clients : job'[d].tx = k /\ Appending(job[d])'
                      \/ Stuck'
    BY <1>1, <1>9, <1>18 DEF Missing
  <2>1. CASE k = n /\ e.op \in ColOps
    BY <1>20, <2>1
  <2>2. CASE k \in Due
    <3>1. \/ "collection" \in poisoned
          \/ \E d \in Clients : job[d].tx = k /\ Appending(job[d])
      BY <1>s, <2>2 DEF ColInv, MemInv, Missing
    <3> QED BY <1>13, <1>16, <3>1
  <2> QED BY <1>5, <2>1, <2>2
<1>22. Shown'
  <2> SUFFICES ASSUME Created, collection.open, broken = {} PROVE
    /\ \A i, j \in 1 .. Len(collection.rows) : i < j => collection.rows[i] < collection.rows[j]
    /\ \A k : Has(collection.rows, k) =>
         k \in Due' /\ \A d \in Clients : job'[d].tx = k => ~Unshown(job[d])'
    /\ \A k \in Due' :
         \/ Has(collection.rows, k)
         \/ \E d \in Clients : job'[d].tx = k /\ Unshown(job[d])'
         \/ Stuck'
    BY <1>1, <1>19 DEF Shown
  <2>1. /\ \A i, j \in 1 .. Len(collection.rows) : i < j => collection.rows[i] < collection.rows[j]
        /\ \A k : Has(collection.rows, k) =>
             k \in Due /\ \A d \in Clients : job[d].tx = k => ~Unshown(job[d])
        /\ \A k \in Due :
             \/ Has(collection.rows, k)
             \/ \E d \in Clients : job[d].tx = k /\ Unshown(job[d])
    BY <1>s DEF ColInv, MemInv, Shown
  <2>2. ASSUME NEW k, Has(collection.rows, k)
        PROVE  k \in Due' /\ \A d \in Clients : job'[d].tx = k => ~Unshown(job[d])'
    <3>1. k \in Due /\ k # n
      BY <1>6, <2>1, <2>2
    <3>2. Unshown(r) => r.tx = n
      BY <1>13, FreeJob
    <3> QED BY <1>5, <1>16, <2>1, <2>2, <3>1, <3>2
  <2>3. ASSUME NEW k \in Due'
        PROVE  \/ Has(collection.rows, k)
               \/ \E d \in Clients : job'[d].tx = k /\ Unshown(job[d])'
               \/ Stuck'
    <3>1. CASE k = n /\ e.op \in ColOps
      BY <1>20, <3>1
    <3>2. CASE k \in Due
      BY <1>13, <1>16, <2>1, <3>2
    <3> QED BY <1>5, <3>1, <3>2
  <2> QED BY <2>1, <2>2, <2>3
<1>23. Shaped' /\ Restored'
  BY DEF ColInv, MemInv, Shaped, Restored
<1> QED BY <1>7, <1>8, <1>12, <1>15, <1>17, <1>21, <1>22, <1>23 DEF ColInv, MemInv

\* A catalog decision: everything before it is projected.
LEMMA DecideCatalogCol ==
  ASSUME Inv, Locks, ColInv, phase = "up", NEW c \in Clients, job[c].pc = "decide",
         Alone(job[c].op),
         NEW e, e.op = job[c].op, journal' = Append(journal, e), NEW n, n = Len(journal) + 1,
         UNCHANGED <<stored, catalog, catalog_wal, dirs, collection, phase, broken>>,
         "journal" \notin poisoned,
         NEW r, job' = [job EXCEPT ![c] = r],
         \/ r.pc = "append" /\ r.tx = n /\ r.op = job[c].op
         \/ r = Idle /\ degraded'
  PROVE  ColInv'
<1>0. Alone(e.op) /\ HoldsGate(c) /\ Idle.op = "none"
  BY DEF HoldsGate, Idle
<1>1. /\ n \in Nat /\ n \notin DOMAIN journal /\ (\A k \in DOMAIN journal : k < n)
      /\ DOMAIN journal' = DOMAIN journal \cup {n}
      /\ CatalogDecisions' = CatalogDecisions \cup {n}
      /\ \A l : Latest(l)' <=> l = n
      /\ Created' <=> e.op = "create"
      /\ Due' = {} /\ Decided(ColOps)' = Decided(ColOps)
  BY <1>0, DecidedWorld
<1>2. CatalogDecisions \subseteq DOMAIN journal /\ DOMAIN journal \subseteq Nat \ {0}
      /\ Decided(ColOps) \subseteq DOMAIN journal
  BY WorldIs DEF Decided
<1>3. DOMAIN journal \subseteq stored /\ n \notin stored
  <2>1. ~Excused
    BY DEF Locks, Undisturbed, Excused
  <2>2. \A d \in Clients : job[d].tx = 0
    BY <1>0, AloneOthers, JobTyped DEF Undecided
  <2>3. \A k \in Owed : FALSE
    BY <1>2, <2>1, <2>2 DEF Inv, Ready, Owed
  <2>4. stored \subseteq DOMAIN journal
    BY DEF Inv, Recorded
  <2> QED BY <1>1, <2>3, <2>4 DEF Owed
<1>4. ColJob(job[c])
  BY DEF ColInv, ColJobs
<1>5. e.op = "create" => ~collection.open /\ NoLive /\ "staging" \in DOMAIN dirs
  BY <1>4 DEF ColJob
<1>6. Settled'
  <2>1. ASSUME NEW l \in CatalogDecisions', NEW k \in DOMAIN journal', k < l PROVE k \in stored
    <3>1. k # n
      BY <1>1, <1>2, <2>1
    <3> QED BY <1>1, <1>3, <3>1
  <2>2. \A k \in Decided(ColOps) : ~(n < k)
    BY <1>1, <1>2
  <2> QED BY <1>1, <2>1, <2>2 DEF Settled
<1>7. NoLive' <=> NoLive
  BY DEF NoLive
<1>8. CatInv'
  <2>1. \A k : Entered(k)' <=> Entered(k)
    BY DEF Entered
  <2>2. \A i \in 1 .. Len(catalog_wal.records) : catalog_wal.records[i] \in CatalogDecisions
    BY DEF ColInv, CatInv
  <2>3. ~Entered(n)
    BY <1>1, <1>2, <2>2 DEF Entered, Has
  <2>4. \A l \in stored \cap CatalogDecisions' : Entered(l)
    BY <1>1, <1>3 DEF ColInv, CatInv
  <2>5. /\ catalog.mark \in Nat /\ catalog.has \in BOOLEAN
        /\ catalog_wal \in [base : Nat, records : Seq(Nat)]
        /\ catalog.mark <= Len(catalog_wal.records)
    BY DEF ColInv, CatInv
  <2> QED BY <1>1, <2>1, <2>2, <2>3, <2>4, <2>5 DEF CatInv
<1>9. DirInv'
  BY <1>1, <1>3, <1>5, <1>7 DEF ColInv, DirInv
<1>10. ColJob(r)'
  <2>1. CASE r = Idle
    BY <1>0, <2>1, FreeJob
  <2>2. CASE r.pc = "append" /\ r.op = job[c].op
    <3>1. ~Holder(r)' /\ ~Appending(r)' /\ r.op \notin ColOps
      BY <2>2 DEF Holder, Appending, ColOps, Alone
    <3> QED BY <1>5, <1>7, <2>2, <3>1 DEF ColJob
  <2> QED BY <2>1, <2>2
<1>11. ColJobs'
  BY <1>0, <1>10, AloneJobs
<1>12. Opened'
  <2>1. e.op \in {"create", "drop"}
    BY <1>0 DEF Alone
  <2>2. r = Idle \/ e.op = "create" \/ Dropping(r)
    BY <2>1 DEF Dropping
  <2>3. Dropping(r) => Dropping(job[c])'
    <3>1. \A d \in Clients : job'[d] = IF d = c THEN r ELSE job[d]
      BY JobOf
    <3> QED BY <3>1 DEF Dropping
  <2>4. collection'.open /\ e.op = "create" => FALSE
    BY <1>5
  <2>5. r = Idle => degraded' \/ ~collection'.open \/ Dropping(r)
    BY DEF Idle
  <2> QED BY <2>2, <2>3, <2>4, <2>5 DEF Opened
<1>13. Missing' /\ Shown'
  BY <1>1, <1>5, <1>7 DEF Missing, Shown
<1>14. Shaped' /\ Restored'
  BY DEF ColInv, MemInv, Shaped, Restored
<1> QED BY <1>6, <1>8, <1>9, <1>11, <1>12, <1>13, <1>14 DEF ColInv, MemInv

LEMMA DecideCol ==
  ASSUME Inv, Locks, ColInv, NEW c \in Clients, Decide(c)
  PROVE  ColInv'
<1>0. PICK o \in Outcomes("journal"), r \in Job :
           /\ job[c].pc = "decide" /\ job[c].tx = 0 /\ phase = "up"
           /\ job[c].op \in {"put", "multi"} => \A d \in Clients : ~HoldsCollection(d)
           /\ job' = [job EXCEPT ![c] = r]
           /\ o = "ok" => r.pc = "append" /\ r.tx = Len(journal) + 1 /\ r.op = job[c].op
           /\ o # "ok" => r = Idle
           /\ ~Happened(o) => journal' = journal
           /\ Happened(o) =>
                /\ journal' = Append(journal, [op |-> job[c].op, number |-> Number(job[c].op)])
                /\ "journal" \notin poisoned
           /\ Happened(o) /\ o # "ok" => "journal" \in poisoned'
           /\ poisoned \subseteq poisoned'
           /\ Degrade(o # "ok" /\ job[c].op \notin {"sql", "multi"})
           /\ o = "ok" => Happened(o)
           /\ UNCHANGED <<stored, audited, audit_log, catalog, catalog_wal, dirs, relational_wal,
                          checkpoint, collection, state, phase, cursor, broken, crashes>>
  BY DecideStep
<1>1. /\ degraded => degraded'
      /\ o # "ok" /\ Alone(job[c].op) => degraded'
      /\ broken \subseteq broken'
  BY <1>0 DEF Degrade, Alone
<1>2. Idle.op = "none" /\ job[c].op \in AllOps
  BY <1>0 DEF Idle, Locks, Owned, Sound
<1>3. CASE ~Happened(o)
  <2>1. r = Idle /\ journal' = journal
    BY <1>0, <1>3
  <2>2. ColJob(r) /\ ~Unshown(r) /\ ~Holder(r)
    BY <1>2, <2>1, FreeJob
  <2>3. Quiet(c, r)
    BY <1>0, <2>2 DEF Quiet, Unshown, Appending, Dropping
  <2> QED BY <1>0, <1>1, <2>1, <2>2, <2>3, AsideCol
<1>4. CASE Happened(o)
  <2>e. PICK e : e = [op |-> job[c].op, number |-> Number(job[c].op)]
    OBVIOUS
  <2>n. PICK n : n = Len(journal) + 1
    OBVIOUS
  <2>1. e.op = job[c].op /\ journal' = Append(journal, e) /\ "journal" \notin poisoned
    BY <1>0, <1>4, <2>e
  <2>2. CASE Alone(job[c].op)
    <3>1. \/ r.pc = "append" /\ r.tx = n /\ r.op = job[c].op
          \/ r = Idle /\ degraded'
      BY <1>0, <1>1, <2>2, <2>n
    <3> QED BY <1>0, <2>1, <2>2, <2>n, <3>1, DecideCatalogCol
  <2>3. CASE ~Alone(job[c].op)
    <3>1. \/ r.pc = "append" /\ r.tx = n /\ r.op = job[c].op
          \/ r = Idle /\ "journal" \in poisoned'
      BY <1>0, <1>4, <2>n
    <3>2. job[c].op \in ColOps \cup {"sql"}
      BY <1>2, <2>3 DEF AllOps, ColOps, Alone
    <3>3. job[c].op \in ColOps => \A d \in Clients : ~Holder(job[d])
      BY <1>0, OneHolder DEF ColOps
    <3> QED BY <1>0, <1>1, <2>1, <2>n, <3>1, <3>2, <3>3, DecideSharedCol
  <2> QED BY <2>2, <2>3
<1> QED BY <1>3, <1>4

LEMMA RequestCol ==
  ASSUME Inv, Locks, ColInv, NEW c \in Clients, Request(c)
  PROVE  ColInv'
  BY BeginCol, EnterGateCol, DecideCol, AppendPutCol, AppendRelationalCol, AppendCollectionCol,
     AppendCatalogCol, InstallCreateCol, InstallDropCol, CheckpointCatalogCol, DropCatalogPrefixCol,
     RemoveTrashCol, MarkStoredCol, LateCol DEF Request
-----------------------------------------------------------------------------
(* Startup. *)

Served == {"catalog", "prefix", "audit"}

\* Steps that leave the collection, its catalog and its requests alone.
LEMMA StillCol ==
  ASSUME ColInv,
         UNCHANGED <<journal, stored, catalog, catalog_wal, dirs, collection, job, broken, poisoned, degraded>>,
         phase' = phase \/ (phase' # "up" /\ (phase' \in Served => phase \in Served))
  PROVE  ColInv'
<1>1. Settled'
  BY SettledKept DEF ColInv
<1>2. CatInv' /\ \A k : Entered(k)' <=> Entered(k)
  <2>1. \A l \in stored' \cap CatalogDecisions : Entered(l)
    BY DEF ColInv, CatInv
  <2> QED BY <2>1, CatSame DEF ColInv
<1>3. DirInv'
  BY DirSame DEF ColInv
<1>4. NoLive' <=> NoLive
  BY DEF NoLive
<1>5. ColJobs'
  <2>1. \A k : Has(dirs["live"], k)' <=> Has(dirs["live"], k)
    BY DEF Has
  <2>2. ASSUME NEW j, ColJob(j) PROVE ColJob(j)'
    <3>1. /\ Appending(j)' <=> Appending(j)
          /\ Holder(j)' <=> Holder(j)
      BY DEF Appending, Holder
    <3> QED BY <1>2, <1>4, <2>1, <2>2, <3>1, SameWorld DEF ColJob
  <2>3. \A d \in Clients : \A j : j = job'[d] => ColJob(j)'
    BY <2>2 DEF ColInv, ColJobs
  <2> QED BY <2>3, JobsNext
<1>6. CASE phase' # "up"
  <2>1. Shaped' /\ Restored'
    BY <1>6, SameWorld DEF ColInv, MemInv, Shaped, Restored, Served
  <2>2. MemInv'
    BY <1>6, <2>1 DEF MemInv
  <2> QED BY <1>1, <1>2, <1>3, <1>5, <2>2 DEF ColInv
<1>7. CASE phase' = "up" /\ phase = "up"
  <2>1. Shaped' /\ Restored' /\ Opened /\ Missing /\ Shown
    BY <1>7 DEF ColInv, MemInv, Shaped, Restored
  <2>2. Opened'
    BY <1>4, <2>1, SameWorld DEF Opened, Dropping
  <2>3. \A k : Has(dirs["live"], k)' <=> Has(dirs["live"], k)
    BY DEF Has
  <2>4. Stuck => Stuck'
    BY DEF Stuck, Holder
  <2>5. \A d \in Clients : /\ Appending(job[d])' <=> Appending(job[d])
                           /\ Unshown(job[d])' <=> Unshown(job[d])
    BY DEF Appending, Unshown
  <2>6. Missing'
    BY <1>4, <2>1, <2>3, <2>4, <2>5, SameWorld DEF Missing
  <2>7. \A k : Has(collection.rows, k)' <=> Has(collection.rows, k)
    BY DEF Has
  <2>8. Shown'
    BY <2>1, <2>4, <2>5, <2>7, SameWorld DEF Shown
  <2>9. MemInv'
    BY <2>1, <2>2, <2>6, <2>8 DEF MemInv
  <2> QED BY <1>1, <1>2, <1>3, <1>5, <2>9 DEF ColInv
<1> QED BY <1>6, <1>7

LEMMA CrashCol ==
  ASSUME ColInv, Crash
  PROVE  ColInv'
<1>0. /\ UNCHANGED <<journal, stored, catalog, catalog_wal, dirs, broken>> /\ phase' = "down"
      /\ collection' = Fresh /\ job' = [c \in Clients |-> Idle]
  BY DEF Crash, disk
<1>1. Settled'
  BY <1>0, SettledKept DEF ColInv
<1>2. CatInv'
  <2>1. \A l \in stored' \cap CatalogDecisions : Entered(l)
    BY <1>0 DEF ColInv, CatInv
  <2> QED BY <1>0, <2>1, CatSame DEF ColInv
<1>3. DirInv'
  BY <1>0, DirSame DEF ColInv
<1>4. ColJobs'
  <2>1. \A d \in Clients : \A j : j = job'[d] => j.op = "none"
    BY <1>0 DEF Idle
  <2>2. \A d \in Clients : \A j : j = job'[d] => ColJob(j)'
    BY <2>1, FreeJob
  <2> QED BY <2>2, JobsNext
<1>5. MemInv'
  <2>1. <<>> \in Seq(Nat)
    BY EmptySequence
  <2>2. Shaped'
    BY <1>0, <2>1 DEF Shaped, Fresh
  <2> QED BY <1>0, <2>2 DEF MemInv, Restored
<1> QED BY <1>1, <1>2, <1>3, <1>4, <1>5 DEF ColInv

\* A step of recovery before the collections are loaded.
LEMMA RecoveryCol ==
  ASSUME Inv, ColInv, phase # "up", phase' \notin Served \cup {"up"},
         UNCHANGED <<job, collection>>, Settled', CatInv', DirInv'
  PROVE  ColInv'
<1>1. ColJobs'
  <2>1. \A d \in Clients : \A j : j = job'[d] => j.op = "none"
    BY DEF Inv, Jobs, Idle
  <2>2. \A d \in Clients : \A j : j = job'[d] => ColJob(j)'
    BY <2>1, FreeJob
  <2> QED BY <2>2, JobsNext
<1>2. MemInv'
  <2>1. Shaped'
    BY DEF ColInv, MemInv, Shaped
  <2> QED BY <2>1 DEF MemInv, Restored, Served
<1> QED BY <1>1, <1>2 DEF ColInv

LEMMA CursorPending ==
  ASSUME Inv, ColInv, Pending
  PROVE  /\ cursor \in DOMAIN journal /\ cursor \notin stored /\ phase = "storage"
         /\ Alone(Op) => Latest(cursor) /\ (Created <=> Op = "create")
         /\ Op \in ColOps => cursor \in Due
         /\ \A k \in DOMAIN journal : k < cursor => k \in stored
<1>1. cursor \in DOMAIN journal /\ cursor \notin stored /\ phase = "storage"
  BY DEF Pending, Recovering
<1>2. /\ Alone(Op) => Latest(cursor)
      /\ Op \in ColOps => cursor \in Due
  BY <1>1, UnmarkedIsLast DEF ColInv, Op
<1>3. Alone(Op) => (Created <=> Op = "create")
  BY <1>2, WorldIs DEF Op
<1> QED BY <1>1, <1>2, <1>3 DEF Inv, StartupProgress

LEMMA RecoverCatalogRecordCol ==
  ASSUME Inv, ColInv, RecoverCatalogRecord
  PROVE  ColInv'
<1>1. /\ Pending /\ Alone(Op) /\ catalog_wal' = Appended(catalog_wal, cursor)
      /\ UNCHANGED <<journal, stored, catalog, dirs, collection, job, phase, broken>>
  BY DEF RecoverCatalogRecord, memory
<1>2. Latest(cursor) /\ phase = "storage"
  BY <1>1, CursorPending
<1>3. CatInv'
  <2>1. PICK t : t = cursor
    OBVIOUS
  <2> QED BY <1>1, <1>2, <2>1, CatAppended DEF ColInv
<1>4. Settled' /\ DirInv'
  BY <1>1, SettledKept, DirSame DEF ColInv
<1> QED BY <1>1, <1>2, <1>3, <1>4, RecoveryCol DEF Served

LEMMA RecoverCollectionRecordCol ==
  ASSUME Inv, ColInv, RecoverCollectionRecord
  PROVE  ColInv'
<1>1. /\ Pending /\ Op \in ColOps /\ ~NoLive /\ cursor \notin Range(dirs["live"])
      /\ dirs' = [dirs EXCEPT !["live"] = Append(@, cursor)]
      /\ UNCHANGED <<journal, stored, catalog, catalog_wal, collection, job, phase, broken>>
  BY DEF RecoverCollectionRecord, memory, ColOps
<1>2. cursor \in Due /\ phase = "storage" /\ \A k \in DOMAIN journal : k < cursor => k \in stored
  BY <1>1, CursorPending
<1>3. Created /\ Due \subseteq DOMAIN journal
  BY <1>2, WorldIs
<1>4. LogOf(dirs["live"])
  BY <1>1, <1>3 DEF ColInv, DirInv
<1>5. ~Has(dirs["live"], cursor)
  BY <1>1, <1>4, HasRange DEF LogOf
<1>6. \A k \in Due : k < cursor => Has(dirs["live"], k)
  BY <1>2, <1>3, <1>4 DEF LogOf
<1>7. DirInv'
  <2>1. PICK t : t = cursor
    OBVIOUS
  <2>2. dirs' = [dirs EXCEPT !["live"] = Append(@, t)] /\ t \in Due /\ ~Has(dirs["live"], t)
        /\ \A k \in Due : k < t => Has(dirs["live"], k)
    BY <1>1, <1>2, <1>5, <1>6, <2>1
  <2> QED BY <1>1, <1>3, <2>2, LiveGrows DEF ColInv
<1>8. Settled' /\ CatInv'
  <2>1. \A l \in stored' \cap CatalogDecisions : Entered(l)
    BY <1>1 DEF ColInv, CatInv
  <2> QED BY <1>1, <2>1, SettledKept, CatSame DEF ColInv
<1> QED BY <1>1, <1>2, <1>7, <1>8, RecoveryCol DEF Served

LEMMA RecoverRenameCol ==
  ASSUME Inv, ColInv, RecoverRename
  PROVE  ColInv'
<1>1. /\ Pending /\ Alone(Op) /\ RenameDue
      /\ dirs' = IF Op = "create" THEN Renamed(dirs, "staging", "live") ELSE Renamed(dirs, "live", "trash")
      /\ UNCHANGED <<journal, stored, catalog, catalog_wal, collection, job, phase, broken>>
  BY DEF RecoverRename, memory
<1>2. Latest(cursor) /\ phase = "storage" /\ (Created <=> Op = "create")
  BY <1>1, CursorPending
<1>3. DirInv'
  <2>1. CASE Op = "create"
    <3>1. NoLive
      BY <1>1, <2>1 DEF RenameDue
    <3> QED BY <1>1, <1>2, <2>1, <3>1, CreatedDir DEF ColInv
  <2>2. CASE Op # "create"
    <3>1. ~Created'
      BY <1>1, <1>2, <2>2, SameWorld
    <3> QED BY <1>1, <2>2, <3>1, StagingStays, DroppedDir DEF ColInv
  <2> QED BY <2>1, <2>2
<1>4. Settled' /\ CatInv'
  <2>1. \A l \in stored' \cap CatalogDecisions : Entered(l)
    BY <1>1 DEF ColInv, CatInv
  <2> QED BY <1>1, <2>1, SettledKept, CatSame DEF ColInv
<1> QED BY <1>1, <1>2, <1>3, <1>4, RecoveryCol DEF Served
-----------------------------------------------------------------------------
LEMMA RetainedEntered ==
  ASSUME CatInv, NEW k, k \in Retained(catalog_wal)
  PROVE  Entered(k)
<1>1. PICK i \in (catalog_wal.base + 1) .. Len(catalog_wal.records) : k = catalog_wal.records[i]
  BY DEF Retained
<1>2. catalog_wal.base \in Nat /\ Len(catalog_wal.records) \in Nat
  BY DEF CatInv
<1>3. i \in 1 .. Len(catalog_wal.records)
  BY <1>1, <1>2
<1> QED BY <1>1, <1>3 DEF Entered, Has

LEMMA RecoverInstalledCol ==
  ASSUME Inv, ColInv, RecoverInstalled
  PROVE  ColInv' /\ Marked'
<1>1. /\ Pending /\ Alone(Op) /\ cursor \in Retained(catalog_wal) /\ ~RenameDue
      /\ dirs' \in {dirs, Without(dirs, {"trash"})} /\ phase' = "marking"
      /\ UNCHANGED <<journal, stored, catalog, catalog_wal, collection, job, broken, cursor>>
  BY DEF RecoverInstalled, memory
<1>2. Latest(cursor) /\ phase = "storage" /\ (Created <=> Op = "create")
  BY <1>1, CursorPending
<1>3. DirInv' /\ (NoLive' <=> NoLive)
  BY <1>1, WithoutTrash
<1>4. Settled' /\ CatInv' /\ (\A k : Entered(k)' <=> Entered(k))
  <2>1. \A l \in stored' \cap CatalogDecisions : Entered(l)
    BY <1>1 DEF ColInv, CatInv
  <2> QED BY <1>1, <2>1, SettledKept, CatSame DEF ColInv
<1>5. ColInv'
  BY <1>1, <1>2, <1>3, <1>4, RecoveryCol DEF Served
<1>6. Entered(cursor)
  BY <1>1, RetainedEntered DEF ColInv
<1>7. Op = "create" => ~NoLive
  <2>1. Op = "create" => ~(NoLive /\ "staging" \in DOMAIN dirs)
    BY <1>1 DEF RenameDue
  <2>2. Created /\ NoLive => "staging" \in DOMAIN dirs
    BY DEF ColInv, DirInv
  <2> QED BY <1>2, <2>1, <2>2
<1>8. Marked'
  <2>1. PICK t : t = cursor
    OBVIOUS
  <2>2. Entered(t)' /\ cursor' = t
    BY <1>1, <1>4, <1>6, <2>1
  <2>3. journal'[t].op = "create" => ~NoLive'
    BY <1>1, <1>3, <1>7, <2>1 DEF Op
  <2> QED BY <2>2, <2>3 DEF Marked, Entered, Has
<1> QED BY <1>5, <1>8

\* Startup marks a decision whose projection is there.
LEMMA StoresCol ==
  ASSUME Inv, ColInv, phase # "up", phase' = "storage", NEW t \in DOMAIN journal,
         stored' = stored \cup {t},
         UNCHANGED <<journal, catalog, catalog_wal, dirs, broken, job, collection>>,
         Alone(journal[t].op) => Entered(t) /\ (journal[t].op = "create" => ~NoLive),
         t \in Due /\ ~NoLive => Has(dirs["live"], t)
  PROVE  ColInv'
<1>1. Settled'
  BY SettledKept DEF ColInv
<1>2. CatInv'
  <2>1. \A l \in stored' \cap CatalogDecisions : Entered(l)
    BY WorldIs DEF ColInv, CatInv
  <2> QED BY <2>1, CatSame DEF ColInv
<1>3. DirInv'
  <2>1. Created /\ ~NoLive => \A k \in stored' \cap Due : Has(dirs["live"], k)
    BY DEF ColInv, DirInv, LogOf
  <2>2. ASSUME Created, NoLive, NEW l, Latest(l), l \in stored' PROVE l \in stored
    <3>1. journal[l].op = "create" /\ Alone(journal[l].op)
      BY <2>2, WorldIs DEF Alone
    <3> QED BY <2>2, <3>1
  <2>3. NoLive' <=> NoLive
    BY DEF NoLive
  <2> QED BY <2>1, <2>2, <2>3, DirKept DEF ColInv
<1> QED BY <1>1, <1>2, <1>3, RecoveryCol DEF Served

LEMMA RecoverPassedCol ==
  ASSUME Inv, ColInv, RecoverPassed
  PROVE  ColInv'
<1>1. /\ Recovering /\ (MissingStorage \/ ~Pending)
      /\ UNCHANGED <<journal, catalog, catalog_wal, dirs, broken, job, collection, poisoned, degraded>>
  BY DEF RecoverPassed, memory
<1>2. phase = "storage" /\ cursor \in DOMAIN journal
  BY <1>1 DEF Recovering
<1>3. CASE MissingStorage
  <2>1. phase' = "refused" /\ UNCHANGED stored
    BY <1>3 DEF RecoverPassed
  <2> QED BY <1>1, <2>1, StillCol DEF Served
<1>4. CASE ~MissingStorage
  <2>1. ~Pending /\ phase' = "storage" /\ stored' = stored \cup {cursor}
    BY <1>1, <1>2, <1>4 DEF RecoverPassed
  <2>2. CASE cursor \in stored
    <3>1. stored' = stored
      BY <2>1, <2>2
    <3> QED BY <1>1, <1>2, <2>1, <3>1, StillCol
  <2>3. CASE cursor \notin stored
    <3>1. Op = "put" /\ retired(cursor)
      BY <1>1, <2>1, <2>3 DEF Pending
    <3>2. PICK l \in CatalogDecisions : /\ \A m \in CatalogDecisions : m <= l
                                        /\ journal[l].op = "drop" \/ cursor < l
      BY <3>1 DEF retired
    <3>3. Latest(l)
      BY <3>2 DEF Latest
    <3>4. cursor \notin Due
      <4>1. CASE journal[l].op = "drop"
        <5>1. ~Created
          BY <3>3, <4>1, WorldIs
        <5> QED BY <5>1, WorldIs
      <4>2. CASE cursor < l
        <5>1. ~(l < cursor)
          BY <1>2, <4>2, WorldIs
        <5> QED BY <5>1, WorldIs
      <4> QED BY <3>2, <4>1, <4>2
    <3>5. ~Alone(journal[cursor].op)
      BY <3>1 DEF Op, Alone
    <3>6. PICK t : t = cursor
      OBVIOUS
    <3>7. t \in DOMAIN journal /\ stored' = stored \cup {t} /\ ~Alone(journal[t].op) /\ t \notin Due
      BY <1>2, <2>1, <3>4, <3>5, <3>6
    <3> QED BY <1>1, <1>2, <2>1, <3>7, StoresCol
  <2> QED BY <2>2, <2>3
<1> QED BY <1>3, <1>4

LEMMA RecoverMarkCol ==
  ASSUME Inv, ColInv, Marking, Marked, RecoverMark
  PROVE  ColInv'
<1>1. /\ phase \in {"storage", "marking"} /\ phase' = "storage" /\ stored' = stored \cup {cursor}
      /\ UNCHANGED <<journal, catalog, catalog_wal, dirs, broken, job, collection>>
  BY DEF RecoverMark, Pending, Recovering, memory
<1>2. PICK t : t = cursor
  OBVIOUS
<1>3. CASE phase = "marking"
  <2>1. Entered(t) /\ (journal[t].op = "create" => ~NoLive)
    BY <1>2, <1>3 DEF Marked
  <2>2. t \in CatalogDecisions
    BY <2>1 DEF Entered, Has, ColInv, CatInv
  <2>3. t \in DOMAIN journal /\ t \notin Due
    <3>1. ~(t < t)
      BY <2>2, WorldIs
    <3> QED BY <2>2, <3>1, WorldIs
  <2> QED BY <1>1, <1>2, <1>3, <2>1, <2>3, StoresCol
<1>4. CASE phase # "marking"
  <2>1. /\ Pending /\ ~Alone(Op)
        /\ Op \in ColOps => ~NoLive /\ cursor \in Range(dirs["live"])
    BY <1>4 DEF RecoverMark, ColOps
  <2>2. t \in DOMAIN journal /\ ~Alone(journal[t].op)
    BY <1>2, <2>1, CursorPending DEF Op
  <2>3. ASSUME t \in Due PROVE Has(dirs["live"], t)
    <3>1. Op \in ColOps /\ Created
      BY <1>2, <2>3, WorldIs DEF Op
    <3>2. LogOf(dirs["live"])
      BY <2>1, <3>1 DEF ColInv, DirInv
    <3> QED BY <1>2, <2>1, <3>1, <3>2, HasRange DEF LogOf
  <2> QED BY <1>1, <1>2, <2>2, <2>3, StoresCol
<1> QED BY <1>3, <1>4

\* Steps of startup that have nothing to do with the collection.
LEMMA QuietStartupCol ==
  ASSUME Inv, ColInv,
         \/ Open \/ RecoverRelationalRecord \/ LoadRelational
         \/ RecoverAuditRecord \/ RecoverAuditMark
         \/ CheckpointRelational \/ DropRelationalPrefix
  PROVE  ColInv'
<1>1. CASE Open
  BY <1>1, StillCol DEF Open, disk, memory, Served
<1>2. CASE RecoverRelationalRecord
  BY <1>2, StillCol DEF RecoverRelationalRecord, memory
<1>3. CASE LoadRelational
  <2>1. UNCHANGED <<journal, stored, catalog, catalog_wal, dirs, collection, job, broken, poisoned, degraded>>
        /\ phase' \in {"load", "refused"}
    BY <1>3 DEF LoadRelational
  <2> QED BY <2>1, StillCol DEF Served
<1>4. CASE RecoverAuditRecord \/ RecoverAuditMark
  <2>1. UNCHANGED <<journal, stored, catalog, catalog_wal, dirs, collection, job, broken, poisoned, degraded, phase>>
    BY <1>4 DEF RecoverAuditRecord, RecoverAuditMark, memory
  <2> QED BY <2>1, StillCol
<1>5. CASE CheckpointRelational \/ DropRelationalPrefix
  <2>1. UNCHANGED <<journal, stored, catalog, catalog_wal, dirs, collection, job, broken, poisoned, degraded, phase>>
    BY <1>5 DEF CheckpointRelational, DropRelationalPrefix, memory
  <2> QED BY <2>1, StillCol
<1> QED BY <1>1, <1>2, <1>3, <1>4, <1>5
-----------------------------------------------------------------------------
(* What the replay of the catalog's WAL makes of the catalog file. *)

LEMMA CatalogChoose ==
  ASSUME NEW s, NEW e
  PROVE  FoldLeft(CatalogApply, e, s)
           = (CHOOSE g : Folds(Replay("catalog", e, s), DOMAIN s, g))[DOMAIN s]
<1> DEFINE w == Replay("catalog", e, s)
<1>1. w.log = "catalog" /\ w.start = e /\ w.records = s
  BY DEF Replay
<1>2. \A r, tx : Apply(w.log, r, tx) = CatalogApply(r, tx)
  BY <1>1 DEF Apply
<1> HIDE DEF w
<1>3. \A f, S : FoldValue(w, f, S)
                  = IF S = {} THEN e ELSE CatalogApply(f[S \ {Max(S)}], s[Max(S)])
  BY <1>1, <1>2, Zenon DEF FoldValue
<1> DEFINE Q(g) == g = [S \in SUBSET DOMAIN s |->
                          IF S = {} THEN e ELSE CatalogApply(g[S \ {Max(S)}], s[Max(S)])]
<1>4. \A g : Folds(w, DOMAIN s, g) <=> Q(g)
  BY <1>3, Zenon DEF Folds
<1>5. (CHOOSE g : Folds(w, DOMAIN s, g)) = CHOOSE g : Q(g)
  BY <1>4, Zenon
<1>6. FoldLeft(CatalogApply, e, s) = (CHOOSE g : Q(g))[DOMAIN s]
  BY Zenon DEF FoldLeft, MapThenFoldSet
<1> QED BY <1>5, <1>6 DEF w

LEMMA CatalogStep ==
  ASSUME NEW r, NEW tx, "ok" \in DOMAIN r
  PROVE  /\ "ok" \in DOMAIN CatalogApply(r, tx)
         /\ CatalogApply(r, tx).ok =>
              /\ CatalogApply(r, tx).has \in BOOLEAN
              /\ CatalogApply(r, tx).has <=> journal[tx].op = "create"
<1>1. PICK q : q = CatalogApply(r, tx)
  OBVIOUS
<1>2. \/ q = [r EXCEPT !.ok = FALSE]
      \/ \E v : q = [ok |-> TRUE, has |-> journal[tx].op = "create",
                     dropped |-> journal[tx].op = "drop", revision |-> v]
  BY <1>1, Zenon DEF CatalogApply
<1>3. CASE q = [r EXCEPT !.ok = FALSE]
  <2>1. "ok" \in DOMAIN q /\ ~q.ok
    BY <1>3
  <2> QED BY <1>1, <2>1
<1>4. ASSUME NEW v, q = [ok |-> TRUE, has |-> journal[tx].op = "create",
                         dropped |-> journal[tx].op = "drop", revision |-> v]
      PROVE  "ok" \in DOMAIN q /\ q.has \in BOOLEAN /\ (q.has <=> journal[tx].op = "create")
  BY <1>4
<1> QED BY <1>1, <1>2, <1>3, <1>4

\* The states of the replay, one after each record behind the watermark.
LEMMA CatalogChain ==
  ASSUME CatInv
  PROVE  \E n \in Nat : \E f :
           /\ Len(catalog_wal.records) = catalog.mark + n
           /\ f[0] = [ok |-> TRUE, has |-> catalog.has, dropped |-> FALSE, revision |-> catalog.revision]
           /\ f[n] = replay_catalog_wal
           /\ \A k \in Nat : k + 1 <= n =>
                /\ f[k + 1] = CatalogApply(f[k], catalog_wal.records[catalog.mark + (k + 1)])
                /\ catalog.mark + (k + 1) \in 1 .. Len(catalog_wal.records)
<1> DEFINE s == catalog_wal.records
           m == catalog.mark
           e == [ok |-> TRUE, has |-> catalog.has, dropped |-> FALSE, revision |-> catalog.revision]
           b == Behind(s, m)
<1>1. s \in Seq(Nat) /\ Len(s) \in Nat /\ m \in Nat /\ m <= Len(s)
  BY DEF CatInv
<1>n. PICK n \in Nat : n = Len(s) - m
  BY <1>1
<1>l. Len(s) = m + n
  BY <1>1, <1>n
<1>2. /\ DOMAIN b = 1 .. n
      /\ \A i \in 1 .. n : b[i] = s[m + i]
  <2> HIDE DEF s, m
  <2> QED BY <1>1, <1>l, BehindIs
<1>3. replay_catalog_wal = FoldLeft(CatalogApply, e, b)
  BY DEF replay_catalog_wal, Behind
<1>e. PICK ee, bb : ee = e /\ bb = b
  OBVIOUS
<1>w. PICK w : w = Replay("catalog", ee, bb)
  OBVIOUS
<1>4. w.log = "catalog" /\ w.start = ee /\ w.records = bb
  BY <1>w DEF Replay
<1>5. replay_catalog_wal = (CHOOSE g : Folds(w, 1 .. n, g))[1 .. n]
  <2>1. DOMAIN bb = 1 .. n
    BY <1>2, <1>e
  <2>2. FoldLeft(CatalogApply, ee, bb) = (CHOOSE g : Folds(w, DOMAIN bb, g))[DOMAIN bb]
    BY <1>w, CatalogChoose
  <2> HIDE DEF e, b
  <2> QED BY <1>3, <1>e, <2>1, <2>2
<1>6. PICK f : /\ f[0] = w.start /\ f[n] = replay_catalog_wal
               /\ \A k \in 0 .. n - 1 : f[k + 1] = Apply(w.log, f[k], w.records[k + 1])
  <2>1. PICK f : /\ f[0] = w.start /\ f[n] = (CHOOSE g : Folds(w, 1 .. n, g))[1 .. n]
                 /\ \A k \in 0 .. n - 1 : f[k + 1] = Apply(w.log, f[k], w.records[k + 1])
    BY FoldChain, Zenon
  <2>2. f[n] = replay_catalog_wal
    BY <1>5, <2>1, Zenon
  <2> QED BY <2>1, <2>2, Zenon
<1>7. ASSUME NEW k \in Nat, k + 1 <= n
      PROVE  f[k + 1] = CatalogApply(f[k], s[m + (k + 1)]) /\ m + (k + 1) \in 1 .. Len(s)
  <2>1. k \in 0 .. n - 1 /\ k + 1 \in 1 .. n /\ m + (k + 1) \in 1 .. Len(s)
    <3>1. Len(s) = m + n /\ m \in Nat /\ k \in Nat /\ n \in Nat /\ k + 1 <= n
      BY <1>1, <1>l, <1>7
    <3> HIDE DEF s, m, b, e
    <3> QED BY <3>1
  <2>2. f[k + 1] = CatalogApply(f[k], bb[k + 1])
    BY <1>4, <1>6, <2>1 DEF Apply
  <2> QED BY <1>2, <1>e, <2>1, <2>2
<1>8. f[0] = e
  BY <1>4, <1>6, <1>e
<1>9. f[n] = replay_catalog_wal
  BY <1>6
<1> QED BY <1>l, <1>7, <1>8, <1>9

LEMMA CatalogReplay ==
  ASSUME Inv, CatInv, \A l \in CatalogDecisions : Entered(l), replay_catalog_wal.ok
  PROVE  replay_catalog_wal.has \in BOOLEAN /\ (replay_catalog_wal.has <=> Created)
<1> DEFINE s == catalog_wal.records
           m == catalog.mark
           e == [ok |-> TRUE, has |-> catalog.has, dropped |-> FALSE, revision |-> catalog.revision]
<1>1. PICK n \in Nat : \E f :
         /\ Len(s) = m + n /\ f[0] = e /\ f[n] = replay_catalog_wal
         /\ \A k \in Nat : k + 1 <= n =>
              f[k + 1] = CatalogApply(f[k], s[m + (k + 1)]) /\ m + (k + 1) \in 1 .. Len(s)
  BY CatalogChain
<1>2. PICK f :
         /\ Len(s) = m + n /\ f[0] = e /\ f[n] = replay_catalog_wal
         /\ \A k \in Nat : k + 1 <= n =>
              f[k + 1] = CatalogApply(f[k], s[m + (k + 1)]) /\ m + (k + 1) \in 1 .. Len(s)
  BY <1>1
<1>3. m \in Nat
  BY DEF CatInv
<1>4. CASE n = 0
  <2>1. replay_catalog_wal = e
    BY <1>2, <1>4
  <2>2. replay_catalog_wal.has = catalog.has
    BY <2>1
  <2>3. catalog.mark = Len(catalog_wal.records)
    BY <1>2, <1>3, <1>4
  <2> QED BY <2>2, <2>3 DEF CatInv
<1>5. CASE n # 0
  <2> DEFINE T == {k \in Nat : k <= n => "ok" \in DOMAIN f[k]}
  <2>1. 0 \in T
    BY <1>2
  <2>2. ASSUME NEW k \in Nat, k \in T PROVE k + 1 \in T
    <3> SUFFICES ASSUME k + 1 <= n PROVE "ok" \in DOMAIN f[k + 1]
      OBVIOUS
    <3>1. "ok" \in DOMAIN f[k]
      BY <2>2
    <3>2. f[k + 1] = CatalogApply(f[k], s[m + (k + 1)])
      BY <1>2
    <3> QED BY <3>1, <3>2, CatalogStep
  <2>3. \A k \in Nat : k \in T
    <3> HIDE DEF T
    <3> QED BY <2>1, <2>2, EveryNumber
  <2>4. PICK k \in Nat : n = k + 1
    <3>1. n - 1 \in Nat /\ n = (n - 1) + 1
      BY <1>5
    <3> QED BY <3>1
  <2>5. "ok" \in DOMAIN f[k]
    BY <2>3, <2>4
  <2>6. PICK tx : tx = s[Len(s)]
    OBVIOUS
  <2>7. replay_catalog_wal = CatalogApply(f[k], tx) /\ Len(s) \in 1 .. Len(s)
    BY <1>2, <2>4, <2>6
  <2>8. replay_catalog_wal.has \in BOOLEAN /\ (replay_catalog_wal.has <=> journal[tx].op = "create")
    BY <2>5, <2>7, CatalogStep
  <2>9. tx \in CatalogDecisions
    BY <2>6, <2>7 DEF CatInv
  <2>10. PICK l : Latest(l)
    BY <2>9, SomeLatest
  <2>11. Entered(l)
    BY <2>10 DEF Latest
  <2>12. tx = l
    BY <2>6, <2>10, <2>11 DEF CatInv
  <2>13. Created <=> journal[l].op = "create"
    BY <2>10, WorldIs
  <2> QED BY <2>8, <2>12, <2>13
<1> QED BY <1>4, <1>5
-----------------------------------------------------------------------------
(* Startup loads the collection. *)

LEMMA AllStored ==
  ASSUME Inv, ColInv, phase \in Served \cup {"load"}
  PROVE  /\ DOMAIN journal \subseteq stored
         /\ \A l \in CatalogDecisions : Entered(l)
         /\ Created => /\ ~NoLive /\ LogOf(dirs["live"])
                       /\ \A k \in Due : Has(dirs["live"], k)
<1>1. DOMAIN journal \subseteq stored
  BY DEF Inv, StartupProgress, Served
<1>2. \A l \in CatalogDecisions : Entered(l)
  BY <1>1, WorldIs DEF ColInv, CatInv
<1>3. Created => ~NoLive
  <2>1. Created => \E l : Latest(l) /\ l \in stored
    BY <1>1, WorldIs DEF Latest
  <2> QED BY <2>1 DEF ColInv, DirInv
<1>4. Created => LogOf(dirs["live"])
  BY <1>3 DEF ColInv, DirInv
<1>5. Created => \A k \in Due : Has(dirs["live"], k)
  BY <1>1, <1>4, WorldIs DEF LogOf
<1> QED BY <1>1, <1>2, <1>3, <1>4, <1>5

\* No request is under way when the collection is loaded.
LEMMA LoadedCol ==
  ASSUME Inv, phase # "up", phase' # "up", UNCHANGED job,
         Settled', CatInv', DirInv', Shaped', Restored'
  PROVE  ColInv'
<1>1. ColJobs'
  <2>1. \A d \in Clients : \A j : j = job'[d] => j.op = "none"
    BY DEF Inv, Jobs, Idle
  <2>2. \A d \in Clients : \A j : j = job'[d] => ColJob(j)'
    BY <2>1, FreeJob
  <2> QED BY <2>2, JobsNext
<1>2. MemInv'
  BY DEF MemInv
<1> QED BY <1>1, <1>2 DEF ColInv

LEMMA LoadCatalogCol ==
  ASSUME Inv, ColInv, LoadCatalog
  PROVE  ColInv'
<1>1. /\ phase = "load"
      /\ UNCHANGED <<journal, stored, catalog, catalog_wal, degraded, poisoned, job, broken>>
  BY DEF LoadCatalog
<1>2. PICK r : r = replay_catalog_wal
  OBVIOUS
<1>3. CASE ~(r.ok /\ (r.has => DOMAIN dirs \cap {"live", "staging"} # {}))
  <2>1. phase' = "refused" /\ UNCHANGED <<dirs, collection>>
    BY <1>2, <1>3 DEF LoadCatalog
  <2> QED BY <1>1, <2>1, StillCol DEF Served
<1>4. CASE r.ok /\ (r.has => DOMAIN dirs \cap {"live", "staging"} # {})
  <2>1. /\ dirs' = reconciled(r)
        /\ collection' = [open |-> r.has, rows |-> IF r.has THEN dirs'["live"] ELSE <<>>]
        /\ phase' \in {"catalog", "audit"}
    BY <1>2, <1>4 DEF LoadCatalog
  <2>2. /\ \A l \in CatalogDecisions : Entered(l)
        /\ Created => ~NoLive /\ LogOf(dirs["live"])
    BY <1>1, AllStored
  <2>3. r.has \in BOOLEAN /\ (r.has <=> Created)
    BY <1>2, <1>4, <2>2, CatalogReplay DEF ColInv
  <2>4. Settled' /\ CatInv'
    <3>1. \A l \in stored' \cap CatalogDecisions : Entered(l)
      BY <1>1 DEF ColInv, CatInv
    <3> QED BY <1>1, <3>1, SettledKept, CatSame DEF ColInv
  <2>5. CASE Created
    <3>1. ~NoLive /\ LogOf(dirs["live"])
      BY <2>2, <2>5
    <3>2. dirs' = Without(dirs, {"staging"})
      BY <2>1, <2>3, <2>5, <3>1 DEF reconciled
    <3>s. PICK s : s = dirs["live"]
      OBVIOUS
    <3>3. "staging" \notin DOMAIN dirs' /\ "live" \in DOMAIN dirs' /\ dirs'["live"] = s
      BY <3>1, <3>2, <3>s DEF Without, NoLive
    <3>4. LogOf(s)
      BY <3>1, <3>s
    <3>5. LogOf(s)'
      BY <1>1, <3>4, SameWorld DEF LogOf
    <3>6. LogOf(dirs["live"])'
      BY <3>3, <3>5, LiveLog
    <3>7. DirInv'
      BY <3>3, <3>6 DEF DirInv, NoLive
    <3>8. collection'.open = r.has /\ collection'.rows = s /\ collection' \in [open : BOOLEAN, rows : Seq(Nat)]
      <4>1. r.has /\ s \in Seq(Nat)
        BY <2>3, <2>5, <3>4 DEF LogOf
      <4>2. collection' = [open |-> r.has, rows |-> s]
        BY <2>1, <3>3, <4>1
      <4> QED BY <2>3, <4>1, <4>2
    <3>9. Shaped'
      BY <3>8 DEF Shaped
    <3>10. Restored'
      BY <1>1, <2>3, <2>5, <3>3, <3>8, SameWorld DEF Restored
    <3> QED BY <1>1, <2>1, <2>4, <3>7, <3>9, <3>10, LoadedCol
  <2>6. CASE ~Created
    <3>1. ~Created'
      BY <1>1, <2>6, SameWorld
    <3>2. PICK d : dirs' = Without(d, {"staging"})
      BY <2>1, <2>3, <2>6 DEF reconciled
    <3>3. "staging" \notin DOMAIN dirs'
      BY <3>2 DEF Without
    <3>4. DirInv'
      BY <3>1, <3>3 DEF DirInv
    <3>5. collection' = [open |-> r.has, rows |-> <<>>] /\ ~r.has
      BY <2>1, <2>3, <2>6
    <3>6. <<>> \in Seq(Nat)
      BY EmptySequence
    <3>7. Shaped'
      BY <2>3, <3>5, <3>6 DEF Shaped
    <3>8. Restored'
      BY <3>1, <3>5 DEF Restored
    <3> QED BY <1>1, <2>1, <2>4, <3>4, <3>7, <3>8, LoadedCol
  <2> QED BY <2>5, <2>6
<1> QED BY <1>3, <1>4

LEMMA LoadedCatalogCol ==
  ASSUME Inv, ColInv, LoadedCatalogWrite \/ LoadedCatalogPrefix
  PROVE  ColInv'
<1>1. /\ phase \in Served /\ phase' \in Served
      /\ UNCHANGED <<journal, stored, dirs, collection, job, broken>>
  BY DEF LoadedCatalogWrite, LoadedCatalogPrefix, memory, Served
<1>2. Settled' /\ DirInv'
  BY <1>1, SettledKept, DirSame DEF ColInv
<1>3. Shaped /\ Restored
  BY DEF ColInv, MemInv
<1>4. Shaped' /\ Restored'
  BY <1>1, <1>3, SameWorld DEF Shaped, Restored, Served
<1>5. CatInv'
  <2>1. CASE LoadedCatalogWrite
    <3>1. UNCHANGED catalog_wal /\ catalog' = WrittenCatalog
      BY <2>1 DEF LoadedCatalogWrite
    <3>2. collection.open <=> Created
      BY <1>1, <1>3 DEF Restored, Served
    <3> QED BY <1>1, <1>3, <3>1, <3>2, CatWritten DEF ColInv
  <2>2. CASE LoadedCatalogPrefix
    <3>1. UNCHANGED catalog /\ catalog_wal' = [catalog_wal EXCEPT !.base = catalog.mark]
      BY <2>2 DEF LoadedCatalogPrefix
    <3>2. catalog_wal' \in [base : Nat, records : Seq(Nat)] /\ catalog_wal'.records = catalog_wal.records
      BY <3>1 DEF ColInv, CatInv
    <3>3. \A l \in stored' \cap CatalogDecisions : Entered(l)
      BY <1>1 DEF ColInv, CatInv
    <3> QED BY <1>1, <3>1, <3>2, <3>3, CatKept DEF ColInv
  <2> QED BY <2>1, <2>2
<1> QED BY <1>1, <1>2, <1>4, <1>5, LoadedCol DEF Served

LEMMA ServeCol ==
  ASSUME Inv, ColInv, Serve
  PROVE  ColInv'
<1>1. /\ phase = "audit" /\ phase' = "up"
      /\ UNCHANGED <<journal, stored, catalog, catalog_wal, dirs, collection, job, broken, poisoned, degraded>>
  BY DEF Serve, disk, memory
<1>2. Settled' /\ DirInv' /\ CatInv'
  <2>1. \A l \in stored' \cap CatalogDecisions : Entered(l)
    BY <1>1 DEF ColInv, CatInv
  <2> QED BY <1>1, <2>1, SettledKept, DirSame, CatSame DEF ColInv
<1>3. ColJobs'
  <2>1. \A d \in Clients : \A j : j = job'[d] => j.op = "none"
    BY <1>1 DEF Inv, Jobs, Idle
  <2>2. \A d \in Clients : \A j : j = job'[d] => ColJob(j)'
    BY <2>1, FreeJob
  <2> QED BY <2>2, JobsNext
<1>4. /\ Created => ~NoLive /\ LogOf(dirs["live"]) /\ \A k \in Due : Has(dirs["live"], k)
      /\ collection.open <=> Created
      /\ collection.rows = IF Created THEN dirs["live"] ELSE <<>>
  BY <1>1, AllStored DEF Served, ColInv, MemInv, Restored
<1>5. (NoLive' <=> NoLive) /\ (\A k : Has(dirs["live"], k)' <=> Has(dirs["live"], k))
  BY <1>1 DEF NoLive, Has
<1>6. Opened'
  BY <1>1, <1>4, <1>5, SameWorld DEF Opened
<1>7. Missing'
  BY <1>1, <1>4, <1>5, SameWorld DEF Missing
<1>8. Shown'
  <2> SUFFICES ASSUME Created', collection'.open, broken' = {}
               PROVE  /\ \A i, j \in 1 .. Len(collection'.rows) : i < j => collection'.rows[i] < collection'.rows[j]
                      /\ \A k : Has(collection.rows, k)' =>
                           k \in Due' /\ \A c \in Clients : job'[c].tx = k => ~Unshown(job[c])'
                      /\ \A k \in Due' : Has(collection.rows, k)'
    BY DEF Shown
  <2>s. PICK s : s = dirs["live"]
    OBVIOUS
  <2>1. collection'.rows = s /\ LogOf(s) /\ \A k \in Due : Has(s, k)
    BY <1>1, <1>4, <2>s, SameWorld
  <2>2. \A k : Has(collection.rows, k)' <=> Has(s, k)
    BY <2>1 DEF Has
  <2>3. \A k : Has(s, k) => k \in Due
    BY <2>1 DEF LogOf, Has
  <2>4. \A i, j \in 1 .. Len(s) : i < j => s[i] < s[j]
    BY <1>1, <2>1 DEF LogOf
  <2>5. \A c \in Clients : ~Unshown(job[c])'
    <3>1. \A c \in Clients : job'[c].op = "none"
      BY <1>1 DEF Inv, Jobs, Idle
    <3> QED BY <3>1 DEF Unshown, Appending, ColOps
  <2> QED BY <1>1, <2>1, <2>2, <2>3, <2>4, <2>5, SameWorld
<1>9. MemInv'
  BY <1>1, <1>6, <1>7, <1>8 DEF ColInv, MemInv, Shaped, Restored
<1> QED BY <1>2, <1>3, <1>9 DEF ColInv

-----------------------------------------------------------------------------
LEMMA StartupCol ==
  ASSUME Inv, ColInv, Marking, Marked, Startup
  PROVE  ColInv'
<1>1. CASE Open \/ RecoverRelationalRecord \/ LoadRelational \/ RecoverAuditRecord \/ RecoverAuditMark
  BY <1>1, QuietStartupCol
<1>2. CASE RecoverPassed \/ RecoverCatalogRecord \/ RecoverCollectionRecord \/ RecoverRename
  BY <1>2, RecoverPassedCol, RecoverCatalogRecordCol, RecoverCollectionRecordCol, RecoverRenameCol
<1>3. CASE RecoverInstalled \/ RecoverMark
  BY <1>3, RecoverInstalledCol, RecoverMarkCol
<1>4. CASE LoadCatalog \/ LoadedCatalogWrite \/ LoadedCatalogPrefix \/ Serve
  BY <1>4, LoadCatalogCol, LoadedCatalogCol, ServeCol
<1> QED BY <1>1, <1>2, <1>3, <1>4 DEF Startup

LEMMA NextMarked ==
  ASSUME Inv, ColInv, Marked, [Next]_vars
  PROVE  Marked'
<1>1. CASE UNCHANGED vars
  BY <1>1 DEF vars, disk, Marked, Entered, Has, NoLive
<1>2. CASE RecoverInstalled
  BY <1>2, RecoverInstalledCol
<1>3. CASE phase' # "marking"
  BY <1>3 DEF Marked
<1> QED BY <1>1, <1>2, <1>3, MarkingBegins

LEMMA NextCol ==
  ASSUME Inv, Locks, ColInv, Marking, Marked, [Next]_vars
  PROVE  ColInv'
<1>1. CASE Startup
  BY <1>1, StartupCol
<1>2. CASE Crash
  BY <1>2, CrashCol
<1>3. CASE CheckpointRelational \/ DropRelationalPrefix
  BY <1>3, QuietStartupCol
<1>4. ASSUME NEW c \in Clients, Request(c) PROVE ColInv'
  BY <1>4, RequestCol
<1>5. CASE UNCHANGED vars
  <2>1. UNCHANGED <<journal, stored, catalog, catalog_wal, dirs, collection, job, broken, poisoned, degraded, phase>>
    BY <1>5 DEF vars, disk, memory
  <2> QED BY <2>1, StillCol
<1> QED BY <1>1, <1>2, <1>3, <1>4, <1>5 DEF Next

LEMMA ColAlways == Spec => [](Inv /\ Locks /\ RelInv /\ ColInv)
<1>1. Init => ColInv /\ Marked
  BY InitCol
<1>2. /\ Inv /\ Locks /\ Marking /\ RelInv /\ ColInv /\ Marked /\ [Next]_vars
      => ColInv' /\ Marked'
  BY NextCol, NextMarked
<1> QED BY <1>1, <1>2, RelAlways, PTL DEF Spec

\* Startup gives the collection exactly the decided transactions of its last
\* incarnation, each once, and in commit order unless a process failed to project
\* a multi-model transaction and went on, for any number of clients, decisions,
\* failed writes and crashes; a dropped collection stays dropped.
THEOREM CollectionRecovers == Spec => []CollectionRecovered
<1>1. Inv /\ Locks /\ RelInv /\ ColInv => CollectionRecovered
  <2> SUFFICES ASSUME Inv, ColInv, phase \in Served
               PROVE  /\ collection.open = Created
                      /\ Range(collection.rows) = Due /\ IsInjective(collection.rows)
                      /\ broken = {} => Ascending(collection.rows)
    BY DEF CollectionRecovered, InCommitOrder, Served
  <2>1. /\ collection.open \in BOOLEAN /\ (collection.open <=> Created)
        /\ collection.rows = IF Created THEN dirs["live"] ELSE <<>>
    BY DEF ColInv, MemInv, Shaped, Restored, Served
  <2>2. collection.open = Created
    BY <2>1 DEF Created
  <2>3. CASE Created
    <3>1. PICK s : s = collection.rows
      OBVIOUS
    <3>2. LogOf(s) /\ \A k \in Due : Has(s, k)
      BY <2>1, <2>3, <3>1, AllStored
    <3>3. s \in Seq(Nat)
      BY <3>2 DEF LogOf
    <3>4. DOMAIN s = 1 .. Len(s) /\ \A k : k \in Range(s) <=> Has(s, k)
      BY <3>3, HasRange
    <3>5. \A k : Has(s, k) <=> k \in Due
      BY <3>2 DEF LogOf, Has
    <3>6. Range(s) = Due
      BY <3>4, <3>5
    <3>7. IsInjective(s)
      BY <3>2, <3>4 DEF IsInjective, LogOf
    <3>8. broken = {} => Ascending(s)
      BY <3>2, <3>4 DEF Ascending, LogOf
    <3> QED BY <2>2, <3>1, <3>6, <3>7, <3>8
  <2>4. CASE ~Created
    <3>1. collection.rows = <<>> /\ DOMAIN <<>> = {}
      BY <2>1, <2>4
    <3>2. Due = {}
      BY <2>4, WorldIs
    <3> QED BY <2>2, <3>1, <3>2 DEF Range, IsInjective, Ascending
  <2> QED BY <2>3, <2>4
<1> QED BY <1>1, ColAlways, PTL

\* What is not published is what a request still has to publish.
LEMMA PublishedIs ==
  ASSUME Inv, Locks
  PROVE  /\ \A k \in RelTx : ~Published(k) <=> \E c \in Clients : job[c].tx = k /\ Candidate(c)
         /\ \A k \in Due : ~Published(k) <=> \E c \in Clients : job[c].tx = k /\ Unshown(job[c])
<1>1. ASSUME NEW k \in DOMAIN journal, NEW c \in Clients, job[c].tx = k
      PROVE  job[c].op = journal[k].op
  <2>1. job[c].pc \notin Undecided
    BY <1>1, JobTyped, WorldIs
  <2> QED BY <1>1, <2>1 DEF Locks, Owned
<1>2. ASSUME NEW k \in RelTx
      PROVE  ~Published(k) <=> \E c \in Clients : job[c].tx = k /\ Candidate(c)
  <2>1. k \in DOMAIN journal /\ journal[k].op \in Rel
    BY <1>2, RelTxIs
  <2>2. \A c \in Clients : job[c].tx = k => job[c].op \in Rel
    BY <1>1, <2>1
  <2>3. ASSUME NEW c \in Clients, job[c].tx = k
        PROVE  Candidate(c) <=> ~(/\ job[c].pc \notin {"append", "append_collection"}
                                  /\ job[c].pc = "mark" => job[c].op = "multi")
    <3>1. job[c].op \in {"sql", "multi"}
      BY <2>2, <2>3 DEF Rel
    <3> QED BY <3>1 DEF Candidate, HoldsRelational
  <2> QED BY <2>3 DEF Published
<1>3. ASSUME NEW k \in Due
      PROVE  ~Published(k) <=> \E c \in Clients : job[c].tx = k /\ Unshown(job[c])
  <2>1. k \in DOMAIN journal /\ journal[k].op \in ColOps
    BY <1>3, WorldIs
  <2>2. \A c \in Clients : job[c].tx = k => job[c].op \in ColOps
    BY <1>1, <2>1
  <2>3. ASSUME NEW c \in Clients, job[c].tx = k
        PROVE  Unshown(job[c]) <=> ~(/\ job[c].pc \notin {"append", "append_collection"}
                                     /\ job[c].pc = "mark" => job[c].op = "multi")
    BY <2>2, <2>3 DEF Unshown, Appending, ColOps
  <2> QED BY <2>3 DEF Published
<1> QED BY <1>2, <1>3

\* While requests run, memory shows every published decision in commit order and
\* no other, for any number of clients, decisions, failed writes and crashes,
\* until a failed append leaves a decision behind that the process does not know
\* of, or the projection of a multi-model transaction fails.
THEOREM MemoryFollows == Spec => []MemoryFollowsJournal
<1>1. Inv /\ Locks /\ RelInv /\ ColInv => MemoryFollowsJournal
  <2> SUFFICES ASSUME Inv, Locks, RelInv, ColInv, phase = "up", broken = {}, "journal" \notin poisoned
               PROVE  /\ InCommitOrder(state.rows, {k \in RelTx : Published(k)})
                      /\ collection.open /\ Created =>
                            InCommitOrder(collection.rows, {k \in Due : Published(k)})
    BY DEF MemoryFollowsJournal, RelTx, Rel
  <2>1. InCommitOrder(state.rows, {k \in RelTx : Published(k)})
    <3>1. Image(state.rows, state.sequence) /\ state.sequence \in Nat
      BY DEF RelInv, RelShape
    <3>2. Ascending(state.rows) /\ DOMAIN state.rows = 1 .. state.sequence
      BY <3>1, ImageAscends
    <3>3. ASSUME NEW i \in 1 .. state.sequence
          PROVE  state.rows[i] \in RelTx /\ Published(state.rows[i])
      <4>k. PICK k : k = state.rows[i]
        OBVIOUS
      <4>1. k \in RelTx /\ Num(k) = i
        BY <3>1, <4>k DEF Image
      <4>2. ASSUME NEW c \in Clients, job[c].tx = k, Candidate(c) PROVE FALSE
        <5>1. Num(k) = state.sequence + 1
          BY <4>2 DEF RelInv, RelJobs, Candidate
        <5> QED BY <3>1, <4>1, <5>1
      <4>3. Published(k)
        BY <4>1, <4>2, PublishedIs
      <4> QED BY <4>k, <4>1, <4>3
    <3>4. ASSUME NEW k \in RelTx, Published(k)
          PROVE  Num(k) \in 1 .. state.sequence /\ state.rows[Num(k)] = k
      <4>1. ~Pendent(k)
        BY <3>4, PublishedIs DEF Pendent
      <4>2. Num(k) <= state.sequence
        BY <4>1 DEF RelInv, CaughtUp, Loaded
      <4> QED BY <3>1, <4>2, ImageHolds
    <3>5. Range(state.rows) = {k \in RelTx : Published(k)}
      BY <3>2, <3>3, <3>4 DEF Range
    <3> QED BY <3>2, <3>5 DEF InCommitOrder
  <2>2. ASSUME collection.open, Created
        PROVE  InCommitOrder(collection.rows, {k \in Due : Published(k)})
    <3>1. Shown /\ Shaped
      BY DEF ColInv, MemInv
    <3>s. PICK s : s = collection.rows
      OBVIOUS
    <3>2. s \in Seq(Nat)
      BY <3>1, <3>s DEF Shaped
    <3>3. DOMAIN s = 1 .. Len(s) /\ \A k : k \in Range(s) <=> Has(s, k)
      BY <3>2, HasRange
    <3>4. ~Stuck
      BY DEF Stuck
    <3>5. /\ \A i, j \in 1 .. Len(s) : i < j => s[i] < s[j]
          /\ \A k : Has(s, k) => k \in Due /\ \A c \in Clients : job[c].tx = k => ~Unshown(job[c])
          /\ \A k \in Due : Has(s, k) \/ \E c \in Clients : job[c].tx = k /\ Unshown(job[c])
      BY <2>2, <3>1, <3>s, <3>4 DEF Shown
    <3>6. Ascending(s)
      BY <3>3, <3>5 DEF Ascending
    <3>7. \A k : k \in Range(s) <=> k \in Due /\ Published(k)
      BY <3>3, <3>5, PublishedIs
    <3>8. Range(s) = {k \in Due : Published(k)}
      BY <3>7
    <3> QED BY <3>s, <3>6, <3>8 DEF InCommitOrder
  <2> QED BY <2>1, <2>2
<1> QED BY <1>1, ColAlways, PTL

-----------------------------------------------------------------------------
(***************************************************************************)
(* Types.  Most of TypeOK is in the invariants above; what is left is      *)
(* about numbers (Known), places (Placed) and bounds (Bounded).            *)
(***************************************************************************)
Phases == {"down", "storage", "marking", "load", "catalog", "prefix", "audit", "up", "refused"}
Places == {"live", "staging", "trash"}

Known ==
  /\ \A k \in DOMAIN journal : journal[k] \in [op : AllOps, number : Nat]
  /\ catalog \in [has : BOOLEAN, revision : Nat, mark : Nat]
  /\ \A c \in Clients : job[c].op \in Ops \cup {"none"}

Placed ==
  /\ catalog_wal.base <= Len(catalog_wal.records)
  /\ relational_wal.base <= Len(relational_wal.records)
  /\ DOMAIN dirs \subseteq Places

Bounded ==
  /\ phase \in Phases /\ cursor \in 0 .. (Len(journal) + 1)
  /\ poisoned \subseteq Logs /\ broken \subseteq DOMAIN journal
  /\ faults \in 0 .. MaxFaults /\ crashes \in 0 .. MaxCrashes

\* A protected replay takes the revision of a decision.
LEMMA CatalogRevision ==
  ASSUME Inv, CatInv, Known
  PROVE  replay_catalog_wal.revision \in Nat
<1> DEFINE s == catalog_wal.records
           m == catalog.mark
<1>1. PICK n \in Nat : \E f :
         /\ f[0] = [ok |-> TRUE, has |-> catalog.has, dropped |-> FALSE, revision |-> catalog.revision]
         /\ f[n] = replay_catalog_wal
         /\ \A k \in Nat : k + 1 <= n =>
              f[k + 1] = CatalogApply(f[k], s[m + (k + 1)]) /\ m + (k + 1) \in 1 .. Len(s)
  BY CatalogChain
<1>2. PICK f :
         /\ f[0] = [ok |-> TRUE, has |-> catalog.has, dropped |-> FALSE, revision |-> catalog.revision]
         /\ f[n] = replay_catalog_wal
         /\ \A k \in Nat : k + 1 <= n =>
              f[k + 1] = CatalogApply(f[k], s[m + (k + 1)]) /\ m + (k + 1) \in 1 .. Len(s)
  BY <1>1
<1> DEFINE Numeric(r) == "ok" \in DOMAIN r /\ "revision" \in DOMAIN r /\ r.revision \in Nat
           T == {k \in Nat : k <= n => Numeric(f[k])}
<1>3. 0 \in T
  <2>1. catalog.revision \in Nat
    BY DEF Known
  <2> QED BY <1>2, <2>1
<1>4. ASSUME NEW k \in Nat, k \in T PROVE k + 1 \in T
  <2> SUFFICES ASSUME k + 1 <= n PROVE Numeric(f[k + 1])
    OBVIOUS
  <2>1. PICK r, tx : r = f[k] /\ tx = s[m + (k + 1)]
    OBVIOUS
  <2>2. Numeric(r)
    BY <1>4, <2>1
  <2>3. tx \in DOMAIN journal
    BY <1>2, <2>1, WorldIs DEF CatInv
  <2>4. journal[tx].number \in Nat
    BY <2>3 DEF Known
  <2>5. PICK q : q = CatalogApply(r, tx)
    OBVIOUS
  <2>6. f[k + 1] = q
    BY <1>2, <2>1, <2>5
  <2>7. \/ q = [r EXCEPT !.ok = FALSE]
        \/ \E v \in {journal[tx].number, r.revision} :
              q = [ok |-> TRUE, has |-> journal[tx].op = "create",
                   dropped |-> journal[tx].op = "drop", revision |-> v]
    BY <2>5 DEF CatalogApply
  <2>8. Numeric(q)
    BY <2>2, <2>4, <2>7
  <2> QED BY <2>6, <2>8
<1>5. \A k \in Nat : k \in T
  <2> HIDE DEF T
  <2> QED BY <1>3, <1>4, EveryNumber
<1>6. Numeric(f[n])
  BY <1>5
<1> QED BY <1>2, <1>6

LEMMA KnownNext ==
  ASSUME Inv, Locks, RelInv, ColInv, Known, [Next]_vars
  PROVE  Known'
<1>1. ASSUME catalog' = WrittenCatalog PROVE catalog' \in [has : BOOLEAN, revision : Nat, mark : Nat]
  <2>1. replay_catalog_wal.revision \in Nat
    BY CatalogRevision DEF ColInv
  <2>2. collection.open \in BOOLEAN /\ Len(catalog_wal.records) \in Nat
    BY DEF ColInv, MemInv, Shaped, CatInv
  <2> QED BY <1>1, <2>1, <2>2 DEF WrittenCatalog
<1>2. ASSUME catalog' = catalog \/ catalog' = WrittenCatalog,
             \A k \in DOMAIN journal' : journal'[k] \in [op : AllOps, number : Nat],
             \A c \in Clients : job'[c].op \in Ops \cup {"none"}
      PROVE  Known'
  BY <1>1, <1>2 DEF Known
<1>3. CASE Startup
  <2>1. UNCHANGED <<journal, job>>
    <3>1. CASE Open \/ Serve
      BY <3>1 DEF Open, Serve, disk, memory
    <3>2. CASE \/ RecoverPassed \/ RecoverCatalogRecord \/ RecoverRelationalRecord
               \/ RecoverCollectionRecord \/ RecoverRename \/ RecoverInstalled \/ RecoverMark
      BY <3>2 DEF RecoverPassed, RecoverCatalogRecord, RecoverRelationalRecord,
                  RecoverCollectionRecord, RecoverRename, RecoverInstalled, RecoverMark, memory
    <3>3. CASE \/ LoadRelational \/ LoadCatalog \/ LoadedCatalogWrite \/ LoadedCatalogPrefix
               \/ RecoverAuditRecord \/ RecoverAuditMark
      BY <3>3 DEF LoadRelational, LoadCatalog, LoadedCatalogWrite, LoadedCatalogPrefix,
                  RecoverAuditRecord, RecoverAuditMark, memory
    <3> QED BY <1>3, <3>1, <3>2, <3>3 DEF Startup
  <2>2. catalog' = catalog \/ catalog' = WrittenCatalog
    <3>1. CASE Open \/ Serve
      BY <3>1 DEF Open, Serve, disk, memory
    <3>2. CASE \/ RecoverPassed \/ RecoverCatalogRecord \/ RecoverRelationalRecord
               \/ RecoverCollectionRecord \/ RecoverRename \/ RecoverInstalled \/ RecoverMark
      BY <3>2 DEF RecoverPassed, RecoverCatalogRecord, RecoverRelationalRecord,
                  RecoverCollectionRecord, RecoverRename, RecoverInstalled, RecoverMark
    <3>3. CASE \/ LoadRelational \/ LoadCatalog \/ LoadedCatalogWrite \/ LoadedCatalogPrefix
               \/ RecoverAuditRecord \/ RecoverAuditMark
      BY <3>3 DEF LoadRelational, LoadCatalog, LoadedCatalogWrite, LoadedCatalogPrefix,
                  RecoverAuditRecord, RecoverAuditMark
    <3> QED BY <1>3, <3>1, <3>2, <3>3 DEF Startup
  <2> QED BY <1>2, <2>1, <2>2 DEF Known
<1>4. CASE Crash
  <2>1. UNCHANGED <<journal, catalog>> /\ \A c \in Clients : job'[c].op = "none"
    BY <1>4 DEF Crash, disk, Idle
  <2> QED BY <1>2, <2>1 DEF Known
<1>5. CASE CheckpointRelational \/ DropRelationalPrefix \/ UNCHANGED vars
  <2>1. UNCHANGED <<journal, catalog, job>>
    BY <1>5 DEF CheckpointRelational, DropRelationalPrefix, vars, disk, memory
  <2> QED BY <1>2, <2>1 DEF Known
<1>6. ASSUME NEW c \in Clients, NEW op \in Ops, Begin(c, op) PROVE Known'
  <2> DEFINE r == [Idle EXCEPT !.op = op, !.pc = IF op = "sql" THEN "gate" ELSE "decide"]
  <2>1. UNCHANGED <<journal, catalog>> /\ job' = [job EXCEPT ![c] = r] /\ r.op = op
    BY <1>6 DEF Begin, Idle
  <2> HIDE DEF r
  <2>2. \A d \in Clients : job'[d] = IF d = c THEN r ELSE job[d]
    BY <2>1, JobOf
  <2> QED BY <1>2, <2>1, <2>2 DEF Known
<1>7. ASSUME NEW c \in Clients, EnterGate(c) PROVE Known'
  <2> DEFINE r == [job[c] EXCEPT !.pc = "decide"]
  <2>1. UNCHANGED <<journal, catalog>> /\ job' = [job EXCEPT ![c] = r] /\ r.op = job[c].op
    BY <1>7, JobTyped DEF EnterGate, To, disk, Job
  <2> HIDE DEF r
  <2>2. \A d \in Clients : job'[d] = IF d = c THEN r ELSE job[d]
    BY <2>1, JobOf
  <2> QED BY <1>2, <2>1, <2>2 DEF Known
<1>8. ASSUME NEW c \in Clients, Decide(c) PROVE Known'
  <2>1. PICK o \in Outcomes("journal"), r \in Job :
           /\ job[c].pc = "decide" /\ job' = [job EXCEPT ![c] = r]
           /\ o = "ok" => r.op = job[c].op
           /\ o # "ok" => r = Idle
           /\ ~Happened(o) => journal' = journal
           /\ Happened(o) =>
                journal' = Append(journal, [op |-> job[c].op, number |-> Number(job[c].op)])
           /\ UNCHANGED catalog
    BY <1>8, DecideStep
  <2>2. \A d \in Clients : job'[d] = IF d = c THEN r ELSE job[d]
    BY <2>1, JobOf
  <2>3. \A d \in Clients : job'[d].op \in Ops \cup {"none"}
    BY <2>1, <2>2 DEF Known, Idle
  <2>4. PICK x : x = [op |-> job[c].op, number |-> Number(job[c].op)]
    OBVIOUS
  <2>5. x \in [op : AllOps, number : Nat]
    <3>1. job[c].op \in AllOps
      BY <2>1 DEF Locks, Owned, Sound
    <3>2. state.sequence \in Nat /\ catalog.revision \in Nat
      BY DEF RelInv, RelShape, Known
    <3>3. Number(job[c].op) \in Nat
      BY <3>2 DEF Number
    <3> QED BY <2>4, <3>1, <3>3
  <2>6. \A k \in DOMAIN journal' : journal'[k] \in [op : AllOps, number : Nat]
    <3>1. CASE ~Happened(o)
      BY <2>1, <3>1 DEF Known
    <3>2. CASE Happened(o)
      <4>1. journal' = Append(journal, x)
        BY <2>1, <2>4, <3>2
      <4>2. /\ DOMAIN journal' = 1 .. (Len(journal) + 1)
            /\ \A k \in DOMAIN journal : journal'[k] = journal[k]
            /\ journal'[Len(journal) + 1] = x
        BY <4>1, AppendSequence DEF Inv, Recorded
      <4>3. \A k \in DOMAIN journal' : k \in DOMAIN journal \/ k = Len(journal) + 1
        BY <4>2, WorldIs
      <4> QED BY <2>5, <4>2, <4>3 DEF Known
    <3> QED BY <3>1, <3>2
  <2> QED BY <1>2, <2>1, <2>3, <2>6
<1>9. ASSUME NEW c \in Clients,
             \/ AppendPut(c) \/ AppendRelational(c) \/ AppendCollection(c) \/ AppendCatalog(c)
             \/ InstallCreate(c) \/ InstallDrop(c) \/ CheckpointCatalog(c)
             \/ DropCatalogPrefix(c) \/ RemoveTrash(c) \/ MarkStored(c) \/ NoticeFailure(c)
             \/ ProjectAudit(c) \/ MarkAudited(c)
      PROVE  Known'
  <2>1. PICK r \in Job : Carries(c, r)
    BY <1>9, Carried
  <2>2. UNCHANGED journal /\ (r = Idle \/ r.op = job[c].op)
    BY <2>1 DEF Carries
  <2>3. \A d \in Clients : job'[d] = IF d = c THEN r ELSE job[d]
    BY <2>1, JobOf DEF Carries
  <2>4. \A d \in Clients : job'[d].op \in Ops \cup {"none"}
    BY <2>2, <2>3 DEF Known, Idle
  <2>5. catalog' = catalog \/ catalog' = WrittenCatalog
    BY <1>9 DEF AppendPut, AppendRelational, AppendCollection, AppendCatalog, InstallCreate, InstallDrop,
           CheckpointCatalog, DropCatalogPrefix, RemoveTrash, MarkStored, NoticeFailure,
           ProjectAudit, MarkAudited, disk
  <2> QED BY <1>2, <2>2, <2>4, <2>5 DEF Known
<1> QED BY <1>3, <1>4, <1>5, <1>6, <1>7, <1>8, <1>9 DEF Next, Request

\* How the records and the base of a WAL may change.
Rewrites(w, v, mark) ==
  \/ v = w
  \/ \E t \in Nat : v = Appended(w, t)
  \/ \E b \in Nat : b <= mark /\ v = [w EXCEPT !.base = b]

LEMMA BaseStays ==
  ASSUME NEW w \in [base : Nat, records : Seq(Nat)], NEW v, NEW mark \in Nat,
         w.base <= Len(w.records), mark <= Len(w.records), Rewrites(w, v, mark)
  PROVE  v.base <= Len(v.records)
<1>1. CASE v = w
  BY <1>1
<1>2. ASSUME NEW t \in Nat, v = Appended(w, t) PROVE v.base <= Len(v.records)
  <2>s. PICK s, a : s = w.records /\ a = Append(s, t)
    OBVIOUS
  <2>1. s \in Seq(Nat) /\ Len(a) = Len(s) + 1 /\ Len(s) \in Nat /\ w.base \in Nat
    BY <2>s
  <2>2. v = [w EXCEPT !.records = a]
    BY <1>2, <2>s DEF Appended
  <2>3. v.base = w.base /\ v.records = a
    BY <2>2
  <2> QED BY <2>s, <2>1, <2>3
<1>3. ASSUME NEW b \in Nat, b <= mark, v = [w EXCEPT !.base = b] PROVE v.base <= Len(v.records)
  <2>1. v.base = b /\ v.records = w.records /\ Len(w.records) \in Nat
    BY <1>3
  <2> QED BY <1>3, <2>1
<1> QED BY <1>1, <1>2, <1>3 DEF Rewrites

LEMMA WalsRewritten ==
  ASSUME Inv, RelInv, ColInv, [Next]_vars
  PROVE  /\ Rewrites(catalog_wal, catalog_wal', catalog.mark)
         /\ Rewrites(relational_wal, relational_wal', checkpoint.mark)
<1>1. catalog.mark \in Nat /\ checkpoint.mark \in Nat /\ relational_wal.base \in Nat /\ cursor \in Nat
  BY DEF ColInv, CatInv, RelInv, RelShape, Inv, Recorded
<1>2. \A c \in Clients : job[c].tx \in Nat
  BY JobTyped DEF Job
<1>3. CASE RecoverCatalogRecord \/ LoadedCatalogPrefix
  <2>1. /\ UNCHANGED relational_wal
        /\ \/ catalog_wal' = Appended(catalog_wal, cursor)
           \/ catalog_wal' = [catalog_wal EXCEPT !.base = catalog.mark]
    BY <1>3 DEF RecoverCatalogRecord, LoadedCatalogPrefix
  <2> QED BY <1>1, <2>1 DEF Rewrites
<1>4. CASE RecoverRelationalRecord
  <2>1. UNCHANGED catalog_wal /\ relational_wal' = Appended(relational_wal, cursor)
    BY <1>4 DEF RecoverRelationalRecord
  <2> QED BY <1>1, <2>1 DEF Rewrites
<1>5. CASE LoadRelational \/ DropRelationalPrefix
  <2>1. /\ UNCHANGED catalog_wal
        /\ \/ UNCHANGED relational_wal
           \/ \E b \in relational_wal.base .. checkpoint.mark : relational_wal' = [relational_wal EXCEPT !.base = b]
           \/ \E b \in (relational_wal.base + 1) .. checkpoint.mark : relational_wal' = [relational_wal EXCEPT !.base = b]
    BY <1>5 DEF LoadRelational, DropRelationalPrefix
  <2>2. \A b \in relational_wal.base .. checkpoint.mark : b \in Nat /\ b <= checkpoint.mark
    BY <1>1
  <2>3. \A b \in (relational_wal.base + 1) .. checkpoint.mark : b \in Nat /\ b <= checkpoint.mark
    BY <1>1
  <2> QED BY <2>1, <2>2, <2>3 DEF Rewrites
<1>6. CASE \/ Open \/ RecoverPassed \/ RecoverCollectionRecord \/ RecoverRename
           \/ RecoverInstalled \/ RecoverMark \/ LoadCatalog \/ LoadedCatalogWrite
           \/ RecoverAuditRecord \/ RecoverAuditMark \/ Serve \/ Crash \/ CheckpointRelational
           \/ UNCHANGED vars
  <2>1. UNCHANGED <<catalog_wal, relational_wal>>
    BY <1>6 DEF Open, RecoverPassed, RecoverCollectionRecord, RecoverRename,
           RecoverInstalled, RecoverMark, LoadCatalog, LoadedCatalogWrite, RecoverAuditRecord,
           RecoverAuditMark, Serve, Crash, CheckpointRelational, vars, disk
  <2> QED BY <2>1 DEF Rewrites
<1>7. ASSUME NEW c \in Clients, AppendCatalog(c) \/ DropCatalogPrefix(c)
      PROVE  /\ Rewrites(catalog_wal, catalog_wal', catalog.mark)
             /\ Rewrites(relational_wal, relational_wal', checkpoint.mark)
  <2>1. /\ UNCHANGED relational_wal
        /\ \/ catalog_wal' = catalog_wal
           \/ catalog_wal' = Appended(catalog_wal, job[c].tx)
           \/ catalog_wal' = [catalog_wal EXCEPT !.base = catalog.mark]
    BY <1>7 DEF AppendCatalog, DropCatalogPrefix
  <2> QED BY <1>1, <1>2, <2>1 DEF Rewrites
<1>8. ASSUME NEW c \in Clients, AppendRelational(c)
      PROVE  /\ Rewrites(catalog_wal, catalog_wal', catalog.mark)
             /\ Rewrites(relational_wal, relational_wal', checkpoint.mark)
  <2>1. /\ UNCHANGED catalog_wal
        /\ relational_wal' = relational_wal \/ relational_wal' = Appended(relational_wal, job[c].tx)
    BY <1>8 DEF AppendRelational
  <2> QED BY <1>2, <2>1 DEF Rewrites
<1>9. ASSUME NEW c \in Clients,
             \/ \E op \in Ops : Begin(c, op)
             \/ EnterGate(c) \/ Decide(c) \/ AppendPut(c) \/ AppendCollection(c)
             \/ InstallCreate(c) \/ InstallDrop(c) \/ CheckpointCatalog(c)
             \/ RemoveTrash(c) \/ MarkStored(c) \/ NoticeFailure(c)
             \/ ProjectAudit(c) \/ MarkAudited(c)
      PROVE  /\ Rewrites(catalog_wal, catalog_wal', catalog.mark)
             /\ Rewrites(relational_wal, relational_wal', checkpoint.mark)
  <2>1. UNCHANGED <<catalog_wal, relational_wal>>
    BY <1>9 DEF Begin, EnterGate, Decide, AppendPut, AppendCollection, InstallCreate, InstallDrop,
           CheckpointCatalog, RemoveTrash, MarkStored, NoticeFailure, ProjectAudit, MarkAudited, disk
  <2> QED BY <2>1 DEF Rewrites
<1>10. \A c \in Clients : Request(c) =>
          /\ Rewrites(catalog_wal, catalog_wal', catalog.mark)
          /\ Rewrites(relational_wal, relational_wal', checkpoint.mark)
  BY <1>7, <1>8, <1>9 DEF Request
<1> QED BY <1>3, <1>4, <1>5, <1>6, <1>10 DEF Next, Startup

LEMMA DirectoriesStay ==
  ASSUME Inv, ColInv, DOMAIN dirs \subseteq Places, [Next]_vars
  PROVE  DOMAIN dirs' \subseteq Places
<1>1. /\ \A gone : DOMAIN Without(dirs, gone) \subseteq Places
      /\ \A from : \A to \in Places : DOMAIN Renamed(dirs, from, to) \subseteq Places
      /\ DOMAIN Trashed(dirs) \subseteq Places
      /\ \A d, gone : DOMAIN d \subseteq Places => DOMAIN Without(d, gone) \subseteq Places
      /\ \A x : DOMAIN [dirs EXCEPT !["live"] = x] \subseteq Places
  <2>1. \A d, gone : DOMAIN d \subseteq Places => DOMAIN Without(d, gone) \subseteq Places
    BY DEF Without
  <2>2. \A from : \A to \in Places : DOMAIN Renamed(dirs, from, to) \subseteq Places
    BY DEF Renamed
  <2>3. DOMAIN Trashed(dirs) \subseteq Places
    <3>1. "trash" \in Places
      BY DEF Places
    <3> QED BY <2>1, <2>2, <3>1 DEF Trashed
  <2> QED BY <2>1, <2>2, <2>3
<1>p. "live" \in Places /\ "staging" \in Places /\ "trash" \in Places
  BY DEF Places
<1>2. CASE RecoverCollectionRecord
  BY <1>1, <1>2 DEF RecoverCollectionRecord
<1>3. CASE RecoverRename
  BY <1>1, <1>p, <1>3 DEF RecoverRename
<1>4. CASE RecoverInstalled
  BY <1>1, <1>4 DEF RecoverInstalled
<1>5. CASE LoadCatalog
  <2>1. UNCHANGED dirs \/ dirs' = reconciled(replay_catalog_wal)
    BY <1>5 DEF LoadCatalog
  <2>2. \A r : DOMAIN reconciled(r) \subseteq Places
    BY <1>1, <1>p DEF reconciled
  <2> QED BY <2>1, <2>2
<1>6. CASE \/ Open \/ RecoverPassed \/ RecoverCatalogRecord \/ RecoverRelationalRecord
           \/ RecoverMark \/ LoadRelational \/ LoadedCatalogWrite \/ LoadedCatalogPrefix
           \/ RecoverAuditRecord \/ RecoverAuditMark \/ Serve \/ Crash \/ CheckpointRelational
           \/ DropRelationalPrefix \/ UNCHANGED vars
  BY <1>6 DEF Open, RecoverPassed, RecoverCatalogRecord, RecoverRelationalRecord, RecoverMark,
     LoadRelational, LoadedCatalogWrite, LoadedCatalogPrefix, RecoverAuditRecord, RecoverAuditMark,
     Serve, Crash, CheckpointRelational, DropRelationalPrefix, vars, disk
<1>7. ASSUME NEW c \in Clients, NEW op \in Ops, Begin(c, op) PROVE DOMAIN dirs' \subseteq Places
  BY <1>7, <1>p DEF Begin
<1>8. ASSUME NEW c \in Clients, AppendPut(c) \/ AppendCollection(c) PROVE DOMAIN dirs' \subseteq Places
  BY <1>8, <1>1 DEF AppendPut, AppendCollection, LiveAppended
<1>9. ASSUME NEW c \in Clients, InstallCreate(c) \/ InstallDrop(c) \/ RemoveTrash(c)
      PROVE  DOMAIN dirs' \subseteq Places
  BY <1>9, <1>1, <1>p DEF InstallCreate, InstallDrop, RemoveTrash
<1>10. ASSUME NEW c \in Clients,
              \/ EnterGate(c) \/ Decide(c) \/ AppendRelational(c) \/ AppendCatalog(c)
              \/ CheckpointCatalog(c) \/ DropCatalogPrefix(c) \/ MarkStored(c) \/ NoticeFailure(c)
              \/ ProjectAudit(c) \/ MarkAudited(c)
       PROVE  DOMAIN dirs' \subseteq Places
  BY <1>10 DEF EnterGate, Decide, AppendRelational, AppendCatalog, CheckpointCatalog,
     DropCatalogPrefix, MarkStored, NoticeFailure, ProjectAudit, MarkAudited, disk
<1>11. \A c \in Clients : Request(c) => DOMAIN dirs' \subseteq Places
  BY <1>7, <1>8, <1>9, <1>10 DEF Request
<1> QED BY <1>2, <1>3, <1>4, <1>5, <1>6, <1>11 DEF Next, Startup

LEMMA PlacedNext ==
  ASSUME Inv, RelInv, ColInv, Placed, [Next]_vars
  PROVE  Placed'
<1>1. /\ catalog_wal \in [base : Nat, records : Seq(Nat)] /\ catalog.mark \in Nat
      /\ catalog.mark <= Len(catalog_wal.records)
      /\ relational_wal \in [base : Nat, records : Seq(Nat)] /\ checkpoint.mark \in Nat
      /\ checkpoint.mark <= Len(relational_wal.records)
  BY DEF ColInv, CatInv, RelInv, RelShape
<1>2. /\ Rewrites(catalog_wal, catalog_wal', catalog.mark)
      /\ Rewrites(relational_wal, relational_wal', checkpoint.mark)
  BY WalsRewritten
<1>3. /\ catalog_wal'.base <= Len(catalog_wal'.records)
      /\ relational_wal'.base <= Len(relational_wal'.records)
  BY <1>1, <1>2, BaseStays DEF Placed
<1>4. DOMAIN dirs' \subseteq Places
  BY DirectoriesStay DEF Placed
<1> QED BY <1>3, <1>4 DEF Placed

\* A write that fails is counted, and poisons the handle of a WAL.
Charged ==
  /\ poisoned' \subseteq poisoned \cup Logs
  /\ faults' = faults \/ (faults < MaxFaults /\ faults' = faults + 1)

LEMMA WritesCharge ==
  /\ \A log \in Logs : \A o \in {"ok", "refused"} \cup Failures : Wrote(log, o) => Charged
  /\ \A o \in {"ok", "refused"} \cup Failures : WroteFile(o) => Charged
  /\ \A log : Outcomes(log) \subseteq {"ok", "refused"} \cup Failures
  /\ FileOutcomes \subseteq {"ok", "refused"} \cup Failures
<1>1. \A o \in {"ok", "refused"} \cup Failures : o \in {"lost", "kept"} => faults < MaxFaults
  BY DEF Failures
<1>2. \A log \in Logs : \A o \in {"ok", "refused"} \cup Failures : Wrote(log, o) => Charged
  BY <1>1 DEF Wrote, Charged
<1>3. \A o \in {"ok", "refused"} \cup Failures : WroteFile(o) => Charged
  BY <1>1 DEF WroteFile, Charged
<1>4. \A log : Outcomes(log) \subseteq {"ok", "refused"} \cup Failures
  BY DEF Outcomes
<1>5. FileOutcomes \subseteq {"ok", "refused"} \cup Failures
  BY DEF FileOutcomes
<1> QED BY <1>2, <1>3, <1>4, <1>5

LEMMA RequestCharges ==
  ASSUME NEW c \in Clients, Request(c)
  PROVE  Charged
<1>l. /\ "journal" \in Logs /\ "catalog" \in Logs /\ "collection" \in Logs
      /\ "relational" \in Logs /\ "audit" \in Logs
  BY DEF Logs
<1>1. CASE (\E op \in Ops : Begin(c, op)) \/ EnterGate(c) \/ NoticeFailure(c)
  <2>1. UNCHANGED <<poisoned, faults>>
    BY <1>1 DEF Begin, EnterGate, NoticeFailure
  <2> QED BY <2>1 DEF Charged
<1>2. CASE Decide(c) \/ MarkAudited(c)
  <2>1. PICK o \in Outcomes("journal") : Wrote("journal", o)
    BY <1>2 DEF Decide, MarkAudited
  <2> QED BY <1>l, <2>1, WritesCharge
<1>3. CASE AppendPut(c) \/ AppendCollection(c)
  <2>1. PICK o \in Outcomes("collection") : Wrote("collection", o)
    BY <1>3 DEF AppendPut, AppendCollection
  <2> QED BY <1>l, <2>1, WritesCharge
<1>4. CASE AppendRelational(c)
  <2>1. PICK o \in Outcomes("relational") : Wrote("relational", o)
    BY <1>4 DEF AppendRelational
  <2> QED BY <1>l, <2>1, WritesCharge
<1>5. CASE AppendCatalog(c) \/ DropCatalogPrefix(c)
  <2>1. PICK o \in Outcomes("catalog") : Wrote("catalog", o)
    BY <1>5 DEF AppendCatalog, DropCatalogPrefix
  <2> QED BY <1>l, <2>1, WritesCharge
<1>6. CASE InstallCreate(c) \/ InstallDrop(c)
  <2>1. PICK o \in FileOutcomes : WroteFile(o)
    BY <1>6 DEF InstallCreate, InstallDrop
  <2> QED BY <2>1, WritesCharge
<1>7. CASE CheckpointCatalog(c) \/ RemoveTrash(c)
  <2>1. PICK o \in FileOutcomes \cup {"ok", "refused"} : WroteFile(o)
    BY <1>7 DEF CheckpointCatalog, RemoveTrash
  <2> QED BY <2>1, WritesCharge
<1>8. CASE MarkStored(c)
  <2>1. PICK o \in Outcomes("journal") \cup {"refused"} : Wrote("journal", o)
    BY <1>8 DEF MarkStored
  <2> QED BY <1>l, <2>1, WritesCharge
<1>9. CASE ProjectAudit(c)
  <2>1. PICK o \in Outcomes("audit") : Wrote("audit", o)
    BY <1>9 DEF ProjectAudit
  <2> QED BY <1>l, <2>1, WritesCharge
<1> QED BY <1>1, <1>2, <1>3, <1>4, <1>5, <1>6, <1>7, <1>8, <1>9 DEF Request

LEMMA RequestBounded ==
  ASSUME Inv, Locks, Bounded, NEW c \in Clients, Request(c)
  PROVE  Bounded'
<1>1. UNCHANGED <<phase, cursor, crashes>>
  BY DEF Request, Begin, EnterGate, Decide, AppendPut, AppendRelational,
     AppendCollection, AppendCatalog, InstallCreate, InstallDrop, CheckpointCatalog,
     DropCatalogPrefix, RemoveTrash, MarkStored, NoticeFailure, ProjectAudit, MarkAudited
<1>2. DOMAIN journal \subseteq DOMAIN journal' /\ Len(journal') \in Nat /\ Len(journal) <= Len(journal')
  <2>0. DOMAIN journal = 1 .. Len(journal) /\ Len(journal) \in Nat
    BY WorldIs
  <2>1. UNCHANGED journal \/ \E x : journal' = Append(journal, x)
    BY DEF Request, Begin, EnterGate, Decide, AppendPut, AppendRelational,
       AppendCollection, AppendCatalog, InstallCreate, InstallDrop, CheckpointCatalog,
       DropCatalogPrefix, RemoveTrash, MarkStored, NoticeFailure, ProjectAudit, MarkAudited, disk
  <2>2. ASSUME NEW x, journal' = Append(journal, x)
        PROVE  Len(journal') = Len(journal) + 1 /\ DOMAIN journal' = 1 .. Len(journal) + 1
    BY <2>2, AppendSequence DEF Inv, Recorded
  <2> QED BY <2>0, <2>1, <2>2
<1>3. broken' \subseteq DOMAIN journal'
  <2>1. CASE AppendRelational(c) \/ AppendCollection(c)
    <3>1. job[c].pc \notin Undecided
      BY <2>1 DEF AppendRelational, AppendCollection, Undecided
    <3>2. job[c].tx \in DOMAIN journal
      BY <3>1, JobTyped
    <3>3. broken' \subseteq broken \cup {job[c].tx}
      BY <2>1 DEF AppendRelational, AppendCollection
    <3> QED BY <1>2, <3>2, <3>3 DEF Bounded
  <2>2. CASE ~(AppendRelational(c) \/ AppendCollection(c))
    <3>1. UNCHANGED broken
      BY <2>2 DEF Request, Begin, EnterGate, Decide, AppendPut, AppendCatalog, InstallCreate,
         InstallDrop, CheckpointCatalog, DropCatalogPrefix, RemoveTrash, MarkStored, NoticeFailure,
         ProjectAudit, MarkAudited
    <3> QED BY <1>2, <3>1 DEF Bounded
  <2> QED BY <2>1, <2>2
<1>4. Charged
  BY RequestCharges
<1>5. poisoned' \subseteq Logs
  BY <1>4 DEF Charged, Bounded
<1>6. faults' \in 0 .. MaxFaults
  BY <1>4, ConstantsAssumption DEF Charged, Bounded
<1>7. cursor' \in 0 .. (Len(journal') + 1)
  <2>1. Len(journal) \in Nat
    BY WorldIs
  <2> QED BY <1>1, <1>2, <2>1 DEF Bounded
<1> QED BY <1>1, <1>3, <1>5, <1>6, <1>7 DEF Bounded

LEMMA BoundedNext ==
  ASSUME Inv, Locks, Bounded, [Next]_vars
  PROVE  Bounded'
<1>0. DOMAIN journal = 1 .. Len(journal) /\ Len(journal) \in Nat
  BY WorldIs
<1>1. ASSUME UNCHANGED <<journal, poisoned, broken, faults, crashes>>, phase' \in Phases,
             cursor' \in {cursor, 0, 1} \/ (cursor \in DOMAIN journal /\ cursor' = cursor + 1)
      PROVE  Bounded'
  <2>1. cursor' \in 0 .. (Len(journal) + 1)
    BY <1>0, <1>1 DEF Bounded
  <2> QED BY <1>1, <2>1 DEF Bounded
<1>2. CASE Open \/ Serve
  BY <1>1, <1>2 DEF Open, Serve, disk, memory, Phases
<1>3. CASE \/ RecoverCatalogRecord \/ RecoverRelationalRecord \/ RecoverCollectionRecord
           \/ RecoverRename \/ RecoverInstalled \/ LoadedCatalogWrite \/ LoadedCatalogPrefix
           \/ RecoverAuditRecord
  <2>1. /\ UNCHANGED <<journal, poisoned, broken, faults, crashes, cursor>>
        /\ phase' \in {phase, "marking", "prefix", "audit"}
    BY <1>3 DEF RecoverCatalogRecord, RecoverRelationalRecord, RecoverCollectionRecord, RecoverRename,
       RecoverInstalled, LoadedCatalogWrite, LoadedCatalogPrefix, RecoverAuditRecord, memory
  <2> QED BY <1>1, <2>1 DEF Bounded, Phases
<1>4. CASE RecoverPassed
  <2>1. /\ UNCHANGED <<journal, poisoned, broken, faults, crashes>>
        /\ phase' \in {phase, "refused"} /\ cursor' \in {cursor, cursor + 1} /\ cursor \in DOMAIN journal
    BY <1>4 DEF RecoverPassed, memory, Recovering
  <2> QED BY <1>1, <2>1 DEF Bounded, Phases
<1>5. CASE RecoverMark
  <2>1. /\ UNCHANGED <<journal, poisoned, broken, faults, crashes>>
        /\ phase' = "storage" /\ cursor' = cursor + 1
    BY <1>5 DEF RecoverMark, memory
  <2>2. cursor \in DOMAIN journal
    BY <1>5 DEF RecoverMark, Pending, Recovering, Inv, StartupProgress
  <2> QED BY <1>1, <2>1, <2>2 DEF Phases
<1>6. CASE RecoverAuditMark
  <2>1. /\ UNCHANGED <<journal, poisoned, broken, faults, crashes, phase>>
        /\ cursor' = cursor + 1 /\ cursor \in audit_log
    BY <1>6 DEF RecoverAuditMark, memory
  <2>2. cursor \in DOMAIN journal
    BY <2>1 DEF Inv, Recorded
  <2> QED BY <1>1, <2>1, <2>2 DEF Bounded
<1>7. CASE LoadRelational \/ LoadCatalog
  <2>1. /\ UNCHANGED <<journal, poisoned, broken, faults, crashes>>
        /\ phase' \in {"load", "refused", "catalog", "audit"} /\ cursor' \in {cursor, 1}
    BY <1>7 DEF LoadRelational, LoadCatalog
  <2> QED BY <1>1, <2>1 DEF Phases
<1>8. CASE Crash
  <2>1. /\ UNCHANGED <<journal, broken, faults>> /\ phase' = "down" /\ cursor' = 0 /\ poisoned' = {}
        /\ crashes < MaxCrashes /\ crashes' = crashes + 1
    BY <1>8 DEF Crash, disk
  <2>2. crashes' \in 0 .. MaxCrashes /\ 0 \in 0 .. (Len(journal) + 1)
    BY <1>0, <2>1, ConstantsAssumption DEF Bounded
  <2> QED BY <2>1, <2>2 DEF Bounded, Phases
<1>9. CASE CheckpointRelational \/ DropRelationalPrefix \/ UNCHANGED vars
  <2>1. UNCHANGED <<journal, poisoned, broken, faults, crashes, phase, cursor>>
    BY <1>9 DEF CheckpointRelational, DropRelationalPrefix, vars, disk, memory
  <2> QED BY <1>1, <2>1 DEF Bounded
<1>10. \A c \in Clients : Request(c) => Bounded'
  BY RequestBounded
<1> QED BY <1>2, <1>3, <1>4, <1>5, <1>6, <1>7, <1>8, <1>9, <1>10 DEF Next, Startup

\* The state of requests, stores and startup keeps its type, for any number of
\* clients, decisions, failed writes and crashes: what WALs, markers and requests
\* name are decisions of the journal, and a base is never past its WAL's end.
THEOREM ProjectionTypeCorrect == Spec => []TypeOK
<1>1. Init => Known /\ Placed /\ Bounded
  <2> SUFFICES ASSUME Init PROVE Known /\ Placed /\ Bounded
    OBVIOUS
  <2>1. DOMAIN journal = {} /\ Len(<<>>) = 0 /\ journal = <<>>
    BY DEF Init
  <2>2. Known
    BY <2>1 DEF Init, Known, Idle
  <2>3. Placed
    BY <2>1 DEF Init, Placed
  <2>4. Bounded
    BY <2>1, ConstantsAssumption DEF Init, Bounded, Phases
  <2> QED BY <2>2, <2>3, <2>4
<1>2. Inv /\ Locks /\ RelInv /\ ColInv /\ Known /\ Placed /\ Bounded /\ [Next]_vars
      => Known' /\ Placed' /\ Bounded'
  BY KnownNext, PlacedNext, BoundedNext
<1>3. Inv /\ Locks /\ RelInv /\ ColInv /\ Known /\ Placed /\ Bounded => TypeOK
  <2> SUFFICES ASSUME Inv, Locks, RelInv, ColInv, Known, Placed, Bounded PROVE TypeOK
    OBVIOUS
  <2>0. DOMAIN journal = 1 .. Len(journal) /\ Len(journal) \in Nat
    BY WorldIs
  <2>1. /\ stored \subseteq DOMAIN journal /\ audited \subseteq DOMAIN journal
        /\ audit_log \subseteq DOMAIN journal /\ degraded \in BOOLEAN
    BY DEF Inv, Recorded
  <2>2. /\ catalog_wal.base \in 0 .. Len(catalog_wal.records)
        /\ \A i \in DOMAIN catalog_wal.records : catalog_wal.records[i] \in DOMAIN journal
    <3>1. /\ catalog_wal.base \in Nat /\ catalog_wal.records \in Seq(Nat)
          /\ \A i \in 1 .. Len(catalog_wal.records) : catalog_wal.records[i] \in CatalogDecisions
      BY DEF ColInv, CatInv
    <3> QED BY <3>1, WorldIs DEF Placed
  <2>3. /\ relational_wal.base \in 0 .. Len(relational_wal.records)
        /\ \A i \in DOMAIN relational_wal.records : relational_wal.records[i] \in DOMAIN journal
    <3>1. /\ relational_wal.base \in Nat /\ relational_wal.records \in Seq(Nat)
          /\ \A i \in 1 .. Len(relational_wal.records) : relational_wal.records[i] \in RelTx
      BY DEF RelInv, RelShape, Logged
    <3> QED BY <3>1, RelTxIs DEF Placed
  <2>4. /\ collection.open \in BOOLEAN /\ state.sequence \in Nat /\ checkpoint.sequence \in Nat
    BY DEF ColInv, MemInv, Shaped, RelInv, RelShape
  <2>5. \A c \in Clients :
          /\ job[c].op \in Ops \cup {"none"} /\ job[c].tx \in 0 .. Len(journal)
          /\ job[c].pc \in PCs
    <3> TAKE c \in Clients
    <3>1. job[c].tx = 0 \/ job[c].tx \in DOMAIN journal
      BY JobTyped
    <3>2. job[c].tx \in 0 .. Len(journal)
      BY <2>0, <3>1
    <3> QED BY <3>2, JobTyped DEF Known
  <2>6. /\ \A k \in DOMAIN journal : journal[k] \in [op : AllOps, number : Nat]
        /\ catalog \in [has : BOOLEAN, revision : Nat, mark : Nat]
        /\ DOMAIN dirs \subseteq Places
    BY DEF Known, Placed
  <2> QED BY <2>1, <2>2, <2>3, <2>4, <2>5, <2>6 DEF TypeOK, Bounded, Phases, Places, PCs
<1> QED BY <1>1, <1>2, <1>3, ColAlways, PTL DEF Spec
=============================================================================
