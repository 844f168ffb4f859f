---------------------- MODULE StorageMaintenanceProofs ----------------------
(***************************************************************************)
(* Safety of the gates of StorageMaintenance, for every number of request  *)
(* threads, collections, requests and restores.                            *)
(***************************************************************************)
EXTENDS StorageMaintenance, TLAPS

LEMMA IdleType == Idle \in Op
<1>1. (CHOOSE c \in Collections : TRUE) \in Collections
  BY ConstantsAssumption
<1> QED BY <1>1 DEF Idle, Op

LEMMA TypeInit == Init => TypeOK
<1> SUFFICES ASSUME Init PROVE TypeOK
  OBVIOUS
<1>1. op \in [Writers -> Op]
  BY IdleType DEF Init
<1>2. left \in [Writers -> 0 .. MaxRequests] /\ restores \in 0 .. MaxRestores
  BY ConstantsAssumption DEF Init
<1>3. lifecycle \in Lock /\ barrier \in Lock
  BY DEF Init, Unlocked, Lock, NoOne
<1> QED BY <1>1, <1>2, <1>3 DEF Init, TypeOK, Flushers, NoOne

LEMMA LockTypes ==
  ASSUME NEW lock \in Lock, NEW w \in Writers, NEW who \in {NoOne, "restore"}
  PROVE  /\ Joined(lock, w) \in Lock
         /\ Left(lock, w) \in Lock
         /\ Claimed(lock, who) \in Lock
  BY DEF Lock, Joined, Left, Claimed

LEMMA GoesType ==
  ASSUME TypeOK, NEW w \in Writers,
         NEW pc \in {"idle", "sql_check", "lifecycle", "execute", "check", "barrier",
                     "collection", "commit", "request", "overlay"},
         Goes(w, pc)
  PROVE  op' \in [Writers -> Op]
  BY DEF TypeOK, Goes, Op

LEMMA ReturnsType ==
  ASSUME TypeOK, NEW w \in Writers, returns(w)
  PROVE  /\ op' \in [Writers -> Op]
         /\ lifecycle' \in Lock /\ barrier' \in Lock
         /\ coll' \in [Collections -> Writers \cup {NoOne}]
<1>1. op' \in [Writers -> Op]
  BY IdleType DEF TypeOK, returns
<1>2. lifecycle' \in Lock /\ barrier' \in Lock
  BY LockTypes DEF TypeOK, returns
<1>3. coll' \in [Collections -> Writers \cup {NoOne}]
  BY DEF TypeOK, returns
<1> QED BY <1>1, <1>2, <1>3

LEMMA WorkerType == TypeOK /\ Worker => TypeOK'
<1> SUFFICES ASSUME TypeOK, Worker PROVE TypeOK'
  OBVIOUS
<1> USE DEF TypeOK, locks, flags, requests, restoring, NoOne
<1>1. CASE worker_lock
  BY <1>1 DEF worker_lock
<1>2. CASE worker_check
  BY <1>2 DEF worker_check
<1>3. CASE worker_park
  BY <1>3 DEF worker_park
<1>4. CASE worker_timeout
  BY <1>4 DEF worker_timeout
<1>5. CASE worker_gate
  BY <1>5 DEF worker_gate
<1>6. CASE worker_gated
  BY <1>6 DEF worker_gated, Flushers
<1>7. CASE Flush("worker")
  BY <1>7 DEF Flush, flush_collection, flusher, Flushers
<1>8. ASSUME NEW ok \in BOOLEAN, worker_flushed(ok)
      PROVE  TypeOK'
  BY <1>8 DEF worker_flushed, flushed, Flushing, Flushers
<1> QED BY <1>1, <1>2, <1>3, <1>4, <1>5, <1>6, <1>7, <1>8 DEF Worker

LEMMA RequestType ==
  ASSUME TypeOK, NEW w \in Writers, Request(w) \/ Proceed(w)
  PROVE  TypeOK'
<1> USE DEF TypeOK, locks, flags, flusher, requests, restoring
<1>1. ASSUME NEW kind \in Kinds, NEW c \in Collections, NEW wait \in BOOLEAN,
             request(w, kind, c, wait)
      PROVE  TypeOK'
  <2>1. kind \in {"sql", "collection"}
    BY ConstantsAssumption
  <2>2. op' \in [Writers -> Op]
    BY <1>1, <2>1 DEF request, Op
  <2>3. left' \in [Writers -> 0 .. MaxRequests]
    BY <1>1, ConstantsAssumption DEF request
  <2> QED BY <1>1, <2>2, <2>3 DEF request
<1>2. CASE sql_check(w)
  <2>1. op' \in [Writers -> Op]
    BY <1>2, IdleType DEF sql_check, Op
  <2> QED BY <1>2, <2>1 DEF sql_check
<1>3. CASE lifecycle_read(w)
  <2>1. Goes(w, "execute") \/ Goes(w, "check")
    BY <1>3 DEF lifecycle_read
  <2>2. op' \in [Writers -> Op]
    BY <2>1, GoesType
  <2>3. lifecycle' \in Lock
    BY <1>3, LockTypes, NoOne \in {NoOne, "restore"} DEF lifecycle_read
  <2> QED BY <1>3, <2>2, <2>3 DEF lifecycle_read
<1>4. CASE execute_sql(w)
  <2>1. returns(w)
    BY <1>4 DEF execute_sql
  <2>2. /\ op' \in [Writers -> Op]
        /\ lifecycle' \in Lock /\ barrier' \in Lock
        /\ coll' \in [Collections -> Writers \cup {NoOne}]
    BY <2>1, ReturnsType
  <2> QED BY <1>4, <2>2 DEF execute_sql
<1>5. CASE collection_check(w)
  <2>1. CASE ensure_storage_mutations_available
    BY <1>5, <2>1, GoesType DEF collection_check
  <2>2. CASE ~ensure_storage_mutations_available
    <3>1. returns(w)
      BY <1>5, <2>2 DEF collection_check
    <3> QED BY <1>5, <3>1, ReturnsType DEF collection_check
  <2> QED BY <2>1, <2>2
<1>6. CASE barrier_read(w)
  <2>1. Goes(w, "collection")
    BY <1>6 DEF barrier_read
  <2>2. op' \in [Writers -> Op]
    BY <2>1, GoesType
  <2>3. barrier' \in Lock
    BY <1>6, LockTypes, NoOne \in {NoOne, "restore"} DEF barrier_read
  <2> QED BY <1>6, <2>2, <2>3 DEF barrier_read
<1>7. CASE lock_collection(w)
  <2>1. op' \in [Writers -> Op]
    BY <1>7, GoesType DEF lock_collection
  <2>2. coll' \in [Collections -> Writers \cup {NoOne}]
    BY <1>7 DEF lock_collection, Op
  <2> QED BY <1>7, <2>1, <2>2 DEF lock_collection
<1>8. ASSUME NEW outcome \in {"projected", "unprojected", "undecided"},
             commit_collection_transaction(w, outcome)
      PROVE  TypeOK'
  <2>1. CASE outcome = "projected"
    BY <1>8, <2>1, GoesType DEF commit_collection_transaction
  <2>2. CASE outcome = "unprojected"
    BY <1>8, <2>2, GoesType DEF commit_collection_transaction
  <2>3. CASE outcome = "undecided"
    <3>1. returns(w)
      BY <1>8, <2>3 DEF commit_collection_transaction
    <3> QED BY <1>8, <3>1, ReturnsType DEF commit_collection_transaction
  <2> QED BY <2>1, <2>2, <2>3
<1>9. CASE request_flush(w)
  <2>1. Goes(w, "overlay")
    BY <1>9 DEF request_flush
  <2>2. op' \in [Writers -> Op]
    BY <2>1, GoesType
  <2> QED BY <1>9, <2>2 DEF request_flush, notified, NoOne
<1>10. ASSUME NEW changes \in BOOLEAN, NEW published \in BOOLEAN,
              apply(w, changes, published)
       PROVE  TypeOK'
  <2>1. pending' \in [Collections -> BOOLEAN] /\ degraded' \in BOOLEAN
    BY <1>10 DEF apply
  <2>2. returns(w)
    BY <1>10 DEF apply
  <2> QED BY <1>10, <2>1, <2>2, ReturnsType DEF apply
<1> QED
  BY <1>1, <1>2, <1>3, <1>4, <1>5, <1>6, <1>7, <1>8, <1>9, <1>10 DEF Request, Proceed

LEMMA RestoreType == TypeOK /\ (restore_begin \/ Restore) => TypeOK'
<1> SUFFICES ASSUME TypeOK, restore_begin \/ Restore PROVE TypeOK'
  OBVIOUS
<1> USE DEF TypeOK, locks, flags, flusher, requests, Restoring
<1>1. CASE restore_begin
  <2>1. restores' \in 0 .. MaxRestores
    BY <1>1, ConstantsAssumption DEF restore_begin
  <2>2. barrier' \in Lock
    BY <1>1 DEF restore_begin, Claimed, Lock
  <2> QED BY <1>1, <2>1, <2>2 DEF restore_begin
<1>2. CASE restore_barrier
  BY <1>2 DEF restore_barrier
<1>3. ASSUME NEW ok \in BOOLEAN,
             \/ restore_staged(ok) \/ restore_pause(ok)
             \/ wait_for_storage_idle(ok) \/ restore_flushed(ok)
      PROVE  TypeOK'
  <2>1. CASE restore_staged(ok)
    <3>1. UNCHANGED <<lifecycle, barrier, coll, wake, flush_gate, stop, dirty, worker,
                      degraded, pending, todo, op, left, restores, latched, shut>>
      BY <2>1 DEF restore_staged
    <3>2. CASE ok /\ ~maintenance
      <4>1. restore' = "entered" /\ maintenance' = TRUE
        BY <2>1, <3>2 DEF restore_staged
      <4> QED BY <3>1, <4>1
    <3>3. CASE ~(ok /\ ~maintenance)
      <4>1. restore' = "leave_barrier" /\ maintenance' = maintenance
        BY <2>1, <3>3 DEF restore_staged
      <4> QED BY <3>1, <4>1
    <3> QED BY <3>2, <3>3
  <2>2. CASE restore_pause(ok)
    BY <2>2 DEF restore_pause
  <2>3. CASE wait_for_storage_idle(ok)
    BY <2>3 DEF wait_for_storage_idle, Flushers
  <2>4. CASE restore_flushed(ok)
    BY <2>4 DEF restore_flushed, flushed, Flushers
  <2> QED BY <1>3, <2>1, <2>2, <2>3, <2>4
<1>4. CASE restore_claim
  <2>1. lifecycle' \in Lock
    BY <1>4 DEF restore_claim, Claimed, Lock
  <2> QED BY <1>4, <2>1 DEF restore_claim
<1>5. CASE restore_gate
  BY <1>5 DEF restore_gate
<1>6. CASE quiesce
  BY <1>6 DEF quiesce
<1>7. CASE Flush("restore")
  BY <1>7 DEF Flush, flush_collection, Flushers, restoring
<1>8. ASSUME NEW outcome \in {"installed", "rolled_back", "latched"},
             NEW marked \in BOOLEAN, restore_install(outcome, marked)
      PROVE  TypeOK'
  BY <1>8 DEF restore_install
<1>9. CASE restore_leave
  <2>1. lifecycle' \in Lock
    BY <1>9 DEF restore_leave, Claimed, Lock
  <2> QED BY <1>9, <2>1 DEF restore_leave
<1>10. CASE restore_leave_barrier
  <2>1. barrier' \in Lock
    BY <1>10 DEF restore_leave_barrier, Claimed, Lock
  <2> QED BY <1>10, <2>1 DEF restore_leave_barrier
<1> QED
  BY <1>1, <1>2, <1>3, <1>4, <1>5, <1>6, <1>7, <1>8, <1>9, <1>10 DEF Restore

LEMMA ShutdownType == TypeOK /\ (begin_shutdown \/ Shutdown) => TypeOK'
<1> SUFFICES ASSUME TypeOK, begin_shutdown \/ Shutdown PROVE TypeOK'
  OBVIOUS
<1> USE DEF TypeOK, locks, flags, flusher, requests, restoring
<1>1. CASE begin_shutdown
  BY <1>1 DEF begin_shutdown
<1>2. CASE stop_flusher
  BY <1>2 DEF stop_flusher, notified, NoOne
<1>3. CASE Flush("shutdown")
  BY <1>3 DEF Flush, flush_collection, Flushers
<1>4. ASSUME NEW b \in BOOLEAN, join_flusher(b)
      PROVE  TypeOK'
  BY <1>4 DEF join_flusher, Flushers
<1>5. ASSUME NEW b \in BOOLEAN, shutdown_flushed(b)
      PROVE  TypeOK'
  BY <1>5 DEF shutdown_flushed, flushed, Flushers
<1> QED BY <1>1, <1>2, <1>3, <1>4, <1>5 DEF Shutdown

LEMMA TypeStep == TypeOK /\ [Next]_vars => TypeOK'
<1> SUFFICES ASSUME TypeOK, [Next]_vars PROVE TypeOK'
  OBVIOUS
<1>1. CASE UNCHANGED vars
  BY <1>1 DEF TypeOK, vars, locks, flusher, flags, requests, restoring
<1> QED
  BY <1>1, WorkerType, RequestType, RestoreType, ShutdownType DEF Next

\* Every variable of the flusher, of the requests, of a restore and of a
\* shutdown keeps its type, and the flusher holds its two mutexes exactly
\* where its code holds their guards.
THEOREM MaintenanceTypeCorrect == Spec => []TypeOK
  BY TypeInit, TypeStep, PTL DEF Spec
-----------------------------------------------------------------------------
(***************************************************************************)
(* The gate.  A restore that has claimed lifecycle_gate keeps new requests *)
(* out, and one that owns it is alone: a request that is past the gate is  *)
(* one of its readers.                                                     *)
(***************************************************************************)
Claims == {"gate", "pause", "quiesce", "settle", "flush", "install", "leave",
           "leave_gate"}
Owns == Claims \ {"gate"}
Inside == {"execute", "check", "barrier", "collection", "commit", "request",
           "overlay"}

GateClaimed == lifecycle.writer = IF restore \in Claims THEN "restore" ELSE NoOne

GateOwned == restore \in Owns => lifecycle.readers = {}

InsideReads ==
  \A w \in Writers : op[w].pc \in Inside => w \in lifecycle.readers

\* maintenance is raised from before the claim until the first step out.
Raised ==
  /\ restore \in {"entered"} \cup (Claims \ {"leave_gate"}) => maintenance
  /\ restore = "leave_gate" => maintenance = latched

\* After a restore got stuck no other one passes the first check.
LatchStops ==
  latched =>
    /\ maintenance
    /\ restore \in {"idle", "barrier", "leave", "leave_gate", "leave_barrier"}

\* The flush of a restore has still to visit whatever is pending.
FlushCovers ==
  restore = "flush" =>
    \A c \in Collections : pending[c] => c \in todo["restore"]

Gate ==
  /\ GateClaimed
  /\ GateOwned
  /\ InsideReads
  /\ Raised
  /\ LatchStops
  /\ FlushCovers
  /\ QuiescedFlusher
  /\ InstallDrained
  /\ MaintenanceEndsBehindGate

LEMMA GateInit == Init => Gate
  BY DEF Init, Gate, GateClaimed, GateOwned, InsideReads, Raised, LatchStops,
         FlushCovers, QuiescedFlusher, InstallDrained, MaintenanceEndsBehindGate,
         Claims, Owns, Inside, Unlocked, NoOne, Idle

LEMMA WorkerGate == TypeOK /\ Gate /\ Worker => Gate'
<1> SUFFICES ASSUME TypeOK, Gate, Worker PROVE Gate'
  OBVIOUS
<1> USE DEF TypeOK, Gate, GateClaimed, GateOwned, InsideReads, Raised, LatchStops,
            FlushCovers, QuiescedFlusher, InstallDrained, MaintenanceEndsBehindGate,
            locks, flags, requests, restoring
<1>1. CASE worker_lock
  BY <1>1 DEF worker_lock
<1>2. CASE worker_check
  BY <1>2 DEF worker_check
<1>3. CASE worker_park
  BY <1>3 DEF worker_park
<1>4. CASE worker_timeout
  BY <1>4 DEF worker_timeout
<1>5. CASE worker_gate
  BY <1>5 DEF worker_gate
<1>6. CASE worker_gated
  BY <1>6 DEF worker_gated, Flushers, Claims
<1>7. CASE Flush("worker")
  BY <1>7 DEF Flush, flush_collection, flusher, Flushers
<1>8. ASSUME NEW ok \in BOOLEAN, worker_flushed(ok)
      PROVE  Gate'
  BY <1>8 DEF worker_flushed, flushed, Flushers
<1> QED BY <1>1, <1>2, <1>3, <1>4, <1>5, <1>6, <1>7, <1>8 DEF Worker

\* A request that returns leaves the gate, and nothing else changes for it.
LEMMA ReturnsReads ==
  ASSUME TypeOK, InsideReads, NEW w \in Writers, returns(w)
  PROVE  /\ InsideReads'
         /\ lifecycle'.writer = lifecycle.writer
         /\ lifecycle'.readers \subseteq lifecycle.readers
  BY DEF TypeOK, InsideReads, returns, Left, Lock, Idle, Inside

LEMMA GoesReads ==
  ASSUME TypeOK, InsideReads, NEW w \in Writers, w \in lifecycle'.readers,
         lifecycle.readers \subseteq lifecycle'.readers, NEW pc, Goes(w, pc)
  PROVE  InsideReads'
  BY DEF TypeOK, InsideReads, Goes, Op

\* What a request may change while a restore is about: only the readers of
\* the gate, which it joins while no restore claims it, and, from inside the
\* gate, what is pending.
LEMMA RequestFrame ==
  ASSUME TypeOK, Gate, InsideReads',
         UNCHANGED <<restore, latched, maintenance, todo>>,
         lifecycle'.writer = lifecycle.writer,
         \/ lifecycle'.readers \subseteq lifecycle.readers
         \/ lifecycle.writer = NoOne,
         worker' = "flush" => worker = "flush",
         pending' = pending \/ lifecycle.readers # {}
  PROVE  Gate'
<1> USE DEF Gate, GateClaimed, NoOne
<1>1. GateClaimed'
  OBVIOUS
<1>2. GateOwned'
  BY DEF TypeOK, GateOwned, Owns, Lock
<1>3. FlushCovers' /\ InstallDrained'
  BY DEF GateOwned, FlushCovers, InstallDrained, Owns, Claims
<1>4. Raised' /\ LatchStops' /\ QuiescedFlusher' /\ MaintenanceEndsBehindGate'
  BY DEF Raised, LatchStops, QuiescedFlusher, MaintenanceEndsBehindGate
<1> QED BY <1>1, <1>2, <1>3, <1>4

LEMMA RequestGate ==
  ASSUME TypeOK, Gate, NEW w \in Writers, Request(w) \/ Proceed(w)
  PROVE  Gate'
<1>a. InsideReads
  BY DEF Gate
<1>b. op[w].pc \in Inside => w \in lifecycle.readers
  BY <1>a DEF InsideReads
<1> USE DEF locks, flags, flusher, requests, restoring, At
<1>1. ASSUME NEW kind \in Kinds, NEW c \in Collections, NEW wait \in BOOLEAN,
             request(w, kind, c, wait)
      PROVE  Gate'
  <2>1. InsideReads'
    BY <1>1, <1>a DEF request, InsideReads, TypeOK, Inside
  <2> QED BY <1>1, <2>1, RequestFrame DEF request
<1>2. CASE sql_check(w)
  <2>1. InsideReads'
    BY <1>2, <1>a DEF sql_check, InsideReads, TypeOK, Inside, Idle, Op
  <2> QED BY <1>2, <2>1, RequestFrame DEF sql_check
<1>3. CASE lifecycle_read(w)
  <2>1. /\ lifecycle'.writer = lifecycle.writer
        /\ lifecycle'.readers = lifecycle.readers \cup {w}
        /\ lifecycle.writer = NoOne
    BY <1>3 DEF lifecycle_read, Joined, MayRead, TypeOK, Lock
  <2>2. InsideReads'
    BY <1>3, <1>a, <2>1, GoesReads DEF lifecycle_read
  <2> QED BY <1>3, <2>1, <2>2, RequestFrame DEF lifecycle_read
<1>4. CASE execute_sql(w)
  <2>1. returns(w)
    BY <1>4 DEF execute_sql
  <2> QED BY <1>4, <1>a, <2>1, ReturnsReads, RequestFrame DEF execute_sql
<1>5. CASE collection_check(w)
  <2>1. CASE returns(w)
    BY <1>5, <1>a, <2>1, ReturnsReads, RequestFrame DEF collection_check
  <2>2. CASE Goes(w, "barrier") /\ UNCHANGED locks
    <3>1. InsideReads'
      BY <1>5, <1>a, <1>b, <2>2, GoesReads DEF collection_check, Inside
    <3> QED BY <1>5, <2>2, <3>1, RequestFrame DEF collection_check
  <2> QED BY <1>5, <2>1, <2>2 DEF collection_check
<1>6. CASE barrier_read(w)
  <2>1. InsideReads'
    BY <1>6, <1>a, <1>b, GoesReads DEF barrier_read, Inside
  <2> QED BY <1>6, <2>1, RequestFrame DEF barrier_read
<1>7. CASE lock_collection(w)
  <2>1. InsideReads'
    BY <1>7, <1>a, <1>b, GoesReads DEF lock_collection, Inside
  <2> QED BY <1>7, <2>1, RequestFrame DEF lock_collection
<1>8. ASSUME NEW outcome \in {"projected", "unprojected", "undecided"},
             commit_collection_transaction(w, outcome)
      PROVE  Gate'
  <2>1. CASE outcome = "undecided"
    <3>1. returns(w)
      BY <1>8, <2>1 DEF commit_collection_transaction
    <3> QED BY <1>8, <1>a, <3>1, ReturnsReads, RequestFrame
            DEF commit_collection_transaction
  <2>2. CASE outcome # "undecided"
    <3>1. PICK pc : Goes(w, pc) /\ UNCHANGED locks
      BY <1>8, <2>2 DEF commit_collection_transaction
    <3>2. InsideReads'
      BY <1>8, <1>a, <1>b, <3>1, GoesReads DEF commit_collection_transaction, Inside
    <3> QED BY <1>8, <3>1, <3>2, RequestFrame DEF commit_collection_transaction
  <2> QED BY <2>1, <2>2
<1>9. CASE request_flush(w)
  <2>1. InsideReads'
    BY <1>9, <1>a, <1>b, GoesReads DEF request_flush, Inside
  <2> QED BY <1>9, <2>1, RequestFrame DEF request_flush, notified
<1>10. ASSUME NEW changes \in BOOLEAN, NEW published \in BOOLEAN,
              apply(w, changes, published)
       PROVE  Gate'
  <2>1. returns(w)
    BY <1>10 DEF apply
  <2>2. lifecycle.readers # {}
    BY <1>10, <1>b DEF apply, Inside
  <2> QED BY <1>10, <1>a, <2>1, <2>2, ReturnsReads, RequestFrame DEF apply
<1> QED
  BY <1>1, <1>2, <1>3, <1>4, <1>5, <1>6, <1>7, <1>8, <1>9, <1>10 DEF Request, Proceed

LEMMA RestoreGate == TypeOK /\ Gate /\ (restore_begin \/ Restore) => Gate'
<1> SUFFICES ASSUME TypeOK, Gate, restore_begin \/ Restore PROVE Gate'
  OBVIOUS
<1> USE DEF TypeOK, Gate, GateClaimed, GateOwned, InsideReads, Raised, LatchStops,
            FlushCovers, QuiescedFlusher, InstallDrained, MaintenanceEndsBehindGate,
            locks, flags, flusher, requests, Restoring, Claims, Owns, NoOne
<1>1. CASE restore_begin
  BY <1>1 DEF restore_begin
<1>2. CASE restore_barrier
  BY <1>2 DEF restore_barrier, ensure_storage_mutations_available
<1>3. ASSUME NEW ok \in BOOLEAN,
             \/ restore_staged(ok) \/ restore_pause(ok)
             \/ wait_for_storage_idle(ok) \/ restore_flushed(ok)
      PROVE  Gate'
  <2>1. CASE restore_staged(ok)
    BY <2>1 DEF restore_staged
  <2>2. CASE restore_pause(ok)
    BY <2>2 DEF restore_pause
  <2>3. CASE wait_for_storage_idle(ok)
    BY <2>3 DEF wait_for_storage_idle, Flushers
  <2>4. CASE restore_flushed(ok)
    BY <2>4 DEF restore_flushed, flushed, Flushing, Flushers
  <2> QED BY <1>3, <2>1, <2>2, <2>3, <2>4
<1>4. CASE restore_claim
  BY <1>4 DEF restore_claim, Claimed, Lock
<1>5. CASE restore_gate
  BY <1>5 DEF restore_gate
<1>6. CASE quiesce
  BY <1>6 DEF quiesce
<1>7. CASE Flush("restore")
  BY <1>7 DEF Flush, flush_collection, Flushers, restoring
<1>8. ASSUME NEW outcome \in {"installed", "rolled_back", "latched"},
             NEW marked \in BOOLEAN, restore_install(outcome, marked)
      PROVE  Gate'
  BY <1>8 DEF restore_install
<1>9. CASE restore_leave
  BY <1>9 DEF restore_leave, Claimed, Lock
<1>10. CASE restore_leave_barrier
  BY <1>10 DEF restore_leave_barrier
<1> QED
  BY <1>1, <1>2, <1>3, <1>4, <1>5, <1>6, <1>7, <1>8, <1>9, <1>10 DEF Restore

LEMMA ShutdownGate == TypeOK /\ Gate /\ (begin_shutdown \/ Shutdown) => Gate'
<1> SUFFICES ASSUME TypeOK, Gate, begin_shutdown \/ Shutdown PROVE Gate'
  OBVIOUS
<1> USE DEF TypeOK, Gate, GateClaimed, GateOwned, InsideReads, Raised, LatchStops,
            FlushCovers, QuiescedFlusher, InstallDrained, MaintenanceEndsBehindGate,
            locks, flags, flusher, requests, restoring
<1>1. CASE begin_shutdown
  BY <1>1 DEF begin_shutdown
<1>2. CASE stop_flusher
  BY <1>2 DEF stop_flusher, notified
<1>3. CASE Flush("shutdown")
  BY <1>3 DEF Flush, flush_collection, Flushers
<1>4. ASSUME NEW b \in BOOLEAN, join_flusher(b)
      PROVE  Gate'
  BY <1>4 DEF join_flusher, Flushers
<1>5. ASSUME NEW b \in BOOLEAN, shutdown_flushed(b)
      PROVE  Gate'
  BY <1>5 DEF shutdown_flushed, flushed, Flushers
<1> QED BY <1>1, <1>2, <1>3, <1>4, <1>5 DEF Shutdown

LEMMA GateStep == TypeOK /\ Gate /\ [Next]_vars => Gate'
<1> SUFFICES ASSUME TypeOK, Gate, [Next]_vars PROVE Gate'
  OBVIOUS
<1>1. CASE UNCHANGED vars
  BY <1>1 DEF Gate, GateClaimed, GateOwned, InsideReads, Raised, LatchStops,
              FlushCovers, QuiescedFlusher, InstallDrained, MaintenanceEndsBehindGate,
              vars, locks, flusher, flags, requests, restoring
<1> QED
  BY <1>1, WorkerGate, RequestGate, RestoreGate, ShutdownGate DEF Next

LEMMA GateInvariant == Spec => []Gate
<1>1. Init => TypeOK /\ Gate
  BY TypeInit, GateInit
<1>2. TypeOK /\ Gate /\ [Next]_vars => (TypeOK /\ Gate)'
  BY TypeStep, GateStep
<1> QED BY <1>1, <1>2, PTL DEF Spec

\* quiesce drains the background flusher: from its return until the restore
\* leaves, the flusher starts no flush.
THEOREM FlusherStaysQuiesced == Spec => []QuiescedFlusher
<1>1. Gate => QuiescedFlusher
  BY DEF Gate
<1> QED BY <1>1, GateInvariant, PTL

\* Nothing is pending in any collection while a restore swaps the root.
THEOREM RootSwapIsDrained == Spec => []InstallDrained
<1>1. Gate => InstallDrained
  BY DEF Gate
<1> QED BY <1>1, GateInvariant, PTL

\* A restore that is not stuck clears maintenance before the gate opens.
THEOREM MaintenanceClearedBehindGate == Spec => []MaintenanceEndsBehindGate
<1>1. Gate => MaintenanceEndsBehindGate
  BY DEF Gate
<1> QED BY <1>1, GateInvariant, PTL
-----------------------------------------------------------------------------
(***************************************************************************)
(* A latched restore.  Collection mutations check behind the gate, so the  *)
(* ones that pass it after the latch are refused; none was inside when the *)
(* latch fell, because the restore owned the gate.                         *)
(***************************************************************************)
CollectionOps ==
  \A w \in Writers :
    /\ op[w].pc \notin {"sql_check", "execute"}
    /\ op[w].pc = "lifecycle" => op[w].kind = "collection"

LatchedOps ==
  latched => \A w \in Writers : op[w].pc \in {"idle", "lifecycle", "check"}

LatchInv == CollectionOps /\ LatchedOps

LEMMA LatchInit == Init => LatchInv
  BY DEF Init, LatchInv, CollectionOps, LatchedOps, Idle

\* A step of one thread that keeps the flag concerns that thread only.
LEMMA LatchFrame ==
  ASSUME TypeOK, LatchInv, NEW w \in Writers, latched' = latched,
         NEW o, op' = [op EXCEPT ![w] = o],
         o.pc \notin {"sql_check", "execute"},
         o.pc = "lifecycle" => o.kind = "collection",
         latched => o.pc \in {"idle", "lifecycle", "check"}
  PROVE  LatchInv'
  BY DEF TypeOK, LatchInv, CollectionOps, LatchedOps

LEMMA RequestLatch ==
  ASSUME "sql" \notin Kinds, TypeOK, Gate, LatchInv, NEW w \in Writers,
         Request(w) \/ Proceed(w)
  PROVE  LatchInv'
<1> USE DEF At, restoring
<1>a. /\ op[w] \in Op
      /\ op[w].pc \notin {"sql_check", "execute"}
      /\ op[w].pc = "lifecycle" => op[w].kind = "collection"
      /\ latched => op[w].pc \in {"idle", "lifecycle", "check"}
  BY DEF TypeOK, LatchInv, CollectionOps, LatchedOps
<1>b. latched => ~ensure_storage_mutations_available
  BY DEF Gate, LatchStops, ensure_storage_mutations_available
<1>c. ASSUME NEW pc, Goes(w, pc), latched' = latched,
             pc \notin {"sql_check", "execute", "lifecycle"},
             latched => pc \in {"idle", "check"}
      PROVE  LatchInv'
  <2>1. op' = [op EXCEPT ![w] = [op[w] EXCEPT !.pc = pc]]
    BY <1>c DEF TypeOK, Goes
  <2>2. [op[w] EXCEPT !.pc = pc].pc = pc
    BY <1>a DEF Op
  <2> DEFINE o == [op[w] EXCEPT !.pc = pc]
  <2>3. /\ o.pc \notin {"sql_check", "execute", "lifecycle"}
        /\ latched => o.pc \in {"idle", "lifecycle", "check"}
    BY <1>c, <2>2
  <2>4. op' = [op EXCEPT ![w] = o]
    BY <2>1
  <2> HIDE DEF o
  <2> QED BY <1>c, <2>3, <2>4, LatchFrame
<1>d. ASSUME returns(w), latched' = latched
      PROVE  LatchInv'
  <2>1. Idle.pc = "idle"
    BY DEF Idle
  <2> QED BY <1>d, <2>1, LatchFrame DEF returns
<1>1. ASSUME NEW kind \in Kinds, NEW c \in Collections, NEW wait \in BOOLEAN,
             request(w, kind, c, wait)
      PROVE  LatchInv'
  <2>1. kind = "collection"
    BY ConstantsAssumption
  <2>2. op' = [op EXCEPT ![w] = [pc |-> "lifecycle", kind |-> "collection",
                                 c |-> c, wait |-> wait]]
    BY <1>1, <2>1 DEF request
  <2> QED BY <1>1, <2>2, LatchFrame DEF request
<1>2. CASE sql_check(w)
  BY <1>2, <1>a DEF sql_check
<1>3. CASE lifecycle_read(w)
  <2>1. Goes(w, "check")
    BY <1>3, <1>a DEF lifecycle_read
  <2> QED BY <1>3, <2>1, <1>c DEF lifecycle_read
<1>4. CASE execute_sql(w)
  BY <1>4, <1>a DEF execute_sql
<1>5. CASE collection_check(w)
  BY <1>5, <1>b, <1>c, <1>d DEF collection_check
<1>6. CASE barrier_read(w)
  BY <1>6, <1>a, <1>c DEF barrier_read
<1>7. CASE lock_collection(w)
  BY <1>7, <1>a, <1>c DEF lock_collection
<1>8. ASSUME NEW outcome \in {"projected", "unprojected", "undecided"},
             commit_collection_transaction(w, outcome)
      PROVE  LatchInv'
  <2>1. CASE outcome = "undecided"
    BY <1>8, <2>1, <1>d DEF commit_collection_transaction
  <2>2. CASE outcome # "undecided"
    <3>1. \/ Goes(w, "request")
          \/ Goes(w, "overlay")
      BY <1>8, <2>2 DEF commit_collection_transaction
    <3> QED BY <1>8, <1>a, <3>1, <1>c DEF commit_collection_transaction
  <2> QED BY <2>1, <2>2
<1>9. CASE request_flush(w)
  BY <1>9, <1>a, <1>c DEF request_flush
<1>10. ASSUME NEW changes \in BOOLEAN, NEW published \in BOOLEAN,
              apply(w, changes, published)
       PROVE  LatchInv'
  BY <1>10, <1>d DEF apply
<1> QED
  BY <1>1, <1>2, <1>3, <1>4, <1>5, <1>6, <1>7, <1>8, <1>9, <1>10 DEF Request, Proceed

\* The threads other than requests do not touch op, and only the end of an
\* installation touches latched.
LEMMA OthersLatch ==
  ASSUME TypeOK, Gate, LatchInv,
         \/ Worker \/ restore_begin \/ Restore \/ begin_shutdown \/ Shutdown
         \/ UNCHANGED vars
  PROVE  LatchInv'
<1>1. ASSUME op' = op, latched' = latched
      PROVE  LatchInv'
  BY <1>1 DEF LatchInv, CollectionOps, LatchedOps
<1>2. ASSUME NEW outcome \in {"installed", "rolled_back", "latched"},
             NEW marked \in BOOLEAN, restore_install(outcome, marked)
      PROVE  LatchInv'
  <2>1. \A w \in Writers : op[w].pc \notin Inside
    BY <1>2 DEF restore_install, Restoring, Gate, GateOwned, InsideReads, Owns, Claims
  <2>2. \A w \in Writers : op[w].pc \in {"idle", "lifecycle"}
    BY <2>1 DEF TypeOK, Op, Inside, LatchInv, CollectionOps
  <2>3. op' = op
    BY <1>2 DEF restore_install, requests
  <2> QED BY <2>2, <2>3 DEF LatchInv, CollectionOps, LatchedOps
<1>3. CASE Worker
  BY <1>1, <1>3 DEF Worker, worker_lock, worker_check, worker_park, worker_timeout,
     worker_gate, worker_gated, Flush, flush_collection, worker_flushed,
     requests, restoring
<1>4. CASE restore_begin \/ Restore
  BY <1>1, <1>2, <1>4 DEF Restore, restore_begin, restore_barrier, restore_claim,
     restore_gate, quiesce, restore_staged, restore_pause, wait_for_storage_idle,
     restore_flushed, Flush, flush_collection, restore_leave, restore_leave_barrier,
     requests, restoring
<1>5. CASE begin_shutdown \/ Shutdown
  BY <1>1, <1>5 DEF begin_shutdown, Shutdown, stop_flusher, Flush, flush_collection,
     join_flusher, shutdown_flushed, requests, restoring
<1>6. CASE UNCHANGED vars
  BY <1>1, <1>6 DEF vars, requests, restoring
<1> QED BY <1>3, <1>4, <1>5, <1>6

\* Where clients mutate collections only, a database whose restore could not
\* be rolled back lets no mutation through: the check behind the gate sees
\* the latch.  (SQL, which checks before the gate, is the other case.)
THEOREM LatchedStaysReadOnly ==
  ASSUME "sql" \notin Kinds
  PROVE  Spec => []LatchedRefusesMutations
<1>1. Init => TypeOK /\ Gate /\ LatchInv
  BY TypeInit, GateInit, LatchInit
<1>2. TypeOK /\ Gate /\ LatchInv /\ [Next]_vars => (TypeOK /\ Gate /\ LatchInv)'
  <2> SUFFICES ASSUME TypeOK, Gate, LatchInv, [Next]_vars
               PROVE  TypeOK' /\ Gate' /\ LatchInv'
    OBVIOUS
  <2>1. TypeOK' /\ Gate'
    BY TypeStep, GateStep
  <2>2. LatchInv'
    BY RequestLatch, OthersLatch DEF Next
  <2> QED BY <2>1, <2>2
<1>3. LatchInv => LatchedRefusesMutations
  BY DEF LatchInv, LatchedOps, LatchedRefusesMutations
<1> QED BY <1>1, <1>2, <1>3, PTL DEF Spec
=============================================================================
