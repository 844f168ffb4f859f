------------------------- MODULE StorageMaintenance -------------------------
(***************************************************************************)
(* The threads that share an open database (chirondb-core/src/db.rs):      *)
(* request threads that mutate a collection or run SQL, the background     *)
(* flusher (WalFlushCoordinator), an online restore that replaces the      *)
(* whole storage root, and the shutdown of the process.                    *)
(*                                                                         *)
(* They meet in two reader-writer locks (lifecycle_gate and                *)
(* maintenance_barrier), the lock of each collection, the wake mutex with  *)
(* its condition variable and the flush gate of the flusher, and the       *)
(* atomic flags maintenance and durability_degraded.  What a write leaves  *)
(* to the flusher is abstracted to one bit per collection, pending: bytes  *)
(* not yet synced or a visibility overlay not yet published.               *)
(***************************************************************************)
EXTENDS Naturals, FiniteSets

CONSTANTS
  Writers,       \* request threads
  Collections,   \* collections of the database
  Kinds,         \* what requests do: mutate a "collection" or run "sql"
  MaxRequests,   \* bound on the requests of a thread
  MaxRestores,   \* bound on the restores
  Aborts,        \* whether a restore may give up before it flushes
  IoFails        \* whether storage may fail: appends, flushes, rollbacks

ASSUME ConstantsAssumption ==
  /\ Collections # {}
  /\ Kinds \subseteq {"collection", "sql"}
  /\ MaxRequests \in Nat /\ MaxRestores \in Nat
  /\ {Aborts, IoFails} \subseteq BOOLEAN

VARIABLES
  lifecycle, barrier, coll,          \* the locks, with who holds them
  wake, flush_gate,                  \* the mutexes of the flusher
  stop, dirty, worker,               \* the flags of the flusher and its thread
  maintenance, degraded,             \* flags every request looks at
  pending,                           \* collections with work for a flush
  todo,                              \* collections a flush has still to visit
  op, left,                          \* the request of each thread
  restore, restores, latched,        \* the restore, and whether one got stuck
  shut                               \* the shutdown

locks == <<lifecycle, barrier, coll>>
flusher == <<wake, flush_gate, stop, dirty, worker>>
flags == <<maintenance, degraded>>
requests == <<op, left>>
restoring == <<restore, restores, latched>>
vars == <<locks, flusher, flags, pending, todo, requests, restoring, shut>>

NoOne == "none"
Flushers == {"worker", "restore", "shutdown"}
Idle == [pc |-> "idle", kind |-> "sql", c |-> CHOOSE c \in Collections : TRUE,
         wait |-> FALSE]
Unlocked == [writer |-> NoOne, readers |-> {}]

Init ==
  /\ lifecycle = Unlocked /\ barrier = Unlocked
  /\ coll = [c \in Collections |-> NoOne]
  /\ wake = NoOne /\ flush_gate = NoOne
  /\ stop = FALSE /\ dirty = FALSE /\ worker = "lock"
  /\ maintenance = FALSE /\ degraded = FALSE
  /\ pending = [c \in Collections |-> FALSE]
  /\ todo = [f \in Flushers |-> {}]
  /\ op = [w \in Writers |-> Idle] /\ left = [w \in Writers |-> MaxRequests]
  /\ restore = "idle" /\ restores = MaxRestores /\ latched = FALSE
  /\ shut = "idle"

(***************************************************************************)
(* A reader-writer lock lets no new reader in once a writer has claimed    *)
(* it; the writer owns it when the readers have gone.                      *)
(***************************************************************************)
MayRead(lock) == lock.writer = NoOne
Joined(lock, w) == [lock EXCEPT !.readers = @ \cup {w}]
Left(lock, w) == [lock EXCEPT !.readers = @ \ {w}]
Claimed(lock, who) == [lock EXCEPT !.writer = who]

\* Mutant: requests are admitted during maintenance.
ensure_storage_mutations_available_in_maintenance == shut = "idle" /\ ~degraded

ensure_storage_mutations_available ==
  shut = "idle" /\ ~maintenance /\ ~degraded

(***************************************************************************)
(* flush_wals_inner: each collection in turn, under its own lock.          *)
(***************************************************************************)
Flushing(f) ==
  \/ f = "worker" /\ worker = "flush"
  \/ f = "restore" /\ restore = "flush"
  \/ f = "shutdown" /\ shut = "flush"

flush_collection(f, c) ==
  /\ Flushing(f)
  /\ c \in todo[f]
  /\ coll[c] = NoOne
  /\ pending' = [pending EXCEPT ![c] = FALSE]
  /\ todo' = [todo EXCEPT ![f] = @ \ {c}]
  /\ UNCHANGED <<locks, flusher, flags, requests, restoring, shut>>

\* A flush ends after the last collection, or with an error before.  An
\* error makes the database refuse mutations until it is restarted.
flushed(f, ok) ==
  /\ Flushing(f)
  /\ IF ok THEN todo[f] = {} ELSE IoFails
  /\ todo' = [todo EXCEPT ![f] = {}]
  /\ degraded' = (degraded \/ ~ok)

(***************************************************************************)
(* The flusher thread.                                                     *)
(***************************************************************************)
worker_lock ==
  /\ worker = "lock"
  /\ wake = NoOne
  /\ wake' = "worker"
  /\ worker' = "check"
  /\ UNCHANGED <<locks, flush_gate, stop, dirty, flags, pending, todo, requests, restoring, shut>>

\* Under the wake mutex; wait_timeout releases it for the flush interval.
worker_check ==
  /\ worker = "check"
  /\ worker' = IF stop THEN "ended" ELSE IF dirty THEN "timer" ELSE "park"
  /\ wake' = IF stop \/ dirty THEN NoOne ELSE wake
  /\ UNCHANGED <<locks, flush_gate, stop, dirty, flags, pending, todo, requests, restoring, shut>>

worker_park ==
  /\ worker = "park"
  /\ worker' = "waiting"
  /\ wake' = NoOne
  /\ UNCHANGED <<locks, flush_gate, stop, dirty, flags, pending, todo, requests, restoring, shut>>

worker_timeout ==
  /\ worker = "timer"
  /\ wake = NoOne
  /\ worker' = IF stop THEN "ended" ELSE "gate"
  /\ dirty' = (dirty /\ stop)
  /\ UNCHANGED <<locks, wake, flush_gate, stop, flags, pending, todo, requests, restoring, shut>>

worker_gate ==
  /\ worker = "gate"
  /\ flush_gate = NoOne
  /\ flush_gate' = "worker"
  /\ worker' = "gated"
  /\ UNCHANGED <<locks, wake, stop, dirty, flags, pending, todo, requests, restoring, shut>>

\* Mutant: the gate stays locked when the flush is skipped.
worker_gated_holding ==
  /\ worker = "gated"
  /\ IF maintenance
     THEN worker' = "lock" /\ UNCHANGED todo
     ELSE worker' = "flush" /\ todo' = [todo EXCEPT !["worker"] = Collections]
  /\ UNCHANGED <<locks, wake, flush_gate, stop, dirty, flags, pending, requests, restoring, shut>>

\* Mutant: the flusher does not look at maintenance under the gate.
worker_gated_unchecked ==
  /\ worker = "gated"
  /\ worker' = "flush"
  /\ todo' = [todo EXCEPT !["worker"] = Collections]
  /\ UNCHANGED <<locks, wake, flush_gate, stop, dirty, flags, pending, requests, restoring, shut>>

worker_gated ==
  /\ worker = "gated"
  /\ IF maintenance
     THEN flush_gate' = NoOne /\ worker' = "lock" /\ UNCHANGED todo
     ELSE /\ worker' = "flush"
          /\ todo' = [todo EXCEPT !["worker"] = Collections]
          /\ UNCHANGED flush_gate
  /\ UNCHANGED <<locks, wake, stop, dirty, flags, pending, requests, restoring, shut>>

worker_flushed(ok) ==
  /\ flushed("worker", ok)
  /\ flush_gate' = NoOne
  /\ worker' = "lock"
  /\ UNCHANGED <<locks, wake, stop, dirty, maintenance, pending, requests, restoring, shut>>

\* notify_one and notify_all: the flusher is the only thread that waits.
notified == IF worker = "waiting" THEN "lock" ELSE worker
-----------------------------------------------------------------------------
(***************************************************************************)
(* Requests.  A collection mutation takes the lifecycle gate, then checks  *)
(* that mutations are available, then joins the maintenance barrier.  SQL  *)
(* checks first and then takes the gate.                                   *)
(***************************************************************************)
At(w, pc) == op[w].pc = pc
Goes(w, pc) == op' = [op EXCEPT ![w].pc = pc]

request(w, kind, c, wait) ==
  /\ At(w, "idle")
  /\ left[w] > 0
  /\ op' = [op EXCEPT ![w] = [pc |-> IF kind = "sql" THEN "sql_check" ELSE "lifecycle",
                              kind |-> kind, c |-> c, wait |-> wait]]
  /\ left' = [left EXCEPT ![w] = @ - 1]
  /\ UNCHANGED <<locks, flusher, flags, pending, todo, restoring, shut>>

sql_check(w) ==
  /\ At(w, "sql_check")
  /\ op' = [op EXCEPT ![w] = IF ensure_storage_mutations_available
                             THEN [@ EXCEPT !.pc = "lifecycle"] ELSE Idle]
  /\ UNCHANGED <<locks, flusher, flags, pending, todo, left, restoring, shut>>

lifecycle_read(w) ==
  /\ At(w, "lifecycle")
  /\ MayRead(lifecycle)
  /\ lifecycle' = Joined(lifecycle, w)
  /\ Goes(w, IF op[w].kind = "sql" THEN "execute" ELSE "check")
  /\ UNCHANGED <<barrier, coll, flusher, flags, pending, todo, left, restoring, shut>>

returns(w) ==
  /\ op' = [op EXCEPT ![w] = Idle]
  /\ lifecycle' = Left(lifecycle, w)
  /\ barrier' = Left(barrier, w)
  /\ coll' = [c \in Collections |-> IF coll[c] = w THEN NoOne ELSE coll[c]]

execute_sql(w) ==
  /\ At(w, "execute")
  /\ returns(w)
  /\ UNCHANGED <<flusher, flags, pending, todo, left, restoring, shut>>

collection_check(w) ==
  /\ At(w, "check")
  /\ IF ensure_storage_mutations_available THEN Goes(w, "barrier") /\ UNCHANGED locks
     ELSE returns(w)
  /\ UNCHANGED <<flusher, flags, pending, todo, left, restoring, shut>>

barrier_read(w) ==
  /\ At(w, "barrier")
  /\ MayRead(barrier)
  /\ barrier' = Joined(barrier, w)
  /\ Goes(w, "collection")
  /\ UNCHANGED <<lifecycle, coll, flusher, flags, pending, todo, left, restoring, shut>>

lock_collection(w) ==
  /\ At(w, "collection")
  /\ coll[op[w].c] = NoOne
  /\ coll' = [coll EXCEPT ![op[w].c] = w]
  /\ Goes(w, "commit")
  /\ UNCHANGED <<lifecycle, barrier, flusher, flags, pending, todo, left, restoring, shut>>

\* The decision and the append to the collection's WAL.  A decision that
\* fails ends the request; an append that fails after it does not.
commit_collection_transaction(w, outcome) ==
  /\ At(w, "commit")
  /\ outcome # "projected" => IoFails
  /\ degraded' = (degraded \/ outcome # "projected")
  /\ CASE outcome = "projected" -> Goes(w, "request") /\ UNCHANGED locks
       [] outcome = "unprojected" -> Goes(w, "overlay") /\ UNCHANGED locks
       [] outcome = "undecided" -> returns(w)
  /\ UNCHANGED <<flusher, maintenance, pending, todo, left, restoring, shut>>

\* Mutant: the flag is set and the flusher notified without the wake mutex.
request_flush_unlocked(w) ==
  /\ At(w, "request")
  /\ dirty' = TRUE
  /\ worker' = notified
  /\ Goes(w, "overlay")
  /\ UNCHANGED <<locks, wake, flush_gate, stop, flags, pending, todo, left, restoring, shut>>

request_flush(w) ==
  /\ At(w, "request")
  /\ wake = NoOne
  /\ dirty' = TRUE
  /\ worker' = notified
  /\ Goes(w, "overlay")
  /\ UNCHANGED <<locks, wake, flush_gate, stop, flags, pending, todo, left, restoring, shut>>

\* The overlay changes when the write hides sealed points.  wait = true
\* publishes it at once, wait = false leaves it to the flusher.
apply(w, changes, published) ==
  /\ At(w, "overlay")
  /\ IF op[w].wait THEN published \/ IoFails ELSE ~published
  /\ pending' = [pending EXCEPT ![op[w].c] = (@ \/ changes) /\ ~published]
  /\ degraded' = (degraded \/ (op[w].wait /\ ~published))
  /\ returns(w)
  /\ UNCHANGED <<flusher, maintenance, todo, left, restoring, shut>>
-----------------------------------------------------------------------------
(***************************************************************************)
(* Restore.  It claims the maintenance barrier, stages the new generation, *)
(* raises maintenance, takes the lifecycle gate, waits for a flush under   *)
(* way, flushes, and installs the new root.                                *)
(***************************************************************************)
Restoring(pc) == restore = pc

restore_begin ==
  /\ Restoring("idle")
  /\ restores > 0
  /\ MayRead(barrier)
  /\ barrier' = Claimed(barrier, "restore")
  /\ restore' = "barrier"
  /\ restores' = restores - 1
  /\ UNCHANGED <<lifecycle, coll, flusher, flags, pending, todo, requests, latched, shut>>

restore_barrier ==
  /\ Restoring("barrier")
  /\ barrier.readers = {}
  /\ restore' = IF ensure_storage_mutations_available THEN "staging" ELSE "leave_barrier"
  /\ UNCHANGED <<locks, flusher, flags, pending, todo, requests, restores, latched, shut>>

\* Staging may fail, and then leaves nothing behind.
restore_staged(ok) ==
  /\ Restoring("staging")
  /\ IF ok /\ ~maintenance THEN restore' = "entered" /\ maintenance' = TRUE
     ELSE restore' = "leave_barrier" /\ UNCHANGED maintenance
  /\ UNCHANGED <<locks, flusher, degraded, pending, todo, requests, restores, latched, shut>>

restore_claim ==
  /\ Restoring("entered")
  /\ MayRead(lifecycle)
  /\ lifecycle' = Claimed(lifecycle, "restore")
  /\ restore' = "gate"
  /\ UNCHANGED <<barrier, coll, flusher, flags, pending, todo, requests, restores, latched, shut>>

restore_gate ==
  /\ Restoring("gate")
  /\ lifecycle.readers = {}
  /\ restore' = "pause"
  /\ UNCHANGED <<locks, flusher, flags, pending, todo, requests, restores, latched, shut>>

\* SQL transactions must have ended and SQL checkpoints must pause.
restore_pause(ok) ==
  /\ Restoring("pause")
  /\ ok \/ Aborts
  /\ restore' = IF ok THEN "quiesce" ELSE "leave"
  /\ UNCHANGED <<locks, flusher, flags, pending, todo, requests, restores, latched, shut>>

quiesce ==
  /\ Restoring("quiesce")
  /\ flush_gate = NoOne
  /\ restore' = "settle"
  /\ UNCHANGED <<locks, flusher, flags, pending, todo, requests, restores, latched, shut>>

\* Mutant: the restore does not flush.
wait_for_storage_idle_unflushed(ok) ==
  /\ Restoring("settle")
  /\ ok
  /\ restore' = "install"
  /\ UNCHANGED <<locks, flusher, flags, pending, todo, requests, restores, latched, shut>>

wait_for_storage_idle(ok) ==
  /\ Restoring("settle")
  /\ ok \/ Aborts
  /\ restore' = IF ok THEN "flush" ELSE "leave"
  /\ todo' = [todo EXCEPT !["restore"] = IF ok THEN Collections ELSE {}]
  /\ UNCHANGED <<locks, flusher, flags, pending, requests, restores, latched, shut>>

restore_flushed(ok) ==
  /\ flushed("restore", ok)
  /\ restore' = IF ok THEN "install" ELSE "leave"
  /\ UNCHANGED <<locks, flusher, maintenance, pending, requests, restores, latched, shut>>

\* A new root brings collections whose overlays are published.  A failed
\* installation is rolled back; when that fails too, maintenance is latched,
\* and some of the paths that latch it mark the database degraded.
restore_install(outcome, marked) ==
  /\ Restoring("install")
  /\ outcome = "latched" => IoFails
  /\ pending' = IF outcome = "installed" THEN [c \in Collections |-> FALSE] ELSE pending
  /\ latched' = (outcome = "latched")
  /\ degraded' = (degraded \/ (outcome = "latched" /\ marked))
  /\ restore' = "leave"
  /\ UNCHANGED <<locks, flusher, maintenance, todo, requests, restores, shut>>

\* The guards go in the reverse order of their declaration: maintenance is
\* cleared, then the gate opens, then the barrier.
\* Mutant: the gate opens before maintenance is cleared.
restore_leave_gate_first ==
  /\ \/ /\ Restoring("leave")
        /\ lifecycle' = Claimed(lifecycle, NoOne)
        /\ restore' = "leave_gate"
        /\ UNCHANGED maintenance
     \/ /\ Restoring("leave_gate")
        /\ maintenance' = latched
        /\ restore' = "leave_barrier"
        /\ UNCHANGED lifecycle
  /\ UNCHANGED <<barrier, coll, flusher, degraded, pending, todo, requests, restores, latched, shut>>

restore_leave ==
  /\ \/ /\ Restoring("leave")
        /\ maintenance' = latched
        /\ restore' = "leave_gate"
        /\ UNCHANGED lifecycle
     \/ /\ Restoring("leave_gate")
        /\ lifecycle' = Claimed(lifecycle, NoOne)
        /\ restore' = "leave_barrier"
        /\ UNCHANGED maintenance
  /\ UNCHANGED <<barrier, coll, flusher, degraded, pending, todo, requests, restores, latched, shut>>

restore_leave_barrier ==
  /\ Restoring("leave_barrier")
  /\ barrier' = Claimed(barrier, NoOne)
  /\ restore' = "idle"
  /\ UNCHANGED <<lifecycle, coll, flusher, flags, pending, todo, requests, restores, latched, shut>>
-----------------------------------------------------------------------------
(***************************************************************************)
(* Shutdown: admission closes, requests may drain until the deadline, the  *)
(* flusher is stopped and joined, and a last flush runs if there is time.  *)
(***************************************************************************)
begin_shutdown ==
  /\ shut = "idle"
  /\ shut' = "drain"
  /\ UNCHANGED <<locks, flusher, flags, pending, todo, requests, restoring>>

\* Mutant: the stop flag is set without a notification.
stop_flusher_silent ==
  /\ shut = "drain"
  /\ wake = NoOne
  /\ stop' = TRUE
  /\ shut' = "join"
  /\ UNCHANGED <<locks, wake, flush_gate, dirty, worker, flags, pending, todo, requests, restoring>>

stop_flusher ==
  /\ shut = "drain"
  /\ wake = NoOne
  /\ stop' = TRUE
  /\ worker' = notified
  /\ shut' = "join"
  /\ UNCHANGED <<locks, wake, flush_gate, dirty, flags, pending, todo, requests, restoring>>

join_flusher(in_time) ==
  /\ shut = "join"
  /\ worker = "ended"
  /\ shut' = IF in_time THEN "flush" ELSE "stopped"
  /\ todo' = [todo EXCEPT !["shutdown"] = IF in_time THEN Collections ELSE {}]
  /\ UNCHANGED <<locks, flusher, flags, pending, requests, restoring>>

shutdown_flushed(ok) ==
  /\ flushed("shutdown", ok)
  /\ shut' = "stopped"
  /\ UNCHANGED <<locks, flusher, maintenance, pending, requests, restoring>>
-----------------------------------------------------------------------------
Flush(f) == \E c \in Collections : flush_collection(f, c)

Worker ==
  \/ worker_lock \/ worker_check \/ worker_park \/ worker_timeout
  \/ worker_gate \/ worker_gated \/ Flush("worker")
  \/ \E ok \in BOOLEAN : worker_flushed(ok)

Request(w) ==
  \E kind \in Kinds, c \in Collections, wait \in BOOLEAN : request(w, kind, c, wait)

Proceed(w) ==
  \/ sql_check(w) \/ lifecycle_read(w) \/ execute_sql(w)
  \/ collection_check(w) \/ barrier_read(w) \/ lock_collection(w)
  \/ \E outcome \in {"projected", "unprojected", "undecided"} :
       commit_collection_transaction(w, outcome)
  \/ request_flush(w)
  \/ \E changes, published \in BOOLEAN : apply(w, changes, published)

Restore ==
  \/ restore_barrier \/ restore_claim \/ restore_gate \/ quiesce
  \/ \E ok \in BOOLEAN :
       \/ restore_staged(ok) \/ restore_pause(ok)
       \/ wait_for_storage_idle(ok) \/ restore_flushed(ok)
  \/ Flush("restore")
  \/ \E outcome \in {"installed", "rolled_back", "latched"}, marked \in BOOLEAN :
       restore_install(outcome, marked)
  \/ restore_leave \/ restore_leave_barrier

Shutdown ==
  \/ stop_flusher \/ Flush("shutdown")
  \/ \E b \in BOOLEAN : join_flusher(b) \/ shutdown_flushed(b)

Next ==
  \/ Worker
  \/ \E w \in Writers : Request(w) \/ Proceed(w)
  \/ restore_begin \/ Restore
  \/ begin_shutdown \/ Shutdown

\* Threads that can run do: the locks are task-fair and I/O returns.
Fairness ==
  /\ WF_vars(Worker)
  /\ \A w \in Writers : WF_vars(Proceed(w))
  /\ WF_vars(Restore)
  /\ WF_vars(Shutdown)

Spec == Init /\ [][Next]_vars /\ Fairness
-----------------------------------------------------------------------------
Lock == [writer : {NoOne, "restore"}, readers : SUBSET Writers]
Op == [pc : {"idle", "sql_check", "lifecycle", "execute", "check", "barrier",
             "collection", "commit", "request", "overlay"},
       kind : {"sql", "collection"}, c : Collections, wait : BOOLEAN]

\* Every variable has its type, and the flusher holds the wake mutex and the
\* flush gate exactly where its code holds their guards.
TypeOK ==
  /\ lifecycle \in Lock /\ barrier \in Lock
  /\ coll \in [Collections -> Writers \cup {NoOne}]
  /\ wake = IF worker \in {"check", "park"} THEN "worker" ELSE NoOne
  /\ flush_gate = IF worker \in {"gated", "flush"} THEN "worker" ELSE NoOne
  /\ stop \in BOOLEAN /\ dirty \in BOOLEAN
  /\ worker \in {"lock", "check", "park", "waiting", "timer", "gate", "gated",
                 "flush", "ended"}
  /\ maintenance \in BOOLEAN /\ degraded \in BOOLEAN /\ latched \in BOOLEAN
  /\ pending \in [Collections -> BOOLEAN]
  /\ todo \in [Flushers -> SUBSET Collections]
  /\ op \in [Writers -> Op]
  /\ left \in [Writers -> 0 .. MaxRequests] /\ restores \in 0 .. MaxRestores
  /\ restore \in {"idle", "barrier", "staging", "entered", "gate", "pause", "quiesce",
                  "settle", "flush", "install", "leave", "leave_gate", "leave_barrier"}
  /\ shut \in {"idle", "drain", "join", "flush", "stopped"}

\* After quiesce the flusher starts no flush until the restore has left.
QuiescedFlusher ==
  restore \in {"settle", "flush", "install"} => worker # "flush"

\* While a restore swaps the root nothing is pending, so that a flush of a
\* concurrent shutdown writes nothing into a root that is being moved.
InstallDrained ==
  restore = "install" => \A c \in Collections : ~pending[c]

\* Unless it is latched, maintenance is raised only while a restore is on
\* its way to the gate or behind it: an operation that waited at the gate
\* for a restore is not refused because of that restore.
MaintenanceEndsBehindGate ==
  maintenance /\ ~latched =>
    restore = "entered" \/ lifecycle.writer = "restore"

\* Once a restore could not be rolled back, no request mutates anything.
LatchedRefusesMutations ==
  latched /\ restore = "idle" =>
    \A w \in Writers :
      op[w].pc \in {"idle", "sql_check", "lifecycle", "check"}

\* A restore that owns the barrier waits for the readers of the gate, and one of
\* them waits for the barrier: the opposite lock orders of restore and mutation,
\* a known deviation (README, section 4) that no step ends.
Deadlocked == restore = "gate" /\ \E w \in Writers : At(w, "barrier")

\* What a write leaves to the flusher is flushed, unless the database was
\* declared unfit (degraded, latched), shut down or deadlocked in a restore.
PendingIsFlushed ==
  \A c \in Collections :
    pending[c] ~> ~pending[c] \/ degraded \/ latched \/ shut = "stopped" \/ Deadlocked

\* A restore drains the operations under way, those inside the barrier and
\* those that only hold the lifecycle gate, and ends ("current operations are
\* drained"), unless it deadlocks with a request that has passed its check and
\* stands before the barrier: there is no other way to hold a restore up.
RestoreFinishes == restore # "idle" ~> restore = "idle" \/ Deadlocked

\* A shutdown stops the flusher thread and ends.
ShutdownCompletes == shut = "drain" ~> shut = "stopped" /\ worker = "ended"
=============================================================================
