---------------------------- MODULE RootRestore ----------------------------
(***************************************************************************)
(* A restore replaces the content root of an open database, and startup    *)
(* finishes or undoes a restore that a crash interrupted                   *)
(* (chirondb-core/src/db.rs, restore_journal.rs, storage_layout.rs).       *)
(*                                                                         *)
(* Two layouts are in use.  In the flat one ("legacy") the staged root and *)
(* the live root are renamed, and everything the restore leaves behind is  *)
(* in a control directory next to the root.  In the generation layout the  *)
(* staged root becomes a generation and the file CURRENT is switched to    *)
(* it.  Either way a journal says how far the restore has come.            *)
(*                                                                         *)
(* A directory is abstracted to whose content it holds and whether it is   *)
(* whole: a directory that is being filled or removed is "torn".  A rename *)
(* or a journal write is atomic; when it reports an error it may have      *)
(* happened all the same, because the directory is synced after it.        *)
(***************************************************************************)
EXTENDS Naturals

CONSTANTS
  Modes,         \* the layouts considered: "legacy", "generation"
  MaxRestores,   \* bound on the restores that are attempted
  MaxCrashes,    \* bound on the crashes
  MaxFaults,     \* bound on the operations of the file system that fail
  LoadFails      \* whether a staged root may fail to load

ASSUME ConstantsAssumption ==
  /\ Modes \subseteq {"legacy", "generation"}
  /\ MaxRestores \in Nat /\ MaxCrashes \in Nat /\ MaxFaults \in Nat
  /\ LoadFails \in BOOLEAN

VARIABLES
  mode,                      \* the layout of this database
  dir,                       \* what each directory holds
  current,                   \* the generation that CURRENT names
  control,                   \* whether the control directory exists
  journal,                   \* the phase in the restore journal
  pc,                        \* what the process is doing
  failed,                    \* the step whose failure is being undone
  live, view, writable,      \* the root that is open, its content, whether
                             \* mutations are available
  kept,                      \* the content whose loss a client would notice
  validated,                 \* whether an installed root has passed its load
  interrupted,               \* what crashes have interrupted
  restores, crashes, faults  \* how often each has happened

disk == <<dir, current, control, journal>>
memory == <<failed, live, view, writable>>
history == <<kept, validated, interrupted>>
counters == <<restores, crashes, faults>>
vars == <<mode, disk, pc, memory, history, counters>>

Dirs == {"root", "staging", "backup", "previous", "destination"}
Whole == {"old", "new"}
Phases == {"Prepared", "OldMoved", "NewInstalled"}
Exists(d) == dir[d] # "none"

Init ==
  /\ mode \in Modes
  /\ current = "previous" /\ control = FALSE /\ journal = "none"
  /\ live = IF mode = "legacy" THEN "root" ELSE "previous"
  /\ dir = [d \in Dirs |-> IF d = live THEN "old" ELSE "none"]
  /\ pc = "serving" /\ failed = "none" /\ view = "old" /\ writable = TRUE
  /\ kept = "either" /\ validated = FALSE /\ interrupted = {}
  /\ restores = 0 /\ crashes = 0 /\ faults = 0

(***************************************************************************)
(* One operation on the file system: it succeeds, it fails without effect  *)
(* ("lost"), or it takes effect and its sync fails ("done").               *)
(***************************************************************************)
Outcomes == {"ok", "lost", "done"}

Io(at, out, to, err) ==
  /\ pc = at
  /\ out # "ok" => faults < MaxFaults
  /\ faults' = IF out = "ok" THEN faults ELSE faults + 1
  /\ pc' = IF out = "ok" THEN to ELSE err

Unless(out, before, after) == IF out = "lost" THEN before ELSE after

durable_rename(from, to, out) ==
  dir' = Unless(out, dir, [dir EXCEPT ![to] = dir[from], ![from] = "none"])

write_journal(phase, out) == journal' = Unless(out, journal, phase)

switch_current(generation, out) == current' = Unless(out, current, generation)

\* Removing a tree is not atomic: for a while the directory is torn.
durable_remove_dir_all(at, d, out, to, err) ==
  \/ /\ pc = at /\ dir[d] \in Whole
     /\ dir' = [dir EXCEPT ![d] = "torn"]
     /\ UNCHANGED <<pc, faults>>
  \/ /\ out # "lost" => dir[d] \notin Whole
     /\ Io(at, out, to, err)
     /\ dir' = Unless(out, dir, [dir EXCEPT ![d] = "none"])

\* The control directory goes last, after the journal and the trees in it.
remove_control(at, out, to, err) ==
  \/ /\ pc = at /\ journal # "none"
     /\ journal' = "none"
     /\ UNCHANGED <<dir, control, pc, faults>>
  \/ /\ pc = at /\ Exists("staging")
     /\ dir' = [dir EXCEPT !["staging"] = "none"]
     /\ UNCHANGED <<journal, control, pc, faults>>
  \/ /\ out # "lost" => journal = "none" /\ ~Exists("staging")
     /\ Io(at, out, to, err)
     /\ control' = Unless(out, control, FALSE)
     /\ UNCHANGED <<journal, dir>>

\* What a load accepts.  A torn root may lack its catalog, and a root
\* without a catalog loads as a database without collections.
load_db_root(content, ok) ==
  \/ content = "torn"
  \/ ok /\ content \in Whole
  \/ ~ok /\ content = "new" /\ LoadFails
-----------------------------------------------------------------------------
(***************************************************************************)
(* A restore, up to the point where clients are kept out.                  *)
(***************************************************************************)
\* The flat layout creates the control directory; one that is there is a
\* restore that was not cleaned up.
create_control(out) ==
  /\ mode = "legacy" /\ ~control
  /\ control' = Unless(out, control, TRUE)
  /\ dir' = IF out = "ok" THEN [dir EXCEPT !["staging"] = "torn"] ELSE dir
  /\ UNCHANGED journal

\* The generation layout takes a new generation id, whose directory does not
\* exist, and writes the journal first.
begin_generation(out) ==
  /\ mode = "generation" /\ journal = "none"
  /\ write_journal("Prepared", out)
  /\ dir' = [dir EXCEPT !["staging"] = IF out = "ok" THEN "torn" ELSE "none",
                        !["destination"] = "none"]
  /\ UNCHANGED control

restore_begin(out) ==
  /\ writable /\ view = "old"
  /\ restores < MaxRestores /\ restores' = restores + 1
  /\ Io("serving", out, "copying", "serving")
  /\ create_control(out) \/ begin_generation(out)
  /\ UNCHANGED <<mode, current, memory, history, crashes>>

\* The snapshot is copied, loaded, brought to its target and loaded again.
prepared(ok) ==
  /\ pc = "copying"
  /\ pc' = IF ok THEN "draining" ELSE "discard"
  /\ dir' = [dir EXCEPT !["staging"] = IF ok THEN "new" ELSE @]
  /\ UNCHANGED <<mode, current, control, journal, memory, history, counters>>

\* Maintenance is entered, the gate taken, the flusher stopped, the logs
\* flushed and the staged root validated.  A generation restore returns some
\* of these errors without cleaning up.
drained(how) ==
  /\ pc = "draining"
  /\ how = "abandoned" => mode = "generation"
  /\ pc' = CASE how = "abandoned" -> "serving"
             [] how = "refused"   -> "discard"
             [] how = "drained"   -> IF mode = "legacy" THEN "prepare" ELSE "publish"
  /\ kept' = IF how = "drained" THEN "either" ELSE kept
  /\ UNCHANGED <<mode, disk, memory, validated, interrupted, counters>>

discard(out) ==
  /\ UNCHANGED <<mode, current, memory, history, restores, crashes>>
  /\ \/ /\ mode = "legacy"
        /\ remove_control("discard", out, "serving", "serving")
     \/ /\ mode = "generation"
        /\ durable_remove_dir_all("discard", "staging", out, "forget", "forget")
        /\ UNCHANGED <<control, journal>>

forget(out) ==
  /\ Io("forget", out, "serving", "serving")
  /\ write_journal("none", out)
  /\ writable' = (failed # "load") /\ failed' = "none"
  /\ UNCHANGED <<mode, dir, current, control, live, view, history, restores, crashes>>
-----------------------------------------------------------------------------
(***************************************************************************)
(* The flat layout: restore_to_wal_targets_with_archive_sources.           *)
(***************************************************************************)
\* Mutant of prepare: the journal is written one phase ahead of the rename.
prepare_ahead(out) ==
  /\ Io("prepare", out, "move_old", "abort_staging")
  /\ write_journal("OldMoved", out)
  /\ UNCHANGED <<mode, dir, current, control, memory, history, restores, crashes>>

prepare(out) ==
  /\ Io("prepare", out, "move_old", "abort_staging")
  /\ write_journal("Prepared", out)
  /\ UNCHANGED <<mode, dir, current, control, memory, history, restores, crashes>>

abort_staging(out) ==
  /\ durable_remove_dir_all("abort_staging", "staging", out, "abort_journal", "abort_journal")
  /\ UNCHANGED <<mode, current, control, journal, memory, history, restores, crashes>>

abort_journal(out) ==
  /\ Io("abort_journal", out, "discard", "discard")
  /\ write_journal("none", out)
  /\ UNCHANGED <<mode, dir, current, control, memory, history, restores, crashes>>

move_old(out) ==
  /\ Io("move_old", out, "mark_old_moved", "rollback")
  /\ durable_rename("root", "backup", out)
  /\ UNCHANGED <<mode, current, control, journal, memory, history, restores, crashes>>

install(out) ==
  /\ Io("install", out, "mark_installed", "rollback")
  /\ durable_rename("staging", "root", out)
  /\ UNCHANGED <<mode, current, control, journal, memory, history, restores, crashes>>

\* rollback_restore_generation: undone by what exists, not by the journal.
rollback(out) ==
  /\ UNCHANGED <<mode, current, control, journal, failed, live, view, history, restores, crashes>>
  /\ \/ /\ Exists("backup") /\ Exists("root") /\ ~Exists("staging")
        /\ Io("rollback", out, "rollback_old", "serving")
        /\ durable_rename("root", "staging", out)
        /\ writable' = (out = "ok")
     \/ /\ pc = "rollback"
        /\ ~(Exists("backup") /\ Exists("root") /\ ~Exists("staging"))
        /\ pc' = CASE Exists("backup") = Exists("root")    -> "serving"
                   [] Exists("backup") /\ ~Exists("root") -> "rollback_old"
                   [] Exists("root") /\ ~Exists("backup") -> "rollback_staging"
        /\ writable' = (Exists("backup") # Exists("root"))
        /\ UNCHANGED <<dir, faults>>

rollback_old(out) ==
  /\ Io("rollback_old", out, "rollback_staging", "serving")
  /\ durable_rename("backup", "root", out)
  /\ writable' = (out = "ok")
  /\ UNCHANGED <<mode, current, control, journal, failed, live, view, history, restores, crashes>>

rollback_staging(out) ==
  /\ durable_remove_dir_all("rollback_staging", "staging", out, "rollback_control", "serving")
  /\ writable' = (pc' # "serving")
  /\ UNCHANGED <<mode, current, control, journal, failed, live, view, history, restores, crashes>>

rollback_control(out) ==
  /\ remove_control("rollback_control", out, "rolled_back", "serving")
  /\ writable' = (pc' # "serving")
  /\ UNCHANGED <<mode, current, failed, live, view, history, restores, crashes>>

\* When the installed root had been loaded the journal and the audit log of
\* the old one are opened again.
rolled_back(out) ==
  /\ out # "ok" => failed = "reload"
  /\ Io("rolled_back", out, "serving", "serving")
  /\ writable' = (out = "ok") /\ failed' = "none"
  /\ UNCHANGED <<mode, disk, live, view, history, restores, crashes>>

cleanup_backup(out) ==
  /\ durable_remove_dir_all("cleanup_backup", "backup", out, "cleanup_control", "answer")
  /\ writable' = (pc' # "answer")
  /\ UNCHANGED <<mode, current, control, journal, failed, live, view, history, restores, crashes>>

cleanup_control(out) ==
  /\ remove_control("cleanup_control", out, "answer", "answer")
  /\ writable' = (pc' = "answer" => out = "ok")
  /\ UNCHANGED <<mode, current, failed, live, view, history, restores, crashes>>
-----------------------------------------------------------------------------
(***************************************************************************)
(* The generation layout:                                                  *)
(* restore_generation_to_wal_targets_with_archive_sources.                 *)
(***************************************************************************)
publish(out) ==
  /\ Io("publish", out, "mark_old_moved", "serving")
  /\ durable_rename("staging", "destination", out)
  /\ UNCHANGED <<mode, current, control, journal, memory, history, restores, crashes>>

switch(out) ==
  /\ Io("switch", out, "mark_installed", "drop_destination")
  /\ switch_current("destination", out)
  /\ UNCHANGED <<mode, dir, control, journal, memory, history, restores, crashes>>

switch_back(out) ==
  /\ Io("switch_back", out, "drop_destination", "serving")
  /\ switch_current("previous", out)
  /\ writable' = (out # "ok" => failed = "load")
  /\ failed' = IF out = "ok" THEN failed ELSE "none"
  /\ UNCHANGED <<mode, dir, control, journal, live, view, history, restores, crashes>>

drop_destination(out) ==
  /\ durable_remove_dir_all("drop_destination", "destination", out, "forget", "forget")
  /\ UNCHANGED <<mode, current, control, journal, memory, history, restores, crashes>>

forget_installed(out) ==
  /\ Io("forget_installed", out, "drop_previous", "serving")
  /\ write_journal("none", out)
  /\ UNCHANGED <<mode, dir, current, control, memory, history, restores, crashes>>

drop_previous(out) ==
  /\ durable_remove_dir_all("drop_previous", "previous", out, "answer", "answer")
  /\ writable' = (pc' = "answer" => out = "ok")
  /\ UNCHANGED <<mode, current, control, journal, failed, live, view, history, restores, crashes>>
-----------------------------------------------------------------------------
(***************************************************************************)
(* Steps of both layouts.                                                  *)
(***************************************************************************)
Legacy == mode = "legacy"

mark_old_moved(out) ==
  /\ Io("mark_old_moved", out, IF Legacy THEN "install" ELSE "switch",
        IF Legacy THEN "rollback" ELSE "serving")
  /\ write_journal("OldMoved", out)
  /\ UNCHANGED <<mode, dir, current, control, memory, history, restores, crashes>>

mark_installed(out) ==
  /\ Io("mark_installed", out, "load", IF Legacy THEN "rollback" ELSE "serving")
  /\ write_journal("NewInstalled", out)
  /\ UNCHANGED <<mode, dir, current, control, memory, history, restores, crashes>>

load(ok) ==
  /\ pc = "load"
  /\ load_db_root(dir[IF Legacy THEN "root" ELSE "destination"], ok)
  /\ pc' = IF ok THEN "reload" ELSE IF Legacy THEN "rollback" ELSE "switch_back"
  /\ validated' = (validated \/ ok)
  /\ failed' = IF ok THEN failed ELSE "load"
  /\ UNCHANGED <<mode, disk, live, view, writable, kept, interrupted, counters>>

\* The transaction journal, the audit log and SQL are opened on the new root.
reload(ok) ==
  /\ pc = "reload"
  /\ ~ok => LoadFails
  /\ pc' = IF ok THEN "publish_memory" ELSE IF Legacy THEN "rollback" ELSE "switch_back"
  /\ failed' = IF ok THEN failed ELSE "reload"
  /\ UNCHANGED <<mode, disk, live, view, writable, history, counters>>

\* Mutants of publish_memory: one keeps the path of the old generation, one
\* keeps the old collections in memory.
publish_memory_old_path ==
  /\ pc = "publish_memory"
  /\ view' = "new" /\ live' = live
  /\ pc' = IF Legacy THEN "cleanup_backup" ELSE "forget_installed"
  /\ UNCHANGED <<mode, disk, failed, writable, history, counters>>

publish_memory_old_view ==
  /\ pc = "publish_memory"
  /\ view' = view /\ live' = IF Legacy THEN "root" ELSE "destination"
  /\ pc' = IF Legacy THEN "cleanup_backup" ELSE "forget_installed"
  /\ UNCHANGED <<mode, disk, failed, writable, history, counters>>

publish_memory ==
  /\ pc = "publish_memory"
  /\ view' = "new" /\ live' = IF Legacy THEN "root" ELSE "destination"
  /\ pc' = IF Legacy THEN "cleanup_backup" ELSE "forget_installed"
  /\ UNCHANGED <<mode, disk, failed, writable, history, counters>>

answer ==
  /\ pc = "answer"
  /\ pc' = "serving" /\ kept' = "new"
  /\ UNCHANGED <<mode, disk, memory, validated, interrupted, counters>>

Accepts == {"serving", "copying", "draining"}

\* A client's write is acknowledged: it goes to the root in memory.
write ==
  /\ pc \in Accepts /\ writable
  /\ kept' = view
  /\ UNCHANGED <<mode, disk, pc, memory, validated, interrupted, counters>>
-----------------------------------------------------------------------------
(***************************************************************************)
(* The process dies, and is started again.                                 *)
(***************************************************************************)
Undoing == {"discard", "forget", "abort_staging", "abort_journal", "rollback",
            "rollback_old", "rollback_staging", "rollback_control", "rolled_back",
            "switch_back", "drop_destination"}
Recovering == {"recover", "rec_mark", "rec_load", "rec_staging", "rec_backup",
               "rec_control", "rec_journal", "rec_previous", "rec_back",
               "rec_destination", "opened"}
Stopped == {"down", "ambiguous"}

\* An idle process is shut down or killed: nothing is under way.
stop ==
  /\ pc = "serving"
  /\ pc' = "down"
  /\ UNCHANGED <<mode, disk, memory, history, counters>>

crash ==
  /\ pc \notin Stopped \cup {"serving"} /\ crashes < MaxCrashes
  /\ crashes' = crashes + 1
  /\ pc' = "down" /\ failed' = "none"
  /\ interrupted' = interrupted \cup
       {CASE pc \in Undoing -> "undo" [] pc \in Recovering -> "recovery" [] OTHER -> "install"}
  /\ UNCHANGED <<mode, disk, live, view, writable, kept, validated, restores, faults>>

open ==
  /\ pc \in Stopped
  /\ pc' = IF Legacy \/ Exists(current) THEN "recover" ELSE "ambiguous"
  /\ UNCHANGED <<mode, disk, memory, history, counters>>

Goes(to) ==
  /\ pc = "recover" /\ pc' = to
  /\ UNCHANGED <<dir, current, faults>>

\* recover_interrupted_restore: the phase and which directories exist.
Layout(root, staging, backup) ==
  <<Exists("root"), Exists("staging"), Exists("backup")>> = <<root, staging, backup>>

recover_legacy(out) ==
  /\ Legacy
  /\ UNCHANGED <<mode, current, control, journal, memory, history, restores, crashes>>
  /\ \/ journal = "none" /\ Goes(IF control THEN "rec_control" ELSE "opened")
     \/ journal = "Prepared" /\ Layout(TRUE, TRUE, FALSE) /\ Goes("rec_staging")
     \/ /\ journal = "Prepared" /\ Layout(FALSE, TRUE, TRUE)
        /\ Io("recover", out, "rec_staging", "down")
        /\ durable_rename("backup", "root", out)
     \/ /\ journal = "OldMoved" /\ Layout(FALSE, TRUE, TRUE)
        /\ Io("recover", out, "rec_mark", "down")
        /\ durable_rename("staging", "root", out)
     \/ journal = "OldMoved" /\ Layout(TRUE, FALSE, TRUE) /\ Goes("rec_mark")
     \/ journal = "NewInstalled" /\ Exists("root") /\ ~Exists("staging") /\ Goes("rec_load")
     \/ /\ journal = "Prepared" => ~Layout(TRUE, TRUE, FALSE) /\ ~Layout(FALSE, TRUE, TRUE)
        /\ journal = "OldMoved" => ~Layout(FALSE, TRUE, TRUE) /\ ~Layout(TRUE, FALSE, TRUE)
        /\ journal = "NewInstalled" => ~Exists("root") \/ Exists("staging")
        /\ journal # "none" /\ Goes("ambiguous")

\* recover_interrupted_generation_restore.
recover_generation(out) ==
  /\ ~Legacy
  /\ UNCHANGED <<mode, dir, control, journal, memory, history, restores, crashes>>
  /\ LET unpublished == journal = "Prepared" /\ ~Exists("destination")
         both == Exists("destination") /\ Exists("previous")
     IN  \/ journal = "none" /\ Goes("opened")
         \/ /\ unpublished
            /\ Goes(IF current = "previous" /\ Exists("previous") THEN "rec_staging"
                    ELSE "ambiguous")
         \/ journal # "none" /\ ~unpublished /\ ~both /\ Goes("ambiguous")
         \/ journal # "none" /\ both /\ current = "destination" /\ Goes("rec_load")
         \/ /\ journal # "none" /\ both /\ current = "previous"
            /\ Io("recover", out, "rec_mark", "down")
            /\ switch_current("destination", out)

\* Mutant of rec_mark: recovery trusts the installed root without loading it.
rec_mark_trusts(out) ==
  /\ Io("rec_mark", out, "rec_staging", "down")
  /\ write_journal("NewInstalled", out)
  /\ UNCHANGED <<mode, dir, current, control, memory, history, restores, crashes>>

rec_mark(out) ==
  /\ Io("rec_mark", out, "rec_load", "down")
  /\ write_journal("NewInstalled", out)
  /\ UNCHANGED <<mode, dir, current, control, memory, history, restores, crashes>>

\* A generation that does not load is rolled back; a flat root is left.
rec_load(ok) ==
  /\ pc = "rec_load"
  /\ load_db_root(dir[IF Legacy THEN "root" ELSE "destination"], ok)
  /\ pc' = IF ok THEN "rec_staging" ELSE IF Legacy THEN "down" ELSE "rec_back"
  /\ validated' = (validated \/ ok)
  /\ UNCHANGED <<mode, disk, memory, kept, interrupted, counters>>

rec_back(out) ==
  /\ Io("rec_back", out, "rec_destination", "down")
  /\ switch_current("previous", out)
  /\ UNCHANGED <<mode, dir, control, journal, memory, history, restores, crashes>>

rec_remove(out) ==
  /\ UNCHANGED <<mode, current, control, journal, memory, history, restores, crashes>>
  /\ \/ durable_remove_dir_all("rec_destination", "destination", out, "rec_staging", "down")
     \/ durable_remove_dir_all("rec_staging", "staging", out,
                               IF Legacy THEN "rec_backup" ELSE "rec_journal", "down")
     \/ durable_remove_dir_all("rec_backup", "backup", out, "rec_control", "down")
     \/ durable_remove_dir_all("rec_previous", "previous", out, "opened", "down")

rec_control(out) ==
  /\ remove_control("rec_control", out, "opened", "down")
  /\ UNCHANGED <<mode, current, memory, history, restores, crashes>>

rec_journal(out) ==
  /\ Io("rec_journal", out, IF current = "destination" THEN "rec_previous" ELSE "opened",
        "down")
  /\ write_journal("none", out)
  /\ UNCHANGED <<mode, dir, current, control, memory, history, restores, crashes>>

opened ==
  /\ pc = "opened"
  /\ pc' = "serving"
  /\ live' = IF Legacy THEN "root" ELSE current
  /\ view' = dir[live'] /\ writable' = TRUE
  /\ UNCHANGED <<mode, disk, failed, history, counters>>
-----------------------------------------------------------------------------
Staging(out) ==
  \/ restore_begin(out) \/ discard(out) \/ forget(out)
  \/ prepare(out) \/ abort_staging(out) \/ abort_journal(out)

Installing(out) ==
  \/ move_old(out) \/ install(out) \/ publish(out) \/ switch(out)
  \/ mark_old_moved(out) \/ mark_installed(out)
  \/ cleanup_backup(out) \/ cleanup_control(out)
  \/ forget_installed(out) \/ drop_previous(out)

RollingBack(out) ==
  \/ rollback(out) \/ rollback_old(out) \/ rollback_staging(out) \/ rollback_control(out)
  \/ rolled_back(out) \/ switch_back(out) \/ drop_destination(out)

Recovery(out) ==
  \/ recover_legacy(out) \/ recover_generation(out) \/ rec_mark(out) \/ rec_back(out)
  \/ rec_remove(out) \/ rec_control(out) \/ rec_journal(out)

Next ==
  \/ \E out \in Outcomes : Staging(out) \/ Installing(out) \/ RollingBack(out) \/ Recovery(out)
  \/ \E ok \in BOOLEAN : prepared(ok) \/ load(ok) \/ reload(ok) \/ rec_load(ok)
  \/ \E how \in {"drained", "refused", "abandoned"} : drained(how)
  \/ publish_memory \/ answer \/ write \/ stop \/ crash \/ open \/ opened

Spec == Init /\ [][Next]_vars
-----------------------------------------------------------------------------
\* Every variable has its type, and the directories of one layout stay empty
\* in the other: the two restores share mark_old_moved, load and reload in
\* this module, and never each other's roots.
TypeOK ==
  /\ mode \in {"legacy", "generation"}
  /\ dir \in [Dirs -> Whole \cup {"none", "torn"}]
  /\ current \in {"previous", "destination"} /\ control \in BOOLEAN
  /\ journal \in Phases \cup {"none"}
  /\ failed \in {"none", "load", "reload"}
  /\ live \in {"root", "previous", "destination"}
  /\ view \in Whole \cup {"none", "torn"} /\ writable \in BOOLEAN
  /\ kept \in Whole \cup {"none", "torn", "either"}
  /\ validated \in BOOLEAN /\ interrupted \subseteq {"install", "undo", "recovery"}
  /\ restores \in 0 .. MaxRestores /\ crashes \in 0 .. MaxCrashes /\ faults \in 0 .. MaxFaults
  /\ Legacy => ~Exists("previous") /\ ~Exists("destination")
  /\ ~Legacy => ~Exists("root") /\ ~Exists("backup")

\* The comment in recover_interrupted_restore: the rollback generation is
\* never deleted until the installed root has passed the full load.  Until
\* then the old content is whole, in one place or the other.
RollbackKept == ~validated => \E d \in Dirs : dir[d] = "old"

\* What a running database has open stays where it is: no restore, however
\* it ends, moves or removes the root that clients are reading and writing.
LiveRootStays ==
  pc \in Accepts /\ writable => dir[live] = view /\ Exists(live)

\* No I/O error so far, and crashes hit at most restores that were going well.
OnlyInstallsInterrupted == faults = 0 /\ interrupted \subseteq {"install"}

\* Kill at every phase: whichever step of an install a crash interrupts, the
\* next startup knows what to do with what it finds.
InterruptedInstallOpens == OnlyInstallsInterrupted => pc # "ambiguous"

\* What is served after any history is a complete generation, and the one
\* that clients had to count on: the old one after a restore that failed and
\* a write that came after it, the new one after a restore that succeeded.
ServesWhatWasKept ==
  pc \in Accepts /\ (Legacy \/ OnlyInstallsInterrupted) =>
    /\ view \in Whole
    /\ kept \in {view, "either"}

\* HTTP_API.md: after an interrupted restore startup selects the complete old
\* or the complete new generation.
StartupSelects == pc # "ambiguous"
=============================================================================
