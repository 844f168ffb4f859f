------------------------- MODULE RootRestoreProofs -------------------------
(***************************************************************************)
(* RollbackKept, LiveRootStays, InterruptedInstallOpens and                *)
(* ServesWhatWasKept, for every number of restores, crashes and faults.    *)
(*                                                                         *)
(* None of them is inductive: a directory may only be removed or           *)
(* overwritten because of where the process is in the restore and of what  *)
(* the journal says.  OldKept adds where the old content is at every step  *)
(* that touches a root; Serves adds what every step has to itself, and     *)
(* what startup finds after a crash at it.                                 *)
(***************************************************************************)
EXTENDS RootRestore, TLAPS

LegacySteps ==
  {"prepare", "abort_staging", "abort_journal", "move_old", "install", "rollback",
   "rollback_old", "rollback_staging", "rollback_control", "rolled_back",
   "cleanup_backup", "cleanup_control", "rec_backup", "rec_control"}

GenerationSteps ==
  {"forget", "publish", "switch", "switch_back", "drop_destination", "forget_installed",
   "drop_previous", "rec_journal", "rec_previous", "rec_back", "rec_destination"}

\* The steps that only a root which has loaded reaches.
AfterLoad ==
  {"reload", "publish_memory", "cleanup_backup", "cleanup_control", "forget_installed",
   "drop_previous", "answer", "rec_previous"}

\* The steps of a flat restore with the old root in its place, and aside.
InPlaceSteps ==
  {"copying", "draining", "discard", "prepare", "abort_staging", "abort_journal",
   "move_old", "rollback_staging", "rollback_control", "rolled_back", "rec_staging",
   "rec_backup", "rec_control", "opened"}
AsideSteps == {"mark_old_moved", "install", "mark_installed", "load", "rollback_old"}

OldInPlace == dir["root"] = "old" /\ dir["backup"] = "none"
OldAside == dir["backup"] = "old"

\* Each layout takes its own steps.
OwnSteps == pc \notin IF Legacy THEN GenerationSteps ELSE LegacySteps

LegacyKept ==
  /\ OldInPlace \/ OldAside
  /\ journal = "none" => OldInPlace
  /\ pc \in InPlaceSteps \/ (pc = "serving" /\ writable) => OldInPlace
  /\ pc \in AsideSteps => OldAside
  /\ pc = "move_old" => journal # "none"

GenerationKept ==
  /\ dir["previous"] = "old"
  /\ pc \in {"rec_staging", "rec_journal", "rec_destination"} => current = "previous"

OldKept ==
  ~validated => /\ pc \notin AfterLoad
                /\ IF Legacy THEN LegacyKept ELSE GenerationKept

Inv == TypeOK /\ OwnSteps /\ OldKept

\* A database that no restore has touched.
LEMMA InitInv == Init => Inv
<1> SUFFICES ASSUME Init PROVE Inv
  OBVIOUS
<1>1. mode \in {"legacy", "generation"}
  BY ConstantsAssumption DEF Init
<1>2. dir \in [Dirs -> Whole \cup {"none", "torn"}] /\ dir[live] = "old"
      /\ \A d \in Dirs : d # live => dir[d] = "none"
  BY <1>1 DEF Init, Dirs, Whole
<1>3. TypeOK
  <2>1. restores \in 0 .. MaxRestores /\ crashes \in 0 .. MaxCrashes /\ faults \in 0 .. MaxFaults
    BY ConstantsAssumption DEF Init
  <2>2. /\ Legacy => ~Exists("previous") /\ ~Exists("destination")
        /\ ~Legacy => ~Exists("root") /\ ~Exists("backup")
    BY <1>1, <1>2 DEF Init, Dirs, Legacy, Exists
  <2>3. live \in {"root", "previous", "destination"}
    BY DEF Init
  <2> QED BY <1>1, <1>2, <2>1, <2>2, <2>3 DEF Init, TypeOK, Whole, Phases
<1>4. OwnSteps
  BY DEF Init, OwnSteps, LegacySteps, GenerationSteps
<1>5. OldKept
  BY <1>1, <1>2 DEF Init, OldKept, AfterLoad, LegacyKept, GenerationKept, OldInPlace,
    OldAside,
     InPlaceSteps, AsideSteps, Legacy, Dirs
<1> QED BY <1>3, <1>4, <1>5 DEF Inv

\* A step of the file system counts its own faults.
LEMMA IoFaults ==
  ASSUME TypeOK, NEW at, NEW out, NEW to, NEW err, Io(at, out, to, err)
  PROVE  faults' \in 0 .. MaxFaults
<1> QED BY ConstantsAssumption DEF TypeOK, Io

\* A rename creates nothing.
LEMMA RenameType ==
  ASSUME TypeOK, NEW from \in Dirs, NEW to \in Dirs, NEW out, durable_rename(from, to, out)
  PROVE  dir' \in [Dirs -> Whole \cup {"none", "torn"}]
<1> QED BY DEF TypeOK, durable_rename, Unless

\* Removing the control directory creates nothing, and touches no root.
LEMMA RemoveControlType ==
  ASSUME TypeOK, NEW at, NEW out, NEW to, NEW err, remove_control(at, out, to, err)
  PROVE  /\ dir' \in [Dirs -> Whole \cup {"none", "torn"}]
         /\ control' \in BOOLEAN
         /\ journal' \in Phases \cup {"none"}
         /\ faults' \in 0 .. MaxFaults
         /\ \A d \in Dirs \ {"staging"} : dir'[d] = dir[d]
<1>1. faults' \in 0 .. MaxFaults
  BY IoFaults DEF TypeOK, remove_control
<1>2. control' \in BOOLEAN /\ journal' \in Phases \cup {"none"}
  BY DEF TypeOK, remove_control, Unless
<1>3. dir' = dir \/ dir' = [dir EXCEPT !["staging"] = "none"]
  BY DEF remove_control
<1>4. /\ dir' \in [Dirs -> Whole \cup {"none", "torn"}]
      /\ \A d \in Dirs \ {"staging"} : dir'[d] = dir[d]
  BY <1>3 DEF TypeOK, Dirs
<1> QED BY <1>1, <1>2, <1>4

\* Removing a directory creates nothing, and touches no other.
LEMMA RemoveDirType ==
  ASSUME TypeOK, NEW at, NEW d \in Dirs, NEW out, NEW to, NEW err,
         durable_remove_dir_all(at, d, out, to, err)
  PROVE  /\ dir' \in [Dirs -> Whole \cup {"none", "torn"}]
         /\ faults' \in 0 .. MaxFaults
         /\ \A e \in Dirs : e # d \/ ~Exists(e) => dir'[e] = dir[e]
<1>1. faults' \in 0 .. MaxFaults
  BY IoFaults DEF TypeOK, durable_remove_dir_all
<1> QED BY <1>1 DEF TypeOK, durable_remove_dir_all, Unless, Whole, Dirs, Exists, Io

\* The steps before the drain and the ways out of it keep Inv.
LEMMA StagingInv == ASSUME Inv, NEW out \in Outcomes, Staging(out) PROVE Inv'
<1> USE DEF Inv, TypeOK, OwnSteps, LegacySteps, GenerationSteps, disk, memory, history,
  counters, Outcomes, Dirs, Whole, Phases, Legacy, Exists
<1> USE ConstantsAssumption
<1>1. CASE restore_begin(out)
  <2>1. TypeOK'
    <3>1. faults' \in 0 .. MaxFaults
      BY <1>1, IoFaults DEF restore_begin, create_control, begin_generation
    <3>2. restores' \in 0 .. MaxRestores
      BY <1>1 DEF restore_begin, create_control, begin_generation
    <3>3. CASE mode = "legacy"
      <4>1. control' \in BOOLEAN /\ journal' = journal
        BY <1>1, <3>3 DEF restore_begin, create_control, begin_generation, Unless
      <4>2. dir' \in [Dirs -> Whole \cup {"none", "torn"}]
            /\ dir'["previous"] = dir["previous"] /\ dir'["destination"] = dir["destination"]
        BY <1>1, <3>3 DEF restore_begin, create_control, begin_generation
      <4>3. UNCHANGED <<mode, current, memory, history, crashes>>
        BY <1>1 DEF restore_begin, create_control, begin_generation
      <4> QED BY <3>1, <3>2, <3>3, <4>1, <4>2, <4>3
    <3>4. CASE mode = "generation"
      BY <1>1, <3>1, <3>2, <3>4 DEF restore_begin, create_control, begin_generation, Unless, write_journal
    <3> QED BY <3>3, <3>4
  <2>2. OwnSteps'
    BY <1>1 DEF restore_begin, create_control, begin_generation, Io, Unless, write_journal
  <2>3. OldKept'
    BY <1>1 DEF restore_begin, create_control, begin_generation, Io, Unless, write_journal, OldKept, AfterLoad, LegacyKept,
      GenerationKept, OldInPlace, OldAside, InPlaceSteps, AsideSteps
  <2> QED BY <2>1, <2>2, <2>3
<1>2. CASE discard(out)
  <2>1. TypeOK'
    <3>1. CASE mode = "legacy"
      BY <1>2, <3>1, RemoveControlType DEF discard
    <3>2. CASE mode = "generation"
      BY <1>2, <3>2, RemoveDirType DEF discard
    <3> QED BY <3>1, <3>2
  <2>2. OwnSteps'
    BY <1>2 DEF discard, remove_control, durable_remove_dir_all, Io, Unless
  <2>3. OldKept'
    BY <1>2 DEF discard, remove_control, durable_remove_dir_all, Io, Unless, OldKept,
      AfterLoad, LegacyKept, GenerationKept, OldInPlace, OldAside, InPlaceSteps, AsideSteps
  <2> QED BY <2>1, <2>2, <2>3
<1>3. CASE forget(out)
  <2>1. TypeOK'
    BY <1>3 DEF forget, Io, Unless, write_journal
  <2>2. OwnSteps'
    BY <1>3 DEF forget, Io, Unless, write_journal
  <2>3. OldKept'
    BY <1>3 DEF forget, Io, Unless, write_journal, OldKept, AfterLoad, LegacyKept,
      GenerationKept, OldInPlace, OldAside, InPlaceSteps, AsideSteps
  <2> QED BY <2>1, <2>2, <2>3
<1>4. CASE prepare(out)
  <2>1. TypeOK'
    BY <1>4 DEF prepare, Io, Unless, write_journal
  <2>2. OwnSteps'
    BY <1>4 DEF prepare, Io, Unless, write_journal
  <2>3. OldKept'
    BY <1>4 DEF prepare, Io, Unless, write_journal, OldKept, AfterLoad, LegacyKept,
      GenerationKept, OldInPlace, OldAside, InPlaceSteps, AsideSteps
  <2> QED BY <2>1, <2>2, <2>3
<1>5. CASE abort_staging(out)
  <2>1. TypeOK'
    BY <1>5 DEF abort_staging, durable_remove_dir_all, Io, Unless
  <2>2. OwnSteps'
    BY <1>5 DEF abort_staging, durable_remove_dir_all, Io, Unless
  <2>3. OldKept'
    BY <1>5 DEF abort_staging, durable_remove_dir_all, Io, Unless, OldKept, AfterLoad,
      LegacyKept, GenerationKept, OldInPlace, OldAside, InPlaceSteps, AsideSteps
  <2> QED BY <2>1, <2>2, <2>3
<1>6. CASE abort_journal(out)
  <2>1. TypeOK'
    BY <1>6 DEF abort_journal, Io, Unless, write_journal
  <2>2. OwnSteps'
    BY <1>6 DEF abort_journal, Io, Unless, write_journal
  <2>3. OldKept'
    BY <1>6 DEF abort_journal, Io, Unless, write_journal, OldKept, AfterLoad, LegacyKept,
      GenerationKept, OldInPlace, OldAside, InPlaceSteps, AsideSteps
  <2> QED BY <2>1, <2>2, <2>3
<1> QED BY <1>1, <1>2, <1>3, <1>4, <1>5, <1>6 DEF Staging

\* The steps of an install and of its cleanup keep Inv.
LEMMA InstallingInv == ASSUME Inv, NEW out \in Outcomes, Installing(out) PROVE Inv'
<1> USE DEF Inv, TypeOK, OwnSteps, LegacySteps, GenerationSteps, disk, memory, history,
  counters, Outcomes, Dirs, Whole, Phases, Legacy, Exists
<1> USE ConstantsAssumption
<1>1. CASE move_old(out)
  <2>1. TypeOK'
    BY <1>1 DEF move_old, Io, Unless, durable_rename
  <2>2. OwnSteps'
    BY <1>1 DEF move_old, Io, Unless, durable_rename
  <2>3. OldKept'
    <3>1. CASE ~Legacy
      BY <1>1, <3>1 DEF move_old, Io, OldKept
    <3>2. CASE Legacy /\ ~validated
      <4>1. OldInPlace
        BY <1>1, <3>2 DEF move_old, Io, OldKept, LegacyKept, InPlaceSteps
      <4>2. OldInPlace' \/ OldAside'
        BY <1>1, <4>1 DEF move_old, durable_rename, Unless, OldInPlace, OldAside
      <4>3. pc' = "mark_old_moved" => OldAside'
        BY <1>1, <4>1 DEF move_old, durable_rename, Unless, Io, OldInPlace, OldAside
      <4>4. journal # "none"
        BY <1>1, <3>2 DEF move_old, Io, OldKept, LegacyKept
      <4> QED BY <1>1, <3>2, <4>2, <4>3, <4>4
        DEF move_old, Io, OldKept, LegacyKept, AfterLoad, InPlaceSteps, AsideSteps
    <3>3. CASE validated
      BY <1>1, <3>3 DEF move_old, OldKept
    <3> QED BY <3>1, <3>2, <3>3
  <2> QED BY <2>1, <2>2, <2>3
<1>2. CASE install(out)
  <2>1. TypeOK'
    BY <1>2 DEF install, Io, Unless, durable_rename
  <2>2. OwnSteps'
    BY <1>2 DEF install, Io, Unless, durable_rename
  <2>3. OldKept'
    BY <1>2 DEF install, Io, Unless, durable_rename, OldKept, AfterLoad, LegacyKept,
      GenerationKept, OldInPlace, OldAside, InPlaceSteps, AsideSteps
  <2> QED BY <2>1, <2>2, <2>3
<1>3. CASE publish(out)
  <2>1. TypeOK'
    BY <1>3 DEF publish, Io, Unless, durable_rename
  <2>2. OwnSteps'
    BY <1>3 DEF publish, Io, Unless, durable_rename
  <2>3. OldKept'
    BY <1>3 DEF publish, Io, Unless, durable_rename, OldKept, AfterLoad, LegacyKept,
      GenerationKept, OldInPlace, OldAside, InPlaceSteps, AsideSteps
  <2> QED BY <2>1, <2>2, <2>3
<1>4. CASE switch(out)
  <2>1. TypeOK'
    BY <1>4 DEF switch, Io, Unless, switch_current
  <2>2. OwnSteps'
    BY <1>4 DEF switch, Io, Unless, switch_current
  <2>3. OldKept'
    BY <1>4 DEF switch, Io, Unless, switch_current, OldKept, AfterLoad, LegacyKept,
      GenerationKept, OldInPlace, OldAside, InPlaceSteps, AsideSteps
  <2> QED BY <2>1, <2>2, <2>3
<1>5. CASE mark_old_moved(out)
  <2>1. TypeOK'
    BY <1>5 DEF mark_old_moved, Io, Unless, write_journal
  <2>2. OwnSteps'
    BY <1>5 DEF mark_old_moved, Io, Unless, write_journal
  <2>3. OldKept'
    BY <1>5 DEF mark_old_moved, Io, Unless, write_journal, OldKept, AfterLoad,
      LegacyKept, GenerationKept, OldInPlace, OldAside, InPlaceSteps, AsideSteps
  <2> QED BY <2>1, <2>2, <2>3
<1>6. CASE mark_installed(out)
  <2>1. TypeOK'
    BY <1>6 DEF mark_installed, Io, Unless, write_journal
  <2>2. OwnSteps'
    BY <1>6 DEF mark_installed, Io, Unless, write_journal
  <2>3. OldKept'
    BY <1>6 DEF mark_installed, Io, Unless, write_journal, OldKept, AfterLoad,
      LegacyKept, GenerationKept, OldInPlace, OldAside, InPlaceSteps, AsideSteps
  <2> QED BY <2>1, <2>2, <2>3
<1>7. CASE cleanup_backup(out)
  <2>1. TypeOK'
    BY <1>7 DEF cleanup_backup, durable_remove_dir_all, Io, Unless
  <2>2. OwnSteps'
    BY <1>7 DEF cleanup_backup, durable_remove_dir_all, Io, Unless
  <2>3. OldKept'
    BY <1>7 DEF cleanup_backup, durable_remove_dir_all, Io, Unless, OldKept, AfterLoad,
      LegacyKept, GenerationKept, OldInPlace, OldAside, InPlaceSteps, AsideSteps
  <2> QED BY <2>1, <2>2, <2>3
<1>8. CASE cleanup_control(out)
  <2>1. TypeOK'
    <3>1. writable' \in BOOLEAN
      BY <1>8, Zenon DEF cleanup_control
    <3> QED BY <1>8, <3>1, RemoveControlType DEF cleanup_control
  <2>2. OwnSteps'
    BY <1>8 DEF cleanup_control, remove_control, Io, Unless
  <2>3. OldKept'
    BY <1>8 DEF cleanup_control, remove_control, Io, Unless, OldKept, AfterLoad,
      LegacyKept, GenerationKept, OldInPlace, OldAside, InPlaceSteps, AsideSteps
  <2> QED BY <2>1, <2>2, <2>3
<1>9. CASE forget_installed(out)
  <2>1. TypeOK'
    BY <1>9 DEF forget_installed, Io, Unless, write_journal
  <2>2. OwnSteps'
    BY <1>9 DEF forget_installed, Io, Unless, write_journal
  <2>3. OldKept'
    BY <1>9 DEF forget_installed, Io, Unless, write_journal, OldKept, AfterLoad,
      LegacyKept, GenerationKept, OldInPlace, OldAside, InPlaceSteps, AsideSteps
  <2> QED BY <2>1, <2>2, <2>3
<1>10. CASE drop_previous(out)
  <2>1. TypeOK'
    BY <1>10 DEF drop_previous, durable_remove_dir_all, Io, Unless
  <2>2. OwnSteps'
    BY <1>10 DEF drop_previous, durable_remove_dir_all, Io, Unless
  <2>3. OldKept'
    BY <1>10 DEF drop_previous, durable_remove_dir_all, Io, Unless, OldKept, AfterLoad,
      LegacyKept, GenerationKept, OldInPlace, OldAside, InPlaceSteps, AsideSteps
  <2> QED BY <2>1, <2>2, <2>3
<1> QED BY <1>1, <1>2, <1>3, <1>4, <1>5, <1>6, <1>7, <1>8, <1>9, <1>10 DEF Installing

\* The steps that undo an install keep Inv.
LEMMA RollingBackInv == ASSUME Inv, NEW out \in Outcomes, RollingBack(out) PROVE Inv'
<1> USE DEF Inv, TypeOK, OwnSteps, LegacySteps, GenerationSteps, disk, memory, history,
  counters, Outcomes, Dirs, Whole, Phases, Legacy, Exists
<1> USE ConstantsAssumption
<1>1. CASE rollback(out)
  <2>1. TypeOK'
    <3>1. UNCHANGED <<mode, current, control, journal, failed, live, view, kept, validated,
                      interrupted, restores, crashes>>
      BY <1>1 DEF rollback
    <3>2. writable' \in BOOLEAN
      BY <1>1, Zenon DEF rollback
    <3>3. faults' \in 0 .. MaxFaults
      BY <1>1, IoFaults DEF rollback
    <3>4. dir' \in [Dirs -> Whole \cup {"none", "torn"}]
      BY <1>1 DEF rollback, durable_rename, Unless
    <3>5. Legacy /\ dir'["previous"] = dir["previous"] /\ dir'["destination"] = dir["destination"]
      BY <1>1 DEF rollback, durable_rename, Unless, Io
    <3> QED BY <3>1, <3>2, <3>3, <3>4, <3>5
  <2>2. OwnSteps'
    BY <1>1 DEF rollback, Io, Unless, durable_rename
  <2>3. OldKept'
    BY <1>1 DEF rollback, Io, Unless, durable_rename, OldKept, AfterLoad, LegacyKept,
      GenerationKept, OldInPlace, OldAside, InPlaceSteps, AsideSteps
  <2> QED BY <2>1, <2>2, <2>3
<1>2. CASE rollback_old(out)
  <2>1. TypeOK'
    BY <1>2 DEF rollback_old, Io, Unless, durable_rename
  <2>2. OwnSteps'
    BY <1>2 DEF rollback_old, Io, Unless, durable_rename
  <2>3. OldKept'
    BY <1>2 DEF rollback_old, Io, Unless, durable_rename, OldKept, AfterLoad, LegacyKept,
      GenerationKept, OldInPlace, OldAside, InPlaceSteps, AsideSteps
  <2> QED BY <2>1, <2>2, <2>3
<1>3. CASE rollback_staging(out)
  <2>1. TypeOK'
    BY <1>3 DEF rollback_staging, durable_remove_dir_all, Io, Unless
  <2>2. OwnSteps'
    BY <1>3 DEF rollback_staging, durable_remove_dir_all, Io, Unless
  <2>3. OldKept'
    BY <1>3 DEF rollback_staging, durable_remove_dir_all, Io, Unless, OldKept, AfterLoad,
      LegacyKept, GenerationKept, OldInPlace, OldAside, InPlaceSteps, AsideSteps
  <2> QED BY <2>1, <2>2, <2>3
<1>4. CASE rollback_control(out)
  <2>1. TypeOK'
    <3>1. writable' \in BOOLEAN
      BY <1>4, Zenon DEF rollback_control
    <3> QED BY <1>4, <3>1, RemoveControlType DEF rollback_control
  <2>2. OwnSteps'
    BY <1>4 DEF rollback_control, remove_control, Io, Unless
  <2>3. OldKept'
    BY <1>4 DEF rollback_control, remove_control, Io, Unless, OldKept, AfterLoad,
      LegacyKept, GenerationKept, OldInPlace, OldAside, InPlaceSteps, AsideSteps
  <2> QED BY <2>1, <2>2, <2>3
<1>5. CASE rolled_back(out)
  <2>1. TypeOK'
    BY <1>5 DEF rolled_back, Io, Unless
  <2>2. OwnSteps'
    BY <1>5 DEF rolled_back, Io, Unless
  <2>3. OldKept'
    BY <1>5 DEF rolled_back, Io, Unless, OldKept, AfterLoad, LegacyKept, GenerationKept,
      OldInPlace, OldAside, InPlaceSteps, AsideSteps
  <2> QED BY <2>1, <2>2, <2>3
<1>6. CASE switch_back(out)
  <2>1. TypeOK'
    BY <1>6 DEF switch_back, Io, Unless, switch_current
  <2>2. OwnSteps'
    BY <1>6 DEF switch_back, Io, Unless, switch_current
  <2>3. OldKept'
    BY <1>6 DEF switch_back, Io, Unless, switch_current, OldKept, AfterLoad, LegacyKept,
      GenerationKept, OldInPlace, OldAside, InPlaceSteps, AsideSteps
  <2> QED BY <2>1, <2>2, <2>3
<1>7. CASE drop_destination(out)
  <2>1. TypeOK'
    BY <1>7 DEF drop_destination, durable_remove_dir_all, Io, Unless
  <2>2. OwnSteps'
    BY <1>7 DEF drop_destination, durable_remove_dir_all, Io, Unless
  <2>3. OldKept'
    BY <1>7 DEF drop_destination, durable_remove_dir_all, Io, Unless, OldKept, AfterLoad,
      LegacyKept, GenerationKept, OldInPlace, OldAside, InPlaceSteps, AsideSteps
  <2> QED BY <2>1, <2>2, <2>3
<1> QED BY <1>1, <1>2, <1>3, <1>4, <1>5, <1>6, <1>7 DEF RollingBack

\* The steps of startup keep Inv.
LEMMA RecoveryInv == ASSUME Inv, NEW out \in Outcomes, Recovery(out) PROVE Inv'
<1> USE DEF Inv, TypeOK, OwnSteps, LegacySteps, GenerationSteps, disk, memory, history,
  counters, Outcomes, Dirs, Whole, Phases, Legacy, Exists
<1> USE ConstantsAssumption
<1>1. CASE recover_legacy(out)
  <2>1. TypeOK'
    <3>1. faults' \in 0 .. MaxFaults
      BY <1>1, IoFaults DEF recover_legacy, Goes
    <3>2. dir' \in [Dirs -> Whole \cup {"none", "torn"}]
      <4>1. dir' = dir \/ \E from, to \in Dirs : durable_rename(from, to, out)
        BY <1>1 DEF recover_legacy, Goes
      <4> QED BY <4>1, RenameType
    <3>3. dir'["previous"] = dir["previous"] /\ dir'["destination"] = dir["destination"]
      BY <1>1 DEF recover_legacy, durable_rename, Unless, Goes
    <3> QED BY <1>1, <3>1, <3>2, <3>3 DEF recover_legacy
  <2>2. OwnSteps'
    BY <1>1 DEF recover_legacy, Goes, Layout, Io, Unless, durable_rename
  <2>3. OldKept'
    BY <1>1 DEF recover_legacy, Goes, Layout, Io, Unless, durable_rename, OldKept,
      AfterLoad, LegacyKept, GenerationKept, OldInPlace, OldAside, InPlaceSteps, AsideSteps
  <2> QED BY <2>1, <2>2, <2>3
<1>2. CASE recover_generation(out)
  <2>1. TypeOK'
    BY <1>2 DEF recover_generation, Goes, Io, Unless, switch_current
  <2>2. OwnSteps'
    BY <1>2 DEF recover_generation, Goes, Io, Unless, switch_current
  <2>3. OldKept'
    BY <1>2 DEF recover_generation, Goes, Io, Unless, switch_current, OldKept, AfterLoad,
      LegacyKept, GenerationKept, OldInPlace, OldAside, InPlaceSteps, AsideSteps
  <2> QED BY <2>1, <2>2, <2>3
<1>3. CASE rec_mark(out)
  <2>1. TypeOK'
    BY <1>3 DEF rec_mark, Io, Unless, write_journal
  <2>2. OwnSteps'
    BY <1>3 DEF rec_mark, Io, Unless, write_journal
  <2>3. OldKept'
    BY <1>3 DEF rec_mark, Io, Unless, write_journal, OldKept, AfterLoad, LegacyKept,
      GenerationKept, OldInPlace, OldAside, InPlaceSteps, AsideSteps
  <2> QED BY <2>1, <2>2, <2>3
<1>4. CASE rec_back(out)
  <2>1. TypeOK'
    BY <1>4 DEF rec_back, Io, Unless, switch_current
  <2>2. OwnSteps'
    BY <1>4 DEF rec_back, Io, Unless, switch_current
  <2>3. OldKept'
    BY <1>4 DEF rec_back, Io, Unless, switch_current, OldKept, AfterLoad, LegacyKept,
      GenerationKept, OldInPlace, OldAside, InPlaceSteps, AsideSteps
  <2> QED BY <2>1, <2>2, <2>3
<1>5. CASE rec_remove(out)
  <2>1. TypeOK'
    BY <1>5 DEF rec_remove, durable_remove_dir_all, Io, Unless
  <2>2. OwnSteps'
    BY <1>5 DEF rec_remove, durable_remove_dir_all, Io, Unless
  <2>3. OldKept'
    BY <1>5 DEF rec_remove, durable_remove_dir_all, Io, Unless, OldKept, AfterLoad,
      LegacyKept, GenerationKept, OldInPlace, OldAside, InPlaceSteps, AsideSteps
  <2> QED BY <2>1, <2>2, <2>3
<1>6. CASE rec_control(out)
  <2>1. TypeOK'
    <3>1. writable' \in BOOLEAN
      BY <1>6 DEF rec_control
    <3> QED BY <1>6, <3>1, RemoveControlType DEF rec_control
  <2>2. OwnSteps'
    BY <1>6 DEF rec_control, remove_control, Io, Unless
  <2>3. OldKept'
    BY <1>6 DEF rec_control, remove_control, Io, Unless, OldKept, AfterLoad, LegacyKept,
      GenerationKept, OldInPlace, OldAside, InPlaceSteps, AsideSteps
  <2> QED BY <2>1, <2>2, <2>3
<1>7. CASE rec_journal(out)
  <2>1. TypeOK'
    BY <1>7 DEF rec_journal, Io, Unless, write_journal
  <2>2. OwnSteps'
    BY <1>7 DEF rec_journal, Io, Unless, write_journal
  <2>3. OldKept'
    BY <1>7 DEF rec_journal, Io, Unless, write_journal, OldKept, AfterLoad, LegacyKept,
      GenerationKept, OldInPlace, OldAside, InPlaceSteps, AsideSteps
  <2> QED BY <2>1, <2>2, <2>3
<1> QED BY <1>1, <1>2, <1>3, <1>4, <1>5, <1>6, <1>7 DEF Recovery

\* The loads of a staged or installed root keep Inv.
LEMMA LoadInv ==
  ASSUME Inv, NEW ok \in BOOLEAN, prepared(ok) \/ load(ok) \/ reload(ok) \/ rec_load(ok)
  PROVE  Inv'
<1> USE DEF Inv, TypeOK, OwnSteps, LegacySteps, GenerationSteps, disk, memory, history,
  counters, Dirs, Whole, Phases, Legacy, Exists
<1> USE ConstantsAssumption
<1>1. CASE prepared(ok)
  <2>1. TypeOK'
    BY <1>1 DEF prepared
  <2>2. OwnSteps'
    BY <1>1 DEF prepared
  <2>3. OldKept'
    BY <1>1 DEF prepared, OldKept, AfterLoad, LegacyKept, GenerationKept, OldInPlace,
      OldAside, InPlaceSteps, AsideSteps
  <2> QED BY <2>1, <2>2, <2>3
<1>2. CASE load(ok)
  <2>1. TypeOK'
    BY <1>2 DEF load, load_db_root
  <2>2. OwnSteps'
    BY <1>2 DEF load, load_db_root
  <2>3. OldKept'
    BY <1>2 DEF load, load_db_root, OldKept, AfterLoad, LegacyKept, GenerationKept,
      OldInPlace, OldAside, InPlaceSteps, AsideSteps
  <2> QED BY <2>1, <2>2, <2>3
<1>3. CASE reload(ok)
  <2>1. TypeOK'
    BY <1>3 DEF reload
  <2>2. OwnSteps'
    BY <1>3 DEF reload
  <2>3. OldKept'
    BY <1>3 DEF reload, OldKept, AfterLoad, LegacyKept, GenerationKept, OldInPlace,
      OldAside, InPlaceSteps, AsideSteps
  <2> QED BY <2>1, <2>2, <2>3
<1>4. CASE rec_load(ok)
  <2>1. TypeOK'
    BY <1>4 DEF rec_load, load_db_root
  <2>2. OwnSteps'
    BY <1>4 DEF rec_load, load_db_root
  <2>3. OldKept'
    BY <1>4 DEF rec_load, load_db_root, OldKept, AfterLoad, LegacyKept, GenerationKept,
      OldInPlace, OldAside, InPlaceSteps, AsideSteps
  <2> QED BY <2>1, <2>2, <2>3
<1> QED BY <1>1, <1>2, <1>3, <1>4

\* The drain, the steps in memory, clients, stops and crashes keep Inv.
LEMMA OtherInv ==
  ASSUME Inv,
         \/ \E how \in {"drained", "refused", "abandoned"} : drained(how)
         \/ publish_memory \/ answer \/ write \/ stop \/ crash \/ open \/ opened
         \/ UNCHANGED vars
  PROVE  Inv'
<1> USE DEF Inv, TypeOK, OwnSteps, LegacySteps, GenerationSteps, disk, memory, history,
  counters, Dirs, Whole, Phases, Legacy, Exists
<1> USE ConstantsAssumption
<1>1. ASSUME NEW how \in {"drained", "refused", "abandoned"}, drained(how) PROVE Inv'
  <2>1. TypeOK'
    BY <1>1 DEF drained
  <2>2. OwnSteps'
    BY <1>1 DEF drained
  <2>3. OldKept'
    BY <1>1 DEF drained, OldKept, AfterLoad, LegacyKept, GenerationKept, OldInPlace,
      OldAside, InPlaceSteps, AsideSteps
  <2> QED BY <2>1, <2>2, <2>3
<1>2. CASE publish_memory
  <2>1. TypeOK'
    BY <1>2 DEF publish_memory
  <2>2. OwnSteps'
    BY <1>2 DEF publish_memory
  <2>3. OldKept'
    BY <1>2 DEF publish_memory, OldKept, AfterLoad, LegacyKept, GenerationKept,
      OldInPlace, OldAside, InPlaceSteps, AsideSteps
  <2> QED BY <2>1, <2>2, <2>3
<1>3. CASE answer
  <2>1. TypeOK'
    BY <1>3 DEF answer
  <2>2. OwnSteps'
    BY <1>3 DEF answer
  <2>3. OldKept'
    BY <1>3 DEF answer, OldKept, AfterLoad, LegacyKept, GenerationKept, OldInPlace,
      OldAside, InPlaceSteps, AsideSteps
  <2> QED BY <2>1, <2>2, <2>3
<1>4. CASE write
  <2>1. TypeOK'
    BY <1>4 DEF write
  <2>2. OwnSteps'
    BY <1>4 DEF write
  <2>3. OldKept'
    BY <1>4 DEF write, OldKept, AfterLoad, LegacyKept, GenerationKept, OldInPlace,
      OldAside, InPlaceSteps, AsideSteps
  <2> QED BY <2>1, <2>2, <2>3
<1>5. CASE stop
  <2>1. TypeOK'
    BY <1>5 DEF stop
  <2>2. OwnSteps'
    BY <1>5 DEF stop
  <2>3. OldKept'
    BY <1>5 DEF stop, OldKept, AfterLoad, LegacyKept, GenerationKept, OldInPlace,
      OldAside, InPlaceSteps, AsideSteps
  <2> QED BY <2>1, <2>2, <2>3
<1>6. CASE crash
  <2>1. TypeOK'
    BY <1>6 DEF crash
  <2>2. OwnSteps'
    BY <1>6 DEF crash
  <2>3. OldKept'
    BY <1>6 DEF crash, OldKept, AfterLoad, LegacyKept, GenerationKept, OldInPlace,
      OldAside, InPlaceSteps, AsideSteps
  <2> QED BY <2>1, <2>2, <2>3
<1>7. CASE open
  <2>1. TypeOK'
    BY <1>7 DEF open
  <2>2. OwnSteps'
    BY <1>7 DEF open
  <2>3. OldKept'
    BY <1>7 DEF open, OldKept, AfterLoad, LegacyKept, GenerationKept, OldInPlace,
      OldAside, InPlaceSteps, AsideSteps
  <2> QED BY <2>1, <2>2, <2>3
<1>8. CASE opened
  <2>1. TypeOK'
    BY <1>8 DEF opened
  <2>2. OwnSteps'
    BY <1>8 DEF opened
  <2>3. OldKept'
    BY <1>8 DEF opened, OldKept, AfterLoad, LegacyKept, GenerationKept, OldInPlace,
      OldAside, InPlaceSteps, AsideSteps
  <2> QED BY <2>1, <2>2, <2>3
<1>9. CASE UNCHANGED vars
  BY <1>9 DEF vars, OldKept, AfterLoad, LegacyKept, GenerationKept, OldInPlace, OldAside,
    InPlaceSteps, AsideSteps
<1> QED BY <1>1, <1>2, <1>3, <1>4, <1>5, <1>6, <1>7, <1>8, <1>9

\* Inv is inductive.
LEMMA NextInv == Inv /\ [Next]_vars => Inv'
<1> SUFFICES ASSUME Inv, [Next]_vars PROVE Inv'
  OBVIOUS
<1>1. CASE \E out \in Outcomes : Staging(out) \/ Installing(out) \/ RollingBack(out) \/ Recovery(out)
  BY <1>1, StagingInv, InstallingInv, RollingBackInv, RecoveryInv
<1>2. CASE \E ok \in BOOLEAN : prepared(ok) \/ load(ok) \/ reload(ok) \/ rec_load(ok)
  BY <1>2, LoadInv
<1> QED BY <1>1, <1>2, OtherInv DEF Next

\* Inv holds throughout.
LEMMA InvAlways == Spec => []Inv
<1> QED BY InitInv, NextInv, PTL DEF Spec

\* The variables keep their types, and the restores of the two layouts never
\* touch each other's roots.
THEOREM TypeCorrect == Spec => []TypeOK
<1>1. Inv => TypeOK
  BY DEF Inv
<1> QED BY <1>1, InvAlways, PTL

\* However often restores are attempted, interrupted and undone, and whichever
\* operations of the file system fail: the old root is whole somewhere until
\* an installed one has passed the full load.
THEOREM RollbackKeptAlways == Spec => []RollbackKept
<1>1. Inv => RollbackKept
  BY DEF Inv, OldKept, LegacyKept, GenerationKept, OldInPlace, OldAside, RollbackKept, Dirs
<1> QED BY <1>1, InvAlways, PTL
-----------------------------------------------------------------------------
(***************************************************************************)
(* What is served.  Serves describes each layout apart: where the roots    *)
(* are at every step, whatever has failed before (Roots and Live, Forward, *)
(* Backward, Recovery), what a client counts on (Kept, Held), and what     *)
(* startup finds when only installs have been interrupted (Calm, Settled). *)
(*                                                                         *)
(* The flat layout.                                                        *)
(***************************************************************************)
Installed == dir["root"] = "new" /\ dir["staging"] = "none"
Between == dir["root"] = "none" /\ dir["staging"] = "new" /\ OldAside

\* Clients are on the old root, and it is in its place.
FlatBefore ==
  {"copying", "draining", "discard", "prepare", "abort_staging", "abort_journal",
   "move_old", "rollback_staging", "rollback_control", "rolled_back"}

\* From the end of the drain to the moment the new root is served.
FlatDrained ==
  {"prepare", "move_old", "mark_old_moved", "install", "mark_installed", "load", "reload",
   "publish_memory"}

\* Where the process of a flat database can be.
FlatPlaces ==
  FlatBefore \cup FlatDrained \cup
  {"serving", "rollback", "rollback_old", "cleanup_backup", "cleanup_control", "answer",
   "down", "ambiguous", "recover", "rec_mark", "rec_load", "rec_staging", "rec_backup",
   "rec_control", "opened"}

\* One of the roots is in place, or both are next to it; without a journal
\* nothing is aside, and once the new root is served it is not moved again.
FlatRoots ==
  /\ pc \in FlatPlaces
  /\ live = "root" /\ view \in Whole
  /\ OldInPlace \/ Between \/ Installed
  /\ journal = "none" => Exists("root") /\ ~Exists("backup")
  /\ journal # "none" => control
  /\ view = "new" => Installed /\ journal \in {"none", "NewInstalled"}

\* What a restore that is going well has done at each step.
FlatForward ==
  /\ pc \in FlatBefore => OldInPlace /\ view = "old"
  /\ pc \in {"copying", "draining", "prepare"} => journal = "none" /\ control
  /\ pc \in {"draining", "prepare", "move_old"} => dir["staging"] = "new"
  /\ pc = "move_old" => journal = "Prepared"
  /\ pc \in {"discard", "abort_staging", "abort_journal"} => journal \in {"none", "Prepared"}
  /\ pc = "mark_old_moved" => Between /\ journal = "Prepared"
  /\ pc = "install" => Between /\ journal = "OldMoved"
  /\ pc = "mark_installed" => Installed /\ OldAside /\ journal = "OldMoved"
  /\ pc \in {"load", "reload", "publish_memory"} =>
       Installed /\ OldAside /\ journal = "NewInstalled"
  /\ pc \in FlatDrained \cup {"rollback", "rollback_old"} => view = "old"
  /\ pc \in {"cleanup_backup", "cleanup_control", "answer"} => view = "new"
  /\ pc = "cleanup_control" => ~Exists("backup")

\* What a restore that is being undone has left, and when writes go on.
FlatBackward ==
  /\ pc = "rollback" => (Installed => OldAside)
  /\ pc = "rollback_old" => Between
  /\ pc = "rolled_back" => journal = "none"
  /\ pc = "serving" /\ writable /\ view = "old" =>
       OldInPlace /\ journal \in {"none", "Prepared"}

\* What startup has established at each of its steps.
FlatRecovery ==
  /\ pc = "rec_mark" => Installed /\ journal # "none"
  /\ pc = "rec_load" => Exists("root") /\ ~Exists("staging") /\ journal = "NewInstalled"
  /\ pc \in {"rec_staging", "rec_backup", "rec_control", "opened"} => Exists("root")
  /\ pc \in {"rec_control", "opened"} => ~Exists("backup")
  /\ pc = "opened" => journal = "none"

\* What a client counts on can still be served by this process and the next.
FlatKept ==
  /\ kept \in {"old", "new", "either"}
  /\ kept = "old" => view = "old" /\ OldInPlace /\ journal \in {"none", "Prepared"}
  /\ kept = "new" => view = "new"
  /\ pc \in FlatDrained => kept = "either"

\* What recover_interrupted_restore has a case for.
FlatDecided ==
  \/ journal = "none"
  \/ journal = "Prepared" /\ (Layout(TRUE, TRUE, FALSE) \/ Layout(FALSE, TRUE, TRUE))
  \/ journal = "OldMoved" /\ (Layout(FALSE, TRUE, TRUE) \/ Layout(TRUE, FALSE, TRUE))
  \/ journal = "NewInstalled" /\ Exists("root") /\ ~Exists("staging")

\* When only installs have been interrupted startup always has a case.
FlatCalm ==
  OnlyInstallsInterrupted =>
    /\ pc # "ambiguous"
    /\ pc = "serving" => view = "new" \/ journal = "none"
    /\ pc \in {"down", "recover"} => FlatDecided

Flat ==
  Legacy => FlatRoots /\ FlatForward /\ FlatBackward /\ FlatRecovery /\ FlatKept /\ FlatCalm

(***************************************************************************)
(* The generation layout.                                                  *)
(***************************************************************************)
Running == pc \notin Stopped \cup Recovering

\* Clients are on the old generation.
GenerationBefore ==
  {"copying", "draining", "discard", "forget", "publish", "switch", "mark_old_moved",
   "mark_installed", "load", "reload", "publish_memory", "switch_back", "drop_destination"}

\* The steps of recovery that a journal leads to.
GenerationJournaled ==
  {"rec_mark", "rec_load", "rec_back", "rec_destination", "rec_staging", "rec_journal"}

\* Where the process of a generation database can be.
GenerationPlaces ==
  GenerationBefore \cup GenerationJournaled \cup
  {"serving", "forget_installed", "drop_previous", "answer", "down", "ambiguous", "recover",
   "rec_previous", "opened"}

\* The old generation is dropped only for good, and what a running process
\* has open stays where it is.
GenerationLive ==
  /\ pc \in GenerationPlaces
  /\ dir["staging"] # "old" /\ dir["destination"] # "old"
  /\ dir["previous"] # "old" => /\ current = "destination" /\ journal = "none"
                                /\ Running => live = "destination"
  /\ Running => live # "root" /\ dir[live] = view /\ Exists(live)

\* What a restore has done at each step.
GenerationForward ==
  /\ pc \in GenerationBefore => live = "previous"
  /\ pc \in {"draining", "publish"} => dir["staging"] = "new"
  /\ pc \in {"mark_old_moved", "switch", "mark_installed", "load", "reload", "publish_memory"} =>
       dir["destination"] = "new"
  /\ pc \in {"mark_installed", "load", "reload", "publish_memory", "forget_installed",
             "drop_previous", "answer"} => current = "destination"
  /\ pc \in {"forget_installed", "drop_previous", "answer"} => live = "destination"
  /\ pc \in {"drop_previous", "answer"} => journal = "none"

\* What startup has established at each of its steps.
GenerationRecovery ==
  /\ pc \in Recovering => Exists(current)
  /\ pc \in GenerationJournaled => journal # "none"
  /\ pc \in {"rec_mark", "rec_load", "rec_back", "rec_previous"} => current = "destination"
  /\ pc = "rec_destination" => current = "previous"
  /\ pc \in {"rec_previous", "opened"} => journal = "none"

\* The steps between the publication of a generation and its first clients.
GenerationSwitching ==
  {"mark_old_moved", "switch", "mark_installed", "load", "reload", "publish_memory",
   "switch_back", "drop_destination", "forget_installed"}

\* The restore has changed nothing that startup looks at.
GenerationUndone == current = "previous" /\ ~Exists("destination")

\* What a client counts on is what CURRENT leads to, now and after a restart.
GenerationHeld ==
  /\ kept \in {"old", "new", "either"}
  /\ kept = "old" => GenerationUndone /\ live = "previous" /\ journal \in {"none", "Prepared"}
  /\ kept = "new" => /\ current = "destination" /\ dir["destination"] = "new"
                     /\ journal = "none" /\ live = "destination"
  /\ pc \in GenerationSwitching => kept = "either"

\* What recover_interrupted_generation_restore has a case for.
GenerationDecided ==
  \/ journal = "none" /\ (current = "destination" \/ GenerationUndone)
  \/ journal = "Prepared" /\ GenerationUndone
  \/ journal # "none" /\ Exists("destination")

\* The disk at each step when only installs have been interrupted.
GenerationSettled ==
  /\ pc # "ambiguous"
  /\ current = "destination" => Exists("destination")
  /\ dir["destination"] = "torn" => pc \in {"drop_destination", "rec_destination"}
  /\ pc \in {"copying", "draining", "discard", "publish"} => GenerationUndone /\ journal = "Prepared"
  /\ pc \in {"mark_old_moved", "switch", "drop_destination"} => current = "previous"
  /\ pc \in {"switch_back"} => current = "destination"
  /\ pc \in GenerationSwitching => journal # "none"
  /\ pc = "forget" => GenerationUndone
  /\ pc = "serving" => IF live = "previous"
                       THEN GenerationUndone /\ journal \in {"none", "Prepared"}
                       ELSE current = "destination" /\ journal = "none"
  /\ pc = "publish" => kept = "either"
  /\ pc \in {"down", "recover"} => GenerationDecided
  /\ pc \in {"rec_staging", "rec_journal", "opened"} => current = "destination" \/ GenerationUndone

GenerationServes == OnlyInstallsInterrupted => GenerationHeld /\ GenerationSettled

Generation ==
  ~Legacy => GenerationLive /\ GenerationForward /\ GenerationRecovery /\ GenerationServes

Serves == Flat /\ Generation

\* The control directory is gone only after the journal in it.
LEMMA ControlGone ==
  ASSUME TypeOK, NEW at, NEW out \in Outcomes, NEW to, NEW err,
         remove_control(at, out, to, err), faults' = 0, pc' # pc
  PROVE  journal' = "none" /\ pc' = to
<1>1. /\ out # "lost" => journal = "none"
      /\ Io(at, out, to, err) /\ journal' = journal
  BY DEF remove_control
<1>2. out = "ok"
  BY <1>1 DEF Io, TypeOK, Outcomes
<1> QED BY <1>1, <1>2 DEF Io

\* The steps before the drain and the ways out of it, in the flat layout.
LEMMA StagingFlat ==
  ASSUME Inv, Flat, Legacy,
         NEW out \in Outcomes, Staging(out)
  PROVE  Flat'
<1> USE DEF Inv, TypeOK, OwnSteps, LegacySteps, GenerationSteps, disk, memory, history,
  counters, Outcomes, Dirs, Whole, Phases, Legacy, Exists
<1> USE DEF Flat, FlatRoots, FlatForward, FlatBackward, FlatRecovery, FlatKept,
  FlatCalm, OldInPlace, OldAside, Installed, Between, FlatBefore, FlatDrained,
  FlatPlaces, FlatDecided, Layout, OnlyInstallsInterrupted, Undoing, Recovering,
  Stopped, Accepts
<1>1. CASE restore_begin(out)
  BY <1>1 DEF restore_begin, create_control, begin_generation, Io, Unless, write_journal
<1>2. CASE discard(out)
  <2>1. FlatRoots'
    BY <1>2 DEF discard, remove_control, Io, Unless
  <2>2. FlatForward'
    BY <1>2 DEF discard, remove_control, Io, Unless
  <2>3. FlatBackward'
    BY <1>2 DEF discard, remove_control, Io, Unless
  <2>4. FlatRecovery'
    BY <1>2 DEF discard, remove_control, Io, Unless
  <2>5. FlatKept'
    BY <1>2 DEF discard, remove_control, Io, Unless
  <2>6. FlatCalm'
    <3> SUFFICES ASSUME OnlyInstallsInterrupted' PROVE FlatCalm'
      BY DEF FlatCalm
    <3>1. faults' = 0 /\ interrupted' \subseteq {"install"}
      BY DEF OnlyInstallsInterrupted
    <3>2. pc' \notin {"ambiguous", "down", "recover"}
      BY <1>2 DEF discard, remove_control, Io, Unless
    <3>3. pc' = "serving" => journal' = "none"
      <4>1. remove_control("discard", out, "serving", "serving")
        BY <1>2 DEF discard
      <4>2. pc' # "serving" \/ journal' = "none"
        BY <3>1, <4>1, ControlGone DEF remove_control, Io
      <4> QED BY <4>2
    <3> QED BY <3>2, <3>3 DEF FlatCalm
  <2> QED BY <1>2, <2>1, <2>2, <2>3, <2>4, <2>5, <2>6
<1>3. CASE prepare(out)
  BY <1>3 DEF prepare, Io, Unless, write_journal
<1>4. CASE abort_staging(out)
  <2>1. FlatRoots'
    BY <1>4 DEF abort_staging, durable_remove_dir_all, Io, Unless
  <2>2. FlatForward'
    BY <1>4 DEF abort_staging, durable_remove_dir_all, Io, Unless
  <2>3. FlatBackward'
    BY <1>4 DEF abort_staging, durable_remove_dir_all, Io, Unless
  <2>4. FlatRecovery'
    BY <1>4 DEF abort_staging, durable_remove_dir_all, Io, Unless
  <2>5. FlatKept'
    BY <1>4 DEF abort_staging, durable_remove_dir_all, Io, Unless
  <2>6. FlatCalm'
    BY <1>4 DEF abort_staging, durable_remove_dir_all, Io, Unless
  <2> QED BY <1>4, <2>1, <2>2, <2>3, <2>4, <2>5, <2>6
<1>5. CASE abort_journal(out)
  BY <1>5 DEF abort_journal, Io, Unless, write_journal
<1>6. ~forget(out)
  BY DEF forget, Io
<1> QED BY <1>1, <1>2, <1>3, <1>4, <1>5, <1>6 DEF Staging

\* The steps of an install and of its cleanup, in the flat layout.
LEMMA InstallingFlat ==
  ASSUME Inv, Flat, Legacy,
         NEW out \in Outcomes, Installing(out)
  PROVE  Flat'
<1> USE DEF Inv, TypeOK, OwnSteps, LegacySteps, GenerationSteps, disk, memory, history,
  counters, Outcomes, Dirs, Whole, Phases, Legacy, Exists
<1> USE DEF Flat, FlatRoots, FlatForward, FlatBackward, FlatRecovery, FlatKept,
  FlatCalm, OldInPlace, OldAside, Installed, Between, FlatBefore, FlatDrained,
  FlatPlaces, FlatDecided, Layout, OnlyInstallsInterrupted, Undoing, Recovering,
  Stopped, Accepts
<1>1. CASE move_old(out)
  BY <1>1 DEF move_old, Io, Unless, durable_rename
<1>2. CASE install(out)
  BY <1>2 DEF install, Io, Unless, durable_rename
<1>3. CASE mark_old_moved(out)
  BY <1>3 DEF mark_old_moved, Io, Unless, write_journal
<1>4. CASE mark_installed(out)
  BY <1>4 DEF mark_installed, Io, Unless, write_journal
<1>5. CASE cleanup_backup(out)
  <2>1. FlatRoots'
    BY <1>5 DEF cleanup_backup, durable_remove_dir_all, Io, Unless
  <2>2. FlatForward'
    BY <1>5 DEF cleanup_backup, durable_remove_dir_all, Io, Unless
  <2>3. FlatBackward'
    BY <1>5 DEF cleanup_backup, durable_remove_dir_all, Io, Unless
  <2>4. FlatRecovery'
    BY <1>5 DEF cleanup_backup, durable_remove_dir_all, Io, Unless
  <2>5. FlatKept'
    BY <1>5 DEF cleanup_backup, durable_remove_dir_all, Io, Unless
  <2>6. FlatCalm'
    BY <1>5 DEF cleanup_backup, durable_remove_dir_all, Io, Unless
  <2> QED BY <1>5, <2>1, <2>2, <2>3, <2>4, <2>5, <2>6
<1>6. CASE cleanup_control(out)
  <2>1. FlatRoots'
    BY <1>6 DEF cleanup_control, remove_control, Io, Unless
  <2>2. FlatForward'
    BY <1>6 DEF cleanup_control, remove_control, Io, Unless
  <2>3. FlatBackward'
    BY <1>6 DEF cleanup_control, remove_control, Io, Unless
  <2>4. FlatRecovery'
    BY <1>6 DEF cleanup_control, remove_control, Io, Unless
  <2>5. FlatKept'
    BY <1>6 DEF cleanup_control, remove_control, Io, Unless
  <2>6. FlatCalm'
    BY <1>6 DEF cleanup_control, remove_control, Io, Unless
  <2> QED BY <1>6, <2>1, <2>2, <2>3, <2>4, <2>5, <2>6
<1>7. ~publish(out) /\ ~switch(out) /\ ~forget_installed(out) /\ ~drop_previous(out)
  BY DEF publish, Io, switch, forget_installed, drop_previous, durable_remove_dir_all
<1> QED BY <1>1, <1>2, <1>3, <1>4, <1>5, <1>6, <1>7 DEF Installing

\* The steps that undo an install, in the flat layout.
LEMMA RollingBackFlat ==
  ASSUME Inv, Flat, Legacy,
         NEW out \in Outcomes, RollingBack(out)
  PROVE  Flat'
<1> USE DEF Inv, TypeOK, OwnSteps, LegacySteps, GenerationSteps, disk, memory, history,
  counters, Outcomes, Dirs, Whole, Phases, Legacy, Exists
<1> USE DEF Flat, FlatRoots, FlatForward, FlatBackward, FlatRecovery, FlatKept,
  FlatCalm, OldInPlace, OldAside, Installed, Between, FlatBefore, FlatDrained,
  FlatPlaces, FlatDecided, Layout, OnlyInstallsInterrupted, Undoing, Recovering,
  Stopped, Accepts
<1>1. CASE rollback(out)
  <2>1. FlatRoots'
    BY <1>1 DEF rollback, Io, Unless, durable_rename
  <2>2. FlatForward'
    BY <1>1 DEF rollback, Io, Unless, durable_rename
  <2>3. FlatBackward'
    <3>1. CASE Exists("backup") /\ Exists("root") /\ ~Exists("staging")
      <4>1. pc' = "rollback_old" \/ (pc' = "serving" /\ ~writable')
        BY <1>1, <3>1 DEF rollback, Io
      <4>2. pc' = "rollback_old" => Between'
        BY <1>1, <3>1 DEF rollback, Io, Unless, durable_rename
      <4> QED BY <4>1, <4>2 DEF FlatBackward
    <3>2. CASE ~(Exists("backup") /\ Exists("root") /\ ~Exists("staging"))
      BY <1>1, <3>2 DEF rollback
    <3> QED BY <3>1, <3>2
  <2>4. FlatRecovery'
    BY <1>1 DEF rollback, Io, Unless, durable_rename
  <2>5. FlatKept'
    BY <1>1 DEF rollback, Io, Unless, durable_rename
  <2>6. FlatCalm'
    <3> SUFFICES ASSUME OnlyInstallsInterrupted' PROVE FlatCalm'
      BY DEF FlatCalm
    <3>1. faults' = 0 /\ interrupted' \subseteq {"install"}
      BY DEF OnlyInstallsInterrupted
    <3>2. pc' \notin {"ambiguous", "down", "recover"}
      BY <1>1 DEF rollback, Io, Unless, durable_rename
    <3>3. pc' = "serving" => journal' = "none"
      BY <1>1, <3>1 DEF rollback, Io, Unless, durable_rename
    <3> QED BY <3>2, <3>3 DEF FlatCalm
  <2> QED BY <1>1, <2>1, <2>2, <2>3, <2>4, <2>5, <2>6
<1>2. CASE rollback_old(out)
  <2>1. FlatRoots'
    BY <1>2 DEF rollback_old, Io, Unless, durable_rename
  <2>2. FlatForward'
    BY <1>2 DEF rollback_old, Io, Unless, durable_rename
  <2>3. FlatBackward'
    BY <1>2 DEF rollback_old, Io, Unless, durable_rename
  <2>4. FlatRecovery'
    BY <1>2 DEF rollback_old, Io, Unless, durable_rename
  <2>5. FlatKept'
    BY <1>2 DEF rollback_old, Io, Unless, durable_rename
  <2>6. FlatCalm'
    BY <1>2 DEF rollback_old, Io, Unless, durable_rename
  <2> QED BY <1>2, <2>1, <2>2, <2>3, <2>4, <2>5, <2>6
<1>3. CASE rollback_staging(out)
  <2>1. FlatRoots'
    BY <1>3 DEF rollback_staging, durable_remove_dir_all, Io, Unless
  <2>2. FlatForward'
    BY <1>3 DEF rollback_staging, durable_remove_dir_all, Io, Unless
  <2>3. FlatBackward'
    BY <1>3 DEF rollback_staging, durable_remove_dir_all, Io, Unless
  <2>4. FlatRecovery'
    BY <1>3 DEF rollback_staging, durable_remove_dir_all, Io, Unless
  <2>5. FlatKept'
    BY <1>3 DEF rollback_staging, durable_remove_dir_all, Io, Unless
  <2>6. FlatCalm'
    <3> SUFFICES ASSUME OnlyInstallsInterrupted' PROVE FlatCalm'
      BY DEF FlatCalm
    <3>1. faults' = 0 /\ interrupted' \subseteq {"install"}
      BY DEF OnlyInstallsInterrupted
    <3>2. pc' \notin {"ambiguous", "down", "recover"}
      BY <1>3 DEF rollback_staging, durable_remove_dir_all, Io, Unless
    <3>3. pc' = "serving" => journal' = "none"
      BY <1>3, <3>1 DEF rollback_staging, durable_remove_dir_all, Io, Unless
    <3> QED BY <3>2, <3>3 DEF FlatCalm
  <2> QED BY <1>3, <2>1, <2>2, <2>3, <2>4, <2>5, <2>6
<1>4. CASE rollback_control(out)
  <2>1. FlatRoots'
    BY <1>4 DEF rollback_control, remove_control, Io, Unless
  <2>2. FlatForward'
    BY <1>4 DEF rollback_control, remove_control, Io, Unless
  <2>3. FlatBackward'
    BY <1>4 DEF rollback_control, remove_control, Io, Unless
  <2>4. FlatRecovery'
    BY <1>4 DEF rollback_control, remove_control, Io, Unless
  <2>5. FlatKept'
    BY <1>4 DEF rollback_control, remove_control, Io, Unless
  <2>6. FlatCalm'
    <3> SUFFICES ASSUME OnlyInstallsInterrupted' PROVE FlatCalm'
      BY DEF FlatCalm
    <3>1. faults' = 0 /\ interrupted' \subseteq {"install"}
      BY DEF OnlyInstallsInterrupted
    <3>2. pc' \notin {"ambiguous", "down", "recover"}
      BY <1>4 DEF rollback_control, remove_control, Io, Unless
    <3>3. pc' = "serving" => journal' = "none"
      <4>1. remove_control("rollback_control", out, "rolled_back", "serving")
        BY <1>4 DEF rollback_control
      <4>2. pc' # "serving" \/ journal' = "none"
        BY <3>1, <4>1, ControlGone DEF remove_control, Io
      <4> QED BY <4>2
    <3> QED BY <3>2, <3>3 DEF FlatCalm
  <2> QED BY <1>4, <2>1, <2>2, <2>3, <2>4, <2>5, <2>6
<1>5. CASE rolled_back(out)
  BY <1>5 DEF rolled_back, Io
<1>6. ~switch_back(out) /\ ~drop_destination(out)
  BY DEF switch_back, Io, drop_destination, durable_remove_dir_all
<1> QED BY <1>1, <1>2, <1>3, <1>4, <1>5, <1>6 DEF RollingBack

\* The steps of startup, in the flat layout.
LEMMA RecoveryFlat ==
  ASSUME Inv, Flat, Legacy,
         NEW out \in Outcomes, Recovery(out)
  PROVE  Flat'
<1> USE DEF Inv, TypeOK, OwnSteps, LegacySteps, GenerationSteps, disk, memory, history,
  counters, Outcomes, Dirs, Whole, Phases, Legacy, Exists
<1> USE DEF Flat, FlatRoots, FlatForward, FlatBackward, FlatRecovery, FlatKept,
  FlatCalm, OldInPlace, OldAside, Installed, Between, FlatBefore, FlatDrained,
  FlatPlaces, FlatDecided, Layout, OnlyInstallsInterrupted, Undoing, Recovering,
  Stopped, Accepts
<1>1. CASE recover_legacy(out)
  <2>1. FlatRoots'
    BY <1>1 DEF recover_legacy, Goes, Layout, Io, Unless, durable_rename
  <2>2. FlatForward'
    BY <1>1 DEF recover_legacy, Goes, Layout, Io, Unless, durable_rename
  <2>3. FlatBackward'
    BY <1>1 DEF recover_legacy, Goes, Layout, Io, Unless, durable_rename
  <2>4. FlatRecovery'
    BY <1>1 DEF recover_legacy, Goes, Layout, Io, Unless, durable_rename
  <2>5. FlatKept'
    BY <1>1 DEF recover_legacy, Goes, Layout, Io, Unless, durable_rename
  <2>6. FlatCalm'
    BY <1>1 DEF recover_legacy, Goes, Layout, Io, Unless, durable_rename
  <2> QED BY <1>1, <2>1, <2>2, <2>3, <2>4, <2>5, <2>6
<1>2. CASE rec_mark(out)
  <2>1. FlatRoots'
    BY <1>2 DEF rec_mark, Io, Unless, write_journal
  <2>2. FlatForward'
    BY <1>2 DEF rec_mark, Io, Unless, write_journal
  <2>3. FlatBackward'
    BY <1>2 DEF rec_mark, Io, Unless, write_journal
  <2>4. FlatRecovery'
    BY <1>2 DEF rec_mark, Io, Unless, write_journal
  <2>5. FlatKept'
    BY <1>2 DEF rec_mark, Io, Unless, write_journal
  <2>6. FlatCalm'
    <3> SUFFICES ASSUME OnlyInstallsInterrupted' PROVE FlatCalm'
      BY DEF FlatCalm
    <3>1. faults' = 0
      BY DEF OnlyInstallsInterrupted
    <3>2. pc' \notin {"ambiguous", "serving", "down", "recover"}
      BY <1>2, <3>1 DEF rec_mark, Io
    <3> QED BY <3>2 DEF FlatCalm
  <2> QED BY <1>2, <2>1, <2>2, <2>3, <2>4, <2>5, <2>6
<1>3. CASE rec_remove(out)
  <2>1. FlatRoots'
    BY <1>3 DEF rec_remove, durable_remove_dir_all, Io, Unless
  <2>2. FlatForward'
    BY <1>3 DEF rec_remove, durable_remove_dir_all, Io, Unless
  <2>3. FlatBackward'
    BY <1>3 DEF rec_remove, durable_remove_dir_all, Io, Unless
  <2>4. FlatRecovery'
    BY <1>3 DEF rec_remove, durable_remove_dir_all, Io, Unless
  <2>5. FlatKept'
    BY <1>3 DEF rec_remove, durable_remove_dir_all, Io, Unless
  <2>6. FlatCalm'
    <3> SUFFICES ASSUME OnlyInstallsInterrupted' PROVE FlatCalm'
      BY DEF FlatCalm
    <3>1. faults' = 0
      BY DEF OnlyInstallsInterrupted
    <3>2. pc' \notin {"ambiguous", "serving", "down", "recover"}
      BY <1>3, <3>1 DEF rec_remove, durable_remove_dir_all, Io
    <3> QED BY <3>2 DEF FlatCalm
  <2> QED BY <1>3, <2>1, <2>2, <2>3, <2>4, <2>5, <2>6
<1>4. CASE rec_control(out)
  <2>1. FlatRoots'
    BY <1>4 DEF rec_control, remove_control, Io, Unless
  <2>2. FlatForward'
    BY <1>4 DEF rec_control, remove_control, Io, Unless
  <2>3. FlatBackward'
    BY <1>4 DEF rec_control, remove_control, Io, Unless
  <2>4. FlatRecovery'
    BY <1>4 DEF rec_control, remove_control, Io, Unless
  <2>5. FlatKept'
    BY <1>4 DEF rec_control, remove_control, Io, Unless
  <2>6. FlatCalm'
    <3> SUFFICES ASSUME OnlyInstallsInterrupted' PROVE FlatCalm'
      BY DEF FlatCalm
    <3>1. faults' = 0
      BY DEF OnlyInstallsInterrupted
    <3>2. pc' \notin {"ambiguous", "serving", "down", "recover"}
      <4>1. remove_control("rec_control", out, "opened", "down") /\ pc = "rec_control"
        BY <1>4 DEF rec_control, remove_control, Io
      <4>2. pc' = pc \/ pc' = "opened"
        BY <3>1, <4>1, ControlGone
      <4> QED BY <4>1, <4>2
    <3> QED BY <3>2 DEF FlatCalm
  <2> QED BY <1>4, <2>1, <2>2, <2>3, <2>4, <2>5, <2>6
<1>5. ~recover_generation(out) /\ ~rec_back(out) /\ ~rec_journal(out)
  BY DEF recover_generation, Goes, Io, rec_back, rec_journal
<1> QED BY <1>1, <1>2, <1>3, <1>4, <1>5 DEF Recovery

\* The loads of a staged or installed root, in the flat layout.
LEMMA LoadFlat ==
  ASSUME Inv, Flat, Legacy,
         NEW ok \in BOOLEAN, prepared(ok) \/ load(ok) \/ reload(ok) \/ rec_load(ok)
  PROVE  Flat'
<1> USE DEF Inv, TypeOK, OwnSteps, LegacySteps, GenerationSteps, disk, memory, history,
  counters, Outcomes, Dirs, Whole, Phases, Legacy, Exists
<1> USE DEF Flat, FlatRoots, FlatForward, FlatBackward, FlatRecovery, FlatKept,
  FlatCalm, OldInPlace, OldAside, Installed, Between, FlatBefore, FlatDrained,
  FlatPlaces, FlatDecided, Layout, OnlyInstallsInterrupted, Undoing, Recovering,
  Stopped, Accepts
<1>1. CASE prepared(ok)
  BY <1>1 DEF prepared
<1>2. CASE load(ok)
  BY <1>2 DEF load, load_db_root
<1>3. CASE reload(ok)
  BY <1>3 DEF reload
<1>4. CASE rec_load(ok)
  BY <1>4 DEF rec_load, load_db_root
<1> QED BY <1>1, <1>2, <1>3, <1>4

\* The drain, the steps in memory, clients, stops and crashes, in the flat layout.
LEMMA OtherFlat ==
  ASSUME Inv, Flat, Legacy,
         \/ \E how \in {"drained", "refused", "abandoned"} : drained(how)
         \/ publish_memory \/ answer \/ write \/ stop \/ crash \/ open \/ opened
         \/ UNCHANGED vars
  PROVE  Flat'
<1> USE DEF Inv, TypeOK, OwnSteps, LegacySteps, GenerationSteps, disk, memory, history,
  counters, Outcomes, Dirs, Whole, Phases, Legacy, Exists
<1> USE DEF Flat, FlatRoots, FlatForward, FlatBackward, FlatRecovery, FlatKept,
  FlatCalm, OldInPlace, OldAside, Installed, Between, FlatBefore, FlatDrained,
  FlatPlaces, FlatDecided, Layout, OnlyInstallsInterrupted, Undoing, Recovering,
  Stopped, Accepts
<1>1. ASSUME NEW how \in {"drained", "refused", "abandoned"}, drained(how) PROVE Flat'
  <2>1. FlatRoots'
    BY <1>1 DEF drained
  <2>2. FlatForward'
    BY <1>1 DEF drained
  <2>3. FlatBackward'
    BY <1>1 DEF drained
  <2>4. FlatRecovery'
    BY <1>1 DEF drained
  <2>5. FlatKept'
    <3>1. kept' = "either" \/ (kept' = kept /\ pc' # "prepare" /\ pc' = "discard")
      BY <1>1 DEF drained
    <3>2. UNCHANGED <<view, dir, journal>> /\ pc' \in {"discard", "prepare"}
      BY <1>1 DEF drained
    <3> QED BY <3>1, <3>2
  <2>6. FlatCalm'
    BY <1>1 DEF drained
  <2> QED BY <1>1, <2>1, <2>2, <2>3, <2>4, <2>5, <2>6
<1>2. CASE publish_memory
  BY <1>2 DEF publish_memory
<1>3. CASE answer
  BY <1>3 DEF answer
<1>4. CASE write
  BY <1>4 DEF write
<1>5. CASE stop
  BY <1>5 DEF stop
<1>6. CASE crash
  <2>1. FlatRoots'
    BY <1>6 DEF crash
  <2>2. FlatForward'
    BY <1>6 DEF crash
  <2>3. FlatBackward'
    BY <1>6 DEF crash
  <2>4. FlatRecovery'
    BY <1>6 DEF crash
  <2>5. FlatKept'
    BY <1>6 DEF crash
  <2>6. FlatCalm'
    <3> SUFFICES ASSUME OnlyInstallsInterrupted' PROVE FlatCalm'
      BY DEF FlatCalm
    <3>1. pc' = "down" /\ UNCHANGED <<dir, journal>>
      BY <1>6 DEF crash
    <3>2. pc \notin Undoing \cup Recovering \cup Stopped \cup {"serving"}
      BY <1>6 DEF crash
    <3>3. pc \in FlatBefore \cup FlatDrained \cup {"cleanup_backup", "cleanup_control", "answer"}
      BY <3>2
    <3>4. FlatDecided
      BY <3>2, <3>3
    <3> QED BY <3>1, <3>4
  <2> QED BY <1>6, <2>1, <2>2, <2>3, <2>4, <2>5, <2>6
<1>7. CASE open
  BY <1>7 DEF open
<1>8. CASE opened
  BY <1>8 DEF opened
<1>9. CASE UNCHANGED vars
  <2>1. FlatRoots'
    BY <1>9 DEF vars
  <2>2. FlatForward'
    BY <1>9 DEF vars
  <2>3. FlatBackward'
    BY <1>9 DEF vars
  <2>4. FlatRecovery'
    BY <1>9 DEF vars
  <2>5. FlatKept'
    BY <1>9 DEF vars
  <2>6. FlatCalm'
    BY <1>9 DEF vars
  <2> QED BY <1>9, <2>1, <2>2, <2>3, <2>4, <2>5, <2>6 DEF vars
<1> QED BY <1>1, <1>2, <1>3, <1>4, <1>5, <1>6, <1>7, <1>8, <1>9

\* The steps before the drain and the ways out of it, in the generation layout.
LEMMA StagingGeneration ==
  ASSUME Inv, Generation, ~Legacy,
         NEW out \in Outcomes, Staging(out)
  PROVE  Generation'
<1> USE DEF Inv, TypeOK, OwnSteps, LegacySteps, GenerationSteps, disk, memory, history,
  counters, Outcomes, Dirs, Whole, Phases, Legacy, Exists
<1> USE DEF Generation, GenerationLive, GenerationForward, GenerationRecovery,
  GenerationServes, GenerationHeld, GenerationSettled, Running, GenerationBefore,
  GenerationJournaled, GenerationPlaces, GenerationSwitching, GenerationUndone,
  GenerationDecided, OnlyInstallsInterrupted, Undoing, Recovering, Stopped, Accepts
<1>1. CASE restore_begin(out)
  <2>1. GenerationLive'
    BY <1>1 DEF restore_begin, create_control, begin_generation, Io, Unless, write_journal
  <2>2. GenerationForward'
    BY <1>1 DEF restore_begin, create_control, begin_generation, Io, Unless, write_journal
  <2>3. GenerationRecovery'
    BY <1>1 DEF restore_begin, create_control, begin_generation, Io, Unless, write_journal
  <2>4. GenerationServes'
    <3> SUFFICES ASSUME OnlyInstallsInterrupted'
                 PROVE  GenerationHeld' /\ GenerationSettled'
      BY DEF GenerationServes
    <3>1. OnlyInstallsInterrupted /\ out = "ok"
      BY <1>1 DEF restore_begin, create_control, begin_generation, Io
    <3>2. pc' = "copying" /\ journal' = "Prepared" /\ UNCHANGED <<current, live, kept>>
      BY <1>1, <3>1 DEF restore_begin, create_control, begin_generation, Io, Unless, write_journal
    <3>3. dir'["destination"] = "none"
      BY <1>1 DEF restore_begin, create_control, begin_generation
    <3>4. live = "previous" /\ GenerationUndone
      BY <1>1, <3>1 DEF restore_begin, create_control, begin_generation, Io
    <3>5. kept # "new"
      BY <3>1, <3>4
    <3>6. GenerationHeld'
      BY <3>1, <3>2, <3>3, <3>4, <3>5
    <3>7. GenerationSettled'
      BY <3>1, <3>2, <3>3, <3>4
    <3> QED BY <3>6, <3>7
  <2> QED BY <1>1, <2>1, <2>2, <2>3, <2>4
<1>2. CASE discard(out)
  <2>1. GenerationLive'
    BY <1>2 DEF discard, durable_remove_dir_all, Io, Unless
  <2>2. GenerationForward'
    BY <1>2 DEF discard, durable_remove_dir_all, Io, Unless
  <2>3. GenerationRecovery'
    BY <1>2 DEF discard, durable_remove_dir_all, Io, Unless
  <2>4. GenerationServes'
    <3> SUFFICES ASSUME OnlyInstallsInterrupted'
                 PROVE  GenerationHeld' /\ GenerationSettled'
      BY DEF GenerationServes
    <3>1. OnlyInstallsInterrupted
      BY <1>2 DEF discard, durable_remove_dir_all, Io
    <3>2. pc' \in {"discard", "forget"} /\ UNCHANGED <<current, live, kept, journal>>
      BY <1>2 DEF discard, durable_remove_dir_all, Io
    <3>3. dir'["destination"] = dir["destination"]
      BY <1>2 DEF discard, durable_remove_dir_all, Io, Unless
    <3>4. pc = "discard"
      BY <1>2 DEF discard, durable_remove_dir_all, Io
    <3>5. GenerationHeld'
      BY <3>1, <3>2, <3>3, <3>4
    <3>6. GenerationSettled'
      BY <3>1, <3>2, <3>3, <3>4
    <3> QED BY <3>5, <3>6
  <2> QED BY <1>2, <2>1, <2>2, <2>3, <2>4
<1>3. CASE forget(out)
  BY <1>3 DEF forget, Io, Unless, write_journal
<1>4. ~prepare(out) /\ ~abort_staging(out) /\ ~abort_journal(out)
  BY DEF prepare, Io, abort_staging, durable_remove_dir_all, abort_journal
<1> QED BY <1>1, <1>2, <1>3, <1>4 DEF Staging

\* The steps of an install and of its cleanup, in the generation layout.
LEMMA InstallingGeneration ==
  ASSUME Inv, Generation, ~Legacy,
         NEW out \in Outcomes, Installing(out)
  PROVE  Generation'
<1> USE DEF Inv, TypeOK, OwnSteps, LegacySteps, GenerationSteps, disk, memory, history,
  counters, Outcomes, Dirs, Whole, Phases, Legacy, Exists
<1> USE DEF Generation, GenerationLive, GenerationForward, GenerationRecovery,
  GenerationServes, GenerationHeld, GenerationSettled, Running, GenerationBefore,
  GenerationJournaled, GenerationPlaces, GenerationSwitching, GenerationUndone,
  GenerationDecided, OnlyInstallsInterrupted, Undoing, Recovering, Stopped, Accepts
<1>1. CASE publish(out)
  BY <1>1 DEF publish, Io, Unless, durable_rename
<1>2. CASE switch(out)
  BY <1>2 DEF switch, Io, Unless, switch_current
<1>3. CASE mark_old_moved(out)
  BY <1>3 DEF mark_old_moved, Io, Unless, write_journal
<1>4. CASE mark_installed(out)
  BY <1>4 DEF mark_installed, Io, Unless, write_journal
<1>5. CASE forget_installed(out)
  BY <1>5 DEF forget_installed, Io, Unless, write_journal
<1>6. CASE drop_previous(out)
  BY <1>6 DEF drop_previous, durable_remove_dir_all, Io, Unless
<1>7. ~move_old(out) /\ ~install(out) /\ ~cleanup_backup(out) /\ ~cleanup_control(out)
  BY DEF move_old, Io, install, cleanup_backup, durable_remove_dir_all, cleanup_control,
    remove_control
<1> QED BY <1>1, <1>2, <1>3, <1>4, <1>5, <1>6, <1>7 DEF Installing

\* The steps that undo an install, in the generation layout.
LEMMA RollingBackGeneration ==
  ASSUME Inv, Generation, ~Legacy,
         NEW out \in Outcomes, RollingBack(out)
  PROVE  Generation'
<1> USE DEF Inv, TypeOK, OwnSteps, LegacySteps, GenerationSteps, disk, memory, history,
  counters, Outcomes, Dirs, Whole, Phases, Legacy, Exists
<1> USE DEF Generation, GenerationLive, GenerationForward, GenerationRecovery,
  GenerationServes, GenerationHeld, GenerationSettled, Running, GenerationBefore,
  GenerationJournaled, GenerationPlaces, GenerationSwitching, GenerationUndone,
  GenerationDecided, OnlyInstallsInterrupted, Undoing, Recovering, Stopped, Accepts
<1>1. CASE switch_back(out)
  BY <1>1 DEF switch_back, Io, Unless, switch_current
<1>2. CASE drop_destination(out)
  BY <1>2 DEF drop_destination, durable_remove_dir_all, Io, Unless
<1>3. ~rollback(out) /\ ~rollback_old(out) /\ ~rollback_staging(out) /\ ~rollback_control(out) /\ ~rolled_back(out)
  BY DEF rollback, Io, rollback_old, rollback_staging, durable_remove_dir_all,
    rollback_control, remove_control, rolled_back
<1> QED BY <1>1, <1>2, <1>3 DEF RollingBack

\* The steps of startup, in the generation layout.
LEMMA RecoveryGeneration ==
  ASSUME Inv, Generation, ~Legacy,
         NEW out \in Outcomes, Recovery(out)
  PROVE  Generation'
<1> USE DEF Inv, TypeOK, OwnSteps, LegacySteps, GenerationSteps, disk, memory, history,
  counters, Outcomes, Dirs, Whole, Phases, Legacy, Exists
<1> USE DEF Generation, GenerationLive, GenerationForward, GenerationRecovery,
  GenerationServes, GenerationHeld, GenerationSettled, Running, GenerationBefore,
  GenerationJournaled, GenerationPlaces, GenerationSwitching, GenerationUndone,
  GenerationDecided, OnlyInstallsInterrupted, Undoing, Recovering, Stopped, Accepts
<1>1. CASE recover_generation(out)
  BY <1>1 DEF recover_generation, Goes, Io, Unless, switch_current
<1>2. CASE rec_mark(out)
  BY <1>2 DEF rec_mark, Io, Unless, write_journal
<1>3. CASE rec_back(out)
  BY <1>3 DEF rec_back, Io, Unless, switch_current
<1>4. CASE rec_remove(out)
  BY <1>4 DEF rec_remove, durable_remove_dir_all, Io, Unless
<1>5. CASE rec_journal(out)
  BY <1>5 DEF rec_journal, Io, Unless, write_journal
<1>6. ~recover_legacy(out) /\ ~rec_control(out)
  BY DEF recover_legacy, Goes, Io, rec_control, remove_control
<1> QED BY <1>1, <1>2, <1>3, <1>4, <1>5, <1>6 DEF Recovery

\* The loads of a staged or installed root, in the generation layout.
LEMMA LoadGeneration ==
  ASSUME Inv, Generation, ~Legacy,
         NEW ok \in BOOLEAN, prepared(ok) \/ load(ok) \/ reload(ok) \/ rec_load(ok)
  PROVE  Generation'
<1> USE DEF Inv, TypeOK, OwnSteps, LegacySteps, GenerationSteps, disk, memory, history,
  counters, Outcomes, Dirs, Whole, Phases, Legacy, Exists
<1> USE DEF Generation, GenerationLive, GenerationForward, GenerationRecovery,
  GenerationServes, GenerationHeld, GenerationSettled, Running, GenerationBefore,
  GenerationJournaled, GenerationPlaces, GenerationSwitching, GenerationUndone,
  GenerationDecided, OnlyInstallsInterrupted, Undoing, Recovering, Stopped, Accepts
<1>1. CASE prepared(ok)
  BY <1>1 DEF prepared
<1>2. CASE load(ok)
  BY <1>2 DEF load, load_db_root
<1>3. CASE reload(ok)
  BY <1>3 DEF reload
<1>4. CASE rec_load(ok)
  BY <1>4 DEF rec_load, load_db_root
<1> QED BY <1>1, <1>2, <1>3, <1>4

\* The drain, the steps in memory, clients, stops and crashes, in the generation layout.
LEMMA OtherGeneration ==
  ASSUME Inv, Generation, ~Legacy,
         \/ \E how \in {"drained", "refused", "abandoned"} : drained(how)
         \/ publish_memory \/ answer \/ write \/ stop \/ crash \/ open \/ opened
         \/ UNCHANGED vars
  PROVE  Generation'
<1> USE DEF Inv, TypeOK, OwnSteps, LegacySteps, GenerationSteps, disk, memory, history,
  counters, Outcomes, Dirs, Whole, Phases, Legacy, Exists
<1> USE DEF Generation, GenerationLive, GenerationForward, GenerationRecovery,
  GenerationServes, GenerationHeld, GenerationSettled, Running, GenerationBefore,
  GenerationJournaled, GenerationPlaces, GenerationSwitching, GenerationUndone,
  GenerationDecided, OnlyInstallsInterrupted, Undoing, Recovering, Stopped, Accepts
<1>1. ASSUME NEW how \in {"drained", "refused", "abandoned"}, drained(how) PROVE Generation'
  BY <1>1 DEF drained
<1>2. CASE publish_memory
  BY <1>2 DEF publish_memory
<1>3. CASE answer
  BY <1>3 DEF answer
<1>4. CASE write
  BY <1>4 DEF write
<1>5. CASE stop
  BY <1>5 DEF stop
<1>6. CASE crash
  <2>1. GenerationLive'
    BY <1>6 DEF crash
  <2>2. GenerationForward'
    BY <1>6 DEF crash
  <2>3. GenerationRecovery'
    BY <1>6 DEF crash
  <2>4. GenerationServes'
    <3> SUFFICES ASSUME OnlyInstallsInterrupted'
                 PROVE  GenerationHeld' /\ GenerationSettled'
      BY DEF GenerationServes
    <3>1. OnlyInstallsInterrupted
      BY <1>6 DEF crash
    <3>2. pc' = "down" /\ UNCHANGED <<dir, current, live, kept, journal>>
      BY <1>6 DEF crash
    <3>3. pc \notin Undoing \cup Recovering \cup Stopped \cup {"serving"}
      BY <1>6 DEF crash
    <3>4. GenerationHeld'
      BY <3>1, <3>2, <3>3
    <3>5. pc \in {"copying", "draining", "publish", "drop_previous", "answer"} \cup
                 GenerationSwitching
      BY <3>3
    <3>6. GenerationDecided
      BY <3>1, <3>3, <3>5
    <3>7. GenerationSettled'
      BY <3>1, <3>2, <3>3, <3>6
    <3> QED BY <3>4, <3>7
  <2> QED BY <1>6, <2>1, <2>2, <2>3, <2>4
<1>7. CASE open
  BY <1>7 DEF open
<1>8. CASE opened
  BY <1>8 DEF opened
<1>9. CASE UNCHANGED vars
  <2>1. GenerationLive'
    BY <1>9 DEF vars
  <2>2. GenerationForward'
    BY <1>9 DEF vars
  <2>3. GenerationRecovery'
    BY <1>9 DEF vars
  <2>4. GenerationServes'
    BY <1>9 DEF vars
  <2> QED BY <1>9, <2>1, <2>2, <2>3, <2>4 DEF vars
<1> QED BY <1>1, <1>2, <1>3, <1>4, <1>5, <1>6, <1>7, <1>8, <1>9

\* No restore has begun.
LEMMA InitServes == Init => Serves
<1> SUFFICES ASSUME Init PROVE Serves
  OBVIOUS
<1>1. mode \in {"legacy", "generation"}
  BY ConstantsAssumption DEF Init
<1>2. dir[live] = "old" /\ \A d \in Dirs : d # live => dir[d] = "none"
  BY <1>1 DEF Init, Dirs
<1>3. Flat
  <2> SUFFICES ASSUME Legacy PROVE Flat
    BY DEF Flat
  <2>1. OldInPlace /\ live = "root"
    BY <1>2 DEF Init, Legacy, Dirs, OldInPlace
  <2> QED BY <2>1
    DEF Init, Flat, FlatRoots, FlatForward, FlatBackward, FlatRecovery, FlatKept, FlatCalm,
        OldInPlace, Whole, Exists, FlatBefore, FlatDrained, FlatPlaces
<1>4. Generation
  <2> SUFFICES ASSUME ~Legacy PROVE Generation
    BY DEF Generation
  <2>1. dir["previous"] = "old" /\ dir["destination"] = "none" /\ dir["staging"] = "none"
        /\ live = "previous"
    BY <1>1, <1>2 DEF Init, Legacy, Dirs
  <2> QED BY <2>1
    DEF Init, Generation, GenerationLive, GenerationForward, GenerationRecovery,
        GenerationServes, GenerationHeld, GenerationSettled, GenerationBefore,
        GenerationJournaled, GenerationPlaces, GenerationSwitching, GenerationUndone,
        Running, Recovering, Stopped, Exists
<1> QED BY <1>3, <1>4 DEF Serves

\* Serves is inductive relative to Inv.
LEMMA NextServes == Inv /\ Serves /\ [Next]_vars => Serves'
<1> SUFFICES ASSUME Inv, Serves, [Next]_vars PROVE Serves'
  OBVIOUS
<1>1. mode' = mode
  BY DEF Next, vars, disk, memory, history, counters, Staging, Installing, RollingBack, Recovery,
    restore_begin, create_control, begin_generation, discard, forget, prepare, abort_staging, abort_journal, move_old, install,
    publish, switch, mark_old_moved, mark_installed, cleanup_backup, cleanup_control,
    forget_installed, drop_previous, rollback, rollback_old, rollback_staging,
    rollback_control, rolled_back, switch_back, drop_destination, recover_legacy,
    recover_generation, rec_mark, rec_back, rec_remove, rec_control, rec_journal, prepared,
    load, reload, rec_load, drained, publish_memory, answer, write, stop, crash, open, opened
<1>2. CASE Legacy
  <2>1. Flat'
    BY <1>2, StagingFlat, InstallingFlat, RollingBackFlat, RecoveryFlat, LoadFlat, OtherFlat
    DEF Next, Serves
  <2> QED BY <1>1, <1>2, <2>1 DEF Serves, Generation, Legacy
<1>3. CASE ~Legacy
  <2>1. Generation'
    BY <1>3, StagingGeneration, InstallingGeneration, RollingBackGeneration,
      RecoveryGeneration, LoadGeneration, OtherGeneration
    DEF Next, Serves
  <2> QED BY <1>1, <1>3, <2>1 DEF Serves, Flat, Legacy
<1> QED BY <1>2, <1>3

\* Serves holds throughout.
LEMMA ServesAlways == Spec => []Serves
<1> QED BY InvAlways, InitServes, NextServes, PTL DEF Spec

\* Whatever fails, is undone or is interrupted: while the database takes
\* writes the root it has open is where it was, with the content that the
\* collections in memory have.
THEOREM LiveRootStaysAlways == Spec => []LiveRootStays
<1>1. Inv /\ Serves => LiveRootStays
  <2> SUFFICES ASSUME Inv, Serves, pc \in Accepts, writable
               PROVE  dir[live] = view /\ Exists(live)
    BY DEF LiveRootStays
  <2>1. CASE Legacy
    BY <2>1 DEF Serves, Flat, FlatRoots, FlatForward, FlatBackward, FlatBefore, OldInPlace,
      Installed, Accepts, Exists, Whole
  <2>2. CASE ~Legacy
    BY <2>2 DEF Serves, Generation, GenerationLive, Running, Accepts, Recovering, Stopped
  <2> QED BY <2>1, <2>2
<1> QED BY <1>1, InvAlways, ServesAlways, PTL

\* A crash at any step of any number of installs that were going well leaves
\* startup something it has a case for, in both layouts.
THEOREM InstallsAreRecovered == Spec => []InterruptedInstallOpens
<1>1. Serves => InterruptedInstallOpens
  BY DEF Serves, Flat, FlatCalm, Generation, GenerationServes, GenerationSettled,
    InterruptedInstallOpens
<1> QED BY <1>1, ServesAlways, PTL

\* What is served is whole and is what clients counted on: in the flat layout
\* whatever fails and whatever is interrupted, in the generation layout as
\* long as only installs are.
THEOREM KeptIsServed == Spec => []ServesWhatWasKept
<1>1. Inv /\ Serves => ServesWhatWasKept
  <2> SUFFICES ASSUME Inv, Serves, pc \in Accepts, Legacy \/ OnlyInstallsInterrupted
               PROVE  view \in Whole /\ kept \in {view, "either"}
    BY DEF ServesWhatWasKept
  <2>1. CASE Legacy
    BY <2>1 DEF Serves, Flat, FlatRoots, FlatKept
  <2>2. CASE ~Legacy
    <3>1. OnlyInstallsInterrupted /\ live # "root" /\ dir[live] = view /\ Exists(live)
      BY <2>2 DEF Serves, Generation, GenerationLive, Running, Accepts, Recovering, Stopped
    <3>2. GenerationLive /\ GenerationHeld /\ GenerationSettled
      BY <2>2, <3>1 DEF Serves, Generation, GenerationServes
    <3>3. live \in {"previous", "destination"} /\ dir \in [Dirs -> Whole \cup {"none", "torn"}]
      BY <3>1 DEF Inv, TypeOK
    <3>4. CASE live = "previous"
      BY <3>1, <3>2, <3>4 DEF GenerationLive, GenerationHeld, Running, Accepts, Recovering,
        Stopped, Whole
    <3>5. CASE live = "destination"
      <4>1. view = "new"
        BY <3>1, <3>2, <3>3, <3>5 DEF GenerationLive, GenerationSettled, Accepts, Whole, Dirs,
          Exists
      <4> QED BY <3>2, <3>5, <4>1 DEF GenerationHeld, Whole
    <3> QED BY <3>3, <3>4, <3>5
  <2> QED BY <2>1, <2>2
<1> QED BY <1>1, InvAlways, ServesAlways, PTL
=============================================================================
