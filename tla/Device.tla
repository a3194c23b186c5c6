-------------------------------- MODULE Device --------------------------------
(***************************************************************************)
(* A device that was started for one of five things: the partition tables   *)
(* are being replaced (Ptable), the updater does what misc asks for         *)
(* (UpdaterModes), hosts flash it (Flashd), the scripts of a package are     *)
(* interpreted (ScriptInterp), or one of them asks for other partitions      *)
(* (DiskPartitions).  SelectMode and the package decide which; what they     *)
(* share is the power supply.                                                *)
(***************************************************************************)
EXTENDS Ptable, Flashd, UpdaterModes

CONSTANTS
  ScriptPackages, UserNames, Libraries, MaxPriority, UpdaterDir, Words, \* of ScriptInterp
  Layouts, PartLists, Mounted, Mb                             \* of DiskPartitions

VARIABLES
  mode,        \* what the device was started for: "tables", "updater", "flashd", "scripts" or "partitions"
  pkg, failing, garbage, script, pc, result, stage, priority, index, retCode, world,
  layout, list, kernel, record, answer, restart

Script == INSTANCE ScriptInterp
Disks == INSTANCE DiskPartitions

scriptVars == <<pkg, failing, garbage, script, pc, result, stage, priority, index, retCode, world>>
partVars == <<layout, list, kernel, record, answer, restart>>
deviceVars == <<mode, ptable, modes, flashd, scriptVars, partVars, faults>>

\* What is not in use is as it is left when nothing is asked for.
Unused(S) == CHOOSE x \in S : TRUE
Init ==
  /\ mode \in {"tables", "updater", "flashd", "scripts", "partitions"} /\ faults = 0
  /\ PtableInit /\ (mode # "tables" => device = Unused(Devices) /\ job = Unused(Jobs[device]))
  /\ ModesInit /\ (mode # "updater" => kit = Unused(Kits))
  /\ FlashdInit /\ (mode # "flashd" => locked)
  /\ IF mode = "scripts" THEN TRUE ELSE pkg = Unused(ScriptPackages) /\ failing = {} /\ garbage = 0
  /\ Script!InterpInit
  /\ IF mode = "partitions" THEN TRUE ELSE layout = Unused(Layouts) /\ list = <<>>
  /\ Disks!PartInit

OnlyTables == mode = "tables" /\ UNCHANGED <<mode, modes, flashd, scriptVars, partVars>>
OnlyModes == mode = "updater" /\ UNCHANGED <<mode, ptable, flashd, scriptVars, partVars>>
OnlyFlash == mode = "flashd" /\ UNCHANGED <<mode, ptable, modes, scriptVars, partVars>>
OnlyScripts == mode = "scripts" /\ UNCHANGED <<mode, ptable, modes, flashd, partVars, faults>>
OnlyPartitions == mode = "partitions" /\ UNCHANGED <<mode, ptable, modes, flashd, scriptVars, faults>>
Next ==
  \/ OnlyTables /\ PtableNext
  \/ OnlyModes /\ ModesNext
  \/ OnlyFlash /\ FlashdNext
  \/ OnlyScripts /\ Script!InterpNext
  \/ OnlyPartitions /\ Disks!PartNext
Spec == Init /\ [][Next]_deviceVars

\* The updater goes on as long as it is not turned off: nothing in it waits for a
\* user before the last page.
FairSpec == Spec /\ WF_deviceVars(OnlyModes /\ UpdaterStep)
-----------------------------------------------------------------------------
\* DisksHold: whatever power cut or failed call comes between the writes of a table
\* (Ptable's WritePartitionTable) and between those of update_partitions: a new table is
\* what was asked for or is not reported, the user's data stay where they are, and misc
\* has no partition that the kernel did not take.
DisksHold == TablesHold /\ Disks!PartitionsHold

\* ScriptsHold: what the interpreter makes of the scripts of a package: a statement that
\* fails is heard by the next statement and by the updater, the scopes of functions are
\* left as they were entered, and no library takes a reserved name (ScriptInterpreter,
\* ScriptInstructionHelper, ScriptManagerImpl).
ScriptsHold == Script!ScriptsHold

\* Settles: an updater that is powered gets to its last page or restarts: no order of the
\* requests in misc and of power cuts makes it start for the same request for ever.
Settles == ModesSettle
=============================================================================
