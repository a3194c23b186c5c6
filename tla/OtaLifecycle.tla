---------------------------- MODULE OtaLifecycle ----------------------------
(***************************************************************************)
(* The life of an OTA update across reboots: the client writes the update  *)
(* message to the misc partition and reboots; the updater installs the     *)
(* packages one by one, partition by partition, records in misc which      *)
(* partitions it has updated, and may lose power at any step; after a      *)
(* reset it resumes from what misc and /data/updater hold.                 *)
(*                                                                         *)
(* Persistent state: the update message, the partition records, the        *)
(* contents of the partitions, the "<partition>_retry" files and the       *)
(* result file.  A block update is synced before it is recorded; a raw     *)
(* image only when its writer is released, which is after.  Everything     *)
(* else is the memory of the updater process.                              *)
(***************************************************************************)
EXTENDS Naturals, Sequences, FiniteSets

CONSTANTS
  Parts,        \* names of the partitions
  BlockParts,   \* those updated by block_update; the others by raw_image_write
  Packages,     \* update packages
  PartsOf,      \* the partitions of a package, in the order of its script
  Updates,      \* the lists of packages a client may ask to install
  MaxRecords,   \* slots of the record area (MAX_PARTITION_NUM)
  MaxRetry,     \* MAX_RETRY_COUNT
  MaxUpdates,   \* bound: updates asked for in one behaviour
  None,         \* no partition, no package
  Torn,         \* contents of a partition that is partly rewritten
  Factory       \* contents of a partition before any update

ASSUME OtaAssumption ==
  /\ BlockParts \subseteq Parts
  /\ PartsOf \in [Packages -> Seq(Parts)]
  /\ Updates \subseteq Seq(Packages)
  /\ MaxRecords \in Nat /\ MaxRetry \in Nat /\ MaxUpdates \in Nat
  /\ None \notin Parts \cup Packages
  /\ Torn \notin Packages /\ Factory \notin Packages

VARIABLES
  pc,           \* where the device is
  msg,          \* UpdateMessage in misc
  rec,          \* the record area of misc as a reader sees it
  stored,       \* the record area as it survives a power loss
  content,      \* what each partition holds: the image of a package, or Torn
  cached,       \* the partition a raw writer has not yet synced, or None
  retryFile,    \* the package whose command the "_retry" file names, or None
  result,       \* updater_result
  pkgs,         \* upParams.updatePackage
  retryCount,   \* upParams.retryCount
  pkgLocation,  \* upParams.pkgLocation
  idx,          \* the script instruction under execution
  status,       \* UpdaterStatus
  asked,        \* history: the last list of packages asked for
  updates,      \* history: how many updates were asked for
  interrupted,  \* history: this update was reset before it was finished
  faultReboots  \* history: reboots RebootRetry asked for in this update

disk   == <<msg, rec, stored, content, cached, retryFile, result>>
memory == <<pkgs, retryCount, pkgLocation, idx, status>>
past   == <<asked, updates, interrupted, faultReboots>>
vars   == <<pc, disk, memory, past>>

NoMsg == [boot |-> FALSE, pkgs |-> <<>>, retry |-> 0, done |-> 0]
NoRec == [offset |-> 0, slots |-> [i \in 1..MaxRecords |-> None]]

Records  == [offset : 0..MaxRecords, slots : [1..MaxRecords -> Parts \cup {None}]]
Messages == [boot : BOOLEAN, pkgs : Seq(Packages), retry : Nat, done : Nat]
Places   == {"off", "system", "pre", "install", "setRetry", "script", "writing",
             "written", "slotted", "recorded", "installed", "faulted", "post", "failedPage",
             "clearMsg", "clearRec", "cleanup", "reboot"}

TypeOK ==
  /\ pc \in Places
  /\ msg \in Messages
  /\ rec \in Records /\ stored \in Records
  /\ content \in [Parts -> Packages \cup {Torn, Factory}]
  /\ cached \in Parts \cup {None}
  /\ retryFile \in [Parts -> Packages \cup {None}]
  /\ result \in {"none", "notstart", "pass", "fail"}
  /\ pkgs \in Seq(Packages)
  /\ retryCount \in Nat /\ pkgLocation \in Nat /\ idx \in Nat
  /\ status \in {"unknown", "success", "skip", "fail"}
  /\ asked \in Seq(Packages) /\ updates \in Nat
  /\ interrupted \in BOOLEAN /\ faultReboots \in Nat

(***************************************************************************)
(* What the running updater is working on.                                 *)
(***************************************************************************)
Package == pkgs[pkgLocation + 1]
Script  == PartsOf[Package]
Part    == Script[idx]
InScript == pc = "script" /\ idx <= Len(Script)

\* A record is looked for in every slot, whatever the offset says.
IsPartitionUpdated(p) == \E i \in 1..MaxRecords : rec.slots[i] = p

\* The "_retry" file of a partition that names no command of this package.
HasForeignRetryFile(p) == p \in BlockParts /\ retryFile[p] \notin {None, Package}

\* As if records were looked at on the first attempt too.
SkipsAtOnce == IsPartitionUpdated(Part)

Skips     == retryCount > 0 /\ IsPartitionUpdated(Part)
SkipsAll  == retryCount > 0 /\ ~Skips /\ HasForeignRetryFile(Part)

-----------------------------------------------------------------------------
Init ==
  /\ pc = "system"
  /\ msg = NoMsg /\ rec = NoRec /\ stored = NoRec
  /\ content = [p \in Parts |-> Factory] /\ cached = None
  /\ retryFile = [p \in Parts |-> None]
  /\ result = "none"
  /\ pkgs = <<>> /\ retryCount = 0 /\ pkgLocation = 0 /\ idx = 0
  /\ status = "unknown"
  /\ asked = <<>> /\ updates = 0 /\ interrupted = FALSE /\ faultReboots = 0

\* The client in the running system: a fresh message, and only the message.
RebootAndInstallUpgradePackage(u) ==
  /\ pc = "system" /\ updates < MaxUpdates
  /\ msg' = [boot |-> TRUE, pkgs |-> u, retry |-> 0, done |-> 0]
  /\ result' = "notstart"
  /\ pc' = "off"
  /\ asked' = u /\ updates' = updates + 1
  /\ interrupted' = FALSE /\ faultReboots' = 0
  /\ UNCHANGED <<rec, stored, content, cached, retryFile, memory>>

\* As if upgraded_pkg_num were not among the options.
BootFromFirst ==
  /\ pc = "off"
  /\ IF msg.boot
       THEN pkgs' = msg.pkgs /\ retryCount' = msg.retry /\ pc' = "pre"
       ELSE pkgs' = <<>> /\ retryCount' = 0 /\ pc' = "system"
  /\ pkgLocation' = 0 /\ idx' = 0 /\ status' = "unknown"
  /\ UNCHANGED <<disk, past>>

\* The bootloader starts the updater while misc asks for it; the updater
\* takes its parameters from the message.
Boot ==
  /\ pc = "off"
  /\ IF msg.boot
       THEN /\ pkgs' = msg.pkgs /\ retryCount' = msg.retry
            /\ pkgLocation' = msg.done
            /\ pc' = "pre"
       ELSE /\ pkgs' = <<>> /\ retryCount' = 0 /\ pkgLocation' = 0
            /\ pc' = "system"
  /\ idx' = 0 /\ status' = "unknown"
  /\ UNCHANGED <<disk, past>>

\* /data cannot be mounted: the update ends here, and neither the last result
\* is deleted nor can a new one be written.
MountDataFails ==
  /\ pc = "pre"
  /\ status' = "fail"
  /\ pc' \in {"failedPage", "clearMsg"}
  /\ UNCHANGED <<disk, past, pkgs, retryCount, pkgLocation, idx>>

\* As if the package under way were counted as done.
PreUpdateOffByOne ==
  /\ pc = "pre"
  /\ result' = "none"
  /\ IF pkgLocation + 1 < Len(pkgs)
       THEN pc' = "install" /\ status' = status
       ELSE pc' = "post" /\ status' = "success"
  /\ UNCHANGED <<msg, rec, stored, content, cached, retryFile, past>>
  /\ UNCHANGED <<pkgs, retryCount, pkgLocation, idx>>

PreUpdatePackages ==
  /\ pc = "pre"
  /\ result' = "none"
  /\ \/ /\ pkgLocation < Len(pkgs)
        /\ pc' = "install" /\ status' = status
     \/ /\ pkgLocation >= Len(pkgs)       \* every package has been upgraded
        /\ pc' = "post" /\ status' = "success"
     \/ pc' = "post" /\ status' = "fail"  \* a package or a parameter is bad
     \/ /\ retryCount = 0                 \* the battery is low
        /\ pc' = "post" /\ status' = "skip"
  /\ UNCHANGED <<msg, rec, stored, content, cached, retryFile, past>>
  /\ UNCHANGED <<pkgs, retryCount, pkgLocation, idx>>

(***************************************************************************)
(* InstallUpdaterPackage for the package at pkgLocation.                   *)
(***************************************************************************)
\* Only the offset is reset: the slots keep the names they hold.
ClearRecordPartitionOffset ==
  /\ pc = "install" /\ retryCount = 0
  /\ rec' = [rec EXCEPT !.offset = 0]
  /\ stored' = rec'
  /\ pc' = "setRetry"
  /\ UNCHANGED <<msg, content, cached, retryFile, result, memory, past>>

\* retry_count is set in misc; the process keeps its own, which is 0.
SetRetryCount ==
  /\ pc = "setRetry"
  /\ msg' = [msg EXCEPT !.boot = TRUE, !.retry = 1]
  /\ pc' = "script" /\ idx' = 1
  /\ UNCHANGED <<rec, stored, content, cached, retryFile, result, past>>
  /\ UNCHANGED <<pkgs, retryCount, pkgLocation, status>>

ResumeInstall ==
  /\ pc = "install" /\ retryCount > 0
  /\ pc' = "script" /\ idx' = 1
  /\ UNCHANGED <<disk, past, pkgs, retryCount, pkgLocation, status>>

(***************************************************************************)
(* The child process: one instruction per partition of the script.         *)
(***************************************************************************)
SkipUpdated ==
  /\ InScript /\ Skips
  /\ idx' = idx + 1
  /\ UNCHANGED <<pc, disk, past, pkgs, retryCount, pkgLocation, status>>

\* The retry command of another package matches no line of this transfer
\* list, so every command but NEW is passed over and the list "succeeds".
SkipCommands ==
  /\ InScript /\ SkipsAll
  /\ \E v \in {content[Part], Torn, Package} : content' = [content EXCEPT ![Part] = v]
  /\ pc' = "written"
  /\ UNCHANGED <<msg, rec, stored, cached, retryFile, result, memory, past>>

\* From the first write to the last the partition holds neither image, unless
\* every block already has its target data.
BeginWrite ==
  /\ InScript /\ ~Skips /\ ~SkipsAll
  /\ content' = [content EXCEPT ![Part] = IF @ = Package THEN @ ELSE Torn]
  /\ pc' = "writing"
  /\ UNCHANGED <<msg, rec, stored, cached, retryFile, result, memory, past>>

\* A command of the transfer list, other than NEW, is done and registered.
RegisterForRetry ==
  /\ pc = "writing" /\ Part \in BlockParts /\ retryFile[Part] # Package
  /\ retryFile' = [retryFile EXCEPT ![Part] = Package]
  /\ UNCHANGED <<pc, msg, rec, stored, content, cached, result, memory, past>>

\* The last write.  SyncWriteDevPath follows it in a block update; the pages of
\* a raw image stay in the cache, unless they were on the disk before.
FinishWrite ==
  /\ pc = "writing"
  /\ content' = [content EXCEPT ![Part] = Package]
  /\ cached' = IF Part \in BlockParts \/ content[Part] = Package THEN cached ELSE Part
  /\ pc' = "written"
  /\ UNCHANGED <<msg, rec, stored, retryFile, result, memory, past>>

\* As if the partition were recorded before the writer has finished.
RecordSlotEarly ==
  /\ pc = "writing" /\ rec.offset < MaxRecords
  /\ rec' = [rec EXCEPT !.slots[rec.offset + 1] = Part]
  /\ pc' = "slotted"
  /\ UNCHANGED <<msg, stored, content, cached, retryFile, result, memory, past>>

\* RecordPartitionUpdateStatus: the slot, then the offset, then fsync; with
\* every slot taken it fails, which no caller looks at.
RecordSlot ==
  /\ pc = "written"
  /\ IF rec.offset < MaxRecords
       THEN /\ rec' = [rec EXCEPT !.slots[rec.offset + 1] = Part]
            /\ pc' = "slotted"
       ELSE pc' = "recorded" /\ rec' = rec
  /\ UNCHANGED <<msg, stored, content, cached, retryFile, result, memory, past>>

RecordOffset ==
  /\ pc = "slotted"
  /\ rec' = [rec EXCEPT !.offset = @ + 1]
  /\ stored' = rec'
  /\ pc' = "recorded"
  /\ UNCHANGED <<msg, content, cached, retryFile, result, memory, past>>

\* The raw writer is destroyed, which syncs the partition; the instruction ends.
ReleaseDataWriter ==
  /\ pc = "recorded"
  /\ cached' = None
  /\ pc' = "script" /\ idx' = idx + 1
  /\ UNCHANGED <<msg, rec, stored, content, retryFile, result, past>>
  /\ UNCHANGED <<pkgs, retryCount, pkgLocation, status>>

ScriptDone ==
  /\ pc = "script" /\ idx > Len(Script)
  /\ pc' = "installed"
  /\ UNCHANGED <<disk, memory, past>>

\* The child posts "retry_update" with a fault that has a retry function.
ScriptFault ==
  /\ InScript \/ pc = "writing"
  /\ pc' = "faulted"
  /\ UNCHANGED <<disk, memory, past>>

\* The offset cannot be reset; or the child ends otherwise: no fault reported,
\* a fault without a retry function, or killed by a signal.
InstallFails ==
  /\ \/ pc = "install" /\ retryCount = 0
     \/ InScript
     \/ pc \in {"writing", "written", "slotted", "recorded"}
  /\ pc' = "post" /\ status' = "fail"
  /\ UNCHANGED <<disk, past, pkgs, retryCount, pkgLocation, idx>>

\* As if one retry too many were allowed.
RebootRetryOffByOne ==
  /\ pc = "faulted" /\ retryCount <= MaxRetry
  /\ msg' = [msg EXCEPT !.retry = retryCount + 1]
  /\ stored' = rec
  /\ pc' = "off"
  /\ interrupted' = TRUE /\ faultReboots' = faultReboots + 1
  /\ UNCHANGED <<rec, content, cached, retryFile, result, memory, asked, updates>>

\* As if the retry were not counted in misc (nor in faultReboots, which would
\* grow without end).
RebootRetryUncounted ==
  /\ pc = "faulted" /\ retryCount < MaxRetry
  /\ stored' = rec
  /\ pc' = "off"
  /\ interrupted' = TRUE
  /\ UNCHANGED <<msg, rec, content, cached, retryFile, result, memory>>
  /\ UNCHANGED <<asked, updates, faultReboots>>

\* As if the package that failed were counted as upgraded.
RebootRetryCounts ==
  /\ pc = "faulted" /\ retryCount < MaxRetry
  /\ msg' = [msg EXCEPT !.retry = retryCount + 1, !.done = pkgLocation + 1]
  /\ stored' = rec
  /\ pc' = "off"
  /\ interrupted' = TRUE /\ faultReboots' = faultReboots + 1
  /\ UNCHANGED <<rec, content, cached, retryFile, result, memory, asked, updates>>

RebootRetry ==
  /\ pc = "faulted" /\ retryCount < MaxRetry
  /\ msg' = [msg EXCEPT !.retry = retryCount + 1]
  /\ stored' = rec
  /\ pc' = "off"
  /\ interrupted' = TRUE /\ faultReboots' = faultReboots + 1
  /\ UNCHANGED <<rec, content, cached, retryFile, result, memory, asked, updates>>

NoMoreRetry ==
  /\ pc = "faulted" /\ retryCount >= MaxRetry
  /\ pc' = "post" /\ status' = "fail"
  /\ UNCHANGED <<disk, past, pkgs, retryCount, pkgLocation, idx>>

\* upgraded_pkg_num is set in misc; then the next package, or the end.
PackageInstalled ==
  /\ pc = "installed"
  /\ msg' = [msg EXCEPT !.boot = TRUE, !.done = pkgLocation + 1]
  /\ pkgLocation' = pkgLocation + 1
  /\ IF pkgLocation + 1 < Len(pkgs)
       THEN pc' = "install" /\ status' = status
       ELSE pc' = "post" /\ status' = "success"
  /\ UNCHANGED <<rec, stored, content, cached, retryFile, result, past>>
  /\ UNCHANGED <<pkgs, retryCount, idx>>

(***************************************************************************)
(* The end of an update: PostUpdate, PostUpdater(true) and the reboot, or   *)
(* the failed page, whose reboot button runs PostUpdater(false).            *)
(***************************************************************************)
PostUpdatePackages ==
  /\ pc = "post"
  /\ result' = IF status = "success" THEN "pass" ELSE "fail"
  /\ pc' \in IF status = "fail" THEN {"failedPage", "clearMsg"} ELSE {"clearMsg"}
  /\ UNCHANGED <<msg, rec, stored, content, cached, retryFile, memory, past>>

\* ClearMisc: the message with fsync, then the records without.
ClearMessage ==
  /\ pc = "clearMsg"
  /\ msg' = NoMsg
  /\ pc' = "clearRec"
  /\ UNCHANGED <<rec, stored, content, cached, retryFile, result, memory, past>>

ClearRecords ==
  /\ pc = "clearRec"
  /\ rec' = NoRec
  /\ pc' = "cleanup"
  /\ UNCHANGED <<msg, stored, content, cached, retryFile, result, memory, past>>

DeleteUpdaterTmpFiles ==
  /\ pc = "cleanup"
  /\ retryFile' = [p \in Parts |-> None]
  /\ stored' = rec /\ cached' = None
  /\ pc' = "reboot"
  /\ UNCHANGED <<msg, rec, content, result, memory, past>>

OnRebootEvt ==
  /\ pc = "failedPage"
  /\ retryFile' = [p \in Parts |-> None]
  /\ stored' = rec /\ cached' = None
  /\ pc' = "reboot"
  /\ UNCHANGED <<msg, rec, content, result, memory, past>>

UpdaterDoReboot ==
  /\ pc = "reboot"
  /\ msg' = NoMsg
  /\ pc' = "off"
  /\ UNCHANGED <<rec, stored, content, cached, retryFile, result, memory, past>>

-----------------------------------------------------------------------------
\* Power loss or an abnormal reset, at any step; what was not synced may be
\* lost.
Crash ==
  /\ pc # "off"
  /\ pc' = "off"
  /\ rec' \in {rec, stored} /\ stored' = rec'
  /\ \/ content' = content
     \/ cached # None /\ content' = [content EXCEPT ![cached] = Torn]
  /\ cached' = None
  /\ pkgs' = <<>> /\ retryCount' = 0 /\ pkgLocation' = 0 /\ idx' = 0
  /\ status' = "unknown"
  /\ interrupted' = (interrupted \/ pc # "system")
  /\ UNCHANGED <<msg, retryFile, result, asked, updates, faultReboots>>

Install == \/ ClearRecordPartitionOffset \/ SetRetryCount \/ ResumeInstall
           \/ SkipUpdated \/ SkipCommands \/ BeginWrite \/ RegisterForRetry
           \/ FinishWrite \/ RecordSlot \/ RecordOffset \/ ReleaseDataWriter
           \/ ScriptDone
           \/ ScriptFault \/ InstallFails \/ RebootRetry \/ NoMoreRetry
           \/ PackageInstalled

Finish  == \/ PostUpdatePackages \/ ClearMessage \/ ClearRecords
           \/ DeleteUpdaterTmpFiles \/ UpdaterDoReboot

Updater == Boot \/ MountDataFails \/ PreUpdatePackages \/ Install \/ Finish

Next == \/ \E u \in Updates : RebootAndInstallUpgradePackage(u)
        \/ Updater \/ OnRebootEvt \/ Crash

Spec == Init /\ [][Next]_vars

-----------------------------------------------------------------------------
PartsIn(k) == {PartsOf[k][i] : i \in DOMAIN PartsOf[k]}

\* What the packages of u leave in the partitions: the image of the last one
\* that has the partition.
IsInstalled(u) ==
  \A i \in DOMAIN u : \A p \in PartsIn(u[i]) :
    (\A j \in DOMAIN u : j > i => p \notin PartsIn(u[j])) => content[p] = u[i]

\* A partition that is passed over because of its record holds the image of
\* the package being installed: what IsPartitionUpdated is asked for.
SkipIsSound == (InScript /\ Skips) => content[Part] = Package

\* An update that runs to its end without a reset does not depend on what
\* earlier ones left in misc and /data/updater.
UninterruptedInstalls ==
  (result = "pass" /\ ~interrupted) => IsInstalled(asked)

\* A hardware fault reboots the device at most MaxRetry times per update,
\* across all the resets in between.
FaultRetryBound == faultReboots <= MaxRetry

\* A step writes only partitions of the first package not yet counted in misc:
\* no reset makes the updater go back over a package that is complete.  (A
\* reset itself may lose a raw image that was not synced.)
WritesOnlyNextPackage ==
  [][\A p \in Parts : content'[p] # content[p] =>
       \/ pc' = "off" /\ p = cached
       \/ /\ msg.boot /\ msg.done < Len(asked)
          /\ p \in PartsIn(asked[msg.done + 1])]_vars

\* Once resets stop, the device ends in the running system or on the failed
\* page, where it waits for the user.
Settled == pc \in {"system", "failedPage"}
Settles == (<>[][~Crash]_vars) => []<>Settled

-----------------------------------------------------------------------------
(***************************************************************************)
(* The inductive invariant of every behaviour, whatever an earlier update   *)
(* left behind and whatever a reset loses.                                  *)
(***************************************************************************)
Child   == {"script", "writing", "written", "slotted", "recorded", "faulted", "installed"}
Working == {"install", "setRetry"} \cup Child

\* The message of misc is the update that was asked for, and the updater works on it.
MemoryMatchesMisc ==
  /\ msg.boot => msg.pkgs = asked
  /\ pc \in {"pre", "install", "setRetry"} \cup Child =>
       msg.boot /\ pkgs = asked /\ pkgLocation = msg.done
  /\ pc \in {"install", "setRetry"} \cup Child => pkgLocation < Len(asked)

AtItsPart ==
  /\ pc \in Child => idx > 0
  /\ pc \in {"writing", "written", "slotted", "recorded"} => idx \in DOMAIN Script
  /\ pc = "slotted" => rec.offset < MaxRecords
  /\ pc = "installed" => idx > Len(Script)

\* Neither misc nor the updater forgets a reboot for a fault.
RetriesCounted ==
  /\ faultReboots <= MaxRetry
  /\ msg.boot => faultReboots <= msg.retry
  /\ pc \in {"pre"} \cup Working => faultReboots <= retryCount
  /\ pc = "setRetry" => retryCount = 0

\* No result is known before the end, and a raw image is not in the cache but from its
\* last write to the end of its instruction or of the update.
OpenUntilPost ==
  /\ pc \in {"system", "pre"} \cup Working => status = "unknown"
  /\ pc = "system" => ~msg.boot
  /\ cached # None => pc \in {"written", "slotted", "recorded", "post", "failedPage",
                              "clearMsg", "clearRec", "cleanup"}

\* The first n packages are in place, but for what the first m overwrite.
InPlace(n, m) ==
  \A i \in 1..n : \A p \in PartsIn(asked[i]) :
    (\A j \in (i + 1)..m : p \notin PartsIn(asked[j])) => content[p] = asked[i]

ScriptInPlace == \A n \in DOMAIN Script : n < idx => content[Script[n]] = Package

\* As long as there was no reset, nothing is passed over and every instruction leaves
\* its image.
FirstRun ==
  /\ pc = "off" /\ msg.boot => msg.retry = 0 /\ msg.done = 0
  /\ pc = "pre" => pkgLocation = 0
  /\ pc \in {"pre"} \cup Working => retryCount = 0
  /\ pc \in Working => result = "none"
  /\ pc \in {"install", "setRetry"} => InPlace(pkgLocation, pkgLocation)
  /\ pc \in Child => InPlace(pkgLocation, pkgLocation + 1) /\ ScriptInPlace
  /\ pc \in {"written", "slotted", "recorded"} => content[Part] = Package
  /\ status = "success" \/ result = "pass" => IsInstalled(asked)

OnCourse == TypeOK /\ MemoryMatchesMisc /\ AtItsPart /\ RetriesCounted /\ OpenUntilPost

AnyInv == OnCourse /\ (~interrupted => FirstRun)
=============================================================================
