--------------------------- MODULE OtaProofs ---------------------------
(***************************************************************************)
(* Two inductive invariants of an OTA update.                              *)
(*                                                                         *)
(* AnyInv holds in every behaviour of OtaLifecycle, whatever an earlier    *)
(* update left behind: the updater works on what misc asks for, and at a   *)
(* partition of the first package misc does not count (WritesOnlyNext-     *)
(* Package); a reboot for a fault is never forgotten (FaultRetryBound);    *)
(* and a first run passes nothing over, so each instruction leaves the     *)
(* image of its package (UninterruptedInstalls).                           *)
(*                                                                         *)
(* IInv holds in every behaviour of OtaRecords, and implies that a         *)
(* partition that is passed over is up to date, that "pass" means that     *)
(* every package is in place, and that a package counted in misc is - but   *)
(* for partitions in doubt.  A partition that is not in doubt belongs to    *)
(* one package of the update only (SharedIsInDoubt), so whatever a record   *)
(* or a "_retry" file names for a partition of the package under way is     *)
(* that package; and no step takes such a partition away from the package   *)
(* it already holds (Keeps), so what was established before a reset still   *)
(* holds after it, or a record of it is gone or in doubt with it.           *)
(***************************************************************************)
EXTENDS OtaRecords, TLAPS

LEMMA RecordUpdates ==
  ASSUME NEW r \in Records
  PROVE  /\ r.offset \in 0..MaxRecords
         /\ r.slots \in [1..MaxRecords -> Parts \cup {None}]
         /\ \A n \in 0..MaxRecords : [r EXCEPT !.offset = n] \in Records
         /\ \A i \in 1..MaxRecords, p \in Parts :
              /\ [r EXCEPT !.slots[i] = p] \in Records
              /\ [r EXCEPT !.slots[i] = p].offset = r.offset
              /\ \A k \in 1..MaxRecords : [r EXCEPT !.slots[i] = p].slots[k] \in {r.slots[k], p}
<1>1. r.offset \in 0..MaxRecords /\ r.slots \in [1..MaxRecords -> Parts \cup {None}]
  BY DEF Records
<1>2. \A n \in 0..MaxRecords : [r EXCEPT !.offset = n] \in Records
  BY DEF Records
<1>3. ASSUME NEW i \in 1..MaxRecords, NEW p \in Parts
      PROVE  /\ [r EXCEPT !.slots[i] = p] \in Records
             /\ [r EXCEPT !.slots[i] = p].offset = r.offset
             /\ \A k \in 1..MaxRecords : [r EXCEPT !.slots[i] = p].slots[k] \in {r.slots[k], p}
  <2>1. [r.slots EXCEPT ![i] = p] \in [1..MaxRecords -> Parts \cup {None}]
    BY <1>1
  <2>2. [r EXCEPT !.slots[i] = p] = [r EXCEPT !.slots = [r.slots EXCEPT ![i] = p]]
    BY DEF Records
  <2>3. [r EXCEPT !.slots[i] = p] \in Records /\ [r EXCEPT !.slots[i] = p].offset = r.offset
    BY <2>1, <2>2 DEF Records
  <2>4. [r EXCEPT !.slots[i] = p].slots = [r.slots EXCEPT ![i] = p]
    BY DEF Records
  <2> QED
    BY <1>1, <2>3, <2>4
<1> QED
  BY <1>1, <1>2, <1>3

LEMMA MessageUpdates ==
  ASSUME NEW m \in Messages
  PROVE  /\ m.boot \in BOOLEAN /\ m.pkgs \in Seq(Packages)
         /\ m.retry \in Nat /\ m.done \in Nat
         /\ \A n \in Nat : /\ [m EXCEPT !.retry = n] \in Messages
                           /\ [m EXCEPT !.boot = TRUE, !.retry = n] \in Messages
                           /\ [m EXCEPT !.boot = TRUE, !.done = n] \in Messages
BY DEF Messages

LEMMA NoRecType == NoRec \in Records
  BY OtaAssumption DEF NoRec, Records

LEMMA PackageAtWork ==
  ASSUME OnCourse, pc \in Working
  PROVE  /\ pkgLocation + 1 \in DOMAIN asked
         /\ Package = asked[pkgLocation + 1] /\ Package \in Packages
         /\ Script \in Seq(Parts)
<1>1. pkgs = asked /\ pkgLocation < Len(asked) /\ pkgLocation \in Nat
      /\ asked \in Seq(Packages)
  BY DEF Working, OnCourse, MemoryMatchesMisc, TypeOK
<1>2. pkgLocation + 1 \in DOMAIN asked
  BY <1>1
<1>3. asked[pkgLocation + 1] \in Packages
  BY <1>1, <1>2
<1> QED
  BY <1>1, <1>2, <1>3, OtaAssumption DEF Package, Script

LEMMA PartAtWork ==
  ASSUME OnCourse, pc \in {"writing", "written", "slotted", "recorded"} \/ InScript
  PROVE  /\ pc \in Working /\ idx \in DOMAIN Script /\ Part \in Parts
         /\ Part \in PartsIn(asked[pkgLocation + 1])
<1>1. pc \in Working
  BY DEF Working, Child, InScript
<1>2. Script \in Seq(Parts) /\ Package = asked[pkgLocation + 1]
  BY <1>1, PackageAtWork
<1>3. idx \in DOMAIN Script
  BY <1>1, <1>2 DEF OnCourse, AtItsPart, InScript, TypeOK, Child
<1> QED
  BY <1>1, <1>2, <1>3 DEF Part, Script, PartsIn

LEMMA OnCourseStays == OnCourse /\ [Next]_vars => OnCourse'
<1> SUFFICES ASSUME OnCourse, [Next]_vars PROVE OnCourse'
  OBVIOUS
<1> USE DEF disk, memory, past
<1>m. rec \in Records /\ stored \in Records /\ msg \in Messages /\ pkgLocation \in Nat
  BY DEF OnCourse, TypeOK
<1>t. TypeOK
  BY DEF OnCourse
<1>1. CASE Boot
  <2> USE <1>1 DEF Boot
  <2>1. TypeOK'
    <3>1. msg.pkgs \in Seq(Packages) /\ msg.retry \in Nat /\ msg.done \in Nat
      BY DEF OnCourse, TypeOK, Messages
    <3>2. pkgs' \in Seq(Packages) /\ retryCount' \in Nat /\ pkgLocation' \in Nat /\ pc' \in Places
      <4>1. CASE msg.boot
        BY <3>1, <4>1 DEF Places
      <4>2. CASE ~msg.boot
        BY <4>2 DEF Places
      <4> QED
        BY <4>1, <4>2
    <3> QED
      BY <3>2 DEF OnCourse, TypeOK, Places
  <2>2. MemoryMatchesMisc'
    BY DEF OnCourse, MemoryMatchesMisc, TypeOK, Messages, Child
  <2>3. AtItsPart'
    BY DEF OnCourse, AtItsPart, TypeOK, Child, Script, Package, Part
  <2>4. RetriesCounted'
    BY DEF OnCourse, RetriesCounted, MemoryMatchesMisc, TypeOK, Messages, Working, Child
  <2>5. OpenUntilPost'
    BY DEF OnCourse, OpenUntilPost, Working, Child
  <2> QED
    BY <2>1, <2>2, <2>3, <2>4, <2>5 DEF OnCourse
<1>2. CASE ClearRecordPartitionOffset
  <2> USE <1>2 DEF ClearRecordPartitionOffset
  <2>1. TypeOK'
    <3>1. rec \in Records /\ 0 \in 0..MaxRecords
      BY OtaAssumption DEF OnCourse, TypeOK
    <3>2. [rec EXCEPT !.offset = 0] \in Records
      BY <3>1, RecordUpdates
    <3> QED
      BY <3>2 DEF OnCourse, TypeOK, Places
  <2>2. MemoryMatchesMisc'
    BY DEF OnCourse, MemoryMatchesMisc, TypeOK, Messages, Child
  <2>3. AtItsPart'
    BY DEF OnCourse, AtItsPart, TypeOK, Child, Script, Package, Part
  <2>4. RetriesCounted'
    BY DEF OnCourse, RetriesCounted, MemoryMatchesMisc, TypeOK, Messages, Working, Child
  <2>5. OpenUntilPost'
    BY DEF OnCourse, OpenUntilPost, Working, Child
  <2> QED
    BY <2>1, <2>2, <2>3, <2>4, <2>5 DEF OnCourse
<1>3. CASE SetRetryCount
  <2> USE <1>3 DEF SetRetryCount
  <2>1. TypeOK'
    <3>1. msg' \in Messages
      BY MessageUpdates DEF OnCourse, TypeOK
    <3> QED
      BY <3>1 DEF OnCourse, TypeOK, Places
  <2>2. MemoryMatchesMisc'
    BY DEF OnCourse, MemoryMatchesMisc, TypeOK, Messages, Child
  <2>3. AtItsPart'
    BY DEF OnCourse, AtItsPart, TypeOK, Child, Script, Package, Part
  <2>4. RetriesCounted'
    BY DEF OnCourse, RetriesCounted, MemoryMatchesMisc, TypeOK, Messages, Working, Child
  <2>5. OpenUntilPost'
    BY DEF OnCourse, OpenUntilPost, Working, Child
  <2> QED
    BY <2>1, <2>2, <2>3, <2>4, <2>5 DEF OnCourse
<1>4. CASE SkipCommands
  <2> USE <1>4 DEF SkipCommands, InScript
  <2>1. TypeOK'
    <3>1. content' \in [Parts -> Packages \cup {Torn, Factory}]
      BY PartAtWork, PackageAtWork DEF OnCourse, TypeOK
    <3> QED
      BY <3>1 DEF OnCourse, TypeOK, Places
  <2>2. MemoryMatchesMisc'
    BY DEF OnCourse, MemoryMatchesMisc, TypeOK, Messages, Child
  <2>3. AtItsPart'
    BY DEF OnCourse, AtItsPart, TypeOK, Child, Script, Package, Part
  <2>4. RetriesCounted'
    BY DEF OnCourse, RetriesCounted, MemoryMatchesMisc, TypeOK, Messages, Working, Child
  <2>5. OpenUntilPost'
    BY DEF OnCourse, OpenUntilPost, Working, Child
  <2> QED
    BY <2>1, <2>2, <2>3, <2>4, <2>5 DEF OnCourse
<1>5. CASE BeginWrite
  <2> USE <1>5 DEF BeginWrite, InScript
  <2>p. Part \in Parts /\ Package \in Packages /\ pkgLocation < Len(asked)
    BY PartAtWork, PackageAtWork DEF OnCourse, MemoryMatchesMisc, Working, Child
  <2>1. TypeOK'
    <3>1. content' \in [Parts -> Packages \cup {Torn, Factory}]
      BY <2>p DEF OnCourse, TypeOK
    <3> QED
      BY <3>1 DEF OnCourse, TypeOK, Places
  <2>2. MemoryMatchesMisc'
    BY DEF OnCourse, MemoryMatchesMisc, TypeOK, Messages, Child
  <2>3. AtItsPart'
    BY DEF OnCourse, AtItsPart, TypeOK, Child, Script, Package, Part
  <2>4. RetriesCounted'
    BY DEF OnCourse, RetriesCounted, MemoryMatchesMisc, TypeOK, Messages, Working, Child
  <2>5. OpenUntilPost'
    BY DEF OnCourse, OpenUntilPost, Working, Child
  <2> QED
    BY <2>1, <2>2, <2>3, <2>4, <2>5 DEF OnCourse
<1>6. CASE RegisterForRetry
  <2> USE <1>6 DEF RegisterForRetry
  <2>p. Part \in Parts /\ Package \in Packages /\ pkgLocation < Len(asked)
    BY PartAtWork, PackageAtWork DEF OnCourse, MemoryMatchesMisc, Working, Child
  <2>1. TypeOK'
    <3>1. retryFile' \in [Parts -> Packages \cup {None}]
      BY <2>p DEF OnCourse, TypeOK
    <3> QED
      BY <3>1 DEF OnCourse, TypeOK, Places
  <2>2. MemoryMatchesMisc'
    BY DEF OnCourse, MemoryMatchesMisc, TypeOK, Messages, Child
  <2>3. AtItsPart'
    BY DEF OnCourse, AtItsPart, TypeOK, Child, Script, Package, Part
  <2>4. RetriesCounted'
    BY DEF OnCourse, RetriesCounted, MemoryMatchesMisc, TypeOK, Messages, Working, Child
  <2>5. OpenUntilPost'
    BY DEF OnCourse, OpenUntilPost, Working, Child
  <2> QED
    BY <2>1, <2>2, <2>3, <2>4, <2>5 DEF OnCourse
<1>7. CASE FinishWrite
  <2> USE <1>7 DEF FinishWrite
  <2>p. Part \in Parts /\ Package \in Packages /\ pkgLocation < Len(asked)
    BY PartAtWork, PackageAtWork DEF OnCourse, MemoryMatchesMisc, Working, Child
  <2>1. TypeOK'
    <3>1. content' \in [Parts -> Packages \cup {Torn, Factory}]
      BY <2>p DEF OnCourse, TypeOK
    <3>2. cached' \in Parts \cup {None}
      BY <2>p DEF OnCourse, TypeOK
    <3> QED
      BY <3>1, <3>2 DEF OnCourse, TypeOK, Places
  <2>2. MemoryMatchesMisc'
    BY DEF OnCourse, MemoryMatchesMisc, TypeOK, Messages, Child
  <2>3. AtItsPart'
    BY DEF OnCourse, AtItsPart, TypeOK, Child, Script, Package, Part
  <2>4. RetriesCounted'
    BY DEF OnCourse, RetriesCounted, MemoryMatchesMisc, TypeOK, Messages, Working, Child
  <2>5. OpenUntilPost'
    BY DEF OnCourse, OpenUntilPost, Working, Child
  <2> QED
    BY <2>1, <2>2, <2>3, <2>4, <2>5 DEF OnCourse
<1>8. CASE RecordSlot
  <2> USE <1>8 DEF RecordSlot
  <2>p. Part \in Parts /\ Package \in Packages /\ pkgLocation < Len(asked)
    BY PartAtWork, PackageAtWork DEF OnCourse, MemoryMatchesMisc, Working, Child
  <2>1. TypeOK'
    <3>1. rec' \in Records
      <4>1. rec \in Records
        BY DEF OnCourse, TypeOK
      <4>2. rec.offset < MaxRecords => rec.offset + 1 \in 1..MaxRecords
        BY <4>1, RecordUpdates, OtaAssumption
      <4>3. CASE rec.offset < MaxRecords
        BY <2>p, <4>1, <4>2, <4>3, RecordUpdates
      <4>4. CASE ~(rec.offset < MaxRecords)
        BY <4>1, <4>4
      <4> QED
        BY <4>3, <4>4
    <3> QED
      BY <3>1 DEF OnCourse, TypeOK, Places
  <2>2. MemoryMatchesMisc'
    BY DEF OnCourse, MemoryMatchesMisc, TypeOK, Messages, Child
  <2>3. AtItsPart'
    <3>1. rec.offset < MaxRecords => rec'.offset = rec.offset
      <4>1. [rec EXCEPT !.slots[rec.offset + 1] = Part].offset = rec.offset
        BY <1>m DEF Records
      <4> QED
        BY <4>1
    <3> QED
      BY <3>1 DEF OnCourse, AtItsPart, Child, Script, Package
  <2>4. RetriesCounted'
    BY DEF OnCourse, RetriesCounted, MemoryMatchesMisc, TypeOK, Messages, Working, Child
  <2>5. OpenUntilPost'
    BY DEF OnCourse, OpenUntilPost, Working, Child
  <2> QED
    BY <2>1, <2>2, <2>3, <2>4, <2>5 DEF OnCourse
<1>9. CASE RecordOffset
  <2> USE <1>9 DEF RecordOffset
  <2>1. TypeOK'
    <3>1. rec' \in Records
      <4>1. rec \in Records /\ rec.offset < MaxRecords
        BY DEF OnCourse, TypeOK, AtItsPart
      <4>2. rec.offset + 1 \in 0..MaxRecords
        BY <4>1, RecordUpdates, OtaAssumption
      <4> QED
        BY <4>1, <4>2, RecordUpdates
    <3> QED
      BY <3>1 DEF OnCourse, TypeOK, Places
  <2>2. MemoryMatchesMisc'
    BY DEF OnCourse, MemoryMatchesMisc, TypeOK, Messages, Child
  <2>3. AtItsPart'
    BY DEF OnCourse, AtItsPart, TypeOK, Child, Script, Package, Part
  <2>4. RetriesCounted'
    BY DEF OnCourse, RetriesCounted, MemoryMatchesMisc, TypeOK, Messages, Working, Child
  <2>5. OpenUntilPost'
    BY DEF OnCourse, OpenUntilPost, Working, Child
  <2> QED
    BY <2>1, <2>2, <2>3, <2>4, <2>5 DEF OnCourse
<1>10. CASE ReleaseDataWriter
  <2> USE <1>10 DEF ReleaseDataWriter
  <2>1. TypeOK'
    <3>1. idx' \in Nat
      BY DEF OnCourse, TypeOK
    <3> QED
      BY <3>1 DEF OnCourse, TypeOK, Places
  <2>2. MemoryMatchesMisc'
    BY DEF OnCourse, MemoryMatchesMisc, TypeOK, Messages, Child
  <2>3. AtItsPart'
    BY DEF OnCourse, AtItsPart, TypeOK, Child, Script, Package, Part
  <2>4. RetriesCounted'
    BY DEF OnCourse, RetriesCounted, MemoryMatchesMisc, TypeOK, Messages, Working, Child
  <2>5. OpenUntilPost'
    BY DEF OnCourse, OpenUntilPost, Working, Child
  <2> QED
    BY <2>1, <2>2, <2>3, <2>4, <2>5 DEF OnCourse
<1>11. CASE RebootRetry
  <2> USE <1>11 DEF RebootRetry
  <2>1. TypeOK'
    <3>1. msg \in Messages /\ retryCount + 1 \in Nat /\ faultReboots' \in Nat
      BY DEF OnCourse, TypeOK
    <3>2. [msg EXCEPT !.retry = retryCount + 1] \in Messages
      BY <3>1, MessageUpdates
    <3> QED
      BY <3>1, <3>2 DEF OnCourse, TypeOK, Places
  <2>2. MemoryMatchesMisc'
    BY DEF OnCourse, MemoryMatchesMisc, TypeOK, Messages, Child
  <2>3. AtItsPart'
    BY DEF OnCourse, AtItsPart, TypeOK, Child, Script, Package, Part
  <2>4. RetriesCounted'
    <3>1. msg'.retry = retryCount + 1 /\ faultReboots' = faultReboots + 1 /\ pc' = "off"
      BY <1>m DEF Messages
    <3>2. faultReboots <= retryCount /\ retryCount < MaxRetry
      BY DEF OnCourse, RetriesCounted, Working, Child
    <3>3. faultReboots \in Nat /\ retryCount \in Nat /\ MaxRetry \in Nat
      BY OtaAssumption DEF OnCourse, TypeOK
    <3>4. faultReboots' <= MaxRetry /\ faultReboots' <= msg'.retry
      BY <3>1, <3>2, <3>3
    <3> QED
      BY <3>1, <3>4 DEF RetriesCounted, Working, Child
  <2>5. OpenUntilPost'
    BY DEF OnCourse, OpenUntilPost, Working, Child
  <2> QED
    BY <2>1, <2>2, <2>3, <2>4, <2>5 DEF OnCourse
<1>12. CASE PackageInstalled
  <2> USE <1>12 DEF PackageInstalled
  <2>p. pkgLocation < Len(asked)
    BY DEF OnCourse, MemoryMatchesMisc, Working, Child
  <2>1. TypeOK'
    <3>1. msg \in Messages /\ pkgLocation + 1 \in Nat
      BY <2>p DEF OnCourse, TypeOK
    <3>2. [msg EXCEPT !.boot = TRUE, !.done = pkgLocation + 1] \in Messages
      BY <3>1, MessageUpdates
    <3> QED
      BY <3>1, <3>2 DEF OnCourse, TypeOK, Places
  <2>2. MemoryMatchesMisc'
    BY DEF OnCourse, MemoryMatchesMisc, TypeOK, Messages, Child
  <2>3. AtItsPart'
    BY DEF OnCourse, AtItsPart, TypeOK, Child, Script, Package, Part
  <2>4. RetriesCounted'
    BY DEF OnCourse, RetriesCounted, MemoryMatchesMisc, TypeOK, Messages, Working, Child
  <2>5. OpenUntilPost'
    BY DEF OnCourse, OpenUntilPost, Working, Child
  <2> QED
    BY <2>1, <2>2, <2>3, <2>4, <2>5 DEF OnCourse
<1>13. CASE ClearRecords
  <2> USE <1>13 DEF ClearRecords
  <2>1. TypeOK'
    <3>1. rec' \in Records /\ stored' \in Records
      BY NoRecType, RecordUpdates, OtaAssumption DEF OnCourse, TypeOK
    <3> QED
      BY <3>1 DEF OnCourse, TypeOK, Places
  <2>2. MemoryMatchesMisc'
    BY DEF OnCourse, MemoryMatchesMisc, TypeOK, Messages, Child
  <2>3. AtItsPart'
    BY DEF OnCourse, AtItsPart, TypeOK, Child, Script, Package, Part
  <2>4. RetriesCounted'
    BY DEF OnCourse, RetriesCounted, MemoryMatchesMisc, TypeOK, Messages, Working, Child
  <2>5. OpenUntilPost'
    BY DEF OnCourse, OpenUntilPost, Working, Child
  <2> QED
    BY <2>1, <2>2, <2>3, <2>4, <2>5 DEF OnCourse
<1>14. CASE MountDataFails \/ PreUpdatePackages \/ InstallFails \/ NoMoreRetry \/ PostUpdatePackages
  <2> USE <1>14 DEF MountDataFails, PreUpdatePackages, InstallFails, NoMoreRetry, PostUpdatePackages, InScript
  <2>1. TypeOK'
    BY DEF OnCourse, TypeOK, Messages, Places
  <2>2. MemoryMatchesMisc'
    BY DEF OnCourse, MemoryMatchesMisc, TypeOK, Messages, Child
  <2>3. AtItsPart'
    BY DEF OnCourse, AtItsPart, TypeOK, Child, Script, Package, Part
  <2>4. RetriesCounted'
    BY DEF OnCourse, RetriesCounted, MemoryMatchesMisc, TypeOK, Messages, Working, Child
  <2>5. OpenUntilPost'
    BY DEF OnCourse, OpenUntilPost, Working, Child
  <2> QED
    BY <2>1, <2>2, <2>3, <2>4, <2>5 DEF OnCourse
<1>15. CASE ResumeInstall \/ SkipUpdated \/ ScriptDone \/ ScriptFault
  <2>1. TypeOK'
    <3>1. /\ UNCHANGED <<disk, past, pkgs, retryCount, pkgLocation, status>>
          /\ pc' \in Places /\ (idx' = idx \/ idx' = 1 \/ idx' = idx + 1)
      BY <1>15, <1>t DEF ResumeInstall, SkipUpdated, ScriptDone, ScriptFault, memory, Places, TypeOK
    <3> QED
      BY <1>t, <3>1 DEF TypeOK, disk, past
  <2> USE <1>15 DEF ResumeInstall, SkipUpdated, ScriptDone, ScriptFault, InScript
  <2>2. MemoryMatchesMisc'
    BY DEF OnCourse, MemoryMatchesMisc, TypeOK, Messages, Child
  <2>3. AtItsPart'
    BY DEF OnCourse, AtItsPart, TypeOK, Child, Script, Package, Part
  <2>4. RetriesCounted'
    BY DEF OnCourse, RetriesCounted, MemoryMatchesMisc, TypeOK, Messages, Working, Child
  <2>5. OpenUntilPost'
    BY DEF OnCourse, OpenUntilPost, Working, Child
  <2> QED
    BY <2>1, <2>2, <2>3, <2>4, <2>5 DEF OnCourse
<1>16. CASE ClearMessage \/ DeleteUpdaterTmpFiles \/ OnRebootEvt \/ UpdaterDoReboot \/ Crash
  <2> USE <1>16 DEF ClearMessage, DeleteUpdaterTmpFiles, OnRebootEvt, UpdaterDoReboot, Crash, NoMsg
  <2>1. TypeOK'
    <3>1. CASE Crash
      BY <3>1 DEF OnCourse, TypeOK, Messages, Places
    <3>2. CASE ~Crash
      <4>1. NoMsg \in Messages
        BY DEF Messages, NoMsg
      <4>2. msg' \in Messages /\ stored' \in Records /\ pc' \in Places
        BY <1>m, <3>2, <4>1 DEF Places
      <4> QED
        BY <1>t, <3>2, <4>2 DEF TypeOK
    <3> QED
      BY <3>1, <3>2
  <2>2. MemoryMatchesMisc'
    BY DEF OnCourse, MemoryMatchesMisc, TypeOK, Messages, Child
  <2>3. AtItsPart'
    BY DEF OnCourse, AtItsPart, TypeOK, Child, Script, Package, Part
  <2>4. RetriesCounted'
    <3>1. /\ faultReboots' = faultReboots /\ pc' \notin {"pre", "setRetry"} \cup Working
          /\ msg' = msg \/ ~msg'.boot
      BY DEF past, Working, Child
    <3>2. msg'.boot => msg'.retry = msg.retry /\ msg.boot
      BY <3>1
    <3> QED
      BY <3>1, <3>2 DEF OnCourse, RetriesCounted
  <2>5. OpenUntilPost'
    <3>1. pc' \notin {"system", "pre"} \cup Working
      BY DEF Working, Child
    <3>2. cached' = None \/ (cached' = cached /\ pc = "clearMsg" /\ pc' = "clearRec")
                         \/ (cached' = cached /\ pc = "reboot")
      OBVIOUS
    <3> QED
      BY <3>1, <3>2 DEF OnCourse, OpenUntilPost
  <2> QED
    BY <2>1, <2>2, <2>3, <2>4, <2>5 DEF OnCourse
<1>c. ASSUME NEW u \in Updates, RebootAndInstallUpgradePackage(u)
      PROVE  OnCourse'
  <2>1. TypeOK'
    <3>1. u \in Seq(Packages)
      BY OtaAssumption
    <3>2. msg' \in Messages
      BY <1>c, <3>1 DEF RebootAndInstallUpgradePackage, Messages
    <3>3. updates' \in Nat /\ faultReboots' \in Nat
      BY <1>c, <1>t DEF RebootAndInstallUpgradePackage, TypeOK
    <3>4. interrupted' \in BOOLEAN
      BY <1>c DEF RebootAndInstallUpgradePackage
    <3> QED
      BY <1>c, <1>t, <3>1, <3>2, <3>3, <3>4 DEF RebootAndInstallUpgradePackage, TypeOK, Places
  <2>2. MemoryMatchesMisc' /\ AtItsPart' /\ OpenUntilPost'
    BY <1>c DEF RebootAndInstallUpgradePackage, OnCourse, MemoryMatchesMisc, AtItsPart,
       OpenUntilPost, Working, Child
  <2>3. RetriesCounted'
    BY <1>c, OtaAssumption DEF RebootAndInstallUpgradePackage, RetriesCounted, Working, Child
  <2> QED
    BY <2>1, <2>2, <2>3 DEF OnCourse
<1>s. CASE UNCHANGED vars
  <2> USE <1>s DEF vars
  <2>1. TypeOK'
    BY DEF OnCourse, TypeOK
  <2>2. MemoryMatchesMisc' /\ RetriesCounted' /\ OpenUntilPost'
    BY DEF OnCourse, MemoryMatchesMisc, RetriesCounted, OpenUntilPost
  <2>3. AtItsPart'
    BY DEF OnCourse, AtItsPart, Script, Package
  <2> QED
    BY <2>1, <2>2, <2>3 DEF OnCourse
<1> QED
  BY <1>c, <1>s, <1>1, <1>2, <1>3, <1>4, <1>5, <1>6, <1>7, <1>8, <1>9, <1>10, <1>11, <1>12,
     <1>13, <1>14, <1>15, <1>16 DEF Next, Updater, Install, Finish

\* Packages in place are not disturbed by a write to a partition of the next one.
LEMMA WriteLeavesInPlace ==
  ASSUME OnCourse, pc \in Working, InPlace(pkgLocation, pkgLocation + 1),
         Part \in PartsIn(asked[pkgLocation + 1]), NEW v,
         content' = [content EXCEPT ![Part] = v],
         asked' = asked, pkgLocation' = pkgLocation
  PROVE  InPlace(pkgLocation, pkgLocation + 1)'
<1> SUFFICES ASSUME NEW i \in 1..pkgLocation, NEW p \in PartsIn(asked[i]),
                    \A j \in (i + 1)..(pkgLocation + 1) : p \notin PartsIn(asked[j])
             PROVE  content'[p] = asked[i]
  BY DEF InPlace, PartsIn
<1>1. pkgLocation \in Nat
  BY DEF OnCourse, TypeOK
<1>2. pkgLocation + 1 \in (i + 1)..(pkgLocation + 1)
  BY <1>1
<1>3. p # Part
  BY <1>2
<1>4. content[p] = asked[i]
  BY DEF InPlace
<1>5. p \in DOMAIN content
  <2>1. asked[i] \in Packages
    BY <1>1, PackageAtWork DEF OnCourse, TypeOK
  <2> QED
    BY <2>1, OtaAssumption DEF OnCourse, TypeOK, PartsIn
<1> QED
  BY <1>3, <1>4, <1>5

LEMMA WriteLeavesScript ==
  ASSUME OnCourse, pc \in Working, ScriptInPlace, Part \in Parts, NEW v,
         content' = [content EXCEPT ![Part] = v], v = Package \/ content[Part] # Package,
         UNCHANGED <<pkgs, pkgLocation, idx>>
  PROVE  ScriptInPlace'
<1>1. Script' = Script /\ Package' = Package /\ Script \in Seq(Parts)
  BY PackageAtWork DEF Script, Package
<1>2. \A n \in DOMAIN Script : Script[n] \in Parts
  BY <1>1
<1>3. content \in [Parts -> Packages \cup {Torn, Factory}]
  BY DEF OnCourse, TypeOK
<1> QED
  BY <1>1, <1>2, <1>3 DEF ScriptInPlace

LEMMA AllInPlace ==
  ASSUME OnCourse, InPlace(Len(asked), Len(asked))
  PROVE  IsInstalled(asked)
<1>1. asked \in Seq(Packages)
  BY DEF OnCourse, TypeOK
<1> SUFFICES ASSUME NEW i \in DOMAIN asked, NEW p \in PartsIn(asked[i]),
                    \A j \in DOMAIN asked : j > i => p \notin PartsIn(asked[j])
             PROVE  content[p] = asked[i]
  BY DEF IsInstalled
<1>2. i \in 1..Len(asked)
  BY <1>1
<1>3. \A j \in (i + 1)..Len(asked) : j \in DOMAIN asked /\ j > i
  BY <1>1, <1>2
<1> QED
  BY <1>2, <1>3 DEF InPlace

\* What a step that leaves the partitions and the asked packages alone keeps.
LEMMA InPlaceStays ==
  ASSUME content' = content, asked' = asked
  PROVE  /\ \A n, m : InPlace(n, m) => InPlace(n, m)'
         /\ IsInstalled(asked) => IsInstalled(asked)'
BY DEF InPlace, IsInstalled, PartsIn

LEMMA ScriptInPlaceStays ==
  ASSUME ScriptInPlace, UNCHANGED <<content, pkgs, pkgLocation, idx>>
  PROVE  ScriptInPlace'
BY DEF ScriptInPlace, Script, Package

LEMMA FirstRunStays == AnyInv /\ [Next]_vars /\ ~interrupted' => FirstRun'
<1> SUFFICES ASSUME AnyInv, [Next]_vars, ~interrupted' PROVE FirstRun'
  OBVIOUS
<1> USE DEF disk, memory, past
<1>0. OnCourse /\ OnCourse'
  BY OnCourseStays DEF AnyInv
<1>1. TypeOK /\ MemoryMatchesMisc
  BY <1>0 DEF OnCourse
<1>2. CASE Boot \/ MountDataFails \/ PostUpdatePackages \/ ClearMessage \/ ClearRecords
           \/ DeleteUpdaterTmpFiles \/ OnRebootEvt \/ UpdaterDoReboot \/ NoMoreRetry \/ InstallFails
  <2>1. FirstRun /\ content' = content /\ asked' = asked
    BY <1>2 DEF AnyInv, Boot, MountDataFails, PostUpdatePackages, ClearMessage, ClearRecords,
      DeleteUpdaterTmpFiles, OnRebootEvt, UpdaterDoReboot, NoMoreRetry, InstallFails
  <2>2. pc' \notin Working /\ (status' = "success" \/ result' = "pass" => IsInstalled(asked))
    BY <1>2, <2>1 DEF FirstRun, Working, Child, Boot, MountDataFails, PostUpdatePackages, ClearMessage,
      ClearRecords, DeleteUpdaterTmpFiles, OnRebootEvt, UpdaterDoReboot, NoMoreRetry, InstallFails
  <2>3. pc' = "off" => ~msg'.boot
    BY <1>2, <2>1 DEF Boot, MountDataFails, PostUpdatePackages, ClearMessage, NoMsg,
      ClearRecords, DeleteUpdaterTmpFiles, OnRebootEvt, UpdaterDoReboot, NoMoreRetry, InstallFails
  <2>4. pc' = "pre" => pkgLocation' = 0 /\ retryCount' = 0
    BY <1>2, <2>1 DEF FirstRun, Boot, MountDataFails, PostUpdatePackages, ClearMessage,
      ClearRecords, DeleteUpdaterTmpFiles, OnRebootEvt, UpdaterDoReboot, NoMoreRetry, InstallFails
  <2> QED
    BY <2>1, <2>2, <2>3, <2>4, InPlaceStays DEF FirstRun, Working, Child
<1>3. CASE PreUpdatePackages
  <2> USE <1>3 DEF PreUpdatePackages
  <2>1. FirstRun /\ content' = content /\ asked' = asked /\ pkgLocation = 0 /\ pkgs = asked
    BY <1>1 DEF AnyInv, FirstRun, MemoryMatchesMisc
  <2>2. InPlace(0, 0) /\ (Len(asked) = 0 => IsInstalled(asked))
    BY <1>1 DEF InPlace, IsInstalled, TypeOK
  <2>3. status = "unknown" /\ pc = "pre"
    BY <1>0 DEF OnCourse, OpenUntilPost
  <2>4. status' = "success" => Len(asked) = 0
    BY <1>1, <2>1, <2>3 DEF TypeOK
  <2> QED
    BY <2>1, <2>2, <2>3, <2>4, InPlaceStays DEF FirstRun, Working, Child
<1>4. CASE ClearRecordPartitionOffset \/ SetRetryCount \/ ResumeInstall
  <2>1. /\ FirstRun /\ content' = content /\ asked' = asked /\ pc \in {"install", "setRetry"}
        /\ UNCHANGED <<retryCount, result, status, pkgs, pkgLocation>>
        /\ pc' = "setRetry" \/ (pc' = "script" /\ idx' = 1)
    BY <1>4 DEF AnyInv, ClearRecordPartitionOffset, SetRetryCount, ResumeInstall
  <2>2. InPlace(pkgLocation, pkgLocation) /\ retryCount = 0 /\ result = "none"
    BY <2>1 DEF FirstRun, Working
  <2>3. InPlace(pkgLocation, pkgLocation + 1)
    BY <1>1, <2>2 DEF InPlace, TypeOK
  <2>4. idx' = 1 => ScriptInPlace'
    <3>1. Script' = Script /\ Script \in Seq(Parts)
      BY <1>0, <2>1, PackageAtWork DEF Script, Package, Working
    <3>2. idx' = 1 => \A n \in DOMAIN Script : ~(n < idx')
      BY <3>1
    <3> QED
      BY <3>1, <3>2 DEF ScriptInPlace
  <2> QED
    BY <2>1, <2>2, <2>3, <2>4, InPlaceStays DEF FirstRun, Working, Child
<1>5. CASE SkipUpdated \/ SkipCommands
  <2>1. FirstRun /\ pc = "script" /\ retryCount > 0
    BY <1>5 DEF AnyInv, SkipUpdated, SkipCommands, InScript, Skips, SkipsAll
  <2> QED
    BY <2>1 DEF FirstRun, Working, Child
<1>6. CASE BeginWrite \/ FinishWrite
  <2>1. /\ FirstRun /\ pc \in {"script", "writing"} /\ pc' \in {"writing", "written"}
        /\ UNCHANGED <<asked, retryCount, result, status, pkgs, pkgLocation, idx>>
        /\ pc \in {"writing", "written", "slotted", "recorded"} \/ InScript
    BY <1>6 DEF AnyInv, BeginWrite, FinishWrite, InScript
  <2>2. /\ pc \in Working /\ Part \in Parts /\ Part \in PartsIn(asked[pkgLocation + 1])
    BY <1>0, <2>1, PartAtWork
  <2>3. InPlace(pkgLocation, pkgLocation + 1) /\ ScriptInPlace /\ retryCount = 0 /\ result = "none"
    BY <2>1 DEF FirstRun, Working, Child
  <2>4. PICK v : /\ content' = [content EXCEPT ![Part] = v]
                 /\ v = Package \/ content[Part] # Package
                 /\ pc' = "written" => v = Package
    BY <1>1, <2>2, <1>6 DEF BeginWrite, FinishWrite, TypeOK
  <2>5. InPlace(pkgLocation, pkgLocation + 1)'
    BY <1>0, <2>1, <2>2, <2>3, <2>4, WriteLeavesInPlace
  <2>6. ScriptInPlace'
    BY <1>0, <2>1, <2>2, <2>3, <2>4, WriteLeavesScript
  <2>7. pc' = "written" => (content[Part] = Package)'
    BY <1>1, <2>1, <2>2, <2>4 DEF Part, Script, Package, TypeOK
  <2>8. status' = "unknown"
    BY <1>0, <2>1 DEF OnCourse, OpenUntilPost, Working, Child
  <2> QED
    BY <2>1, <2>3, <2>5, <2>6, <2>7, <2>8 DEF FirstRun, Working, Child
<1>7. CASE RegisterForRetry \/ RecordSlot \/ RecordOffset \/ ScriptDone \/ ScriptFault
  <2>1. /\ FirstRun /\ pc \in Child /\ pc' \in Child
        /\ UNCHANGED <<content, asked, retryCount, result, status, pkgs, pkgLocation, idx>>
        /\ pc' \in {"written", "slotted", "recorded"} => pc \in {"written", "slotted"}
    BY <1>7 DEF AnyInv, RegisterForRetry, RecordSlot, RecordOffset, ScriptDone, ScriptFault, InScript, Child
  <2>2. /\ InPlace(pkgLocation, pkgLocation + 1) /\ ScriptInPlace /\ retryCount = 0 /\ result = "none"
        /\ pc \in {"written", "slotted"} => content[Part] = Package
    BY <2>1 DEF FirstRun, Working
  <2>3. InPlace(pkgLocation, pkgLocation + 1)' /\ ScriptInPlace'
    BY <2>1, <2>2, InPlaceStays, ScriptInPlaceStays
  <2>4. pc \in {"written", "slotted"} => (content[Part] = Package)'
    BY <2>1, <2>2 DEF Part, Script, Package
  <2>5. status' = "unknown"
    BY <1>0, <2>1 DEF OnCourse, OpenUntilPost, Working
  <2> QED
    BY <2>1, <2>2, <2>3, <2>4, <2>5 DEF FirstRun, Working, Child
<1>8. CASE ReleaseDataWriter
  <2>1. /\ FirstRun /\ pc = "recorded" /\ pc' = "script" /\ idx' = idx + 1
        /\ UNCHANGED <<content, asked, retryCount, result, status, pkgs, pkgLocation>>
    BY <1>8 DEF AnyInv, ReleaseDataWriter
  <2>2. /\ InPlace(pkgLocation, pkgLocation + 1) /\ ScriptInPlace /\ retryCount = 0 /\ result = "none"
        /\ content[Part] = Package
    BY <2>1 DEF FirstRun, Working, Child
  <2>3. Script' = Script /\ Package' = Package /\ Script \in Seq(Parts) /\ idx \in Nat
    BY <1>0, <1>1, <2>1, PackageAtWork DEF Script, Package, Working, Child, TypeOK
  <2>4. \A n \in DOMAIN Script : n < idx + 1 => n < idx \/ n = idx
    BY <2>3
  <2>5. ScriptInPlace'
    BY <2>1, <2>2, <2>3, <2>4 DEF ScriptInPlace, Part
  <2>6. status' = "unknown"
    BY <1>0, <2>1 DEF OnCourse, OpenUntilPost, Working, Child
  <2> QED
    BY <2>1, <2>2, <2>5, <2>6, InPlaceStays DEF FirstRun, Working, Child
<1>9. CASE PackageInstalled
  <2>1. /\ FirstRun /\ pc = "installed" /\ pkgLocation' = pkgLocation + 1
        /\ UNCHANGED <<content, asked, retryCount, result, pkgs>>
    BY <1>9 DEF AnyInv, PackageInstalled
  <2>2. /\ InPlace(pkgLocation, pkgLocation + 1) /\ ScriptInPlace /\ retryCount = 0 /\ result = "none"
        /\ pkgs = asked /\ pkgLocation < Len(asked) /\ pkgLocation \in Nat /\ idx > Len(Script)
        /\ asked \in Seq(Packages) /\ idx \in Nat
    BY <1>0, <2>1 DEF FirstRun, Working, Child, OnCourse, MemoryMatchesMisc, AtItsPart, TypeOK
  <2>3. Package = asked[pkgLocation + 1] /\ Script \in Seq(Parts)
    BY <1>0, <2>1, PackageAtWork DEF Working, Child
  <2>4. \A p \in PartsIn(asked[pkgLocation + 1]) : content[p] = asked[pkgLocation + 1]
    BY <2>2, <2>3 DEF ScriptInPlace, PartsIn, Script
  <2>5. InPlace(pkgLocation + 1, pkgLocation + 1)
    <3>1. \A i \in 1..(pkgLocation + 1) : i \in 1..pkgLocation \/ i = pkgLocation + 1
      BY <2>2
    <3> QED
      BY <2>2, <2>4, <3>1 DEF InPlace
  <2>6. pkgLocation + 1 < Len(asked) \/ pkgLocation + 1 = Len(asked)
    BY <2>2
  <2>7. status = "unknown"
    BY <1>0, <2>1 DEF OnCourse, OpenUntilPost, Working, Child
  <2>8. CASE pkgLocation + 1 < Len(asked)
    <3>1. pc' = "install" /\ status' = status
      BY <1>9, <2>2, <2>8 DEF PackageInstalled
    <3>2. InPlace(pkgLocation, pkgLocation)'
      <4>1. pkgLocation' = pkgLocation + 1 /\ content' = content /\ asked' = asked
        BY <2>1
      <4> QED
        BY <4>1, <2>5 DEF InPlace, PartsIn
    <3> QED
      BY <2>1, <2>2, <2>7, <3>1, <3>2 DEF FirstRun, Working, Child
  <2>9. CASE pkgLocation + 1 = Len(asked)
    <3>1. pc' = "post"
      BY <1>9, <2>2, <2>9 DEF PackageInstalled
    <3>2. IsInstalled(asked)
      BY <1>0, <2>5, <2>9, AllInPlace
    <3> QED
      BY <2>1, <3>1, <3>2, InPlaceStays DEF FirstRun, Working, Child
  <2> QED
    BY <2>6, <2>8, <2>9
<1>10. CASE RebootRetry
  BY <1>10 DEF RebootRetry
<1>11. CASE Crash
  <2>1. FirstRun /\ pc = "system" /\ pc' = "off" /\ msg' = msg /\ asked' = asked /\ status' = "unknown"
        /\ result' = result
    BY <1>11 DEF AnyInv, Crash
  <2>2. ~msg.boot /\ cached = None
    BY <1>0, <2>1 DEF OnCourse, OpenUntilPost
  <2>3. content' = content
    BY <1>11, <2>2 DEF Crash
  <2>4. result' = "pass" => IsInstalled(asked)'
    BY <2>1, <2>3, InPlaceStays DEF FirstRun
  <2> QED
    BY <2>1, <2>2, <2>4 DEF FirstRun, Working, Child
<1>12. ASSUME NEW u \in Updates, RebootAndInstallUpgradePackage(u)
       PROVE  FirstRun'
  <2>1. /\ pc' = "off" /\ msg' = [boot |-> TRUE, pkgs |-> u, retry |-> 0, done |-> 0]
        /\ result' = "notstart" /\ status' = status /\ pc = "system"
    BY <1>12 DEF RebootAndInstallUpgradePackage
  <2>2. status = "unknown"
    BY <1>0, <2>1 DEF OnCourse, OpenUntilPost
  <2> QED
    BY <2>1, <2>2 DEF FirstRun, Working, Child
<1>13. CASE UNCHANGED vars
  <2>1. FirstRun /\ UNCHANGED <<pc, content, asked, pkgs, pkgLocation, idx>>
    BY <1>13 DEF vars, AnyInv
  <2>2. ScriptInPlace => ScriptInPlace'
    BY <2>1, ScriptInPlaceStays
  <2>3. content[Part] = Package => (content[Part] = Package)'
    BY <2>1 DEF Part, Script, Package
  <2> QED
    BY <1>13, <2>1, <2>2, <2>3, InPlaceStays DEF vars, FirstRun, Working, Child
<1> QED
  BY <1>2, <1>3, <1>4, <1>5, <1>6, <1>7, <1>8, <1>9, <1>10, <1>11, <1>12, <1>13
     DEF Next, Updater, Install, Finish

LEMMA InitOnCourse == Init => OnCourse
<1> SUFFICES ASSUME Init PROVE OnCourse
  OBVIOUS
<1> USE DEF Init
<1>1. TypeOK
  <2>1. <<>> \in Seq(Packages)
    OBVIOUS
  <2>2. NoMsg \in Messages
    BY <2>1 DEF NoMsg, Messages
  <2> QED
    BY <2>1, <2>2, NoRecType DEF TypeOK, Places
<1>2. MemoryMatchesMisc /\ AtItsPart /\ OpenUntilPost
  BY DEF MemoryMatchesMisc, AtItsPart, OpenUntilPost, NoMsg, Working, Child
<1>3. RetriesCounted
  BY OtaAssumption DEF RetriesCounted, NoMsg, Working, Child
<1> QED
  BY <1>1, <1>2, <1>3 DEF OnCourse

\* A step that is not a reset writes a partition of the package under way only.
LEMMA StepWrites ==
  ASSUME OnCourse, [Next]_vars, NEW p \in Parts, content'[p] # content[p]
  PROVE  \/ pc' = "off" /\ p = cached
         \/ /\ msg.boot /\ msg.done < Len(asked)
            /\ p \in PartsIn(asked[msg.done + 1])
<1>1. CASE SkipCommands \/ BeginWrite \/ FinishWrite
  <2>1. /\ InScript \/ pc \in {"writing", "written", "slotted", "recorded"}
        /\ \E v : content' = [content EXCEPT ![Part] = v]
    BY <1>1 DEF SkipCommands, BeginWrite, FinishWrite
  <2>2. p = Part
    BY <2>1 DEF OnCourse, TypeOK
  <2>3. pc \in Working /\ p \in PartsIn(asked[pkgLocation + 1])
    BY <2>1, <2>2, PartAtWork
  <2> QED
    BY <2>3 DEF OnCourse, MemoryMatchesMisc, Working
<1>2. CASE Crash
  BY <1>2 DEF Crash, OnCourse, TypeOK
<1>3. CASE ~(SkipCommands \/ BeginWrite \/ FinishWrite \/ Crash)
  <2>1. content' = content
    BY <1>3 DEF Next, Updater, Install, Finish, RebootAndInstallUpgradePackage, vars, disk,
      Boot, MountDataFails, PreUpdatePackages, ClearRecordPartitionOffset, SetRetryCount, ResumeInstall,
      SkipUpdated, RegisterForRetry, RecordSlot, RecordOffset, ReleaseDataWriter, ScriptDone, ScriptFault,
      InstallFails, RebootRetry, NoMoreRetry, PackageInstalled, PostUpdatePackages, ClearMessage,
      ClearRecords, DeleteUpdaterTmpFiles, OnRebootEvt, UpdaterDoReboot
  <2> QED
    BY <2>1
<1> QED
  BY <1>1, <1>2, <1>3

-----------------------------------------------------------------------------
\* The inductive invariant of every behaviour holds: whatever an earlier update left in
\* misc and /data/updater, and wherever a reset comes.
THEOREM AnyInvHolds == Spec => []AnyInv
<1>1. Init => AnyInv
  <2>1. Init => (status = "success" \/ result = "pass" => IsInstalled(asked))
    BY DEF Init
  <2>2. Init => FirstRun
    BY <2>1 DEF Init, FirstRun, NoMsg, Working, Child
  <2> QED
    BY <2>2, InitOnCourse DEF AnyInv
<1>2. AnyInv /\ [Next]_vars => AnyInv'
  BY OnCourseStays, FirstRunStays DEF AnyInv
<1> QED
  BY <1>1, <1>2, PTL DEF Spec

\* Every variable keeps its type, MaxRecords slots included.
THEOREM TypesHold == Spec => []TypeOK
<1>1. AnyInv => TypeOK
  BY DEF AnyInv, OnCourse
<1> QED
  BY <1>1, AnyInvHolds, PTL

\* RebootRetry reboots for a hardware fault at most MaxRetry times in one update, whatever
\* power cuts come in between: neither misc nor the updater forgets one.
THEOREM FaultRetriesAreBounded == Spec => []FaultRetryBound
<1>1. AnyInv => FaultRetryBound
  BY DEF AnyInv, OnCourse, RetriesCounted, FaultRetryBound
<1> QED
  BY <1>1, AnyInvHolds, PTL

\* "pass" after an update that no reset stopped means that its packages are installed,
\* whatever records and "_retry" files earlier ones left behind.
THEOREM UninterruptedIsInstalled == Spec => []UninterruptedInstalls
<1>1. AnyInv => UninterruptedInstalls
  BY DEF AnyInv, FirstRun, UninterruptedInstalls
<1> QED
  BY <1>1, AnyInvHolds, PTL

\* The updater writes only partitions of the first package that upgraded_pkg_num does not
\* count yet.
THEOREM WritesAreNext == Spec => WritesOnlyNextPackage
<1>1. AnyInv /\ [Next]_vars =>
       [\A p \in Parts : content'[p] # content[p] =>
          \/ pc' = "off" /\ p = cached
          \/ /\ msg.boot /\ msg.done < Len(asked)
             /\ p \in PartsIn(asked[msg.done + 1])]_vars
  BY StepWrites DEF AnyInv
<1> QED
  BY <1>1, AnyInvHolds, PTL DEF Spec, WritesOnlyNextPackage

-----------------------------------------------------------------------------
(***************************************************************************)
(* What records and "_retry" files are worth (OtaRecords).                 *)
(***************************************************************************)
Keeps ==
  /\ asked' = asked /\ doubt' = doubt
  /\ \A j \in DOMAIN asked : \A p \in PartsIn(asked[j]) \ doubt :
       content[p] = asked[j] => content'[p] = asked[j]

LEMMA OnlyThisPackage ==
  ASSUME IInv, pc \in Working,
         NEW p \in PartsIn(asked[pkgLocation + 1]) \ doubt,
         NEW j \in DOMAIN asked, p \in PartsIn(asked[j])
  PROVE  j = pkgLocation + 1
<1>1. pkgLocation + 1 \in DOMAIN asked
  BY PackageAtWork DEF IInv
<1> QED
  BY <1>1 DEF IInv, SharedIsInDoubt

\* The heart of the matter: under IInv, SkipIsTrue holds.
LEMMA SkippedIsCurrent ==
  ASSUME IInv, InScript, Skips, Part \notin doubt
  PROVE  content[Part] = Package
<1>1. pc \in Working
  BY DEF InScript, Working, Child
<1>2. Part \in Parts /\ Part \in PartsIn(asked[pkgLocation + 1])
  BY PartAtWork DEF IInv
<1>3. PICK i \in 1..MaxRecords : rec.slots[i] = Part
  BY DEF Skips, IsPartitionUpdated
<1>4. PICK j \in DOMAIN asked : Part \in PartsIn(asked[j]) /\ content[Part] = asked[j]
  <2>1. rec.slots[i] # None
    BY <1>2, <1>3, OtaAssumption
  <2> QED
    BY <1>3, <2>1 DEF IInv, RecordsAreCurrent
<1>5. j = pkgLocation + 1
  BY <1>1, <1>2, <1>4, OnlyThisPackage
<1> QED
  BY <1>1, <1>4, <1>5, PackageAtWork DEF IInv

LEMMA NoForeignRetryFile ==
  ASSUME IInv, InScript, Part \notin doubt
  PROVE  ~SkipsAll
<1>1. pc \in Working
  BY DEF InScript, Working, Child
<1>2. Part \in Parts /\ Part \in PartsIn(asked[pkgLocation + 1])
  BY PartAtWork DEF IInv
<1>3. SUFFICES ASSUME retryFile[Part] # None PROVE retryFile[Part] = Package
  BY DEF SkipsAll, HasForeignRetryFile
<1>4. PICK j \in DOMAIN asked : Part \in PartsIn(asked[j]) /\ retryFile[Part] = asked[j]
  BY <1>2, <1>3 DEF IInv, RetryFilesAreCurrent
<1>5. j = pkgLocation + 1
  BY <1>1, <1>2, <1>4, OnlyThisPackage
<1> QED
  BY <1>1, <1>4, <1>5, PackageAtWork DEF IInv

LEMMA EmptyRecords == NoRec \in Records /\ RecordsAreCurrent(NoRec)
  BY OtaAssumption DEF NoRec, Records, RecordsAreCurrent

LEMMA EmptyMessage == NoMsg \in Messages
  BY DEF NoMsg, Messages

(***************************************************************************)
(* What a step that keeps content in place does to the parts of IInv.      *)
(***************************************************************************)
LEMMA KeptCounts ==
  ASSUME IInv, Keeps,
         msg'.done = 0 \/ (msg'.done = msg.done /\ msg'.boot \in {msg.boot, TRUE})
  PROVE  SharedIsInDoubt' /\ Counted' /\ (AllHold => AllHold')
<1>1. SharedIsInDoubt'
  BY DEF IInv, SharedIsInDoubt, Keeps
<1>2. Counted'
  <2>0. msg.done \in Nat /\ asked \in Seq(Packages) /\ msg.done <= Len(asked)
        /\ (~msg.boot => msg.done = 0) /\ asked' = asked
    BY DEF IInv, OnCourse, TypeOK, Messages, Counted, Keeps
  <2>1. msg'.done <= Len(asked') /\ (~msg'.boot => msg'.done = 0) /\ msg'.done \in {0, msg.done}
    <3>1. CASE msg'.done = 0
      BY <2>0, <3>1
    <3>2. CASE msg'.done = msg.done /\ msg'.boot \in {msg.boot, TRUE}
      BY <2>0, <3>2
    <3> QED
      BY <3>1, <3>2
  <2>2. ASSUME NEW j \in 1..msg'.done PROVE Holds(j)'
    <3>1. j \in 1..msg.done /\ msg.done <= Len(asked) /\ msg.done \in Nat
      BY <2>0, <2>1, <2>2
    <3>2. j \in DOMAIN asked
      BY <3>1 DEF IInv, OnCourse, TypeOK
    <3>3. Holds(j)
      BY <3>1 DEF IInv, Counted
    <3> QED
      BY <3>2, <3>3 DEF Holds, Keeps
  <2> QED
    BY <2>1, <2>2 DEF Counted
<1>3. AllHold => AllHold'
  BY DEF AllHold, Holds, Keeps
<1> QED
  BY <1>1, <1>2, <1>3

LEMMA KeptRecords ==
  ASSUME IInv, Keeps,
         rec'.slots \in {rec.slots, stored.slots, NoRec.slots},
         stored'.slots \in {rec.slots, stored.slots, NoRec.slots}
  PROVE  RecordsAreCurrent(rec)' /\ RecordsAreCurrent(stored)'
<1>1. RecordsAreCurrent(rec) /\ RecordsAreCurrent(stored) /\ RecordsAreCurrent(NoRec)
  BY EmptyRecords DEF IInv
<1> QED
  BY <1>1 DEF RecordsAreCurrent, Keeps

LEMMA KeptRetryFiles ==
  ASSUME IInv, Keeps, \A p \in Parts : retryFile'[p] \in {retryFile[p], None}
  PROVE  RetryFilesAreCurrent'
BY DEF IInv, RetryFilesAreCurrent, Keeps

\* A partition of the package under way is written: with that package's
\* image, or with anything when it did not hold it yet.
LEMMA WriteKeeps ==
  ASSUME IInv, pc \in Working, Part \in PartsIn(asked[pkgLocation + 1]),
         asked' = asked, doubt' = doubt, NEW v,
         content' = [content EXCEPT ![Part] = v],
         v = Package \/ content[Part] # Package \/ Part \in doubt
  PROVE  Keeps
<1> SUFFICES ASSUME NEW j \in DOMAIN asked, NEW p \in PartsIn(asked[j]) \ doubt,
                    content[p] = asked[j]
             PROVE  content'[p] = asked[j]
  BY DEF Keeps
<1>1. p \in DOMAIN content
  BY OtaAssumption DEF IInv, OnCourse, TypeOK, PartsIn
<1>2. CASE p = Part
  <2>1. j = pkgLocation + 1
    BY <1>2, OnlyThisPackage
  <2>2. asked[j] = Package
    BY <2>1, PackageAtWork DEF IInv
  <2> QED
    BY <1>1, <1>2, <2>2
<1>3. CASE p # Part
  BY <1>1, <1>3
<1> QED
  BY <1>2, <1>3

(***************************************************************************)
(* One lemma per action.                                                   *)
(***************************************************************************)
LEMMA BootKeeps == IInv /\ Boot /\ doubt' = doubt => IInv'
<1> SUFFICES ASSUME IInv, Boot, doubt' = doubt PROVE IInv'
  OBVIOUS
<1> USE DEF Boot, disk, memory, past
<1>1. OnCourse'
  BY OnCourseStays DEF IInv, Next, Updater, Install, Finish
<1>2. /\ SharedIsInDoubt' /\ Counted' /\ (AllHold => AllHold')
      /\ RecordsAreCurrent(rec)' /\ RecordsAreCurrent(stored)'
      /\ RetryFilesAreCurrent'
  BY KeptCounts, KeptRecords, KeptRetryFiles DEF Keeps
<1>4. ScriptProgress'
  BY DEF IInv, OnCourse, ScriptProgress, TypeOK, Child
<1>5. SuccessIsTrue'
  BY <1>2 DEF IInv, OnCourse, OpenUntilPost, Working, SuccessIsTrue, Child
<1>6. CachedIsNext'
  BY DEF IInv, OnCourse, OpenUntilPost, MemoryMatchesMisc, CachedIsNext, Working, Child
<1> QED
  BY <1>1, <1>2, <1>4, <1>5, <1>6 DEF IInv

LEMMA MountDataFailsKeeps == IInv /\ MountDataFails /\ doubt' = doubt => IInv'
<1> SUFFICES ASSUME IInv, MountDataFails, doubt' = doubt PROVE IInv'
  OBVIOUS
<1> USE DEF MountDataFails, disk, memory, past
<1>1. OnCourse'
  BY OnCourseStays DEF IInv, Next, Updater, Install, Finish
<1>2. /\ SharedIsInDoubt' /\ Counted' /\ (AllHold => AllHold')
      /\ RecordsAreCurrent(rec)' /\ RecordsAreCurrent(stored)'
      /\ RetryFilesAreCurrent'
  BY KeptCounts, KeptRecords, KeptRetryFiles DEF Keeps
<1>4. ScriptProgress'
  BY DEF IInv, OnCourse, ScriptProgress, TypeOK, Child
<1>5. SuccessIsTrue'
  BY <1>2 DEF IInv, OnCourse, OpenUntilPost, Working, SuccessIsTrue, Child
<1>6. CachedIsNext'
  BY DEF IInv, OnCourse, OpenUntilPost, MemoryMatchesMisc, CachedIsNext, Working, Child
<1> QED
  BY <1>1, <1>2, <1>4, <1>5, <1>6 DEF IInv

LEMMA PreUpdatePackagesKeeps == IInv /\ PreUpdatePackages /\ doubt' = doubt => IInv'
<1> SUFFICES ASSUME IInv, PreUpdatePackages, doubt' = doubt PROVE IInv'
  OBVIOUS
<1> USE DEF PreUpdatePackages, disk, memory, past
<1>1. OnCourse'
  BY OnCourseStays DEF IInv, Next, Updater, Install, Finish
<1>2. /\ SharedIsInDoubt' /\ Counted' /\ (AllHold => AllHold')
      /\ RecordsAreCurrent(rec)' /\ RecordsAreCurrent(stored)'
      /\ RetryFilesAreCurrent'
  BY KeptCounts, KeptRecords, KeptRetryFiles DEF Keeps
<1>4. ScriptProgress'
  BY DEF IInv, OnCourse, ScriptProgress, TypeOK, Child
<1>5. SuccessIsTrue'
  <2>1. CASE pkgLocation >= Len(pkgs) /\ status' = "success"
    <3>1. pkgs = asked /\ pkgLocation = msg.done
      BY DEF IInv, OnCourse, MemoryMatchesMisc
    <3>2. AllHold
      BY <2>1, <3>1 DEF AllHold, IInv, OnCourse, Counted, TypeOK, Messages
    <3>3. pc' = "post"
      BY <2>1 DEF IInv, OnCourse, OpenUntilPost, Working, SuccessIsTrue
    <3> QED
      BY <1>2, <2>1, <3>2, <3>3 DEF SuccessIsTrue, Child
  <2>2. CASE status' # "success"
    BY <1>2, <2>2 DEF IInv, OnCourse, OpenUntilPost, Working, SuccessIsTrue, Child
  <2> QED
    BY <2>1, <2>2 DEF IInv, OnCourse, OpenUntilPost, Working, SuccessIsTrue
<1>6. CachedIsNext'
  BY DEF IInv, OnCourse, OpenUntilPost, MemoryMatchesMisc, CachedIsNext, Working, Child
<1> QED
  BY <1>1, <1>2, <1>4, <1>5, <1>6 DEF IInv

LEMMA ClearRecordPartitionOffsetKeeps == IInv /\ ClearRecordPartitionOffset /\ doubt' = doubt => IInv'
<1> SUFFICES ASSUME IInv, ClearRecordPartitionOffset, doubt' = doubt PROVE IInv'
  OBVIOUS
<1> USE DEF ClearRecordPartitionOffset, disk, memory, past
<1>1. OnCourse'
  BY OnCourseStays DEF IInv, Next, Updater, Install, Finish
<1>2. /\ SharedIsInDoubt' /\ Counted' /\ (AllHold => AllHold')
      /\ RecordsAreCurrent(rec)' /\ RecordsAreCurrent(stored)'
      /\ RetryFilesAreCurrent'
  BY KeptCounts, KeptRecords, KeptRetryFiles DEF Keeps
<1>4. ScriptProgress'
  BY DEF IInv, OnCourse, ScriptProgress, TypeOK, Child
<1>5. SuccessIsTrue'
  BY <1>2 DEF IInv, OnCourse, OpenUntilPost, Working, SuccessIsTrue, Child
<1>6. CachedIsNext'
  BY DEF IInv, OnCourse, OpenUntilPost, MemoryMatchesMisc, CachedIsNext, Working, Child
<1> QED
  BY <1>1, <1>2, <1>4, <1>5, <1>6 DEF IInv

LEMMA SetRetryCountKeeps == IInv /\ SetRetryCount /\ doubt' = doubt => IInv'
<1> SUFFICES ASSUME IInv, SetRetryCount, doubt' = doubt PROVE IInv'
  OBVIOUS
<1> USE DEF SetRetryCount, disk, memory, past
<1>1. OnCourse'
  BY OnCourseStays DEF IInv, Next, Updater, Install, Finish
<1>2. /\ SharedIsInDoubt' /\ Counted' /\ (AllHold => AllHold')
      /\ RecordsAreCurrent(rec)' /\ RecordsAreCurrent(stored)'
      /\ RetryFilesAreCurrent'
  BY KeptCounts, KeptRecords, KeptRetryFiles DEF Keeps
<1>4. ScriptProgress'
  <2>1. Script \in Seq(Parts) /\ Script' = Script
    BY PackageAtWork DEF IInv, Working, Script, Package
  <2> QED
    BY <2>1 DEF ScriptProgress, Child
<1>5. SuccessIsTrue'
  BY <1>2 DEF IInv, OnCourse, OpenUntilPost, Working, SuccessIsTrue, Child
<1>6. CachedIsNext'
  BY DEF IInv, OnCourse, OpenUntilPost, MemoryMatchesMisc, CachedIsNext, Working, Child
<1> QED
  BY <1>1, <1>2, <1>4, <1>5, <1>6 DEF IInv

LEMMA ResumeInstallKeeps == IInv /\ ResumeInstall /\ doubt' = doubt => IInv'
<1> SUFFICES ASSUME IInv, ResumeInstall, doubt' = doubt PROVE IInv'
  OBVIOUS
<1> USE DEF ResumeInstall, disk, memory, past
<1>1. OnCourse'
  BY OnCourseStays DEF IInv, Next, Updater, Install, Finish
<1>2. /\ SharedIsInDoubt' /\ Counted' /\ (AllHold => AllHold')
      /\ RecordsAreCurrent(rec)' /\ RecordsAreCurrent(stored)'
      /\ RetryFilesAreCurrent'
  BY KeptCounts, KeptRecords, KeptRetryFiles DEF Keeps
<1>4. ScriptProgress'
  <2>1. Script \in Seq(Parts) /\ Script' = Script
    BY PackageAtWork DEF IInv, Working, Script, Package
  <2> QED
    BY <2>1 DEF ScriptProgress, Child
<1>5. SuccessIsTrue'
  BY <1>2 DEF IInv, OnCourse, OpenUntilPost, Working, SuccessIsTrue, Child
<1>6. CachedIsNext'
  BY DEF IInv, OnCourse, OpenUntilPost, MemoryMatchesMisc, CachedIsNext, Working, Child
<1> QED
  BY <1>1, <1>2, <1>4, <1>5, <1>6 DEF IInv

LEMMA SkipUpdatedKeeps == IInv /\ SkipUpdated /\ doubt' = doubt => IInv'
<1> SUFFICES ASSUME IInv, SkipUpdated, doubt' = doubt PROVE IInv'
  OBVIOUS
<1> USE DEF SkipUpdated, disk, memory, past, InScript
<1>0. /\ pc \in Working /\ pc \in Child
      /\ idx \in DOMAIN Script /\ Part \in Parts
      /\ Part \in PartsIn(asked[pkgLocation + 1])
      /\ Script \in Seq(Parts) /\ Package \in Packages
      /\ Package = asked[pkgLocation + 1] /\ pkgLocation + 1 \in DOMAIN asked
  <2>1. pc \in Working /\ pc \in Child
    BY DEF Working, Child, InScript
  <2> QED
    BY <2>1, PackageAtWork, PartAtWork DEF IInv
<1>1. OnCourse'
  BY OnCourseStays DEF IInv, Next, Updater, Install, Finish
<1>2. /\ SharedIsInDoubt' /\ Counted' /\ (AllHold => AllHold')
      /\ RecordsAreCurrent(rec)' /\ RecordsAreCurrent(stored)'
      /\ RetryFilesAreCurrent'
  BY KeptCounts, KeptRecords, KeptRetryFiles DEF Keeps
<1>4. ScriptProgress'
  <2>1. Script' = Script /\ Package' = Package
    BY DEF Script, Package
  <2>2. Part \notin doubt => content[Part] = Package
    BY SkippedIsCurrent
  <2>3. \A n \in DOMAIN Script :
          n < idx + 1 /\ Script[n] \notin doubt => content[Script[n]] = Package
    <3>1. \A n \in DOMAIN Script :
            n < idx /\ Script[n] \notin doubt => content[Script[n]] = Package
      BY <1>0 DEF IInv, ScriptProgress
    <3>2. \A n \in DOMAIN Script : n < idx + 1 => n < idx \/ n = idx
      BY <1>0
    <3> QED
      BY <2>2, <3>1, <3>2 DEF Part
  <2> QED
    BY <2>1, <2>3, <1>0 DEF ScriptProgress, Child, InScript
<1>5. SuccessIsTrue'
  BY <1>2 DEF IInv, OnCourse, OpenUntilPost, Working, SuccessIsTrue, Child
<1>6. CachedIsNext'
  BY DEF IInv, OnCourse, OpenUntilPost, MemoryMatchesMisc, CachedIsNext, Working, Child
<1> QED
  BY <1>1, <1>2, <1>4, <1>5, <1>6 DEF IInv

\* Its "_retry" file is of another package, so the partition is in doubt.
LEMMA SkipCommandsKeeps == IInv /\ SkipCommands /\ doubt' = doubt => IInv'
<1> SUFFICES ASSUME IInv, SkipCommands, doubt' = doubt PROVE IInv'
  OBVIOUS
<1> USE DEF SkipCommands, disk, memory, past, InScript
<1>0. /\ pc \in Working /\ pc \in Child
      /\ idx \in DOMAIN Script /\ Part \in Parts
      /\ Part \in PartsIn(asked[pkgLocation + 1])
      /\ Script \in Seq(Parts) /\ Package \in Packages
      /\ Package = asked[pkgLocation + 1] /\ pkgLocation + 1 \in DOMAIN asked
  <2>1. pc \in Working /\ pc \in Child
    BY DEF Working, Child, InScript
  <2> QED
    BY <2>1, PackageAtWork, PartAtWork DEF IInv
<1>d. Part \in doubt
  BY NoForeignRetryFile
<1>1. OnCourse'
  BY OnCourseStays DEF IInv, Next, Updater, Install, Finish
<1>2. /\ SharedIsInDoubt' /\ Counted' /\ (AllHold => AllHold')
      /\ RecordsAreCurrent(rec)' /\ RecordsAreCurrent(stored)'
      /\ RetryFilesAreCurrent'
  <2>1. PICK v : content' = [content EXCEPT ![Part] = v]
    OBVIOUS
  <2>2. Keeps
    BY <1>0, <1>d, <2>1, WriteKeeps
  <2> QED
    BY <2>2, KeptCounts, KeptRecords, KeptRetryFiles
<1>4. ScriptProgress'
  <2>1. Script' = Script /\ Package' = Package
    BY DEF Script, Package
  <2>2. \A p \in Parts \ doubt : content[p] = Package => content'[p] = Package
    BY <1>d DEF IInv, OnCourse, TypeOK
  <2>3. Part' = Part
    BY <2>1 DEF Part
  <2> QED
    BY <1>0, <1>d, <2>1, <2>2, <2>3 DEF IInv, ScriptProgress, Child
<1>5. SuccessIsTrue'
  BY <1>2 DEF IInv, OnCourse, OpenUntilPost, Working, SuccessIsTrue, Child
<1>6. CachedIsNext'
  BY DEF IInv, OnCourse, OpenUntilPost, MemoryMatchesMisc, CachedIsNext, Working, Child
<1> QED
  BY <1>1, <1>2, <1>4, <1>5, <1>6 DEF IInv

LEMMA BeginWriteKeeps == IInv /\ BeginWrite /\ doubt' = doubt => IInv'
<1> SUFFICES ASSUME IInv, BeginWrite, doubt' = doubt PROVE IInv'
  OBVIOUS
<1> USE DEF BeginWrite, disk, memory, past, InScript
<1>0. /\ pc \in Working /\ pc \in Child
      /\ idx \in DOMAIN Script /\ Part \in Parts
      /\ Part \in PartsIn(asked[pkgLocation + 1])
      /\ Script \in Seq(Parts) /\ Package \in Packages
      /\ Package = asked[pkgLocation + 1] /\ pkgLocation + 1 \in DOMAIN asked
  <2>1. pc \in Working /\ pc \in Child
    BY DEF Working, Child, InScript
  <2> QED
    BY <2>1, PackageAtWork, PartAtWork DEF IInv
<1>1. OnCourse'
  BY OnCourseStays DEF IInv, Next, Updater, Install, Finish
<1>2. /\ SharedIsInDoubt' /\ Counted' /\ (AllHold => AllHold')
      /\ RecordsAreCurrent(rec)' /\ RecordsAreCurrent(stored)'
      /\ RetryFilesAreCurrent'
  <2>1. content' = [content EXCEPT ![Part] = IF content[Part] = Package THEN content[Part] ELSE Torn]
    OBVIOUS
  <2>2. Keeps
    BY <1>0, <2>1, WriteKeeps
  <2> QED
    BY <2>2, KeptCounts, KeptRecords, KeptRetryFiles
<1>4. ScriptProgress'
  <2>1. Script' = Script /\ Package' = Package
    BY DEF Script, Package
  <2>2. \A p \in Parts : content[p] = Package => content'[p] = Package
    BY DEF IInv, OnCourse, TypeOK
  <2> QED
    BY <1>0, <2>1, <2>2 DEF IInv, ScriptProgress, Child
<1>5. SuccessIsTrue'
  BY <1>2 DEF IInv, OnCourse, OpenUntilPost, Working, SuccessIsTrue, Child
<1>6. CachedIsNext'
  BY DEF IInv, OnCourse, OpenUntilPost, MemoryMatchesMisc, CachedIsNext, Working, Child
<1> QED
  BY <1>1, <1>2, <1>4, <1>5, <1>6 DEF IInv

LEMMA RegisterForRetryKeeps == IInv /\ RegisterForRetry /\ doubt' = doubt => IInv'
<1> SUFFICES ASSUME IInv, RegisterForRetry, doubt' = doubt PROVE IInv'
  OBVIOUS
<1> USE DEF RegisterForRetry, disk, memory, past
<1>0. /\ pc \in Working /\ pc \in Child
      /\ idx \in DOMAIN Script /\ Part \in Parts
      /\ Part \in PartsIn(asked[pkgLocation + 1])
      /\ Script \in Seq(Parts) /\ Package \in Packages
      /\ Package = asked[pkgLocation + 1] /\ pkgLocation + 1 \in DOMAIN asked
  <2>1. pc \in Working /\ pc \in Child
    BY DEF Working, Child, InScript
  <2> QED
    BY <2>1, PackageAtWork, PartAtWork DEF IInv
<1>1. OnCourse'
  BY OnCourseStays DEF IInv, Next, Updater, Install, Finish
<1>2. /\ SharedIsInDoubt' /\ Counted' /\ (AllHold => AllHold')
      /\ RecordsAreCurrent(rec)' /\ RecordsAreCurrent(stored)'
      /\ RetryFilesAreCurrent'
  <2>1. SharedIsInDoubt' /\ Counted' /\ (AllHold => AllHold')
        /\ RecordsAreCurrent(rec)' /\ RecordsAreCurrent(stored)'
    BY KeptCounts, KeptRecords DEF Keeps
  <2>2. RetryFilesAreCurrent'
    BY <1>0 DEF IInv, OnCourse, RetryFilesAreCurrent, TypeOK
  <2> QED
    BY <2>1, <2>2
<1>4. ScriptProgress'
  <2>1. Script' = Script /\ Package' = Package /\ Part' = Part
    BY DEF Script, Package, Part
  <2> QED
    BY <2>1 DEF IInv, ScriptProgress, Child
<1>5. SuccessIsTrue'
  BY <1>2 DEF IInv, OnCourse, OpenUntilPost, Working, SuccessIsTrue, Child
<1>6. CachedIsNext'
  BY DEF IInv, OnCourse, OpenUntilPost, MemoryMatchesMisc, CachedIsNext, Working, Child
<1> QED
  BY <1>1, <1>2, <1>4, <1>5, <1>6 DEF IInv

LEMMA FinishWriteKeeps == IInv /\ FinishWrite /\ doubt' = doubt => IInv'
<1> SUFFICES ASSUME IInv, FinishWrite, doubt' = doubt PROVE IInv'
  OBVIOUS
<1> USE DEF FinishWrite, disk, memory, past
<1>0. /\ pc \in Working /\ pc \in Child
      /\ idx \in DOMAIN Script /\ Part \in Parts
      /\ Part \in PartsIn(asked[pkgLocation + 1])
      /\ Script \in Seq(Parts) /\ Package \in Packages
      /\ Package = asked[pkgLocation + 1] /\ pkgLocation + 1 \in DOMAIN asked
  <2>1. pc \in Working /\ pc \in Child
    BY DEF Working, Child, InScript
  <2> QED
    BY <2>1, PackageAtWork, PartAtWork DEF IInv
<1>1. OnCourse'
  BY OnCourseStays DEF IInv, Next, Updater, Install, Finish
<1>2. /\ SharedIsInDoubt' /\ Counted' /\ (AllHold => AllHold')
      /\ RecordsAreCurrent(rec)' /\ RecordsAreCurrent(stored)'
      /\ RetryFilesAreCurrent'
  <2>1. Keeps
    BY <1>0, WriteKeeps
  <2> QED
    BY <2>1, KeptCounts, KeptRecords, KeptRetryFiles
<1>4. ScriptProgress'
  <2>1. Script' = Script /\ Package' = Package /\ Part' = Part
    BY DEF Script, Package, Part
  <2>2. content'[Part] = Package
        /\ \A p \in Parts : content[p] = Package => content'[p] = Package
    BY <1>0 DEF IInv, OnCourse, TypeOK
  <2> QED
    BY <1>0, <2>1, <2>2 DEF IInv, ScriptProgress, Child
<1>5. SuccessIsTrue'
  BY <1>2 DEF IInv, OnCourse, OpenUntilPost, Working, SuccessIsTrue, Child
<1>6. CachedIsNext'
  BY <1>0 DEF IInv, TypeOK, OnCourse, OpenUntilPost, MemoryMatchesMisc, CachedIsNext, Working, Child
<1> QED
  BY <1>1, <1>2, <1>4, <1>5, <1>6 DEF IInv

LEMMA RecordSlotKeeps == IInv /\ RecordSlot /\ doubt' = doubt => IInv'
<1> SUFFICES ASSUME IInv, RecordSlot, doubt' = doubt PROVE IInv'
  OBVIOUS
<1> USE DEF RecordSlot, disk, memory, past
<1>0. /\ pc \in Working /\ pc \in Child
      /\ idx \in DOMAIN Script /\ Part \in Parts
      /\ Part \in PartsIn(asked[pkgLocation + 1])
      /\ Script \in Seq(Parts) /\ Package \in Packages
      /\ Package = asked[pkgLocation + 1] /\ pkgLocation + 1 \in DOMAIN asked
  <2>1. pc \in Working /\ pc \in Child
    BY DEF Working, Child, InScript
  <2> QED
    BY <2>1, PackageAtWork, PartAtWork DEF IInv
<1>1. OnCourse'
  BY OnCourseStays DEF IInv, Next, Updater, Install, Finish
<1>2. /\ SharedIsInDoubt' /\ Counted' /\ (AllHold => AllHold')
      /\ RecordsAreCurrent(rec)' /\ RecordsAreCurrent(stored)'
      /\ RetryFilesAreCurrent'
  <2>1. SharedIsInDoubt' /\ Counted' /\ (AllHold => AllHold') /\ RetryFilesAreCurrent'
    BY KeptCounts, KeptRetryFiles DEF Keeps
  <2>2. RecordsAreCurrent(stored)'
    BY DEF IInv, RecordsAreCurrent
  <2>3. RecordsAreCurrent(rec)'
    <3>1. Part \notin doubt => content[Part] = asked[pkgLocation + 1]
      BY <1>0 DEF IInv, ScriptProgress
    <3>2. \A i \in 1..MaxRecords : rec'.slots[i] \in {rec.slots[i], Part}
      <4>1. rec \in Records
        BY DEF IInv, OnCourse, TypeOK
      <4>2. rec.offset < MaxRecords => rec.offset + 1 \in 1..MaxRecords
        BY <4>1, RecordUpdates, OtaAssumption
      <4> QED
        BY <1>0, <4>1, <4>2, RecordUpdates
    <3> QED
      BY <1>0, <3>1, <3>2 DEF IInv, RecordsAreCurrent
  <2> QED
    BY <2>1, <2>2, <2>3
<1>4. ScriptProgress'
  <2>1. Script' = Script /\ Package' = Package /\ Part' = Part
    BY DEF Script, Package, Part
  <2>2. ASSUME rec.offset < MaxRecords PROVE rec'.offset = rec.offset
    <3>1. rec \in Records
      BY DEF IInv, OnCourse, TypeOK
    <3>2. rec.offset + 1 \in 1..MaxRecords
      BY <2>2, <3>1, RecordUpdates, OtaAssumption
    <3>3. rec' = [rec EXCEPT !.slots[rec.offset + 1] = Part]
      BY <2>2
    <3> QED
      BY <1>0, <3>1, <3>2, <3>3, RecordUpdates
  <2> QED
    BY <1>0, <2>1, <2>2 DEF IInv, ScriptProgress, Child
<1>5. SuccessIsTrue'
  BY <1>2 DEF IInv, OnCourse, OpenUntilPost, Working, SuccessIsTrue, Child
<1>6. CachedIsNext'
  BY DEF IInv, OnCourse, OpenUntilPost, MemoryMatchesMisc, CachedIsNext, Working, Child
<1> QED
  BY <1>1, <1>2, <1>4, <1>5, <1>6 DEF IInv

LEMMA RecordOffsetKeeps == IInv /\ RecordOffset /\ doubt' = doubt => IInv'
<1> SUFFICES ASSUME IInv, RecordOffset, doubt' = doubt PROVE IInv'
  OBVIOUS
<1> USE DEF RecordOffset, disk, memory, past
<1>0. /\ pc \in Working /\ pc \in Child
      /\ idx \in DOMAIN Script /\ Part \in Parts
      /\ Part \in PartsIn(asked[pkgLocation + 1])
      /\ Script \in Seq(Parts) /\ Package \in Packages
      /\ Package = asked[pkgLocation + 1] /\ pkgLocation + 1 \in DOMAIN asked
  <2>1. pc \in Working /\ pc \in Child
    BY DEF Working, Child, InScript
  <2> QED
    BY <2>1, PackageAtWork, PartAtWork DEF IInv
<1>1. OnCourse'
  BY OnCourseStays DEF IInv, Next, Updater, Install, Finish
<1>2. /\ SharedIsInDoubt' /\ Counted' /\ (AllHold => AllHold')
      /\ RecordsAreCurrent(rec)' /\ RecordsAreCurrent(stored)'
      /\ RetryFilesAreCurrent'
  BY KeptCounts, KeptRecords, KeptRetryFiles DEF Keeps
<1>4. ScriptProgress'
  <2>1. Script' = Script /\ Package' = Package /\ Part' = Part
    BY DEF Script, Package, Part
  <2> QED
    BY <1>0, <2>1 DEF IInv, ScriptProgress, Child
<1>5. SuccessIsTrue'
  BY <1>2 DEF IInv, OnCourse, OpenUntilPost, Working, SuccessIsTrue, Child
<1>6. CachedIsNext'
  BY DEF IInv, OnCourse, OpenUntilPost, MemoryMatchesMisc, CachedIsNext, Working, Child
<1> QED
  BY <1>1, <1>2, <1>4, <1>5, <1>6 DEF IInv

LEMMA ReleaseDataWriterKeeps == IInv /\ ReleaseDataWriter /\ doubt' = doubt => IInv'
<1> SUFFICES ASSUME IInv, ReleaseDataWriter, doubt' = doubt PROVE IInv'
  OBVIOUS
<1> USE DEF ReleaseDataWriter, disk, memory, past
<1>0. /\ pc \in Working /\ pc \in Child
      /\ idx \in DOMAIN Script /\ Part \in Parts
      /\ Part \in PartsIn(asked[pkgLocation + 1])
      /\ Script \in Seq(Parts) /\ Package \in Packages
      /\ Package = asked[pkgLocation + 1] /\ pkgLocation + 1 \in DOMAIN asked
  <2>1. pc \in Working /\ pc \in Child
    BY DEF Working, Child, InScript
  <2> QED
    BY <2>1, PackageAtWork, PartAtWork DEF IInv
<1>1. OnCourse'
  BY OnCourseStays DEF IInv, Next, Updater, Install, Finish
<1>2. /\ SharedIsInDoubt' /\ Counted' /\ (AllHold => AllHold')
      /\ RecordsAreCurrent(rec)' /\ RecordsAreCurrent(stored)'
      /\ RetryFilesAreCurrent'
  BY KeptCounts, KeptRecords, KeptRetryFiles DEF Keeps
<1>4. ScriptProgress'
  <2>1. Script' = Script /\ Package' = Package
    BY DEF Script, Package
  <2>2. Part \notin doubt => content[Part] = Package
    BY <1>0 DEF IInv, ScriptProgress
  <2>3. \A n \in DOMAIN Script :
          n < idx + 1 /\ Script[n] \notin doubt => content[Script[n]] = Package
    <3>1. \A n \in DOMAIN Script :
            n < idx /\ Script[n] \notin doubt => content[Script[n]] = Package
      BY <1>0 DEF IInv, ScriptProgress
    <3>2. \A n \in DOMAIN Script : n < idx + 1 => n < idx \/ n = idx
      BY <1>0
    <3> QED
      BY <2>2, <3>1, <3>2 DEF Part
  <2> QED
    BY <2>1, <2>3, <1>0 DEF ScriptProgress, Child
<1>5. SuccessIsTrue'
  BY <1>2 DEF IInv, OnCourse, OpenUntilPost, Working, SuccessIsTrue, Child
<1>6. CachedIsNext'
  BY DEF IInv, OnCourse, OpenUntilPost, MemoryMatchesMisc, CachedIsNext, Working, Child
<1> QED
  BY <1>1, <1>2, <1>4, <1>5, <1>6 DEF IInv

LEMMA ScriptDoneKeeps == IInv /\ ScriptDone /\ doubt' = doubt => IInv'
<1> SUFFICES ASSUME IInv, ScriptDone, doubt' = doubt PROVE IInv'
  OBVIOUS
<1> USE DEF ScriptDone, disk, memory, past
<1>0. idx \in Nat /\ Script \in Seq(Parts)
  BY PackageAtWork DEF Working, Child, IInv, OnCourse, TypeOK
<1>1. OnCourse'
  BY OnCourseStays DEF IInv, Next, Updater, Install, Finish
<1>2. /\ SharedIsInDoubt' /\ Counted' /\ (AllHold => AllHold')
      /\ RecordsAreCurrent(rec)' /\ RecordsAreCurrent(stored)'
      /\ RetryFilesAreCurrent'
  BY KeptCounts, KeptRecords, KeptRetryFiles DEF Keeps
<1>4. ScriptProgress'
  <2>1. Script' = Script /\ Package' = Package /\ Part' = Part
    BY DEF Script, Package, Part
  <2> QED
    BY <2>1 DEF IInv, ScriptProgress, Child
<1>5. SuccessIsTrue'
  BY <1>2 DEF IInv, OnCourse, OpenUntilPost, Working, SuccessIsTrue, Child
<1>6. CachedIsNext'
  BY DEF IInv, OnCourse, OpenUntilPost, MemoryMatchesMisc, CachedIsNext, Working, Child
<1> QED
  BY <1>1, <1>2, <1>4, <1>5, <1>6 DEF IInv

LEMMA ScriptFaultKeeps == IInv /\ ScriptFault /\ doubt' = doubt => IInv'
<1> SUFFICES ASSUME IInv, ScriptFault, doubt' = doubt PROVE IInv'
  OBVIOUS
<1> USE DEF ScriptFault, disk, memory, past, InScript
<1>1. OnCourse'
  BY OnCourseStays DEF IInv, Next, Updater, Install, Finish
<1>2. /\ SharedIsInDoubt' /\ Counted' /\ (AllHold => AllHold')
      /\ RecordsAreCurrent(rec)' /\ RecordsAreCurrent(stored)'
      /\ RetryFilesAreCurrent'
  BY KeptCounts, KeptRecords, KeptRetryFiles DEF Keeps
<1>4. ScriptProgress'
  <2>1. Script' = Script /\ Package' = Package /\ Part' = Part
    BY DEF Script, Package, Part
  <2> QED
    BY <2>1 DEF IInv, ScriptProgress, Child
<1>5. SuccessIsTrue'
  BY <1>2 DEF IInv, OnCourse, OpenUntilPost, Working, SuccessIsTrue, Child
<1>6. CachedIsNext'
  BY DEF IInv, OnCourse, OpenUntilPost, MemoryMatchesMisc, CachedIsNext, Working, Child
<1> QED
  BY <1>1, <1>2, <1>4, <1>5, <1>6 DEF IInv

LEMMA InstallFailsKeeps == IInv /\ InstallFails /\ doubt' = doubt => IInv'
<1> SUFFICES ASSUME IInv, InstallFails, doubt' = doubt PROVE IInv'
  OBVIOUS
<1> USE DEF InstallFails, disk, memory, past, InScript
<1>1. OnCourse'
  BY OnCourseStays DEF IInv, Next, Updater, Install, Finish
<1>2. /\ SharedIsInDoubt' /\ Counted' /\ (AllHold => AllHold')
      /\ RecordsAreCurrent(rec)' /\ RecordsAreCurrent(stored)'
      /\ RetryFilesAreCurrent'
  BY KeptCounts, KeptRecords, KeptRetryFiles DEF Keeps
<1>4. ScriptProgress'
  BY DEF IInv, OnCourse, ScriptProgress, TypeOK, Child
<1>5. SuccessIsTrue'
  BY <1>2 DEF IInv, OnCourse, OpenUntilPost, Working, SuccessIsTrue, Child
<1>6. CachedIsNext'
  BY DEF IInv, OnCourse, OpenUntilPost, MemoryMatchesMisc, CachedIsNext, Working, Child
<1> QED
  BY <1>1, <1>2, <1>4, <1>5, <1>6 DEF IInv

LEMMA RebootRetryKeeps == IInv /\ RebootRetry /\ doubt' = doubt => IInv'
<1> SUFFICES ASSUME IInv, RebootRetry, doubt' = doubt PROVE IInv'
  OBVIOUS
<1> USE DEF RebootRetry, disk, memory, past
<1>1. OnCourse'
  BY OnCourseStays DEF IInv, Next, Updater, Install, Finish
<1>2. /\ SharedIsInDoubt' /\ Counted' /\ (AllHold => AllHold')
      /\ RecordsAreCurrent(rec)' /\ RecordsAreCurrent(stored)'
      /\ RetryFilesAreCurrent'
  BY KeptCounts, KeptRecords, KeptRetryFiles DEF Keeps
<1>4. ScriptProgress'
  BY DEF IInv, OnCourse, ScriptProgress, TypeOK, Child
<1>5. SuccessIsTrue'
  BY <1>2 DEF IInv, OnCourse, OpenUntilPost, Working, SuccessIsTrue, Child
<1>6. CachedIsNext'
  BY DEF IInv, OnCourse, OpenUntilPost, MemoryMatchesMisc, CachedIsNext, Working, Child
<1> QED
  BY <1>1, <1>2, <1>4, <1>5, <1>6 DEF IInv

LEMMA NoMoreRetryKeeps == IInv /\ NoMoreRetry /\ doubt' = doubt => IInv'
<1> SUFFICES ASSUME IInv, NoMoreRetry, doubt' = doubt PROVE IInv'
  OBVIOUS
<1> USE DEF NoMoreRetry, disk, memory, past
<1>1. OnCourse'
  BY OnCourseStays DEF IInv, Next, Updater, Install, Finish
<1>2. /\ SharedIsInDoubt' /\ Counted' /\ (AllHold => AllHold')
      /\ RecordsAreCurrent(rec)' /\ RecordsAreCurrent(stored)'
      /\ RetryFilesAreCurrent'
  BY KeptCounts, KeptRecords, KeptRetryFiles DEF Keeps
<1>4. ScriptProgress'
  BY DEF IInv, OnCourse, ScriptProgress, TypeOK, Child
<1>5. SuccessIsTrue'
  BY <1>2 DEF IInv, OnCourse, OpenUntilPost, Working, SuccessIsTrue, Child
<1>6. CachedIsNext'
  BY DEF IInv, OnCourse, OpenUntilPost, MemoryMatchesMisc, CachedIsNext, Working, Child
<1> QED
  BY <1>1, <1>2, <1>4, <1>5, <1>6 DEF IInv

LEMMA PackageInstalledKeeps == IInv /\ PackageInstalled /\ doubt' = doubt => IInv'
<1> SUFFICES ASSUME IInv, PackageInstalled, doubt' = doubt PROVE IInv'
  OBVIOUS
<1> USE DEF PackageInstalled, disk, memory, past
<1>0. /\ pc \in Working /\ idx \in Nat
      /\ Script \in Seq(Parts) /\ Package = asked[pkgLocation + 1]
      /\ pkgLocation + 1 \in DOMAIN asked /\ pkgLocation = msg.done
      /\ pkgs = asked /\ msg.boot /\ pkgLocation \in Nat /\ asked \in Seq(Packages)
  <2>1. pc \in Working
    BY DEF Working, Child
  <2> QED
    BY <2>1, PackageAtWork DEF Child, IInv, OnCourse, TypeOK, MemoryMatchesMisc
<1>1. OnCourse'
  BY OnCourseStays DEF IInv, Next, Updater, Install, Finish
<1>2. /\ SharedIsInDoubt' /\ Counted' /\ (AllHold => AllHold')
      /\ RecordsAreCurrent(rec)' /\ RecordsAreCurrent(stored)'
      /\ RetryFilesAreCurrent'
  <2>1. SharedIsInDoubt' /\ (AllHold => AllHold')
    BY DEF IInv, SharedIsInDoubt, AllHold, Holds
  <2>2. RecordsAreCurrent(rec)' /\ RecordsAreCurrent(stored)' /\ RetryFilesAreCurrent'
    BY KeptRecords, KeptRetryFiles DEF Keeps
  <2>3. Holds(pkgLocation + 1)
    <3>1. \A n \in DOMAIN Script : Script[n] \notin doubt => content[Script[n]] = Package
      BY <1>0 DEF IInv, OnCourse, AtItsPart, ScriptProgress, Child
    <3> QED
      BY <1>0, <3>1 DEF Holds, PartsIn, Script
  <2>4. Counted'
    <3>1. msg'.done = pkgLocation + 1
      BY DEF IInv, OnCourse, TypeOK, Messages
    <3>2. \A n \in 1..(pkgLocation + 1) : n \in 1..msg.done \/ n = pkgLocation + 1
      BY <1>0
    <3>3. \A n \in 1..(pkgLocation + 1) : Holds(n)
      BY <2>3, <3>2 DEF IInv, Counted
    <3>4. \A n : Holds(n)' <=> Holds(n)
      BY DEF Holds
    <3> QED
      BY <1>0, <3>1, <3>3, <3>4 DEF Counted
  <2> QED
    BY <2>1, <2>2, <2>4
<1>4. ScriptProgress'
  BY DEF IInv, OnCourse, ScriptProgress, TypeOK, Child
<1>5. SuccessIsTrue'
  <2>1. CASE pkgLocation + 1 < Len(pkgs)
    BY <1>2, <2>1 DEF IInv, OnCourse, OpenUntilPost, Working, SuccessIsTrue, Child
  <2>2. CASE ~(pkgLocation + 1 < Len(pkgs))
    <3>1. msg'.done = Len(asked)
      BY <1>0, <2>2 DEF IInv, OnCourse, TypeOK, Messages
    <3>2. AllHold'
      BY <1>0, <1>2, <3>1 DEF AllHold, Counted
    <3> QED
      BY <2>2, <3>2 DEF IInv, OnCourse, OpenUntilPost, Working, SuccessIsTrue, Child
  <2> QED
    BY <2>1, <2>2
<1>6. CachedIsNext'
  BY DEF IInv, OnCourse, OpenUntilPost, MemoryMatchesMisc, CachedIsNext, Working, Child
<1> QED
  BY <1>1, <1>2, <1>4, <1>5, <1>6 DEF IInv

LEMMA PostUpdatePackagesKeeps == IInv /\ PostUpdatePackages /\ doubt' = doubt => IInv'
<1> SUFFICES ASSUME IInv, PostUpdatePackages, doubt' = doubt PROVE IInv'
  OBVIOUS
<1> USE DEF PostUpdatePackages, disk, memory, past
<1>1. OnCourse'
  BY OnCourseStays DEF IInv, Next, Updater, Install, Finish
<1>2. /\ SharedIsInDoubt' /\ Counted' /\ (AllHold => AllHold')
      /\ RecordsAreCurrent(rec)' /\ RecordsAreCurrent(stored)'
      /\ RetryFilesAreCurrent'
  BY KeptCounts, KeptRecords, KeptRetryFiles DEF Keeps
<1>4. ScriptProgress'
  BY DEF IInv, OnCourse, ScriptProgress, TypeOK, Child
<1>5. SuccessIsTrue'
  BY <1>2 DEF IInv, OnCourse, OpenUntilPost, Working, SuccessIsTrue, Child
<1>6. CachedIsNext'
  BY DEF IInv, OnCourse, OpenUntilPost, MemoryMatchesMisc, CachedIsNext, Working, Child
<1> QED
  BY <1>1, <1>2, <1>4, <1>5, <1>6 DEF IInv

LEMMA ClearMessageKeeps == IInv /\ ClearMessage /\ doubt' = doubt => IInv'
<1> SUFFICES ASSUME IInv, ClearMessage, doubt' = doubt PROVE IInv'
  OBVIOUS
<1> USE DEF ClearMessage, disk, memory, past, NoMsg
<1>1. OnCourse'
  BY OnCourseStays DEF IInv, Next, Updater, Install, Finish
<1>2. /\ SharedIsInDoubt' /\ Counted' /\ (AllHold => AllHold')
      /\ RecordsAreCurrent(rec)' /\ RecordsAreCurrent(stored)'
      /\ RetryFilesAreCurrent'
  BY KeptCounts, KeptRecords, KeptRetryFiles DEF Keeps
<1>4. ScriptProgress'
  BY DEF IInv, OnCourse, ScriptProgress, TypeOK, Child
<1>5. SuccessIsTrue'
  BY <1>2 DEF IInv, OnCourse, OpenUntilPost, Working, SuccessIsTrue, Child
<1>6. CachedIsNext'
  BY DEF IInv, OnCourse, OpenUntilPost, MemoryMatchesMisc, CachedIsNext, Working, Child
<1> QED
  BY <1>1, <1>2, <1>4, <1>5, <1>6 DEF IInv

LEMMA ClearRecordsKeeps == IInv /\ ClearRecords /\ doubt' = doubt => IInv'
<1> SUFFICES ASSUME IInv, ClearRecords, doubt' = doubt PROVE IInv'
  OBVIOUS
<1> USE DEF ClearRecords, disk, memory, past
<1>1. OnCourse'
  BY OnCourseStays DEF IInv, Next, Updater, Install, Finish
<1>2. /\ SharedIsInDoubt' /\ Counted' /\ (AllHold => AllHold')
      /\ RecordsAreCurrent(rec)' /\ RecordsAreCurrent(stored)'
      /\ RetryFilesAreCurrent'
  BY KeptCounts, KeptRecords, KeptRetryFiles DEF Keeps
<1>4. ScriptProgress'
  BY DEF IInv, OnCourse, ScriptProgress, TypeOK, Child
<1>5. SuccessIsTrue'
  BY <1>2 DEF IInv, OnCourse, OpenUntilPost, Working, SuccessIsTrue, Child
<1>6. CachedIsNext'
  BY DEF IInv, OnCourse, OpenUntilPost, MemoryMatchesMisc, CachedIsNext, Working, Child
<1> QED
  BY <1>1, <1>2, <1>4, <1>5, <1>6 DEF IInv

LEMMA DeleteUpdaterTmpFilesKeeps == IInv /\ DeleteUpdaterTmpFiles /\ doubt' = doubt => IInv'
<1> SUFFICES ASSUME IInv, DeleteUpdaterTmpFiles, doubt' = doubt PROVE IInv'
  OBVIOUS
<1> USE DEF DeleteUpdaterTmpFiles, disk, memory, past
<1>1. OnCourse'
  BY OnCourseStays DEF IInv, Next, Updater, Install, Finish
<1>2. /\ SharedIsInDoubt' /\ Counted' /\ (AllHold => AllHold')
      /\ RecordsAreCurrent(rec)' /\ RecordsAreCurrent(stored)'
      /\ RetryFilesAreCurrent'
  BY KeptCounts, KeptRecords, KeptRetryFiles DEF Keeps
<1>4. ScriptProgress'
  BY DEF IInv, OnCourse, ScriptProgress, TypeOK, Child
<1>5. SuccessIsTrue'
  BY <1>2 DEF IInv, OnCourse, OpenUntilPost, Working, SuccessIsTrue, Child
<1>6. CachedIsNext'
  BY DEF IInv, OnCourse, OpenUntilPost, MemoryMatchesMisc, CachedIsNext, Working, Child
<1> QED
  BY <1>1, <1>2, <1>4, <1>5, <1>6 DEF IInv

LEMMA OnRebootEvtKeeps == IInv /\ OnRebootEvt /\ doubt' = doubt => IInv'
<1> SUFFICES ASSUME IInv, OnRebootEvt, doubt' = doubt PROVE IInv'
  OBVIOUS
<1> USE DEF OnRebootEvt, disk, memory, past
<1>1. OnCourse'
  BY OnCourseStays DEF IInv, Next, Updater, Install, Finish
<1>2. /\ SharedIsInDoubt' /\ Counted' /\ (AllHold => AllHold')
      /\ RecordsAreCurrent(rec)' /\ RecordsAreCurrent(stored)'
      /\ RetryFilesAreCurrent'
  BY KeptCounts, KeptRecords, KeptRetryFiles DEF Keeps
<1>4. ScriptProgress'
  BY DEF IInv, OnCourse, ScriptProgress, TypeOK, Child
<1>5. SuccessIsTrue'
  BY <1>2 DEF IInv, OnCourse, OpenUntilPost, Working, SuccessIsTrue, Child
<1>6. CachedIsNext'
  BY DEF IInv, OnCourse, OpenUntilPost, MemoryMatchesMisc, CachedIsNext, Working, Child
<1> QED
  BY <1>1, <1>2, <1>4, <1>5, <1>6 DEF IInv

LEMMA UpdaterDoRebootKeeps == IInv /\ UpdaterDoReboot /\ doubt' = doubt => IInv'
<1> SUFFICES ASSUME IInv, UpdaterDoReboot, doubt' = doubt PROVE IInv'
  OBVIOUS
<1> USE DEF UpdaterDoReboot, disk, memory, past, NoMsg
<1>1. OnCourse'
  BY OnCourseStays DEF IInv, Next, Updater, Install, Finish
<1>2. /\ SharedIsInDoubt' /\ Counted' /\ (AllHold => AllHold')
      /\ RecordsAreCurrent(rec)' /\ RecordsAreCurrent(stored)'
      /\ RetryFilesAreCurrent'
  BY KeptCounts, KeptRecords, KeptRetryFiles DEF Keeps
<1>4. ScriptProgress'
  BY DEF IInv, OnCourse, ScriptProgress, TypeOK, Child
<1>5. SuccessIsTrue'
  BY <1>2 DEF IInv, OnCourse, OpenUntilPost, Working, SuccessIsTrue, Child
<1>6. CachedIsNext'
  BY DEF IInv, OnCourse, OpenUntilPost, MemoryMatchesMisc, CachedIsNext, Working, Child
<1> QED
  BY <1>1, <1>2, <1>4, <1>5, <1>6 DEF IInv

\* A reset takes at most the raw image that was not synced; if a record of it is left,
\* the partition is in doubt from now on, and otherwise it is written again.
LEMMA CrashKeeps ==
  ASSUME IInv, Crash, doubt' = doubt \cup LostButRecorded
  PROVE  IInv'
<1> USE DEF Crash
<1>1. OnCourse'
  BY OnCourseStays DEF IInv, Next
<1>2. /\ asked' = asked /\ doubt \subseteq doubt' /\ rec' \in {rec, stored} /\ stored' = rec'
      /\ \A p \in Parts : content'[p] = content[p] \/ p = cached
      /\ \A p \in Parts \ doubt' : content'[p] # content[p] => p \notin Recorded(rec')
  BY DEF IInv, OnCourse, TypeOK, LostButRecorded
<1>3. SharedIsInDoubt'
  BY <1>2 DEF IInv, SharedIsInDoubt, PartsIn
<1>4. RecordsAreCurrent(rec)' /\ RecordsAreCurrent(stored)'
  <2> SUFFICES ASSUME NEW r, r = rec', RecordsAreCurrent(r)
               PROVE  \A i \in 1..MaxRecords : r.slots[i] \notin {None} \cup doubt' =>
                        \E j \in DOMAIN asked : r.slots[i] \in PartsIn(asked[j])
                                                /\ content'[r.slots[i]] = asked[j]
    BY <1>2 DEF IInv, RecordsAreCurrent, PartsIn
  <2> TAKE i \in 1..MaxRecords
  <2> HAVE r.slots[i] \notin {None} \cup doubt'
  <2>1. r.slots[i] \in Recorded(rec') /\ r.slots[i] \in Parts
    BY <1>2 DEF Recorded, IInv, OnCourse, TypeOK, Records
  <2>2. content'[r.slots[i]] = content[r.slots[i]]
    BY <1>2, <2>1
  <2> QED
    BY <1>2, <2>2 DEF RecordsAreCurrent
<1>5. RetryFilesAreCurrent'
  BY <1>2 DEF IInv, RetryFilesAreCurrent, PartsIn
<1>6. ASSUME NEW j \in DOMAIN asked, Holds(j),
             cached # None => cached \notin PartsIn(asked[j]) \ doubt
      PROVE  Holds(j)'
  <2>1. \A p \in PartsIn(asked[j]) : p \in Parts
    BY OtaAssumption DEF IInv, OnCourse, TypeOK, PartsIn
  <2>2. \A p \in Parts : p # None
    BY OtaAssumption
  <2> QED
    BY <1>2, <1>6, <2>1, <2>2 DEF Holds, PartsIn
<1>7. Counted'
  <2>1. ASSUME NEW j \in 1..msg.done PROVE Holds(j)'
    <3>1. /\ j \in DOMAIN asked /\ Holds(j) /\ msg.boot
          /\ msg.done < Len(asked) => j # msg.done + 1 /\ msg.done + 1 \in DOMAIN asked
      <4>1. msg.done \in Nat /\ asked \in Seq(Packages) /\ msg.done <= Len(asked)
        BY DEF IInv, OnCourse, TypeOK, Messages, Counted
      <4>2. msg.boot
        BY <2>1, <4>1 DEF IInv, Counted
      <4> QED
        BY <4>1, <4>2 DEF IInv, Counted
    <3>2. cached # None => cached \notin PartsIn(asked[j]) \ doubt
      BY <3>1 DEF IInv, CachedIsNext, SharedIsInDoubt
    <3> QED
      BY <1>6, <3>1, <3>2
  <2> QED
    BY <1>2, <2>1 DEF IInv, Counted
<1>8. SuccessIsTrue'
  <2>1. SUFFICES ASSUME result = "pass" PROVE AllHold'
    BY DEF SuccessIsTrue
  <2>2. cached = None /\ AllHold
    BY <2>1 DEF IInv, CachedIsNext, SuccessIsTrue
  <2> QED
    BY <1>2, <1>6, <2>2 DEF AllHold
<1>9. ScriptProgress' /\ CachedIsNext'
  BY DEF ScriptProgress, CachedIsNext, Child, Working
<1> QED
  BY <1>1, <1>3, <1>4, <1>5, <1>7, <1>8, <1>9 DEF IInv

\* Whatever an earlier update has left is in doubt, and what two packages share.
LEMMA AskedKeeps ==
  ASSUME IInv, NEW u \in Updates, RebootAndInstallUpgradePackage(u),
         doubt' = LeftBehind \cup InTwo(u)
  PROVE  IInv'
<1>1. OnCourse'
  BY OnCourseStays DEF IInv, Next
<1>2. status = "unknown" /\ cached = None
  BY DEF IInv, OnCourse, OpenUntilPost, RebootAndInstallUpgradePackage
<1> USE DEF RebootAndInstallUpgradePackage, memory
<1>3. u \in Seq(Packages)
  BY OtaAssumption
<1>4. SharedIsInDoubt'
  <2> SUFFICES ASSUME NEW i \in DOMAIN u, NEW j \in DOMAIN u, NEW p \in PartsIn(u[i]),
                      p \notin InTwo(u), p \in PartsIn(u[j])
               PROVE  i = j
    BY DEF SharedIsInDoubt, PartsIn
  <2>1. p \in Parts
    BY <1>3, OtaAssumption DEF PartsIn
  <2> QED
    BY <2>1 DEF InTwo
<1>5. RecordsAreCurrent(rec)' /\ RecordsAreCurrent(stored)' /\ RetryFilesAreCurrent'
  BY DEF LeftBehind, Recorded, RecordsAreCurrent, RetryFilesAreCurrent
<1>6. Counted' /\ ScriptProgress' /\ CachedIsNext' /\ SuccessIsTrue'
  BY <1>2, <1>3 DEF Counted, ScriptProgress, CachedIsNext, SuccessIsTrue, Child, Working
<1> QED
  BY <1>1, <1>4, <1>5, <1>6 DEF IInv

LEMMA StutterKeeps == IInv /\ UNCHANGED recordVars => IInv'
<1> SUFFICES ASSUME IInv, UNCHANGED recordVars PROVE IInv'
  OBVIOUS
<1> USE DEF recordVars, vars, disk, memory, past
<1>1. OnCourse'
  BY OnCourseStays DEF IInv, Next, Updater, Install, Finish
<1>2. SharedIsInDoubt' /\ Counted' /\ (AllHold => AllHold')
  BY KeptCounts DEF Keeps
<1>3. RecordsAreCurrent(rec)' /\ RecordsAreCurrent(stored)' /\ RetryFilesAreCurrent'
  BY KeptRecords, KeptRetryFiles DEF Keeps
<1>4. SuccessIsTrue' /\ CachedIsNext'
  BY <1>2 DEF IInv, SuccessIsTrue, CachedIsNext
<1>5. ScriptProgress'
  BY DEF IInv, ScriptProgress, Script, Package, Part
<1> QED
  BY <1>1, <1>2, <1>3, <1>4, <1>5 DEF IInv

LEMMA InitRecordsInv == InitRecords => IInv
<1> SUFFICES ASSUME InitRecords PROVE IInv
  OBVIOUS
<1> USE DEF InitRecords, Init
<1>1. OnCourse
  BY InitOnCourse
<1>2. SharedIsInDoubt /\ Counted
  BY DEF SharedIsInDoubt, Counted, NoMsg
<1>3. RecordsAreCurrent(rec) /\ RecordsAreCurrent(stored) /\ RetryFilesAreCurrent
  BY EmptyRecords DEF RetryFilesAreCurrent
<1>4. ScriptProgress /\ CachedIsNext /\ SuccessIsTrue
  BY DEF ScriptProgress, CachedIsNext, SuccessIsTrue, Child, Working
<1> QED
  BY <1>1, <1>2, <1>3, <1>4 DEF IInv

LEMMA NextKeeps == IInv /\ [NextRecords]_recordVars => IInv'
<1> SUFFICES ASSUME IInv, [NextRecords]_recordVars PROVE IInv'
  OBVIOUS
<1>1. CASE \E u \in Updates : /\ RebootAndInstallUpgradePackage(u)
                              /\ doubt' = LeftBehind \cup InTwo(u)
  BY <1>1, AskedKeeps
<1>2. CASE Install /\ doubt' = doubt
  BY <1>2, ClearRecordPartitionOffsetKeeps, SetRetryCountKeeps, ResumeInstallKeeps,
     SkipUpdatedKeeps, SkipCommandsKeeps, BeginWriteKeeps, RegisterForRetryKeeps,
     FinishWriteKeeps, RecordSlotKeeps, RecordOffsetKeeps,
     ReleaseDataWriterKeeps, ScriptDoneKeeps,
     ScriptFaultKeeps, InstallFailsKeeps, RebootRetryKeeps, NoMoreRetryKeeps,
     PackageInstalledKeeps DEF Install
<1>3. CASE Finish /\ doubt' = doubt
  BY <1>3, PostUpdatePackagesKeeps, ClearMessageKeeps, ClearRecordsKeeps,
     DeleteUpdaterTmpFilesKeeps, UpdaterDoRebootKeeps DEF Finish
<1>4. CASE (Boot \/ MountDataFails \/ PreUpdatePackages \/ OnRebootEvt) /\ doubt' = doubt
  BY <1>4, BootKeeps, MountDataFailsKeeps, PreUpdatePackagesKeeps, OnRebootEvtKeeps
<1>5. CASE Crash /\ doubt' = doubt \cup LostButRecorded
  BY <1>5, CrashKeeps
<1>6. CASE UNCHANGED recordVars
  BY <1>6, StutterKeeps
<1> QED
  BY <1>1, <1>2, <1>3, <1>4, <1>5, <1>6 DEF NextRecords, Updater

-----------------------------------------------------------------------------
\* The inductive invariant holds in every behaviour, for every set of packages,
\* partitions, record slots and retries, whatever an earlier update left behind and
\* whatever a reset loses.
THEOREM IInvHolds == SpecRecords => []IInv
<1>1. InitRecords => IInv
  BY InitRecordsInv
<1>2. IInv /\ [NextRecords]_recordVars => IInv'
  BY NextKeeps
<1> QED
  BY <1>1, <1>2, PTL DEF SpecRecords

\* A partition passed over because of its record (IsPartitionUpdated in
\* ExecuteUpdateBlock and RawImageWrite) holds the image being installed, unless the
\* record was there before the update, or two packages have the partition, or a reset
\* has lost its raw image.
THEOREM SkipsAreTrue == SpecRecords => []SkipIsTrue
<1>1. IInv => SkipIsTrue
  BY SkippedIsCurrent DEF SkipIsTrue
<1> QED
  BY <1>1, IInvHolds, PTL

\* "pass" in updater_result (PostUpdatePackages) means that every package the client
\* asked for is in its partitions, but for those in doubt.
THEOREM PassesAreTrue == SpecRecords => []PassIsTrue
<1>1. IInv => PassIsTrue
  BY DEF IInv, SuccessIsTrue, PassIsTrue
<1> QED
  BY <1>1, IInvHolds, PTL

\* A package that upgraded_pkg_num counts is in its partitions, but for those in doubt.
THEOREM CountsAreTrue == SpecRecords => []CountIsTrue
<1>1. ASSUME IInv PROVE CountIsTrue
  <2>1. msg.done \in Nat /\ asked \in Seq(Packages)
    BY <1>1 DEF IInv, OnCourse, TypeOK, Messages
  <2> QED
    BY <1>1, <2>1 DEF IInv, Counted, CountIsTrue
<1> QED
  BY <1>1, IInvHolds, PTL

\* doubt only watches: with it or without, the behaviours of the device are those of
\* OtaLifecycle.
THEOREM DoubtOnlyWatches == SpecRecords => Spec
<1>1. InitRecords => Init
  BY DEF InitRecords
<1>2. [NextRecords]_recordVars => [Next]_vars
  BY DEF NextRecords, recordVars, Next
<1> QED
  BY <1>1, <1>2, PTL DEF SpecRecords, Spec
=============================================================================
