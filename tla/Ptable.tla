-------------------------------- MODULE Ptable --------------------------------
(***************************************************************************)
(* The partition tables of a device: the table of a package is compared    *)
(* with the device's and written in the updater (PtableProcess), a table   *)
(* that was edited in a file is written by update_binary                    *)
(* (WritePtableWithFile), and the table of one slot is copied to the other. *)
(*                                                                         *)
(* A device has an eMMC disk, UFS LUNs, or both behind a composite table.   *)
(* A write is the MBR and header first and the entries after, and power may *)
(* be lost between: what is on disk stays, what is in memory is gone.       *)
(***************************************************************************)
EXTENDS Gpt, Power, FiniteSets, Functions

CONSTANTS
  Devices,      \* [kinds, startLun, backup, reserved, vab, disk]
  Jobs,         \* what is asked for: see Job
  FirstSlotLun, \* the first LUN that may belong to a slot
  SlotALun      \* LUN_FOR_SLOT_A; that of slot B follows

Mmc == -1       \* the place of the eMMC disk; a LUN's is its number
Parts(t) == {t.entries[i] : i \in DOMAIN t.entries}

VARIABLES
  device,    \* the device, with the disk it was made with
  disk,      \* [place -> [size, primary, backup]]
  job,       \* what is asked for
  at,        \* the package under way
  step,      \* where it is
  infos,     \* partitionInfo_ of the device's and the package's tables, per child
  data,      \* what is to be written yet
  file       \* the edited table in a file, or NoFile

memory == <<at, infos, data>>
ptable == <<device, disk, job, at, step, infos, data, file>>

NoTable == [Blank EXCEPT !.last = -1]
NoFile == [emmc |-> Blank, luns |-> <<>>, there |-> FALSE]
\* kind is "packages" (the tables of images, one per package), "file" (what modify
\* asks for is edited and written) or "sync" (the table of a slot is copied);
\* current and slot are the slots in use and under update, 1 or 2.
Job(kind, images, sdcard, modify, updater, current, slot) ==
  [kind |-> kind, images |-> images, sdcard |-> sdcard, modify |-> modify,
   updater |-> updater, current |-> current, slot |-> slot]

SlotName(n) == IF n = 1 THEN "a" ELSE IF n = 2 THEN "b" ELSE ""
LunOfSlot(slot) == SlotALun + slot - 1
DiskStates == [size : Int, primary : GptTables, backup : GptTables]
Images == [emmc : GptTables, luns : Seq(GptTables), there : BOOLEAN]
\* A device has one table or two, and its LUNs are counted from 0; where slots have
\* LUNs, those name their slot.
IsTableDevice(d) ==
  /\ d.kinds \in Seq({"ufs", "emmc"}) /\ Len(d.kinds) \in 1..2
  /\ d.startLun \in Nat /\ d.backup \in BOOLEAN /\ d.reserved \in Int /\ d.vab \in BOOLEAN
  /\ IsFiniteSet(DOMAIN d.disk) /\ d.disk \in [DOMAIN d.disk -> DiskStates]
  /\ DOMAIN d.disk \ {Mmc} = 0..Cardinality(DOMAIN d.disk \ {Mmc}) - 1
  /\ d.vab => \A slot \in 1..2 :
       LunOfSlot(slot) \in DOMAIN d.disk /\ MatchSuffix(d.disk[LunOfSlot(slot)].primary, SlotName(slot))
\* The tables of a slot are copied where slots have LUNs.
IsTableJob(d, j) ==
  /\ j.kind \in {"packages", "file", "sync"} /\ j.images \in Seq(Images) /\ j.modify \in Seq(Moves)
  /\ j.sdcard \in BOOLEAN /\ j.updater \in BOOLEAN /\ j.current \in Int /\ j.slot \in Int
  /\ j.kind = "sync" => d.vab /\ j.current \in 1..2
ASSUME TablesAssumption ==
  /\ BackupBlocks \in Nat /\ SlotALun \in Nat
  /\ \A d \in Devices : IsTableDevice(d) /\ \A j \in Jobs[d] : IsTableJob(d, j)

Children == DOMAIN device.kinds
Composite == Len(device.kinds) > 1
NoInfo == [i \in Children |-> <<>>]
LunCount == Cardinality(DOMAIN disk \ {Mmc})

Size(place) == IF place \in DOMAIN disk THEN disk[place].size ELSE 0
ImageTable(img, i) == IF i + 1 <= Len(img.luns) THEN img.luns[i + 1] ELSE Blank
Concat(f) == IF Composite THEN f[1] \o f[2] ELSE f[1]

(***************************************************************************)
(* Loading from the device.                                                *)
(***************************************************************************)
\* A LUN that cannot be read is passed over.
Readable(t, lun) == t.mbr /\ CheckGptHeader(t, Size(lun))
LoadLun(info, lun) ==
  IF Readable(disk[lun].primary, lun) THEN UfsReadGpt(info, disk[lun].primary, lun) ELSE info
LoadAllLunPartitions ==
  LET upTo[n \in 0..LunCount] == IF n = 0 THEN <<>> ELSE LoadLun(upTo[n - 1], n - 1)
  IN  upTo[LunCount]

ReadableEmmc(t) == LooksLikeGpt(t) /\ CheckGptHeader(t, Size(Mmc))
ReadEmmcGptImageToRam ==
  IF ReadableEmmc(disk[Mmc].primary) THEN ReadEntries(disk[Mmc].primary, Mmc) ELSE <<>>

LoadChild(k) == IF device.kinds[k] = "ufs" THEN LoadAllLunPartitions ELSE ReadEmmcGptImageToRam

\* As if InitPtable did not forget what a table that stands alone knows.
LoadPtableFromDeviceOnce(known) ==
  [k \in Children |-> IF known[k] # <<>> THEN known[k] ELSE LoadChild(k)]
\* A table that knows something does not read again; InitPtable forgets what it
\* knows, but not what the children of a composite one know.
LoadPtableFromDevice(known) ==
  IF ~Composite THEN <<LoadChild(1)>>
  ELSE <<IF known[1] # <<>> THEN known[1] ELSE LoadChild(1), IF known[2] # <<>> THEN known[2] ELSE LoadChild(2)>>
\* An eMMC disk without a table is an error, LUNs without are not.
DeviceLoads(info) == \A k \in Children : device.kinds[k] = "ufs" \/ info[k] # <<>>

(***************************************************************************)
(* Loading from an image.                                                  *)
(***************************************************************************)
\* As if the slot that runs were the unused one.
OfRunningSlot(t) ==
  IF job.updater THEN ~MatchSuffix(t, SlotName(job.slot)) ELSE MatchSuffix(t, SlotName(3 - job.slot))
\* In the updater all but the running slot's, else the one's under update.
OfUnusedSlot(t) ==
  IF job.updater THEN ~MatchSuffix(t, SlotName(3 - job.slot)) ELSE MatchSuffix(t, SlotName(job.slot))
\* needWrite: everything, unless the device has virtual A/B and the table came in
\* a file.
SetLunPtnDataInfoNeedWrite(t, lun) ==
  IF ~device.vab \/ job.kind # "file" THEN TRUE
  ELSE IF lun < FirstSlotLun \/ job.slot \notin 1..2 \/ job.current = job.slot THEN job.updater
  ELSE OfUnusedSlot(t)

\* What is to be written: whether there is a table, where to, which, whether it is
\* needed, and the one for the backup.
Datum(valid, place, table, need) ==
  [valid |-> valid, place |-> place, table |-> table, need |-> need, copy |-> NoTable]

\* The index in the image and the LUN differ by the first LUN that has a table.
ParsedLun(s, t, lun) ==
  [ok |-> CheckGptHeader(t, Size(lun)), info |-> UfsReadGpt(s.info, t, lun),
   data |-> Append(s.data, Datum(TRUE, lun, t, SetLunPtnDataInfoNeedWrite(t, lun)))]
ParseLun(s, raw, lun) ==
  IF LooksLikeGpt(raw)
  THEN ParsedLun(s, UfsPatchGptHeader(raw, Size(lun), device.backup, device.reserved), lun)
  ELSE [s EXCEPT !.data = Append(@, Datum(FALSE, lun, Blank, FALSE))]
ParseLuns(img, known) ==
  LET upTo[n \in 0..LunCount] ==
        IF n = 0 THEN [ok |-> LunCount > 0, info |-> known, data |-> <<>>]
        ELSE LET s == upTo[n - 1] IN
             IF s.ok THEN ParseLun(s, ImageTable(img, n - 1), n - 1 + device.startLun) ELSE s
  IN  upTo[LunCount]

\* The backup's table is looked up by the number of the LUN, where the tables are
\* counted from the first LUN that has one.
BackupTable(d, lun) == IF lun + 1 \in DOMAIN d THEN d[lun + 1].table ELSE NoTable
WithCopies(s) ==
  [s EXCEPT !.data = [i \in DOMAIN s.data |-> [s.data[i] EXCEPT !.copy = BackupTable(s.data, s.data[i].place)]]]
UfsParse(img, known) == WithCopies(ParseLuns(img, known))

EmmcParsed(t) ==
  [ok |-> ReadableEmmc(t), info |-> IF ReadableEmmc(t) THEN ReadEntries(t, Mmc) ELSE <<>>,
   data |-> <<Datum(LooksLikeGpt(t), Mmc, t, TRUE)>>]
EmmcParse(img) == EmmcParsed(EmmcPatchGptHeader(img.emmc, Size(Mmc)))

ParseChild(k, img, known) ==
  IF device.kinds[k] = "ufs" THEN UfsParse(img, IF Composite THEN known[k] ELSE <<>>) ELSE EmmcParse(img)
ParsePartitionFromBuffer(img, known) ==
  IF Composite THEN <<ParseChild(1, img, known), ParseChild(2, img, known)>> ELSE <<ParseChild(1, img, known)>>
Parses(parsed) == \A k \in Children : parsed[k].ok

(***************************************************************************)
(* Comparing.                                                              *)
(***************************************************************************)
SamePlace(p, q) == p.start = q.start /\ p.size = q.size
\* IsPtableChanged: by position, and whatever the LUN is.
ComparePtable(dev, pkg) ==
  /\ pkg # <<>>
  /\ \/ Len(dev) # Len(pkg)
     \/ \E i \in DOMAIN pkg :
          dev[i].name # pkg[i].name \/ dev[i].slot # pkg[i].slot \/ ~SamePlace(dev[i], pkg[i])
\* IsPartitionChanged: also if one of them has none of the name.
MovedPartition(dev, pkg, d, p) == d = 0 \/ p = 0 \/ ~SamePlace(dev[d], pkg[p])
ResizedPartition(dev, pkg, d, p) == d = 0 \/ p = 0 \/ dev[d].size # pkg[p].size
\* As if only the size were compared.
ComparePartitionSize(dev, pkg, name) ==
  pkg # <<>> /\ ResizedPartition(dev, pkg, FirstNamed(dev, name, ""), FirstNamed(pkg, name, ""))
ComparePartition(dev, pkg, name) ==
  pkg # <<>> /\ MovedPartition(dev, pkg, FirstNamed(dev, name, ""), FirstNamed(pkg, name, ""))

-----------------------------------------------------------------------------
(***************************************************************************)
(* PtableProcess: package after package.                                   *)
(***************************************************************************)
PtableInit ==
  /\ device \in Devices /\ disk = device.disk
  /\ job \in Jobs[device]
  /\ at = 1 /\ step = "load" /\ file = NoFile
  /\ infos = [device |-> NoInfo, package |-> NoInfo] /\ data = <<>>

\* The end, and with it the end of the file.
Finish(result) == step' = result /\ file' = NoFile /\ UNCHANGED <<device, disk, job, memory, faults>>
Fail == Finish("failed")

AllProcessed ==
  /\ job.kind = "packages" /\ step = "load" /\ at > Len(job.images)
  /\ Finish("success")

\* The device's table, then the package's, then what has changed.
Infos(parsed) == [k \in Children |-> parsed[k].info]
AllData(parsed) == Concat([k \in Children |-> parsed[k].data])
Refused(dev, pkg) == ~job.sdcard /\ ComparePartition(Concat(dev), Concat(pkg), Userdata)
Outcome(dev, pkg, parsed) ==
  IF ~DeviceLoads(dev) \/ ~Parses(parsed) THEN "failed"
  ELSE IF ~ComparePtable(Concat(dev), Concat(pkg)) THEN "load"
  ELSE IF Refused(dev, pkg) THEN "failed" ELSE "write"
PtableProcess ==
  /\ job.kind = "packages" /\ step = "load" /\ at <= Len(job.images)
  /\ LET dev == LoadPtableFromDevice(infos.device)
         parsed == ParsePartitionFromBuffer(job.images[at], infos.package)
     IN  /\ step' = Outcome(dev, Infos(parsed), parsed)
         /\ infos' = [device |-> dev, package |-> Infos(parsed)]
         /\ data' = IF step' = "write" THEN AllData(parsed) ELSE <<>>
  /\ at' = IF step' = "load" THEN at + 1 ELSE at
  /\ UNCHANGED <<device, disk, job, file, faults>>

(***************************************************************************)
(* WritePartitionTable: one table after the other, of each the MBR and the  *)
(* header first.                                                           *)
(***************************************************************************)
Table == Head(data)
Pending == step = "write" /\ data # <<>>
HeadOf(t, old) == [t EXCEPT !.entries = old.entries]

NextTable ==
  /\ step' = "write" /\ data' = Tail(data)
  /\ UNCHANGED <<device, disk, job, at, infos, file>>
Put(place, disks, then) ==
  /\ disk' = [disk EXCEPT ![place] = disks] /\ step' = then
  /\ UNCHANGED <<device, job, at, infos, file, faults>>
HasBackup == device.backup /\ Table.place # Mmc

\* A LUN without a table has no number either: what is read for it is none, and
\* ends the writing, or is one of a LUN, and is passed over.
WriteInvalid ==
  /\ Pending /\ ~Table.valid /\ Table.place # Mmc
  /\ \/ NextTable /\ UNCHANGED faults
     \/ Fail
WriteUnneeded == Pending /\ Table.valid /\ ~Table.need /\ NextTable /\ UNCHANGED faults

MayWrite == Pending /\ Table.valid /\ Table.need
\* As if the header of the backup were written with the header.
WriteHeads ==
  /\ MayWrite
  /\ Put(Table.place, [disk[Table.place] EXCEPT !.primary = HeadOf(Table.table, @),
                                               !.backup = HeadOf(Table.table, @)], "entries")
  /\ UNCHANGED data
WriteHead ==
  /\ MayWrite
  /\ Put(Table.place, [disk[Table.place] EXCEPT !.primary = HeadOf(Table.table, @)], "entries")
  /\ UNCHANGED data
WriteEntries ==
  /\ step = "entries"
  /\ Put(Table.place, [disk[Table.place] EXCEPT !.primary = Table.table],
         IF HasBackup THEN "backup" ELSE "write")
  /\ data' = IF HasBackup THEN data ELSE Tail(data)
WriteFails ==
  /\ \/ MayWrite
     \/ step = "entries"
  /\ Fault /\ step' = "failed" /\ file' = NoFile
  /\ UNCHANGED <<device, disk, job, memory>>

\* WriteBackupPartitionTable: that it fails is not noticed.
CopyThere == Table.copy # NoTable /\ Size(Table.place) > BackupBlocks
WriteBackupHead ==
  /\ step = "backup" /\ CopyThere
  /\ Put(Table.place, [disk[Table.place] EXCEPT !.backup = HeadOf(Table.copy, @)], "backup entries")
  /\ UNCHANGED data
WriteBackupEntries ==
  /\ step = "backup entries"
  /\ Put(Table.place, [disk[Table.place] EXCEPT !.backup = Table.copy], "write")
  /\ data' = Tail(data)
NoBackup == step = "backup" /\ ~CopyThere /\ NextTable /\ UNCHANGED faults
BackupFails ==
  /\ \/ step = "backup" /\ CopyThere
     \/ step = "backup entries"
  /\ Fault /\ NextTable

\* The next package; or the end, and the file is removed.
TablesWritten ==
  /\ step = "write" /\ data = <<>>
  /\ step' = IF job.kind = "packages" THEN "load" ELSE "success"
  /\ at' = IF job.kind = "packages" THEN at + 1 ELSE at
  /\ file' = NoFile
  /\ UNCHANGED <<device, disk, job, infos, data, faults>>

(***************************************************************************)
(* A table in a file: who edits it reads the tables of the device, moves    *)
(* partitions and puts the file where update_binary looks for it.           *)
(***************************************************************************)
\* GetPtableImageBuffer: the tables as they are, of the LUNs from the first that
\* has one; there must be as many of them as there are LUNs.
ImageBuffer ==
  [there |-> device.startLun = 0 /\ (Mmc \in DOMAIN disk => LooksLikeGpt(disk[Mmc].primary)),
   emmc |-> IF Mmc \in DOMAIN disk THEN disk[Mmc].primary ELSE Blank,
   luns |-> [i \in 1..LunCount |->
               IF disk[i - 1].primary.mbr THEN disk[i - 1].primary ELSE Blank]]

\* One table of the image, and what is asked of it.
Unedited(t) == [ok |-> TRUE, table |-> t]
Edited(t, blocks, wanted) ==
  LET upTo[n \in 0..Len(job.modify)] ==
        IF n = 0 THEN Unedited(t)
        ELSE LET s == upTo[n - 1] IN
             IF s.ok /\ n \in wanted THEN ChangeGpt(s.table, job.modify[n], blocks) ELSE s
  IN  upTo[Len(job.modify)]
WantedOf(lun) == {n \in DOMAIN job.modify : job.modify[n].lun = lun}
EditLun(t, lun) ==
  IF LooksLikeGpt(t)
  THEN Edited(t, LastBlock(Size(lun), device.backup) + 1, WantedOf(lun)) ELSE Unedited(t)
EditEmmc(t) == IF Mmc \in DOMAIN disk THEN Edited(t, Size(Mmc), DOMAIN job.modify) ELSE Unedited(t)
\* EditPartitionBuf: all of it or none.
Tables(luns) == [i \in DOMAIN luns |-> luns[i].table]
EditedImage(there, emmc, luns) ==
  [there |-> there /\ emmc.ok /\ \A i \in DOMAIN luns : luns[i].ok,
   emmc |-> emmc.table, luns |-> Tables(luns)]
EditPartitionBuf(img) ==
  EditedImage(img.there, EditEmmc(img.emmc), [i \in DOMAIN img.luns |-> EditLun(img.luns[i], i - 1)])

Saved(img) == IF img.there THEN img ELSE NoFile
EditFile ==
  /\ job.kind = "file" /\ step = "load"
  /\ file' = Saved(EditPartitionBuf(ImageBuffer))
  /\ step' = "edited"
  /\ UNCHANGED <<device, disk, job, memory, faults>>

\* No file, or one that cannot be used: nothing is written, and all is well.
WritePtableWithFile ==
  /\ job.kind = "file" /\ step = "edited"
  /\ LET parsed == ParsePartitionFromBuffer(file, NoInfo) IN
     /\ step' = IF file.there /\ Parses(parsed) THEN "write" ELSE "nothing"
     /\ data' = IF step' = "write" THEN AllData(parsed) ELSE <<>>
  /\ file' = IF step' = "write" THEN file ELSE NoFile
  /\ UNCHANGED <<device, disk, job, at, infos, faults>>

(***************************************************************************)
(* SyncABLunPtableDevice: the table of the slot in use, with the names of   *)
(* the other slot, becomes the table of the other slot.                     *)
(***************************************************************************)
SyncABLunPtableDevice ==
  /\ job.kind = "sync" /\ step = "load"
  /\ data' = <<Datum(TRUE, LunOfSlot(3 - job.current),
                    EditABPartition(disk[LunOfSlot(job.current)].primary, SlotName(job.current)), TRUE)>>
  /\ step' = "write"
  /\ UNCHANGED <<device, disk, job, at, infos, file, faults>>

(***************************************************************************)
(* Power is lost: what is asked for is asked again, and a file in the       *)
(* updater's /tmp is gone.                                                 *)
(***************************************************************************)
Ended == step \in {"success", "failed", "nothing"}
PtableCut ==
  /\ Fault /\ ~Ended
  /\ at' = 1 /\ infos' = [device |-> NoInfo, package |-> NoInfo] /\ data' = <<>>
  /\ IF job.kind = "file" /\ step # "load" THEN step' = "edited" ELSE step' = "load"
  /\ file' = IF job.updater THEN NoFile ELSE file
  /\ UNCHANGED <<device, disk, job>>

PtableNext ==
  \/ AllProcessed \/ PtableProcess
  \/ WriteInvalid \/ WriteUnneeded \/ WriteHead \/ WriteEntries \/ WriteFails
  \/ WriteBackupHead \/ WriteBackupEntries \/ NoBackup \/ BackupFails \/ TablesWritten
  \/ EditFile \/ WritePtableWithFile \/ SyncABLunPtableDevice
  \/ PtableCut
PtableSpec == PtableInit /\ faults = 0 /\ [][PtableNext]_<<ptable, faults>>
-----------------------------------------------------------------------------
PtableTypeOK ==
  /\ step \in {"load", "write", "entries", "backup", "backup entries", "edited", "success", "failed", "nothing"}
  /\ at \in 1..Len(job.images) + 1
  /\ DOMAIN disk = DOMAIN device.disk
  /\ step \in {"entries", "backup", "backup entries"} => data # <<>> /\ Table.valid

\* OneCopyWhole: where a table in the image is that of the LUN of its number (startLun is
\* 0) and LUNs have a backup, a first fault leaves the table or its backup whole, wherever
\* it comes (WritePartitionTable): the header is not written there before the entries are
\* here.  A backup that was torn is not made again, so that a second fault may leave
\* neither.
OneCopyWhole ==
  device.backup /\ device.startLun = 0 /\ faults = 0 =>
    \A lun \in DOMAIN disk \ {Mmc} :
      LET whole(t) == t.mbr /\ CheckGptHeader(t, Size(lun)) IN
      whole(device.disk[lun].primary) /\ whole(device.disk[lun].backup)
        => whole(disk[lun].primary) \/ whole(disk[lun].backup)

\* After a success who looks a partition up finds it where the last package, or who
\* asked for another place, wants it, on whichever LUN; and the tables that end in
\* the user's data let nothing run past the device.  Behind a composite table a last
\* package may be left out that does not differ from what the first one found.
Finds(info, asked) ==
  \A p \in asked : \E i \in AllNamed(info, p.name, p.slot) : SamePlace(info[i], p) /\ i = FirstNamed(info, p.name, p.slot)
Fresh == Concat([k \in Children |-> LoadChild(k)])
LastAsked == Concat(Infos(ParsePartitionFromBuffer(job.images[Len(job.images)], NoInfo)))
LastIsUserdata(t) == t.entries # <<>> /\ Named(t.entries[Len(t.entries)], Userdata)
WrittenAsAsked ==
  step = "success" =>
    /\ job.kind = "packages" =>
         \/ Finds(Fresh, Range(LastAsked))
         \/ Composite /\ ~ComparePtable(Concat(infos.device), Concat(infos.package))
    /\ (job.kind = "file" /\ ~device.vab) =>
         /\ Finds(Fresh, Range(job.modify))
         /\ \A place \in DOMAIN disk : LastIsUserdata(disk[place].primary) => Sound(disk[place].primary, Size(place))
    /\ job.kind = "sync" =>
         \A e \in Parts(disk[LunOfSlot(job.current)].primary) :
           GetTgtPartitionName(e, SlotName(job.current)) \in Parts(disk[LunOfSlot(3 - job.current)].primary)

\* RunningSlotKept: where slots have LUNs and the updater does not run, what is written
\* for the slot under update leaves the LUN of the running one alone, whatever was
\* edited, cut and tried again (SetLunPtnDataInfoNeedWrite, SyncABLunPtableDevice).
RunningSlotKept ==
  /\ device.vab /\ job.kind # "packages" /\ ~job.updater /\ job.current \in 1..2
  /\ job.kind = "file" => job.slot # job.current
  => disk[LunOfSlot(job.current)] = device.disk[LunOfSlot(job.current)]

\* An update that is not from a card leaves the user's data where they are, whatever
\* is lost on the way, if they stay on their LUN.
UserdataPlace(t) == {<<e.first, e.end>> : e \in {x \in Parts(t) : Named(x, Userdata)}}
StaysOnLun(img, place) ==
  UserdataPlace(device.disk[place].primary) # {} =>
    IF place = Mmc THEN UserdataPlace(img.emmc) # {}
    ELSE LET t == ImageTable(img, place - device.startLun) IN LooksLikeGpt(t) => UserdataPlace(t) # {}
UserdataKept ==
  job.kind = "packages" /\ ~job.sdcard =>
    \A place \in DOMAIN disk :
      /\ CheckGptHeader(device.disk[place].primary, Size(place))
      /\ CheckGptHeader(disk[place].primary, Size(place))
      /\ \A i \in DOMAIN job.images : StaysOnLun(job.images[i], place)
      => UserdataPlace(disk[place].primary) = UserdataPlace(device.disk[place].primary)

\* TablesKept: no write of a table, wherever it is cut, takes what has to stay: the one
\* whole copy of a LUN's table, and the table of the slot that runs (WritePartitionTable,
\* SetLunPtnDataInfoNeedWrite).
TablesKept == PtableTypeOK /\ OneCopyWhole /\ RunningSlotKept
TablesHold == WrittenAsAsked /\ UserdataKept
=============================================================================
