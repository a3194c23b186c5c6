# A verification development for update_updater

These modules model the update service of OpenHarmony (`update_updater`): the
program that boots in the updater partition, reads from the misc partition what
it is asked to do (install packages, update from a card, wipe, erase, be
flashed), does it, survives power losses while it does so, and reports a result.
Each module is translated from the source; the entry of every definition in
`PROJECT.json` ("map") names the lines.

## 1. The system

### Components, their state and how they interact

| Component (source) | State it keeps | Operations | Talks to |
|---|---|---|---|
| Client kit, `interfaces/kits/updaterkits` | - | writes the update message, reboots | misc, through `WriteUpdaterMessage` |
| Misc message, `interfaces/kits/misc_info`, `utils/utils.cpp` | command, options, `retry_count`, `upgraded_pkg_num` | read, write, set one field, clear | read by `ParseParams` at every boot |
| Updater main, `services/updater_main.cpp`, `updater_utils.cpp` | `UpdaterParams` in memory | choice of the mode, checks, package loop, post-update, clearing misc, reboot | misc, records, result file, the child |
| Partition records, `applypatch/partition_record.cpp` | slots and an offset in misc | look up, record, reset the offset | written by every instruction that finishes a partition |
| Hardware fault retry, `hardware_fault` | fault information, retry count | decide on a reboot, count it in misc | told by pipe messages of the child |
| Updater and its child, `services/updater.cpp`, `updater_binary/main.cpp`, `update_processor.cpp` | a pipe, an exit status | fork, read messages, wait; run scripts, report | pipe, `waitpid` |
| Script manager and thread pool, `script/` | scripts by priority, one task slot, a flag per thread | run a priority, wait for it | threads share `ret`, `retCode` |
| Script interpreter, `script/script_interpreter`, `script_instruction` | contexts of variables, functions, registered instructions | evaluate, call, register, load scripts | instructions of the updater |
| Block update, `applypatch/transfer_manager.cpp`, `command_process.cpp`, `block_set.cpp`, `store.cpp` | the partition, stash files, the `_retry` file | MOVE, DIFF, NEW, ZERO, STASH, FREE | store, extraction thread |
| New-data thread, `updater_binary/update_image_block.cpp`, `block_writer.cpp` | `WriterThreadInfo`: writer, flags, two mutexes, a condition variable | extract, wait for a writer, write, hand back | the command thread |
| Ring buffer, `common/ring_buffer` | two indices, blocks, two mutexes and condition variables, a stop flag | Push, Pop, Stop | flow update |
| Flow update, `flow_update/update_bin`, `FlowDataStream` | a stash buffer, the ring, a stream offset, `isStopRun_` | extract and gather; cut and write | two threads, the records |
| Stream update, `stream_update/bin_chunk_update.cpp` | a buffer, the parser's place, a partition's device | one call per chunk | `ProcessUpdaterStream`, an A/B update |
| Package manager, `package/` | streams by name, loaded packages, entries | load, parse, verify, extract, create, close | all of the above |
| Partition tables, `ptable_parse` | the device's tables and a package's, a table in a file | load, parse, compare, write with a backup, edit, copy a slot's | updater main, update processor |
| Partition instruction, `updater_binary/update_partitions.cpp`, `fs_manager` | the kernel's table, a record in misc | probe, compare, remove, add, record, restart | the kernel, misc |
| Factory reset and secure erase, `factory_reset` | an offset in misc, the list of partitions | overwrite, sync, format | misc, updater main |
| Card update, `sdcard_update` | packages on a card | mount, choose, install | updater main, misc |
| Flashd, `flashd` | a task per channel, one flag, an uploaded file | flash, erase, format, update | hosts, misc |
| Diff and patch, `diffpatch/` | - | apply a diff | block update, stream update |
| UI, log, trace, HDI, Rust hash data | - | show, log, wrap | - |

### What is hard

* **Crashes.** Power may fail at any step. What is left is spread over the misc
  message, the partition records, the partitions and their tables, stash files and
  `_retry` files, which are written by different calls and synced at different
  times.
* **Threads.** Four places have threads that share state: the ring buffer, the
  new-data writer, the flow update and the script pool, each with its own
  hand-made protocol. Flashd has one thread and many channels that share a flag.
* **Retries.** A fault reboots the device and runs everything again; a retry
  passes over what it takes for done.
* **Partial failure.** Either of two threads may fail while the other waits; a
  load of a package may fail after any of its streams was opened; an instruction
  deep in an expression may fail.
* **Cut data.** Packages, chunks and packets end anywhere; what follows is
  whatever was in the buffer before.
* **Boundaries.** Index arithmetic in the ring, offsets of gathered chunks, an
  exit status of 8 bits, a record area that gets full, a table's last block.

What makes the parts correct: a partition that is passed over is up to date; a
result of "pass" means that everything is installed; retries are bounded and
resumption makes progress; streams are delivered whole and in order to the right
place; what is loaded is what was signed; one copy of a partition table is whole;
a request in misc is not forgotten before it is done; no thread waits for ever; an
error reaches the one who reports it. The list of hazards in `PROJECT.json` has the
lines and the properties for each.

### Modelled, and not

| | |
|---|---|
| Modelled | partition records, script manager and thread pool, stash files, factory reset and secure erase, the partition instruction |
| Partly | updater main, misc message, client kit, fault retry, updater process, updater_binary, progress, block update, new-data thread, ring buffer, flow update, raw writers, stream update, package streams, package manager and formats, algorithms and verification, partition tables, mount, script interpreter, card update, flashd |
| Not | image patch and diff, slot info, package kit and diff kit, write state, UI, log and utilities, Rust hash data |

The note of each component in `PROJECT.json` says what is left out and why.

## 2. The modules

| Module | Models |
|---|---|
| `OtaLifecycle` | an OTA update across reboots |
| `OtaRecords`, `OtaProofs` | what records are worth in it, partition by partition; the inductive invariant and the proofs |
| `BlockUpdate`, `BlockUpdateProofs` | one partition's transfer list across stops |
| `NewDataWriter`, `NewDataWriterProofs` | the command thread and the extraction thread of a block update |
| `BoundedFifo` | what the ring buffer promises |
| `RingBuffer`, `RingBufferProofs` | the ring buffer, at the grain of its critical sections; that it implements `BoundedFifo` |
| `BinFlow`, `BinFlowProofs` | the flow update of `update.bin`; its ring is an instance of `BoundedFifo` |
| `ScriptRun`, `ScriptRunProofs` | updater_binary's scripts, threads and pipe, and the parent |
| `StreamUpdate`, `StreamUpdateProofs` | the A/B update from a stream of chunks |
| `UpdateBin` | the format of `update.bin`, as operators: layout, parser, digests, writer |
| `Archives`, `ZipFile`, `GZipFile`, `Lz4File` | zip, gzip and lz4 packages and their algorithms, as operators |
| `PkgVerify` | the signature of a package and its signers |
| `PkgManager` | the package manager: streams, packages in packages, what clients call |
| `Gpt`, `Ptable` | one partition table as operators; the tables of a device |
| `MiscArgs`, `FactoryReset`, `UpdaterModes` | the options in misc; wiping and erasing; everything the updater boots for |
| `Flashd` | the flashing daemon |
| `DeviceProofs` | the proofs about `Ptable`, `Flashd` and `UpdaterModes` |
| `ScriptValues`, `ScriptInterp` | the values of the script language; its interpreter |
| `DiskPartitions` | the instruction `update_partitions` |
| `Power` | faults: a budget of power cuts and failed calls |
| `Device` | a device started for one of `Ptable`, `UpdaterModes`, `Flashd`, `ScriptInterp`, `DiskPartitions` |
| `MC...` | constants for TLC |

How they fit: `OtaLifecycle` is the whole device on its main way, with the
installation of a package as a script of partitions and an outcome (installed,
fault, failed). `ScriptRun` is what makes that outcome out of a child process, and
`ScriptInterp` what a script is. `BlockUpdate`, `NewDataWriter` and `BinFlow` are
instructions of a script: how one partition, or a stream of them, is written.
`BinFlow` uses the ring through its abstract specification, and `RingBufferProofs`
shows that the ring implements it. `PkgManager` is what all of them read their
packages with: it is composed of the formats, which are operators from a state of
the package to the next. `Device` has the other ways into the updater. It is a
composition by `mode`: `SelectMode` (`main.cpp`) starts one of them, and what they
share is the power supply, `faults`.

### OtaLifecycle

`msg`, `rec`, `content`, `retryFile` and `result` are what survives a reset:
`UpdateMessage`, the record area, the partitions, the `_retry` files and
`updater_result`. `stored` is the record area as a power loss may leave it, and
`cached` a partition whose raw writer has not yet synced it. `pkgs`, `retryCount`,
`pkgLocation`, `idx` and `status` are memory, lost in a reset.

| Action | Code |
|---|---|
| `RebootAndInstallUpgradePackage` | `updaterkits.cpp:278` |
| `Boot`, `MountDataFails`, `PreUpdatePackages` | `updater_main.cpp:1303`, `616`, `702` |
| `ClearRecordPartitionOffset`, `SetRetryCount`, `ResumeInstall` | `InstallUpdaterPackage`, `updater_main.cpp:509` |
| `SkipUpdated`, `SkipCommands`, `BeginWrite`, `RegisterForRetry`, `FinishWrite` | an instruction that updates a partition, `update_image_block.cpp:412`, `506`, `transfer_manager.cpp:113`, `173` |
| `RecordSlot`, `RecordOffset` | the two writes of a record, `partition_record.cpp:92`, `116` |
| `ReleaseDataWriter` | the end of a raw image, which syncs it, `update_processor.cpp:237` |
| `ScriptDone`, `ScriptFault`, `InstallFails`, `PackageInstalled` | what the child's end makes of the package |
| `RebootRetry`, `NoMoreRetry` | `hardware_fault_retry.cpp` |
| `PostUpdatePackages`, `ClearMessage`, `ClearRecords`, `DeleteUpdaterTmpFiles`, `UpdaterDoReboot`, `OnRebootEvt` | `PostUpdate`, `PostUpdater`, `ClearMisc`, the reboot and the failed page |
| `Crash` | a reset at any step |

A partition's content is the package whose image it holds; a record that
overflows its area is refused, as in the code. `O_UNCACHE_FLAG`
(`utils/include/uncache.h`) is taken to give no durability.

`OtaRecords` puts a history beside this: `doubt` has the partitions for which what a
retry takes for granted has failed. It hinders no step, so what is said over it is said
of every behaviour.

### BlockUpdate

`block` is the partition as a reader sees it, `durable` as it survives a stop;
`stash` and `retryFile` are files. A command runs in steps (stash the source,
write, free the stash, register in the retry file, sync) between which a stop may
come. A stop may take back any block that was not synced, leave it half written, and
cut the stash file or the `_retry` file that is being written; it does so in every run
and in the proofs. `cut` and `lost` are histories of it: the stash files that were left
with a part of their data, and the blocks of a ZERO that went back.
`CommandsAssumption` is what a transfer list is made to satisfy by the tool that
generates it.

### NewDataWriter

The fields of `WriterThreadInfo` with the places of the two threads, the
condition-variable waits split into check, wait and wake, and spurious wakeups.
Data come in chunks that do not match the commands' sizes.

### RingBuffer and BoundedFifo

Push and Pop step through check, lock, loop, wait, copy and notify, each critical
section a step; Stop notifies both condition variables in turn. The indices run
modulo twice the capacity, as in the code. The mapping to `BoundedFifo` takes the
queue to be the blocks between the indices.

### BinFlow

A producer gathers chunks into buffers of `BufSize` bytes and pushes them, a
consumer pops and cuts them into components. Bytes are numbered by their place in
the stream, so that a misplaced byte shows. Either thread may fail at any step
and runs the scope guards in the code's order. A failed attempt is run again and
passes over what is recorded.

### ScriptRun

`main`, `worker[t]` and `progress` are the places of the child's threads, `pipe`
the messages in the pipe, `parent` the parent's place. `ret` and `retCode` are
shared by the threads of the pool; the assignment, the test and the copy are
three steps, since nothing keeps another thread out between them. A script is its
outcome: success, an error, an error with a request for a retry, or the end of
the child.

### StreamUpdate

The file is a sequence of records (a zip header to pass over, the head of
`update.bin`, the commands of each partition, the hashes), of known lengths. The
parser's buffer always holds a window of it, so that `base` (where the window
starts), `fed` (where it ends) and `at` (the record at `offset_`) say what is in the
buffer, and what is read past `fed` is `stale`.

| Action | Code |
|---|---|
| `Load`, `Seek`, `Read`, `ReadNoMore` | `ProcessUpdaterStream`, `update_processor_stream.cpp:87`–`145` |
| `SkipTargetData`, `AddRemainData`, `MoveRemainingData` | the buffer, `bin_chunk_update.cpp:136`, `214`, `70` |
| `UpdateBinHead`, `UpdateBinData`, `UpdateBinHash`, `UpdateBinOther` | one record, `bin_chunk_update.cpp:492`, `783`, `232`, `486` |
| `PreWrite`, `DoWrite`, `PostWrite` | a command of a partition, `bin_chunk_update.cpp:518`, `622`, `766` |

`trouble` keeps what else became of the file: a call that failed, or stale bytes that
were taken for its own. A chunk that ends within the first bytes of a record makes the
code look past the buffer (`bin_chunk_update.cpp:335`); the model lets that succeed or
fail.

### UpdateBin, Archives, ZipFile, GZipFile, Lz4File, PkgVerify

A file of cells stands for a zip, gzip or lz4 package: headers, blocks of packed data,
descriptors, trailers, a central directory. Packing and unpacking are loops over cells
with the buffers of the code (`InBuffer`, `OutBuffer`), its ends and its errors; the
checksum of data is the data. A file of `update.bin` stands for its layout, since what
matters there is that the parser's offsets, the digest's extent and the writer's
fields agree; `bad` is the place of one changed byte, and a digest is true if it does
not cover that place. A signature is a cell that says what was signed and by whom.

### PkgManager

`m` is the manager: `reg` (its map of streams by name), `files` (its packages, each
with its head's stream, its parent and its entries), `streams` (with their references,
alive or not) and the device's files. Each call of a client is one step, from its first
stream to its last early return: `Load` (`LoadPackage`), `LoadStream`,
`LoadWithoutUnPack`, `Verifying` (`VerifyPackage`), `VerifyingAcc`, `Version`,
`Create`, `Open` and `OpenOut`, `LoadHeld`, `Parse`, `Extract`, `Close`, `Release`
(`ClearPkgFile`), `Repack`. Nothing interleaves with a call: a manager is used by one
thread. `m.touched` becomes true when the code would use a stream that was freed.
`m.crowded` is a history: some stream was given a third holder. `IsRef` is true of a
count of zero, as in the code, so the first close of three frees the stream.
`m.lost` has the streams the code is known not to close (an entry's stream of
`LoadStreamPackage`; the stream of a package of no class).

### Gpt and Ptable

A table is whether its MBR and its header are there, the last usable block, the entries
and what the header's checksum was made of, so that a torn write shows. `disk[p]` has
the primary table and the backup of each LUN or of the eMMC (`Mmc`). A job is what is
asked for: `"packages"`, the tables of one image or two in a row (`PtableProcess`);
`"file"`, an edited table (`WritePtableWithFile`); `"sync"`, the LUNs of a slot
(`SyncABLunPtableDevice`).

| Action | Code |
|---|---|
| `PtableProcess`, `AllProcessed` | `ptable_process.cpp:33` |
| `WriteInvalid`, `WriteUnneeded`, `WriteHead`, `WriteEntries`, `WriteFails` | `UfsPtable::WritePartitionTable`, `ufs_ptable.cpp:499`; `emmc_ptable.cpp` |
| `WriteBackupHead`, `WriteBackupEntries`, `NoBackup`, `BackupFails` | `WriteBackupPartitionTable`, `ufs_ptable.cpp:539` |
| `EditFile`, `WritePtableWithFile`, `SyncABLunPtableDevice` | `ptable_manager.cpp:339`, `ufs_ptable.cpp:841` |
| `PtableCut` | power lost between two writes |

### MiscArgs, FactoryReset and UpdaterModes

`misc` is the command and its options, `commandFile` the options kept in a file,
`chunk[p]` what each write of a partition left (`"cached"` until the partition is
synced), `erasing` the object that overwrites, `up` the `UpdaterParams`, `place` where
the device is: off, in the system, or at a step of the updater. `OptionNames` are the
options of `OPTIONS` that change what the updater does, with the ones it looks for in a
message besides. `ModesAssumption` says what a request may be (`IsRequest`: what the kits
of `updaterkits.cpp` and `write_updater.cpp` write, a reset alone, at most one mode, one
`update.bin` or packages) and what a device is (`IsKit`: its table, its secured partitions
and its disks name each block device once, the user's data among the first only).

| Action | Code |
|---|---|
| `Ask`, `BootSystem` | a client's request, `updaterkits.cpp:330` |
| `BootUpdater` | `StartUpdater` and the choice of the entry, `updater_main.cpp:1437`, `1303` |
| `UpdaterFromSdcard`, `FindAndMountSdcard`, `NoSdcard` | `updater_main.cpp:1083`, `sdcard_update_action.cpp` |
| `PreUpdate`, `PreFails`, `MarkRetry`, `InstallPackage`, `InstallFails`, `CountPackage`, `AllInstalled`, `Post`, `UpdateSubPkg` | the package loop in steps of what it writes to misc, `updater_main.cpp:702`–`957`, `273` |
| `FactoryResetPre`, `OverWriteChunk`, `SkipPartition`, `SyncOffsetInMisc`, `SyncPartition`, `NothingToOverwrite`, `AllOverwritten`, `Format`, `FactoryResetPost` and their failures | `factory_reset.cpp:66`, `secure_erase.cpp`, `mount.cpp:399` |
| `DoFactoryRstEntry`, `UpdaterMain`, `ClearMisc`, `UnlinkCommandFile`, `Reboot`, `Idle` | the page, what is cleared and what the device reboots to, `updater_main.cpp:1174`, `1568`, `updater_utils.cpp:134`, `200` |
| `PowerCut`, `PowerOff` | a reset at any step, with any part of what is cached lost |

### Flashd

`running` is the static flag, `task[c]` the commander of a channel, `host[c]` what its
host asked, sent and heard. `Locked`, `Busy`, `Unknown`, `Accepted` and
`EraseOrFormat` are what `CheckCommand` makes of a command
(`daemon_updater.cpp:118`), `FlashData`, `UpdateData` and `DataFails` of a packet,
`ChannelClose` and `RebootDevice` end a channel or the daemon. A host may go on sending
after it was told of a failure, since its packets were under way. An update restarts the device only if
the file its parameters name can be read (`PostCommand`); else flashd goes on with its
flag cleared.

### ScriptValues and ScriptInterp

A script is a tree, as the parser leaves it. `RunStatement` executes the next statement
of the script that runs, with everything it calls; `BeginInit` and `BeginScript` go from
one script to the next as `ScriptManagerImpl` does (`script_managerImpl.cpp:82`, `217`).
`world` has the contexts and their stack, the registered instructions, the scripts
loaded for each priority, the files and what was called. Instructions of a library or
of the updater fail if they are in `failing`. `garbage` is the code that is read from an
error without one (`script_statement.cpp:44`): any. `world.unheard` marks what is
evaluated where the code looks at no error.

### DiskPartitions

`kernel` is the kernel's table of partitions, `record` what is written to misc for the
next start, `list` what the update asks for. `Execute` is the instruction. Names are
sequences of words: `ReadPartitionFromSys` (`partitions.cpp:183`) takes the rest of its
256-byte buffer for the name and pops a zero, so that the newline stays; the model
does the same (`NameFromSys`).

## 3. What is checked

| Run | Specification, bounds | States | Shows |
|---|---|---|---|
| `ota_any` | `FairRecords`; three partitions, one of them a raw image, two record slots, two retries, two updates of two packages, the second with partitions of the first, and one of its own twice | 990,692 | whatever an earlier update left behind: the inductive invariant; a partition that is not in doubt is passed over only if it is up to date (`SkipIsTrue`), and "pass" means that it has its image (`PassIsTrue`), across resets; an update without a reset installs what was asked for (`UninterruptedInstalls`), faults reboot at most `MaxRetry` times, a reset never goes back over a counted package, and the retry loop ends once resets stop |
| `ota_stale` | the same without a raw image and without a shared partition, violated | | records that outlive their update make a retry skip a partition |
| `block_all` | seven commands of all types on eight blocks, three stops, each of which takes back and cuts what it may | 130,720 | the resume point is true, no block goes back, success is complete, but for the cases the properties name (section 5); and the update can be resumed to its end unless a stash was cut |
| `new_data` | three NEW commands, chunks of one to four pieces | 574 | data in order, no writer taken from its thread, nothing hangs |
| `ring_safe` | four blocks of two values | 99,792 | no lost wakeup, no block lost by a stop, a FIFO, and waits end |
| `bin_flow` | a header and two components of 1, 3, 3 bytes, ring of two buffers of two bytes, chunks up to two bytes, three attempts | 42,792 | bytes reach their component (`EachGetsItsOwn`), what is recorded and what is reported is whole (`ImagesAreWhole`), both threads end |
| `script_run` | five scripts: one, three, none, one; two threads, one progress message | 29,308 | priorities in order and each script once (`RunsInOrder`), success earned, a retry request never lost, no write to a closed pipe, a status at last |
| `script_race` | the same, violated | | a script's error is overwritten by another's success |
| `stream_update` | three commands for two partitions, five files of which one fits into a chunk, chunks of six sizes, cut anywhere, any call may fail | 307,155 | commands run once, in order, on their own device, when all of them has arrived (`CommandsInOrder`); refused only for a reason, complete only if verified (`ResultIsTrue`); devices synced and closed at the end, unless what was in the buffer ended with the first bytes of the hashes (`ClosedAtTheEnd`); an end |
| `packages` | a signed zip with an `update.bin` in it, four versions of `update.bin` with a zip and a gzip inside, a gzip, two lz4; each as it was made, or with one cell or field changed, or cut, or with little room; three calls | 312,332 | references are those of the holders, and no stream is freed under two (`StreamsHold`), what is loaded is signed and its offsets are true (`LoadedIsSigned`), what is extracted is whole (`ExtractedIsWhole`), what nothing happened to works (`IntactPackagesWork`) |
| `packages_held` | the same, violated | | the first close of three frees the stream under the other two |
| `device` | two faults; six devices with their jobs; ten kits and twenty requests; two channels of flashd, five commands, two packets; packages of scripts; three layouts and their lists | 401,185 | `TablesKept`, `DisksHold`, `ModesHold`, `FlashdHolds`, `ScriptsHold`, `Settles`: see below |

What the properties of `device` say:

* `TablesKept`: the first fault leaves the table of a LUN or its backup whole, if there is a
  backup (`OneCopyWhole`); where slots have LUNs, what `update_binary` writes for the slot
  under update leaves the LUN of the running one as it was (`RunningSlotKept`).
* `DisksHold`: after a success every partition is found where the last package, or
  the file, wants it (`WrittenAsAsked`; behind a composite table a second package that
  does not differ from what the first one found may be left out, section 5); an update that is not from a card moves no user
  data that stay on their LUN (`UserdataKept`); whatever call of
  `update_partitions` fails, the table that goes to misc, which the next start takes for the
  device's, has no partition that the kernel did not take (`RecordedIsThere`).
* `ModesHold`: a reset that was asked for stays in misc or in the command file until it
  has succeeded (`NothingForgotten`); an erasure that is reported done has overwritten
  every write, however often it was interrupted, if it found the same partitions every
  time and the cache lost nothing that misc had noted (`EraseIsComplete`); the page of
  success is shown for nothing less than what was asked (`ReportsAreTrue`).
  `NothingForgotten` also has the wipe that is to follow a card update from the device, and
  a failed update that asked for it: where nothing fails it is done before the system is
  started again.
* `FlashdHolds`: a host that is told of success has every packet at its place
  (`SuccessIsWhole`); and as long as no call failed, one command at a time is under way
  (`OneAtATime`) and the device reboots to install only a whole package
  (`RebootsToWhole`).
* `ScriptsHold`: the failure of an instruction ends its script, unless it is where the
  interpreter looks at no error (`FailureIsHeard`); contexts are closed by whatever way
  a function ends (`ScopesHold`); reserved names stay (`ReservedStay`); a script that
  failed is told (`FailureIsTold`).
* `Settles`: what is asked for comes to an end.

**Bounds.** Two updates are what it takes for one to leave something to the
next; two packages, for the count to be neither none nor all; three partitions
and two slots, for the record area to overflow; a limit of two, for a retry that
is neither first nor last. The transfer list has a stash that is used after its
block was overwritten, a diff over an overlapping source and a move by one
block. Ring capacity four and indices modulo eight wrap in few steps. Component
sizes do not match buffer sizes, so that every cut happens. In the scripts, two
threads share three scripts, so that one thread runs two. The chunks of
`stream_update` are from a sixth to a half of the file, so that they end within every
kind of record, and a buffer of `MaxBuf` bytes is full before the largest is in it; the
short file comes whole in one chunk if it is large enough.
Three calls of a package manager are a load, another under the same or another name,
and a use, so that a name may have three holders; `Parse` is called for files whose head was not changed, since it verifies
nothing. Two faults (`MaxFaults`) are what it takes for the recovery from the first to
be hit, and `OneCopyWhole` says itself what the second may do. `MaxAsks` = 1: what one
request leaves in misc is empty or its own. Two channels, for one to disturb the
other; two packets, for a file to be under way. `MaxPriority` = 2 stands for four: the first, the last and what is carried from one to the next.

**Deadlock.** Where an algorithm comes to its end (`bin_flow`, `script_run`,
`stream_update`) the check is off, and a liveness property (`Ends`) says that every end
is a proper one. It is off in `packages`, where a client has made its calls, and in
`device`, where a table is written, a script has run, a last page is shown or flashd
restarts; there `Settles` speaks of the updater's end.

**Fairness.** Only of what a scheduler must run: the updater's steps
(`OtaLifecycle`, `BlockUpdate`; `UpdaterStep` in `Device`), each thread or process
(`NewDataWriter`, `RingBuffer`, `BinFlow`, `ScriptRun`, `StreamUpdate`). It is weak, no step
that is taken away again and again being assumed to happen, with one exception: in
`RingBuffer` a thread that waits for a mutex gets it in the end although others take it in
between, which is strong fairness of its taking, and what the lock of a scheduler that starves no
thread gives. Nothing makes a
client ask, a user press a button, power fail or a condition variable wake on its own.
`Settles` of `OtaLifecycle` assumes in its statement that resets stop; in `Device` the
bound on faults does. In `ScriptRun` a script is assumed to end.

## 4. What is proved

Everything in this section holds for every value of the constants that satisfies the
assumptions of the module (`...Assumption`, mostly types): any number of partitions,
packages, threads, commands, bytes, sizes of buffers and chunks. Each proof is that of an
inductive invariant: a lemma for each action, a step for each conjunct it can disturb.

**`OtaProofs`** has two invariants. `AnyInv` holds in every behaviour of `Spec`, whatever
an earlier update left behind (`AnyInvHolds`, `TypesHold`):

* `FaultRetriesAreBounded`: faults reboot at most `MaxRetry` times. The count in memory
  agrees with misc from `Boot` on, and each reboot for a fault is one more in misc
  (`RetriesCounted`).
* `UninterruptedIsInstalled`: an update that is not interrupted installs what was asked
  for. Its first run passes nothing over, so every instruction behind it has left the
  image of its package (`FirstRun`).
* `WritesAreNext`: only the first package that misc does not count is written, since the
  updater's place in its list is the one misc has (`OnCourse`).

`IInv` is of `SpecRecords` (`IInvHolds`), which is `Spec` with the history `doubt`: each
step of `Spec` is one of `SpecRecords`, which assigns `doubt` beside it and asks nothing of it, and
each of `SpecRecords` is one of `Spec` (`DoubtOnlyWatches`). So it is of every behaviour,
from whatever state an earlier update has left, and whatever a reset loses. A partition is in doubt

1. if the update, when it was asked for, found a record or a `_retry` file of it;
2. if two packages of the update have it;
3. if a reset kept its record and lost its raw image.

In these cases what a retry takes for granted is false, and the code does not look:
`ota_stale` shows the first; in `ota_any` all three occur, and `SkipIsTrue` fails if one of them
is left out of `doubt`. The theorems say that nothing
else can break the installer's bookkeeping, and that what breaks it for one partition does
not for another:

* `SkipsAreTrue`, `PassesAreTrue`, `CountsAreTrue`: a partition that is not in doubt is
  passed over only if it is up to date; of a package that is counted, or told to be installed
  by "pass", it has the image.

`SkipIsTrue` is not inductive: it says nothing of records whose partition is not
at hand. `IInv` adds that every record, current or as a power loss would leave
it, names a partition in doubt or one that holds its image of the update under way
(`RecordsAreCurrent`); the same of every `_retry` file; that the
counted packages hold; that an image not yet synced is of the next package to be counted
(`CachedIsNext`), so that no reset takes it back from a counted one; and that
the script's finished part is in place.

**`RingBufferProofs`**, for every capacity and every set of blocks:

* `IInvHolds`; `MovesAreSafe`: a block is never read while it is written;
* `WakeupsAreKept`: no thread sleeps beside a buffer that is ready for it with
  nobody left to wake it;
* `RefusalsAreEmpty`: after a stop, Pop refuses only on an empty buffer;
* `Refinement`: the ring implements `BoundedFifo`, step by step.

The invariant relates the sleepers to who will wake them: a thread sleeps only
while its condition is false or a notification is on its way
(`SleepsForReason`), and a stop always has a caller who will still notify
(`StopHasCaller`).

**`BlockUpdateProofs`**, for every partition, transfer list and number of stops, under
`CommandsAssumption`, of `Spec`, in which every stop may take back what was not synced and
cut the file being written:

* `ResumePointsAreTrue`: what a retry passes over is done, for good; but a ZERO that a stop
  took back before it was synced (`lost`), and a MOVE whose stash a stop has cut (`cut`)
  may not be;
* `DoneIsWhole`: success means that every block is in place, for good, but for these two
  and, once a stop has cut the `_retry` file (`retryCmd = Cut`), for what is not NEW;
* `NeverGoesBack`: a block that is updated is not lost again, unless it is the target of a
  patch whose own stash was cut.

Each exception names what is lost: it is a block, a hash or a file that a stop has hit, and
in a behaviour without such a stop it is empty. In `block_all` each of them happens.

`IInv` follows the command at hand: the places behind it hold what the update puts
there, and survive a stop (`Progress`); the blocks of those ahead are on disk what
they are in memory (`Clean`), without which a target that is found to be new could
be registered before it is durable; what is being passed over is still behind the
registered command (`Passing`); a source that can be loaded is right (`Files`).
A list may hold the same command twice (two `free` of one stash): the retry stops
passing at the first place of the registered one, and the property speaks of the
places up to that.

**`ScriptRunProofs`**, for every package of scripts, number of threads and of messages:

* `PipeIsNeverBroken`: nobody writes when the parent has stopped reading;
* `RetriesAreKept`: a retry that was asked for becomes `UPDATE_RETRY`;
* `ScriptsRunInOrder`: a script begins only when every earlier priority has ended, and is
  run once;
* `SuccessesAreEarned`: a reported success means that every script ran, and that no script
  that had its priority for itself failed. (Of others it would be false: `script_race`.)

For the first two the argument is that main joins the progress thread and the pool before
it sends the result (`Joins`), so the result is the last message (`ResultIsLast`), and a
parent that stops at it has read every request (`RetryIsOnItsWay`). For the others
(`EarnedHolds`) it is how the scripts of a priority are dealt out: thread `t` has those at
`t`, `t + Stride` and so on (`Owner`), and has run exactly those before its place (`Front`),
so that a priority whose threads have all cleared their flags has run whole.

**`BinFlowProofs`**, for every number of components of any sizes, and any sizes of buffers
and chunks, also where the buffers' boundaries cut every component:

* `OffsetsAlwaysAgree`: the offset of every buffer is the one the stream expects, since
  what was extracted is always in the stream, in the stash or at hand (`AllCounted`);
* `BytesAreTheirOwn`: every byte of a component is its own, in order;
* `WhatCountsIsWhole`: what is recorded, and what is reported, is whole.

Here a byte is its number in the stream, so that `FlowHolds` can say of each place where
bytes are (at hand, in the ring, in the stash, in an image) which number is first, and that
each is one more than the one before.

**`NewDataWriterProofs`**, for every list, amount of data and size of chunks:

* `WriterStaysHeld`: no writer is taken from the thread that writes with it;
* `StreamIsCutInOrder` (`DeliversInOrder`): the commands' writers have got the stream in
  order, each the amount of its command. `PastCommandsAreComplete` is the part about
  amounts; `Ordered` adds that what all of them wrote, one after the other, is the
  beginning of the stream, and `FlatGrows` that a chunk at the end of one is a chunk
  at the end of all.

**`StreamUpdateProofs`**, for every file, chunk, size of the buffer and wherever the stream
is cut:

* `CommandsRunInOrder`, `ResultsAreTrue`, `NothingGetsLost` (what was read is in the buffer
  or was passed over), `DevicesAreClosed`.

The buffer is a window of the file (`Window`): it only moves forward, and the record at hand
begins in it. Before the first record whole chunks are passed over (`Header`); the executed
commands are those before the place at hand, each of them whole before the window's end
(`Executed`). For
the devices, `Chunked` adds where the window can end: with a chunk, with the stream or with a full
buffer that `MoveRemainingData` has put a record in front of.

**`DeviceProofs`** has three of the things a device is started for, each under its own
specification (`FlashdSpec`, `ModesSpec`, `PtableSpec`); `device` checks the same properties where
`SelectMode` starts it for them.

Flashd, for any channels, commands, number of packets and of faults: `HostsAreToldTheTruth`
is `FlashdHolds`, from three invariants (`FlashInv`, `UploadInv`, `WrittenInv`) that hold
together.

* `CommandsAreAlone`: while no call has failed, at most one command is under way, and the
  flag is set for it. The flag alone does not say whose it is. `FlashInv` adds that a
  commander that takes packets has counted what its host sent, and is told of the end with
  the last of them (`Counted`): so nobody sends after its own end, and the flag a commander
  clears is its own. A failure breaks this (a commander that failed counts nothing), which is
  why this and the next are about runs without one.
* `UploadedHolds`: the uploaded file is that of the command under way.
* `WrittenHolds`, whatever fails: a commander counts no more than was sent, so one that has
  counted all packets lost none; up to its count nothing is old; and its own are
  at their places, unless others wrote there.

The updater's modes, for any devices, requests, partitions of any size, bad packages, and
numbers of requests, power cuts and failed calls, under `ModesAssumption`: `ModesAreHeld` is
`ModesHold`, and `ModesAreTyped` the types in it, both from `ModesInv`
(`ModesInvHolds`). Without what `IsRequest` says of a request, `ReportsAreTrue` is false: of
two `update_bin` only the first is installed (section 5). Without what `IsKit` says of a
device, an erasure would number the writes of a partition twice. The invariant says, in this
order:

* What is in misc is the request with the updater's own notes (`Stems`, `Keeps`): the retry
  count, the number of installed packages, the offset of an erasure, `sdcard_update`; or it
  is the wipe that follows. The updater rewrites its options at several places, and each of
  them keeps the files, the mode, the reset and the card of the request.
* The parameters in memory are those of misc (`Agrees`), at every step until the result is
  told. With these two, `DueIn` shows where a reset that is due is kept: in misc, while the
  device is off or at a step of the reset, or at a last page. It is why a failed erasure
  is tried again, and why nothing else may be at work while a reset is due.
* The packages that misc counts are installed (`CountsIn`), since the number is noted
  after the installation; so what is left to be installed and what is installed are all of the
  request (`Reported`).
* `Erased` numbers the writes of an erasure one after the other: `BeforeOf(list)` has the
  number of the writes before each partition of the list, so that the one offset in misc
  stands for a place in a partition. Up to the offset every write is overwritten or is in
  the cache of the partition at hand; where a power cut loses some, they are in `lost` if
  misc had noted them. A resumed erasure passes over what the offset is behind, if it has
  the same list (`Cardinality(lists) = 1`).
* Where nothing has failed: a wipe that is in misc is next (`WipeGoesOn`), and the one that
  follows a failed update is on its way there (`WipesAfter`). For a card update from the
  device (`FromDev`) it follows from `Ours` that the mode is the device's until misc is
  cleared, and from `EndsWell` and `Followed` that such an update ends in a success, or was
  refused before anything was installed (`Spared`). A power cut breaks these (section 5),
  which is why the property speaks of runs without one.

The partition tables, for any disks, images, edits, slots and numbers of power cuts and
failed writes, under `TablesAssumption`: `TablesAreKept` is `TablesKept`; its parts are
`OneCopyIsWhole`, `RunningSlotIsKept` and `TablesAreTyped`, all from `TablesInv`
(`TablesInvHolds`). The assumption says that LUNs are counted from 0, as
`SetDeviceLunNum` finds them, and that where slots have LUNs, the names in the table of
each end with its slot: by that suffix, not by the LUN's number,
`SetLunPtnDataInfoNeedWrite` tells the slots apart. The invariant says, in this order:

* A table is begun only if it is there and needed (`TableTypes`).
* What is yet to be written has its place on a LUN, is whole there, and is its own copy for
  the backup (`Copied`). This needs the first LUN with a table to be LUN 0, since the copy is
  looked up by the LUN's number; and what is copied from slot to slot has no copy.
* The backup is begun only when the table is written (`AtBackup`), so until then the old
  backup is whole, and while it is written the new table is (`BackupsWhole`). Neither
  `OneCopyWhole` nor these survive a fault: a second one may come when only one is whole.
* For the running slot: its LUN is as it was; if an edited file has a table for it, that
  table ends in its own suffix still, since an edit changes places and never names; and so
  nothing that is to be written is for it (`OwnSlotKept`). A power cut leaves the file,
  which is why the invariant speaks of the file and not only of what is read from it.

The tables are read, edited and patched in loops, one after the other. The models have them
as functions on `0..n`; that these functions exist, and what they keep, is one induction for
each (`FromZeroTo`).

**Induction over data.** The library's induction theorems take an operator as a parameter,
which the provers cannot instantiate. What is a sum, a concatenation or a walk over a list
here is a recursive function or a fold (`Start` in `BinFlow`, `Pos` in `StreamUpdate`,
`FlattenSeq` in `NewDataWriter`), and an induction is a statement about a set: the numbers for which the
claim holds contain the first and with each the next, so they are all, since a least one
outside would be none (`UpTo`, `FromZero`, from `WFMin` and `NatLessThanWellFounded`).

**Only model-checked**: `DisksHold` and `ScriptsHold` of `device`, with the types in them,
and the properties of `PkgManager`. The operators of `PkgManager`
and `ScriptInterp` are recursive over packages in packages and over expressions, and
`DiskPartitions` folds over lists; the provers lose or cannot unfold these. `WrittenAsAsked`
and `UserdataKept` say where a partition is after the lookups by name of a whole edited
table: they compute on data, and are checked on the devices and jobs of the run.
And every liveness property (`Settles`, `WaitEnds`, `Completes`, `Ends`): liveness
under fairness is out of the proof system's reach.

## 5. Where the code and what is said of it disagree

Three runs end in a violation; the findings in `PROJECT.json` quote what is said.

1. `ota_stale`: partition records outlive their update (`partition_record.cpp:154`).
2. `script_race`: threads of the script pool overwrite each other's error
   (`script_managerImpl.cpp:245`).
3. `packages_held`: `IsRef` is `refCount_ == 0` (`pkg_stream.cpp:58`), so `ClosePkgStream`
   frees a stream with references and keeps one without (`pkg_managerImpl.cpp:855`). With two
   holders this comes out right, since the first is not counted; with three the first
   close frees it. `pkg_stream_unittest.cpp:158` has `IsRef` as it is; the stream of
   `pkg_upgradefile_unittest.cpp:155` has `refCount_ > 0`.

Where a property has to except what the code loses, it names the exception, and holds of
everything else:

* A raw image is recorded, and the record synced, before the image is
  (`update_processor.cpp:239`); a power cut between the two loses it for good, since the
  retry passes over it: `LostButRecorded` in `doubt`. `SkipIsSound`, which excepts nothing, is
  violated by it under the constants of `ota_any`.
* ZERO is registered before it is durable (`block_set.cpp:456`): `lost` in
  `ResumePointIsTrue` and `DoneIsComplete`.
* A stash file that a stop has cut is taken for whole (`store.cpp:112`): `cut` in the same.
  A move does not verify what it wrote; a diff does, and fails instead, which is why
  `Completes` speaks of updates without a cut stash.
* The `_retry` file is written in place (`transfer_manager.cpp:176`): cut, its text matches
  no command, the retry passes over all that is not NEW and succeeds (`retryCmd = Cut` in
  `DoneIsComplete`).
* A stream that ends before its hashes is a success (`update_processor_stream.cpp:123`),
  while `src/README.md:95` has every image verified: check `EachImageIsVerified` of
  `StreamUpdate`. So is a stream that comes whole in the chunk its zip header ends in:
  what follows the header in a chunk is looked at only when the next chunk comes
  (`EndsWithHeader`, `bin_chunk_update.cpp:87`).

What a reader of the models should know of the code, since the properties are stated
around it:

* **Stream update.** Where the end of a chunk or a full buffer cuts the first bytes of the
  hash record, the last partition's device stays open and unsynced
  (`bin_chunk_update.cpp:662`, `176`; `ClosedAtTheEnd` is stated around it); names are
  read past the end of what is in the buffer (`:335`); a record larger than the buffer
  ends the update (`:91`).
* **Packages.** A name that is opened a third time must not be closed (`packages_held`);
  `StreamsHold` says what holds until then. Loading an `update.bin` below a directory has no type, and succeeds with
  nothing loaded; from the fourth version on the caller's verifier is passed over; hashes
  of images are looked for in a card update only; an lz4 frame that is cut inside a
  block reads as success, a lone block unpacks to nothing; an inner zip that fails to
  load clears the manager and returns success; outside the updater a deflated entry that
  ends early is read for ever.
* **Tables.** A backup that was torn is not made again, so that a second fault can leave
  neither copy whole. Behind a composite table the second package of an update is
  compared with what the first one found (`ptable_manager.cpp:95`), and left out if it does
  not differ from that; `WrittenAsAsked` excepts just this. The comparison
  passes over the LUN (`:208`). A torn LUN is dropped when tables are read, and every
  later update that is not from a card is refused (`ptable_process.cpp:73`).
* **update_partitions.** Since a name from the kernel keeps its newline, none equals a
  name of the list: nothing is unmounted or removed, the kernel refuses the first new
  partition, and the instruction reports success with nothing changed. What was refused
  does not get to misc (`do_partition.cpp:413`), which is what `RecordedIsThere` says;
  without that check the next start would take the list for the device's table. The tests
  stub the calls.
* **Modes.** The offset of an erasure is durable before what was overwritten; a cut
  between `ClearMisc` and the message of a wipe forgets the wipe; after a cut a card
  update from the device runs as a plain one, and its wipe is forgotten
  (`updater_main.cpp:1087`); of two `update_bin` the first is installed and success
  reported; `disk_erase` succeeds over and over with misc not cleared.
* **Flashd.** A channel that is closed while its command is under way leaves the flag
  set, and every later command is refused without an answer (`daemon_updater.cpp:107`);
  so does an unknown command. After a failure a late packet may end another's command
  (`:100`). An update does not ask whether its data arrived (`update_commander.cpp:131`):
  a package that did not is installed if the file was opened, and if it could not be, flashd
  goes on, or an earlier file of that name is installed.
* **Scripts.** Nobody hears an error in the head of a `for`, in a `return`, or on the right
  of a comparison with a float. `&&` evaluates both sides. The result of a call is a list,
  which is never true. "Abort" can be replaced by a library, since the reserved name is
  "abort" (`script_instructionhelper.cpp:31`).

Smaller hazards that no module has: arguments that do not fit the 768 bytes of misc
(`utils.cpp:899`); `fsync` before the stdio buffer is flushed (`misc_info.cpp:44`); reads
of the shared memory stream that time out with blocks already taken (`pkg_stream.cpp:285`);
a ring that nobody pops, in an instruction that is registered under no name
(`update_processor.cpp:370`); tasks dropped by the pool's one slot (`threadpool.cpp:125`);
unsynchronised sums of progress (`update_progress.cpp:33`); component sizes modulo 256
in the choice of a processor (`component_processor.cpp:56`); a child that dies of SIGSEGV
without fault information (`updater.cpp:695`).

## 6. Plan

What was planned in this order and is there: the lifecycle; what writes a partition;
the threads under it; the streaming update; the packages everything is read from; the
other ways into the updater, with partition tables, resets, flashd and scripts.

**Next to model.** Records under threads: two scripts of a priority that record at once,
as a composition of `ScriptRun` with the record area. The shared memory stream of
`pkg_stream.cpp`, with semaphores that time out in the middle of a read. In `BlockUpdate`:
ERASE, the move in place, the stream mode. `bin_flow_update.cpp`.

**Next to prove.** Of `PkgManager`, what does not depend on the formats
(which streams are held), with the formats as an assumption. Of `Ptable`, `UserdataKept`,
which needs what the lookup by name finds in a table. Type correctness of `ScriptRun`.

**Not modelled, and why.** Image patch and diff are arithmetic on data: the models take
the application of a diff as a step. Compression, keys and certificates are values.
Slot information is kept by a library of the board; the hazard of a slot that is toggled
twice (`slot_info.cpp:76`) is in the list. `HashDataVerifier` and the Rust code behind it
parse a signed list of hashes, whose verdict is an outcome. The user interface draws; its
waits are in `UpdaterModes` and `OtaLifecycle` as pages. The grammar of the scripts is
generated. Log, trace and HDI wrap.
