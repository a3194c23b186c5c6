----------------------------- MODULE FactoryReset -----------------------------
(***************************************************************************)
(* Wiping the user's data, and overwriting partitions before: chunk after   *)
(* chunk, each noted in misc, so that a reset goes on where it was.         *)
(*                                                                         *)
(* A chunk that is written is in the cache until its partition is synced.   *)
(***************************************************************************)
EXTENDS MiscArgs, Power

CONSTANTS
  Partitions,    \* names of the partitions and data disks
  Chunks         \* [Partitions -> Nat]: their sizes in writes

VARIABLES
  place,         \* where the device is
  kit,           \* the device: table, secure, disks, card (lists), ui and battery
  misc,          \* the update message
  commandFile,   \* the options in COMMAND_FILE
  up,            \* UpdaterParams
  status,        \* UpdaterStatus
  erasing,       \* SecureErase: [list, done (overwriteOffset_), at (currentOffset_), i]
  chunk,         \* what a chunk of a partition holds: "old", "cached" or "over"
  userdata,      \* "used" or "empty"
  page,          \* what the screen shows at the end
  lists,         \* history: the lists of partitions this erasure was begun with
  lost,          \* history: chunks noted in misc that were lost in the cache
  due            \* history: a reset that was asked for has not succeeded yet

\* What no step of a reset changes, and what few change.
resetKept == <<kit, commandFile, up, page, lists, lost>>
resetVars == <<resetKept, misc, erasing, chunk, userdata, due>>

Wipes == {"user_wipe_data", "menu_wipe_data", "factory_wipe_data"}
Erasures == {"secure_erase", "disk_erase"}
NoErasure == [list |-> <<>>, done |-> 0, at |-> 0, i |-> 1]

\* PartitionErase: the user's data and the data disks; for a disk erasure also what
\* follows cust in the table and what is configured, or nothing more without cust.
FromCust(table) ==
  LET cust == {i \in DOMAIN table : table[i] = "cust"} IN
  IF cust = {} THEN <<>>
  ELSE Chosen(SubSeq(table, CHOOSE i \in cust : \A j \in cust : i <= j, Len(table)),
              Elements(table) \ {"userdata"})
PartitionErase(type) ==
  IF kit.table = <<>> THEN <<>>
  ELSE IF type = "secure_erase" THEN <<"userdata">> \o kit.disks
  ELSE IF FromCust(kit.table) = <<>> THEN <<"userdata">>
  ELSE <<"userdata">> \o FromCust(kit.table) \o kit.secure \o kit.disks
\* One that cannot be opened is passed over.
AddOverWritePartitions(type, present) == Chosen(PartitionErase(type), present)

Synced(c) == [k \in DOMAIN c |-> IF c[k] = "cached" THEN "over" ELSE c[k]]

FailReset == place' = "reset failed" /\ status' = "error"

\* The vendor's preparation may fail; nothing is erased then.
FactoryResetPre ==
  /\ place = "reset"
  /\ \/ /\ place' = IF up.reset \in Erasures THEN "overwrite" ELSE "format"
        /\ status' = "success"
        /\ erasing' = [erasing EXCEPT !.at = erasing.done, !.i = 1]
        /\ UNCHANGED faults
     \/ Fault /\ FailReset /\ UNCHANGED erasing
  /\ UNCHANGED <<resetKept, misc, chunk, userdata, due>>

Part == erasing.list[erasing.i]
InList == place = "overwrite" /\ erasing.i <= Len(erasing.list)
\* As if the place in a partition were that in the next one.
NextPartFrom(at) == [erasing EXCEPT !.i = @ + 1]
NextPart(at) == [erasing EXCEPT !.i = @ + 1, !.at = at]

\* Nothing to overwrite is an error.
NothingToOverwrite ==
  /\ place = "overwrite" /\ erasing.list = <<>>
  /\ place' = "format" /\ status' = "error"
  /\ UNCHANGED <<resetVars, faults>>
SkipPartition ==
  /\ InList /\ erasing.at >= Chunks[Part]
  /\ erasing' = NextPart(erasing.at - Chunks[Part])
  /\ UNCHANGED <<place, status, resetKept, misc, chunk, userdata, due, faults>>

OverWriteChunk ==
  /\ InList /\ erasing.at < Chunks[Part]
  /\ chunk' = [chunk EXCEPT ![Part][erasing.at + 1] = "cached"]
  /\ erasing' = [erasing EXCEPT !.at = @ + 1, !.done = @ + 1]
  /\ place' = "overwritten"
  /\ UNCHANGED <<status, resetKept, misc, userdata, due, faults>>
\* A write that fails ends the overwriting, not the reset.
OverWriteFails ==
  /\ InList /\ erasing.at < Chunks[Part] /\ Fault
  /\ chunk' = [chunk EXCEPT ![Part] = Synced(@)]
  /\ place' = "format" /\ status' = "error"
  /\ UNCHANGED <<resetKept, misc, erasing, userdata, due>>
SyncOffsetInMisc ==
  /\ place = "overwritten"
  /\ misc' = UpdateInfoInMisc(misc, commandFile, up.reset, erasing.done)
  /\ place' = IF erasing.at = Chunks[Part] THEN "sync" ELSE "overwrite"
  /\ UNCHANGED <<status, resetKept, erasing, chunk, userdata, due, faults>>
SyncPartition ==
  /\ place = "sync"
  /\ chunk' = [chunk EXCEPT ![Part] = Synced(@)]
  /\ erasing' = NextPart(0)
  /\ place' = "overwrite"
  /\ UNCHANGED <<status, resetKept, misc, userdata, due, faults>>
AllOverwritten ==
  /\ place = "overwrite" /\ erasing.list # <<>> /\ erasing.i > Len(erasing.list)
  /\ place' = "format"
  /\ UNCHANGED <<status, resetVars, faults>>

\* FormatPartition, whatever the overwriting ended with: it discards and then formats.
Format ==
  /\ place = "format"
  /\ userdata' = "empty"
  /\ place' = IF status = "success" THEN "reset post" ELSE "reset failed"
  /\ UNCHANGED <<status, resetKept, misc, erasing, chunk, due, faults>>
FormatFails ==
  /\ place = "format" /\ Fault /\ FailReset
  /\ userdata' \in {userdata, "empty"}
  /\ UNCHANGED <<resetKept, misc, erasing, chunk, due>>

\* What the vendor does after may fail too.
FactoryResetPost ==
  /\ place = "reset post"
  /\ \/ place' = "reset done" /\ due' = FALSE /\ UNCHANGED <<status, faults>>
     \/ Fault /\ FailReset /\ UNCHANGED due
  /\ UNCHANGED <<resetKept, misc, erasing, chunk, userdata>>

FactoryResetNext ==
  \/ FactoryResetPre
  \/ NothingToOverwrite \/ SkipPartition \/ OverWriteChunk \/ OverWriteFails
  \/ SyncOffsetInMisc \/ SyncPartition \/ AllOverwritten
  \/ Format \/ FormatFails \/ FactoryResetPost
=============================================================================
