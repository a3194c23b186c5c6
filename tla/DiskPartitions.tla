---------------------------- MODULE DiskPartitions ----------------------------
(***************************************************************************)
(* The instruction update_partitions of an update script                    *)
(* (update_partitions, and partitions, cmp_partition and do_partition of the *)
(* fs_manager): the kernel is asked which partitions the eMMC has, what the  *)
(* update's list changes is removed from and added to the kernel's table,    *)
(* and the new table is written to misc for the next start.                  *)
(*                                                                           *)
(* A name is a sequence of words: what is read from a file of /sys ends with *)
(* the end of its line, what stands in the update's list does not.           *)
(***************************************************************************)
EXTENDS Integers, Sequences, SequencesExt, FiniteSets

CONSTANTS
  Layouts,        \* the tables of the kernel, from number to partition
  PartLists,      \* the lists updates bring
  Mounted,        \* the mount points of the fstab, as names
  Mb              \* sectors in a megabyte

VARIABLES
  layout,         \* what the kernel had when the instruction began
  list,           \* the update's list
  kernel,         \* what the kernel has
  record,         \* the table in misc, <<>> if there is none
  answer,         \* "", "error" or "success"
  restart         \* whether the updater restarted itself

partVars == <<layout, list, kernel, record, answer, restart>>

UserdataName == <<"userdata">>
UpdaterName == <<"updater">>
Segment(name, start, length) == [name |-> name, start |-> start, length |-> length]

PartInit ==
  /\ layout \in Layouts /\ list \in PartLists /\ kernel = layout /\ record = <<>>
  /\ answer = "" /\ restart = FALSE

PartTypeOK ==
  /\ DOMAIN kernel \subseteq 1..16 /\ answer \in {"", "error", "success"} /\ restart \in BOOLEAN
  /\ \A i \in DOMAIN record : record[i].mb >= -1
-----------------------------------------------------------------------------
MIN_PARTITIONS_NUM == 2
MAX_PARTITIONS_NUM == 20
\* ParsePartitionInfo: a list that is too short or too long is empty, and an entry without
\* a start, a length, a name or a file system ends the list.
ParsePartitionInfo(entries) ==
  LET bad == {i \in DOMAIN entries : ~entries[i].good}
      last == IF bad = {} THEN Len(entries) ELSE (CHOOSE i \in bad : \A j \in bad : i <= j) - 1
  IN IF Len(entries) \in MIN_PARTITIONS_NUM + 1 .. MAX_PARTITIONS_NUM - 1
     THEN [i \in 1..last |-> Segment(entries[i].name, entries[i].start, entries[i].length)]
     ELSE <<>>

\* ReadPartitionFromSys: the name is the rest of the buffer behind the key, with the end
\* of the line; what is taken off is one of the zeros behind it.
NameFromSys(name) == Append(name, "newline")
DEFAULT_PARTSUM == 16
\* ProbeAllPartitions: 1, 2 and so on, to the first number that is not there.
ProbeAllPartitions(table) ==
  LET known == {n \in 0 .. DEFAULT_PARTSUM - 1 : \A m \in 1..n : m \in DOMAIN table}
      last == CHOOSE n \in known : \A m \in known : m <= n
  IN [n \in 1..last |-> [table[n] EXCEPT !.name = NameFromSys(@)]]

\* DiskAlloc and ProbeAllPartitions: nothing is known of a device that cannot be opened,
\* that is no eMMC, or whose size cannot be read.
CheckDevicePartitions(table, fails) == IF "device" \in fails THEN <<>> ELSE ProbeAllPartitions(table)

\* The number of the partition of that name, 0 if there is none.
PartitionNum(old, name) == SelectInSeq(old, LAMBDA p : p.name = name)
\* ComparePartition, by name, start and length.
NotChanged(old, p) ==
  LET n == PartitionNum(old, p.name) IN n # 0 /\ old[n].start = p.start /\ old[n].length = p.length
\* An old partition is not changed if the last of its name in the list says so; one that
\* is not in the list is as good as changed.
StaysAsItIs(old, new, n) ==
  LET named == SelectSeq(new, LAMBDA p : PartitionNum(old, p.name) = n)
  IN named # <<>> /\ NotChanged(old, named[Len(named)])

DoUmountDiskPartition(p, fails) == p.name \in Mounted /\ "umount" \notin fails
\* RemovePartitions: what cannot be unmounted is left alone, the first that cannot be
\* removed ends it (here the last one).  The count is of what was removed.
RemovePartitions(old, new, table, fails) ==
  LET Removes(n) ==
        /\ ~StaysAsItIs(old, new, n) /\ old[n].name \notin {UserdataName, UpdaterName}
        /\ DoUmountDiskPartition(old[n], fails)
      gone == {n \in DOMAIN old : Removes(n)}
      kept == IF "remove" \in fails THEN {n \in gone : \A m \in gone : m <= n} ELSE {}
  IN [ok |-> kept = {}, count |-> Cardinality(gone \ kept), table |-> [n \in DOMAIN table \ (gone \ kept) |-> table[n]]]

\* The kernel refuses a number that is in use and sectors that are.
KernelTakes(table, n, p) ==
  /\ n \notin DOMAIN table
  /\ \A m \in DOMAIN table : p.start + p.length <= table[m].start \/ table[m].start + table[m].length <= p.start
DoAddPartition(done, n, p) ==
  IF KernelTakes(done.table, n, p)
  THEN [done EXCEPT !.table = [m \in DOMAIN @ \cup {n} |-> IF m = n THEN p ELSE done.table[m]],
                    !.step = @ + 1, !.count = @ + 1]
  ELSE [done EXCEPT !.ok = FALSE]
\* AddPartitions: what is new or changed is numbered on from userdata; the first the kernel
\* refuses ends it.
AddPartitions(old, new, removed) ==
  LET user == PartitionNum(old, UserdataName)
      Add(done, p) ==
        IF ~done.ok \/ NotChanged(old, p) \/ p.name \in {UserdataName, UpdaterName} THEN done
        ELSE DoAddPartition(done, user + done.step, p)
  IN FoldLeft(Add, [removed EXCEPT !.ok = TRUE] @@ [step |-> 1], new)

\* WriteDiskPartitionToMisc: in the order of their starts, userdata with what is left
\* and the others with their whole megabytes.
WriteDiskPartitionToMisc(new) ==
  LET sorted == SortSeq(new, LAMBDA p, q : p.start < q.start)
  IN [i \in DOMAIN sorted |->
       [name |-> sorted[i].name, mb |-> IF sorted[i].name = UserdataName THEN -1 ELSE sorted[i].length \div Mb]]

\* As if what AdjustPartitions says were not asked.
RecordedAnyway(new, ok, fails) == IF "misc" \notin fails THEN WriteDiskPartitionToMisc(new) ELSE record
\* AdjustPartitions and what follows: a list that was not taken does not get to misc.
Recorded(new, ok, fails) == IF ok /\ "misc" \notin fails THEN WriteDiskPartitionToMisc(new) ELSE record

\* DoPartitions: the number of changes, counted from 1, 0 if it failed.
DoPartitions(new, old, fails) ==
  LET removed == RemovePartitions(old, new, kernel, fails)
      added == AddPartitions(old, new, removed)
      end == IF removed.ok THEN added ELSE removed @@ [step |-> 1]
      ok == removed.ok /\ added.ok
  IN [table |-> end.table, ret |-> IF ok THEN 1 + end.count ELSE 0, record |-> Recorded(new, ok, fails)]

\* UpdatePartitions::Execute and SetNewPartition: what became of it is not asked, only
\* that something changed starts the updater again.
Execute ==
  /\ answer = "" /\ UNCHANGED <<layout, list>>
  /\ \E fails \in SUBSET {"file", "device", "umount", "remove", "misc"} :
       LET new == ParsePartitionInfo(list)
           old == CheckDevicePartitions(kernel, fails)
           done == DoPartitions(new, old, fails)
           nothing == new = <<>> \/ old = <<>> \/ "file" \in fails
       IN /\ answer' = IF "file" \in fails THEN "error" ELSE "success"
          /\ kernel' = IF nothing THEN kernel ELSE done.table
          /\ record' = IF nothing THEN record ELSE done.record
          /\ restart' = (~nothing /\ done.ret > 1)
PartNext == Execute
-----------------------------------------------------------------------------
\* RecordedIsThere: the table in misc, which the next start takes for the device's, has
\* nothing that the kernel was asked for and did not take, whatever call of
\* AdjustPartitions failed: but for userdata and updater, which are left alone, each of
\* its partitions is in the kernel's table with its megabytes.
RecordedIsThere ==
  \A i \in DOMAIN record :
    record[i].name \in {UserdataName, UpdaterName}
    \/ \E n \in DOMAIN kernel : kernel[n].name = record[i].name /\ kernel[n].length \div Mb = record[i].mb
PartitionsHold == PartTypeOK /\ RecordedIsThere
=============================================================================
