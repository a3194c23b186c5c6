--------------------------------- MODULE Gpt ---------------------------------
(***************************************************************************)
(* Partition tables, and what the updater does with one of them: checking, *)
(* reading, fitting to the device, moving partitions, renaming for a slot.  *)
(*                                                                         *)
(* A table is [mbr, head, last, of, entries]: whether the protective MBR    *)
(* and the header are there, the last usable block, the entries that the    *)
(* checksums of the header were made of, and the entries, each              *)
(* [name, slot, first, end] in device blocks.  A slot is "a", "b" or "".     *)
(***************************************************************************)
EXTENDS Integers, Sequences, FiniteSetsExt

CONSTANTS
  BackupBlocks,  \* GPT_PTABLE_BACKUP_SIZE
  FirstUsable    \* the first usable block a header names

Userdata == "USERDATA"
Blank == [mbr |-> FALSE, head |-> FALSE, last |-> 0, of |-> <<>>, entries |-> <<>>]
Entry(name, slot, first, end) == [name |-> name, slot |-> slot, first |-> first, end |-> end]
Named(e, name) == e.name = name /\ e.slot = ""
SlotNames == {"a", "b", ""}
Entries == [name : STRING, slot : SlotNames, first : Int, end : Int]
GptTables == [mbr : BOOLEAN, head : BOOLEAN, last : Int, of : Seq(Entries), entries : Seq(Entries)]
\* What a partition is moved to.
Moves == [name : STRING, slot : SlotNames, start : Int, size : Int, lun : Int]

\* CheckProtectiveMbr and CheckIfValidGpt: the magic numbers only.
LooksLikeGpt(t) == t.mbr /\ t.head

\* The checksums, and no usable block behind the end of the device.
CheckGptHeader(t, size) ==
  /\ t.head /\ size # 0 /\ t.entries # <<>>
  /\ t.of = t.entries
  /\ FirstUsable <= size /\ t.last <= size

PtnInfo(e, lun) ==
  [name |-> e.name, slot |-> e.slot, start |-> e.first, size |-> e.end - e.first + 1, lun |-> lun]
ReadEntries(t, lun) == [i \in DOMAIN t.entries |-> PtnInfo(t.entries[i], lun)]

\* What was known of the LUN is replaced where it was, or follows at the end.
OfLun(info, lun) == {i \in DOMAIN info : info[i].lun = lun}
Ahead(info, here) == IF here = {} THEN info ELSE SubSeq(info, 1, Min(here) - 1)
Behind(info, here) == IF here = {} THEN <<>> ELSE SubSeq(info, Max(here) + 1, Len(info))
UfsReadGpt(info, t, lun) ==
  Ahead(info, OfLun(info, lun)) \o ReadEntries(t, lun) \o Behind(info, OfLun(info, lun))

\* The last partition is stretched to the end if it is the user's data, or the
\* only one and empty; without a partition the checksums stay what they were, for
\* another header.
FillsDevice(t, e) == Named(e, Userdata) \/ (Len(t.entries) = 1 /\ e.end - e.first + 1 = 0)
Stretched(t, last) ==
  IF FillsDevice(t, t.entries[Len(t.entries)]) THEN [t.entries EXCEPT ![Len(t.entries)].end = last]
  ELSE t.entries
Patched(t, last, entries) == [t EXCEPT !.last = last, !.entries = entries, !.of = entries]
PatchGptHeader(t, last) ==
  IF t.entries = <<>> THEN [t EXCEPT !.last = last] ELSE Patched(t, last, Stretched(t, last))

LastBlock(size, backup) == size - 1 - (IF backup THEN BackupBlocks ELSE 0)
UfsLast(last, reserved) == IF reserved # 0 /\ last > reserved THEN last - reserved ELSE last
\* A LUN that is not there is not patched.
UfsPatchGptHeader(t, size, backup, reserved) ==
  IF size = 0 THEN t ELSE PatchGptHeader(t, UfsLast(LastBlock(size, backup), reserved))
EmmcPatchGptHeader(t, size) == PatchGptHeader(t, size - 1)

(***************************************************************************)
(* ChangeGpt: one partition gets another place, and those behind it follow  *)
(* it without a gap.  The checksums of the table are not made again.        *)
(***************************************************************************)
\* AdjustGpt: the user's data takes what is left, and only there the end of the
\* device is looked at.
AdjustGpt(e, previous, last) ==
  IF Named(e, Userdata) THEN [e EXCEPT !.first = previous + 1, !.end = last]
  ELSE [e EXCEPT !.first = previous + 1, !.end = previous + 1 + (e.end - e.first)]
Fits(e, previous, last) == Named(e, Userdata) => previous + 1 <= last

IsModified(e, m) == e.name = m.name /\ e.slot = m.slot
MoveTo(e, m) == [e EXCEPT !.first = m.start, !.end = m.start + m.size - 1]
MovedFits(e, m, last) == Named(e, Userdata) => m.start + m.size - 1 = last

Follow(s, e, last) ==
  [ok |-> s.ok /\ Fits(e, s.previous, last),
   previous |-> AdjustGpt(e, s.previous, last).end,
   out |-> Append(s.out, AdjustGpt(e, s.previous, last))]

ModifiedAt(t, m) == {i \in DOMAIN t.entries : IsModified(t.entries[i], m)}
Moved(t, m, last, i) ==
  [ok |-> MovedFits(t.entries[i], m, last), previous |-> m.start + m.size - 1,
   out |-> Append(SubSeq(t.entries, 1, i - 1), MoveTo(t.entries[i], m))]
ChangeAt(t, m, last, i) ==
  LET upTo[k \in i..Len(t.entries)] ==
        IF k = i THEN Moved(t, m, last, i)
        ELSE LET s == upTo[k - 1] IN IF s.ok THEN Follow(s, t.entries[k], last) ELSE s
  IN  upTo[Len(t.entries)]
Changed(t, done) == [ok |-> done.ok, table |-> [t EXCEPT !.entries = done.out]]
\* Without a partition of the name nothing changes.
ChangeGpt(t, m, blocks) ==
  IF ModifiedAt(t, m) = {} THEN [ok |-> TRUE, table |-> t]
  ELSE Changed(t, ChangeAt(t, m, blocks - 1, Min(ModifiedAt(t, m))))

(***************************************************************************)
(* The names of a slot.                                                    *)
(***************************************************************************)
OtherSlot(slot) == IF slot = "a" THEN "b" ELSE "a"
\* A name of a slot becomes that of the other; one of none gets the target's.
GetTgtPartitionName(e, source) ==
  [e EXCEPT !.slot = IF e.slot = "" THEN OtherSlot(source) ELSE OtherSlot(e.slot)]
OtherNames(t, source) == [i \in DOMAIN t.entries |-> GetTgtPartitionName(t.entries[i], source)]
EditABPartition(t, source) ==
  [t EXCEPT !.entries = OtherNames(t, source), !.of = OtherNames(t, source)]

\* MatchSuffix: the first name decides for the LUN.
MatchSuffix(t, slot) == t.entries # <<>> /\ t.entries[1].slot = slot

\* The first partition with the name, or that of the slot being updated; an index,
\* 0 for none.
AllNamed(info, name, slot) == {i \in DOMAIN info : info[i].name = name /\ info[i].slot = slot}
FirstNamed(info, name, slot) ==
  IF AllNamed(info, name, slot) = {} THEN 0 ELSE Min(AllNamed(info, name, slot))
GetPartionInfoByName(info, name, slot) ==
  IF FirstNamed(info, name, "") # 0 THEN FirstNamed(info, name, "")
  ELSE IF slot \in {"a", "b"} THEN FirstNamed(info, name, slot) ELSE 0

\* A table nobody could read wrongly.
Sound(t, size) ==
  /\ CheckGptHeader(t, size)
  /\ \A i \in DOMAIN t.entries : t.entries[i].first <= t.entries[i].end /\ t.entries[i].end <= t.last
  /\ \A i, j \in DOMAIN t.entries : i < j => t.entries[i].end < t.entries[j].first
=============================================================================
