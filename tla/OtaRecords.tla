------------------------------ MODULE OtaRecords ------------------------------
(***************************************************************************)
(* What partition records and "_retry" files are worth in OtaLifecycle,     *)
(* partition by partition.  A retry takes two things for granted that       *)
(* nothing in the code checks: that a record or a "_retry" file is of the   *)
(* package being installed, and that what is recorded is on the disk.       *)
(*                                                                         *)
(* doubt is a history variable: it watches every behaviour of OtaLifecycle  *)
(* and hinders none.  It has the partitions of the update under way for     *)
(* which one of the two has failed:                                         *)
(*   - the update found a record or a "_retry" file of it, left by another; *)
(*   - two packages of the update have it;                                  *)
(*   - a reset lost its raw image and kept its record.                      *)
(* Of every other partition, whatever happens to these, a retry passes over *)
(* it only if it is up to date, and a package that is counted, or told to   *)
(* be installed, has its image there.                                       *)
(***************************************************************************)
EXTENDS OtaLifecycle

VARIABLE doubt

recordVars == <<vars, doubt>>

Recorded(r) == {r.slots[i] : i \in 1..MaxRecords} \ {None}

LeftBehind == Recorded(rec) \cup Recorded(stored) \cup {p \in Parts : retryFile[p] # None}

InTwo(u) ==
  {p \in Parts : \E i, j \in DOMAIN u : i # j /\ p \in PartsIn(u[i]) /\ p \in PartsIn(u[j])}

LostButRecorded == {p \in Recorded(rec') : content'[p] # content[p]}

InitRecords == Init /\ doubt = {}

NextRecords ==
  \/ \E u \in Updates : /\ RebootAndInstallUpgradePackage(u)
                        /\ doubt' = LeftBehind \cup InTwo(u)
  \/ (Updater \/ OnRebootEvt) /\ UNCHANGED doubt
  \/ Crash /\ doubt' = doubt \cup LostButRecorded

SpecRecords == InitRecords /\ [][NextRecords]_recordVars

\* The updater runs on while it has a step to take; nothing makes a client ask,
\* a user press a button or the power fail.
FairRecords == SpecRecords /\ WF_vars(Updater)

-----------------------------------------------------------------------------
\* A partition passed over because of its record (IsPartitionUpdated) holds the image of
\* the package being installed, unless it is in doubt.
SkipIsTrue == (InScript /\ Skips /\ Part \notin doubt) => content[Part] = Package

\* Package j of the update is in its partitions, but for those in doubt.
Holds(j) == \A p \in PartsIn(asked[j]) \ doubt : content[p] = asked[j]

AllHold == \A j \in DOMAIN asked : Holds(j)

\* The client reads "pass" only if every package it asked for is in its partitions,
\* whatever resets came between the installation, the result, the clearing of misc and
\* the reboot.
PassIsTrue == result = "pass" => AllHold

\* A package counted by upgraded_pkg_num, which no later boot installs again, is in its
\* partitions.
CountIsTrue == msg.boot => \A j \in 1..msg.done : j \in DOMAIN asked /\ Holds(j)

(***************************************************************************)
(* The inductive invariant.                                                *)
(***************************************************************************)
\* A partition of two packages is in doubt.
SharedIsInDoubt ==
  \A i, j \in DOMAIN asked : \A p \in PartsIn(asked[i]) \ doubt :
    p \in PartsIn(asked[j]) => i = j

\* Whatever a record names was updated by the update under way.
RecordsAreCurrent(r) ==
  \A i \in 1..MaxRecords : r.slots[i] \notin {None} \cup doubt =>
    \E j \in DOMAIN asked : r.slots[i] \in PartsIn(asked[j])
                            /\ content[r.slots[i]] = asked[j]

RetryFilesAreCurrent ==
  \A p \in Parts \ doubt : retryFile[p] # None =>
    \E j \in DOMAIN asked : p \in PartsIn(asked[j]) /\ retryFile[p] = asked[j]

Counted ==
  /\ msg.done <= Len(asked) /\ \A j \in 1..msg.done : Holds(j)
  /\ ~msg.boot => msg.done = 0

\* What the script of the package under way has passed is in place.
ScriptProgress ==
  /\ pc \in Child => \A n \in DOMAIN Script :
       n < idx /\ Script[n] \notin doubt => content[Script[n]] = Package
  /\ pc \in {"written", "slotted", "recorded"} /\ Part \notin doubt => content[Part] = Package

\* A raw image that is not synced is of the package that is the next to be counted.
CachedIsNext ==
  /\ cached # None /\ msg.boot =>
       msg.done < Len(asked) /\ cached \in PartsIn(asked[msg.done + 1])
  /\ cached # None => status # "success" /\ result # "pass"
  /\ pc \in Working => result # "pass"

SuccessIsTrue == status = "success" \/ result = "pass" => AllHold

IInv ==
  /\ OnCourse
  /\ SharedIsInDoubt
  /\ RecordsAreCurrent(rec) /\ RecordsAreCurrent(stored)
  /\ RetryFilesAreCurrent
  /\ Counted
  /\ ScriptProgress
  /\ CachedIsNext
  /\ SuccessIsTrue
=============================================================================
