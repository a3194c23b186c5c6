---------------------------- MODULE BlockUpdate ----------------------------
(***************************************************************************)
(* The block update of one partition: a transfer list is executed in place, *)
(* command by command, and may be stopped at any point by a power loss or   *)
(* by a command that fails, either of which reboots the device.  The next   *)
(* attempt passes over the commands up to the one the "_retry" file names   *)
(* and goes on from there, with the stash files that are left.             *)
(*                                                                         *)
(* A block is "old", "new" (what the update puts there) or "bad"; a command *)
(* reads its source from blocks that are still old and from stash files,    *)
(* and its hash is the name of that source.                                *)
(***************************************************************************)
EXTENDS Naturals, Sequences

CONSTANTS
  Blocks,     \* blocks of the partition
  Hashes,     \* hashes of sources, which name the stash files
  Commands,   \* the transfer list
  NoCmd,      \* no command: the "_retry" file is missing or empty
  Cut,        \* a "_retry" file that holds a part of a command
  MaxStops    \* bound: stops in one behaviour

Patches == {"move", "diff"}
Types   == Patches \cup {"new", "zero", "stash", "free"}
Command == [type : Types, hash : Hashes, src : SUBSET Blocks,
            loads : SUBSET Hashes, tgt : SUBSET Blocks]

\* What a transfer list is made to satisfy: stash and free have no target, a
\* block is written once, and a source is read or stashed before any of its
\* blocks is written.
ASSUME CommandsAssumption ==
  /\ Commands \in Seq(Command)
  /\ NoCmd \notin Command /\ Cut \notin Command /\ NoCmd # Cut
  /\ MaxStops \in Nat
  /\ \A i \in DOMAIN Commands :
       Commands[i].type \in {"stash", "free"} => Commands[i].tgt = {}
  /\ \A i, j \in DOMAIN Commands :
       /\ i # j => Commands[i].tgt \cap Commands[j].tgt = {}
       /\ i < j => Commands[i].tgt \cap Commands[j].src = {}
  /\ \A j \in DOMAIN Commands : \A h \in Commands[j].loads :
       \E i \in 1..(j - 1) :
         /\ Commands[i].type = "stash" /\ Commands[i].hash = h
         /\ \A k \in i..j : ~(Commands[k].type = "free" /\ Commands[k].hash = h)

VARIABLES
  pc,         \* where the update is
  n,          \* the command under execution
  retryCmd,   \* the command still to be met before execution goes on
  freeStash,  \* the stash the command made of its own source, or NoCmd
  block,      \* the partition as a reader sees it
  durable,    \* the partition as it survives a stop
  stash,      \* the stash files
  retryFile,  \* the "_retry" file
  stops,      \* how often the update was stopped
  cut,        \* history: stash files a stop has left with a part of their data
  lost        \* history: blocks of ZERO that a stop has taken back since

memory == <<n, retryCmd, freeStash>>
disk   == <<block, durable, stash, retryFile>>
past   == <<stops, cut, lost>>
vars   == <<pc, memory, disk, past>>

TypeOK ==
  /\ pc \in {"off", "run", "stashing", "stashed", "writing", "freeing",
             "register", "sync", "done", "failed"}
  /\ n \in 1..(Len(Commands) + 1)
  /\ retryCmd \in Command \cup {NoCmd, Cut}
  /\ freeStash \in Hashes \cup {NoCmd}
  /\ block \in [Blocks -> {"old", "new", "bad"}]
  /\ durable \in [Blocks -> {"old", "new", "bad"}]
  /\ stash \in [Hashes -> {"none", "part", "short", "odd", "whole"}]
  /\ retryFile \in Command \cup {NoCmd, Cut}
  /\ stops \in 0..MaxStops
  /\ cut \subseteq Hashes /\ lost \subseteq Blocks

Cmd     == Commands[n]
IsRetry == stops > 0

\* The command is executed: NEW always, the others once retryCmd was met.
Runs == pc = "run" /\ n <= Len(Commands) /\ (retryCmd = NoCmd \/ Cmd.type = "new")

\* A file is loaded whatever it holds, if its size is a multiple of 4096.
Loadable(h) == stash[h] \in {"whole", "short"}

Overlaps(c)    == c.src \cap c.tgt # {}
TargetIsNew(c) == \A b \in c.tgt : block[b] = "new"
SourceRead(c)  == \A h \in c.loads : Loadable(h)
SourceIsOld(c) == /\ \A b \in c.src : block[b] = "old"
                  /\ \A h \in c.loads : stash[h] = "whole"

\* As if the hash of what was read were not compared.
NotVerified(c) == TRUE
Verified(c)    == SourceIsOld(c)

\* As if a source could be overwritten in place.
NeverStashed(c) == FALSE

\* The source has to be stashed before it is overwritten.
NeedsStash(c) == Verified(c) /\ Overlaps(c) /\ stash[c.hash] = "none"

\* The source can be had: as it was read, or from the stash of this command.
HasSource(c) == SourceRead(c) /\ (Verified(c) \/ Loadable(c.hash))

SourceIsRight(c) == IF Verified(c) THEN SourceIsOld(c) ELSE stash[c.hash] = "whole"

Write(c, v) == block' = [b \in Blocks |-> IF b \in c.tgt THEN v ELSE block[b]]

-----------------------------------------------------------------------------
Init ==
  /\ pc = "off" /\ n = 1 /\ retryCmd = NoCmd /\ freeStash = NoCmd
  /\ block = [b \in Blocks |-> "old"] /\ durable = block
  /\ stash = [h \in Hashes |-> "none"]
  /\ retryFile = NoCmd /\ stops = 0 /\ cut = {} /\ lost = {}

\* The store is emptied on the first attempt only, the "_retry" file is read
\* on the later ones only.
Start ==
  /\ pc = "off"
  /\ pc' = "run" /\ n' = 1 /\ freeStash' = NoCmd
  /\ retryCmd' = IF IsRetry THEN retryFile ELSE NoCmd
  /\ stash' = IF IsRetry THEN stash ELSE [h \in Hashes |-> "none"]
  /\ UNCHANGED <<block, durable, retryFile, past>>

\* As if NEW were passed over like the others.
PassAll ==
  /\ pc = "run" /\ n <= Len(Commands) /\ retryCmd # NoCmd
  /\ retryCmd' = IF Cmd = retryCmd THEN NoCmd ELSE retryCmd
  /\ n' = n + 1
  /\ UNCHANGED <<pc, freeStash, disk, past>>

\* The commands up to the one registered, and that one, are passed over.
Pass ==
  /\ pc = "run" /\ n <= Len(Commands) /\ ~Runs
  /\ retryCmd' = IF Cmd = retryCmd THEN NoCmd ELSE retryCmd
  /\ n' = n + 1
  /\ UNCHANGED <<pc, freeStash, disk, past>>

\* The writer thread writes the blocks; they are not synced, and the command
\* is not registered.
NewCommand ==
  /\ Runs /\ Cmd.type = "new"
  /\ Write(Cmd, "new")
  /\ n' = n + 1
  /\ UNCHANGED <<pc, retryCmd, freeStash, durable, stash, retryFile, past>>

\* The blocks are not synced, but the command is registered.
ZeroCommand ==
  /\ Runs /\ Cmd.type = "zero"
  /\ Write(Cmd, "new")
  /\ lost' = lost \ Cmd.tgt
  /\ pc' = "register"
  /\ UNCHANGED <<memory, durable, stash, retryFile, stops, cut>>

FreeCommand ==
  /\ Runs /\ Cmd.type = "free"
  /\ stash' = [stash EXCEPT ![Cmd.hash] = "none"]
  /\ pc' = "register"
  /\ UNCHANGED <<memory, block, durable, retryFile, past>>

\* The stash is there, or the source is gone: both count as success.
StashSkipped ==
  /\ Runs /\ Cmd.type = "stash"
  /\ Loadable(Cmd.hash) \/ ~SourceIsOld(Cmd)
  /\ pc' = "register"
  /\ UNCHANGED <<memory, disk, past>>

StashCommand ==
  /\ Runs /\ Cmd.type = "stash"
  /\ ~Loadable(Cmd.hash) /\ SourceIsOld(Cmd)
  /\ stash' = [stash EXCEPT ![Cmd.hash] = "part"]
  /\ pc' = "stashing"
  /\ UNCHANGED <<memory, block, durable, retryFile, past>>

-----------------------------------------------------------------------------
(***************************************************************************)
(* MOVE, BSDIFF and IMGDIFF.                                               *)
(***************************************************************************)
RunsPatch == Runs /\ Cmd.type \in Patches

AlreadyNew ==
  /\ RunsPatch /\ TargetIsNew(Cmd)
  /\ pc' = "register"
  /\ UNCHANGED <<memory, disk, past>>

\* The retries that follow end in the same way.
LoadFails ==
  /\ RunsPatch /\ ~TargetIsNew(Cmd) /\ ~HasSource(Cmd)
  /\ pc' = "failed"
  /\ UNCHANGED <<memory, disk, past>>

StashSource ==
  /\ RunsPatch /\ ~TargetIsNew(Cmd) /\ HasSource(Cmd) /\ NeedsStash(Cmd)
  /\ stash' = [stash EXCEPT ![Cmd.hash] = "part"]
  /\ freeStash' = Cmd.hash
  /\ pc' = "stashing"
  /\ UNCHANGED <<n, retryCmd, block, durable, retryFile, past>>

\* WriteDataToStore ends with fsync.
StashWritten ==
  /\ pc = "stashing"
  /\ stash' = [stash EXCEPT ![Cmd.hash] = "whole"]
  /\ pc' = IF Cmd.type = "stash" THEN "register" ELSE "stashed"
  /\ UNCHANGED <<memory, block, durable, retryFile, past>>

BeginWrite ==
  /\ \/ pc = "stashed"
     \/ RunsPatch /\ ~TargetIsNew(Cmd) /\ HasSource(Cmd) /\ ~NeedsStash(Cmd)
  /\ Write(Cmd, IF SourceIsRight(Cmd) THEN "new" ELSE "bad")
  /\ pc' = "writing"
  /\ UNCHANGED <<memory, durable, stash, retryFile, past>>

\* A diff compares the hash of what it wrote with the one expected, a move
\* does not.
WriteFails ==
  /\ pc = "writing" /\ Cmd.type = "diff" /\ ~TargetIsNew(Cmd)
  /\ pc' = "failed"
  /\ UNCHANGED <<memory, disk, past>>

\* As if the blocks were not synced.
FinishUnsynced ==
  /\ pc = "writing" /\ (Cmd.type = "move" \/ TargetIsNew(Cmd))
  /\ pc' = "freeing"
  /\ UNCHANGED <<memory, disk, past>>

FinishWrite ==
  /\ pc = "writing" /\ (Cmd.type = "move" \/ TargetIsNew(Cmd))
  /\ durable' = block
  /\ pc' = "freeing"
  /\ UNCHANGED <<memory, block, stash, retryFile, past>>

FreeOwnStash ==
  /\ pc = "freeing"
  /\ stash' = IF freeStash = NoCmd THEN stash ELSE [stash EXCEPT ![freeStash] = "none"]
  /\ freeStash' = NoCmd
  /\ pc' = "register"
  /\ UNCHANGED <<n, retryCmd, block, durable, retryFile, past>>

\* Nobody looks at whether the file could be written.
RegisterForRetry ==
  /\ pc = "register"
  /\ retryFile' \in {Cmd, NoCmd, Cut, retryFile}
  /\ pc' = "run" /\ n' = n + 1
  /\ UNCHANGED <<retryCmd, freeStash, block, durable, stash, past>>

-----------------------------------------------------------------------------
DoFreeSpace ==
  /\ pc = "run" /\ n > Len(Commands)
  /\ stash' = [h \in Hashes |-> "none"]
  /\ pc' = "sync"
  /\ UNCHANGED <<memory, block, durable, retryFile, past>>

SyncWriteDevPath ==
  /\ pc = "sync"
  /\ durable' = block
  /\ pc' = "done"
  /\ UNCHANGED <<memory, block, stash, retryFile, past>>

Zeroed == UNION {Commands[i].tgt : i \in {j \in DOMAIN Commands : Commands[j].type = "zero"}}

\* The power is lost, or a command fails and the device reboots: an unsynced
\* block holds what it held, what was written, or neither; a file being written
\* is missing or holds a part of what it should.
Stop ==
  /\ pc \notin {"off", "done", "failed"} /\ stops < MaxStops
  /\ durable' \in {d \in [Blocks -> {"old", "new", "bad"}] :
       \A b \in Blocks : \/ d[b] = block[b]
                         \/ durable[b] # block[b] /\ d[b] \in {durable[b], "bad"}}
  /\ block' = durable'
  /\ lost' = lost \cup {b \in Zeroed : durable'[b] # block[b]}
  /\ \/ /\ pc = "stashing"
        /\ \E v \in {"none", "short", "odd"} :
             /\ stash' = [stash EXCEPT ![Cmd.hash] = v]
             /\ cut' = IF v = "short" THEN cut \cup {Cmd.hash} ELSE cut
     \/ /\ pc # "stashing"
        /\ UNCHANGED <<stash, cut>>
  /\ retryFile' \in IF pc = "register" THEN {retryFile, NoCmd, Cut, Cmd} ELSE {retryFile}
  /\ pc' = "off" /\ stops' = stops + 1
  /\ UNCHANGED memory

Over == pc \in {"done", "failed"} /\ UNCHANGED vars

Update == \/ Start \/ Pass \/ NewCommand \/ ZeroCommand \/ FreeCommand
          \/ StashSkipped \/ StashCommand \/ AlreadyNew \/ LoadFails \/ StashSource
          \/ StashWritten \/ BeginWrite \/ WriteFails \/ FinishWrite \/ FreeOwnStash
          \/ RegisterForRetry \/ DoFreeSpace \/ SyncWriteDevPath

Next == Update \/ Stop \/ Over

Spec == Init /\ [][Next]_vars

\* The updater process runs on, and the device boots into it after a stop.
FairSpec == Spec /\ WF_vars(Update)

-----------------------------------------------------------------------------
\* Of the command of place i, block b holds what the update puts there, for
\* good; a ZERO is not synced, and a stop may have taken it back; a MOVE is not
\* verified, and may have read a stash that a stop had cut.
Holds(i, b) ==
  CASE Commands[i].type = "new"  -> block[b] = "new"
    [] Commands[i].type = "zero" -> block[b] = "new" \/ b \in lost
    [] Commands[i].type = "move" -> durable[b] = "new" \/ Commands[i].hash \in cut
    [] OTHER                     -> durable[b] = "new"

\* An update that ends in success has put every block in place, for good,
\* however often it was stopped and resumed, but for three things a stop can do:
\* take back a ZERO, cut the stash a MOVE reads, or cut the "_retry" file, which
\* then names no command, so that all but NEW is passed over.
DoneIsComplete ==
  pc = "done" =>
    \A i \in DOMAIN Commands : \A b \in Commands[i].tgt :
      \/ durable[b] = "new"
      \/ Commands[i].type = "zero" /\ b \in lost
      \/ Commands[i].type = "move" /\ Commands[i].hash \in cut
      \/ Commands[i].type # "new" /\ retryCmd = Cut

Registered == \E i \in DOMAIN Commands : retryFile = Commands[i]

\* The command of place j is not behind the one registered.
PassedOver(j) == \A k \in 1..(j - 1) : Commands[k] # retryFile

\* What a retry passes over will not be looked at again: it holds what the
\* update puts there, and but for a ZERO a stop cannot take it back.
ResumePointIsTrue ==
  Registered => \A j \in DOMAIN Commands :
    PassedOver(j) /\ Commands[j].type # "new" =>
      \A b \in Commands[j].tgt : Holds(j, b)

NoneCutShort == \A h \in Hashes : stash[h] \notin {"short", "odd"}

\* A block that holds what the update puts there for good is never lost again: a
\* retry does not write anything else over it, and a stop does not take it back,
\* unless it is the target of a patch whose own stash was cut.
NoGoingBack ==
  [][\A i \in DOMAIN Commands :
       (Commands[i].type \in Patches => stash[Commands[i].hash] # "short") =>
         \A b \in Commands[i].tgt : durable[b] = "new" => durable'[b] = "new"]_vars

\* However often it is stopped, an update can be resumed and gets to its end,
\* unless a stop has cut a stash file short: no other stop destroys a source
\* that is still needed.
Completes == []NoneCutShort => <>(pc = "done")
=============================================================================
