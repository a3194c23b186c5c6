------------------------- MODULE BlockUpdateProofs -------------------------
(***************************************************************************)
(* What BlockUpdate keeps, for every transfer list and any number of stops, *)
(* whatever a stop does to the blocks that are not synced and to the file   *)
(* that is being written.                                                  *)
(***************************************************************************)
EXTENDS BlockUpdate, TLAPS

\* A stash with a part of its data was cut by a stop, and the retry file is
\* missing, cut, or names a command of the list.
Files ==
  /\ \A h \in Hashes : stash[h] = "short" => h \in cut
  /\ pc = "stashed" => stash[Cmd.hash] = "whole"
  /\ retryFile \notin {NoCmd, Cut} => Registered /\ retryFile.type # "new"
  /\ pc = "off" /\ stops = 0 => retryFile = NoCmd

\* A patch that is being written has read a stash that a stop had cut.
Spoiled(j) == j = n /\ pc \in {"writing", "failed"} /\ stash[Commands[j].hash] = "short"

\* Nothing but what the update puts there is written over it otherwise.
NoneLost ==
  \A j \in DOMAIN Commands : \A b \in Commands[j].tgt :
    durable[b] = "new" => block[b] = "new" \/ Spoiled(j)

\* The places that were executed or passed over in this attempt.
Behind == IF pc = "off" THEN {}
          ELSE {j \in DOMAIN Commands : j < n \/ (j = n /\ pc \in {"freeing", "register"})}

\* They hold what the update puts there, unless a cut "_retry" file had all but
\* NEW passed over.
Done(j, b) == Holds(j, b) \/ (retryCmd = Cut /\ Commands[j].type # "new")

Progress == \A j \in Behind : \A b \in Commands[j].tgt : Done(j, b)

\* The places whose commands this attempt has not come to write.
Ahead == {j \in DOMAIN Commands :
            \/ pc = "off" \/ j > n
            \/ j = n /\ pc \in {"run", "stashing", "stashed"}}

\* Their blocks are as a stop would leave them.
Clean == \A j \in Ahead : \A b \in Commands[j].tgt : durable[b] = block[b]

\* A patch that is written is written right, unless it read a cut stash.
Writing == pc = "writing" => TargetIsNew(Cmd) \/ stash[Cmd.hash] = "short"

\* The command to be met is the one registered, and it is ahead.
Passing ==
  pc # "off" /\ retryCmd # NoCmd =>
    /\ pc \in {"run", "sync", "done"} /\ retryCmd = retryFile
    /\ \A k \in DOMAIN Commands : k < n => Commands[k] # retryCmd

\* Once it was met, the command at hand is not one a retry passes over.
Met == pc # "off" /\ retryCmd = NoCmd /\ Registered => ~PassedOver(n)

\* A command is at hand in the middle of one, and none is left at the end.
AtHand ==
  /\ pc \in {"stashing", "stashed", "writing", "freeing", "register"} =>
       n \in DOMAIN Commands
  /\ pc \in {"sync", "done"} => n > Len(Commands)
  /\ pc \in {"stashed", "writing", "freeing", "failed"} => Cmd.type \in Patches
  /\ pc = "stashing" => Cmd.type \in Patches \cup {"stash"}
  /\ pc = "register" => Cmd.type # "new"

AllDurable == pc = "done" => durable = block

IInv == /\ TypeOK
        /\ Files /\ NoneLost /\ Progress /\ Clean /\ Writing /\ Passing /\ Met /\ AtHand
        /\ AllDurable /\ ResumePointIsTrue

-----------------------------------------------------------------------------
(***************************************************************************)
(* What the commands are, and what an action that leaves a part of the      *)
(* state alone keeps.                                                      *)
(***************************************************************************)

\* A place of the transfer list holds a command, of the partition's blocks.
LEMMA CommandAt ==
  ASSUME NEW j \in DOMAIN Commands
  PROVE  /\ Commands[j] \in Command /\ Commands[j] # NoCmd /\ Commands[j] # Cut
         /\ Commands[j].type \in Types /\ Commands[j].hash \in Hashes
         /\ Commands[j].tgt \subseteq Blocks /\ NoCmd # Cut
<1>1. Commands \in Seq(Command) /\ NoCmd \notin Command /\ Cut \notin Command /\ NoCmd # Cut
  BY CommandsAssumption
<1>2. Commands[j] \in Command
  BY <1>1
<1> QED
  BY <1>1, <1>2 DEF Command

\* The places are the numbers up to the length of the list.
LEMMA Places == DOMAIN Commands = 1..Len(Commands) /\ Len(Commands) \in Nat
<1>1. Commands \in Seq(Command)
  BY CommandsAssumption
<1> QED
  BY <1>1

\* A command that runs is in its place.
LEMMA RunsAt ==
  ASSUME TypeOK, pc = "run", n <= Len(Commands)
  PROVE  n \in DOMAIN Commands
BY Places DEF TypeOK

\* Two commands write no block in common.
LEMMA Apart ==
  ASSUME NEW i \in DOMAIN Commands, NEW j \in DOMAIN Commands, i # j,
         NEW b \in Commands[i].tgt
  PROVE  b \notin Commands[j].tgt
BY CommandsAssumption

\* A source is the right one unless the stash of its command was cut.
LEMMA RightSource ==
  ASSUME IInv, n \in DOMAIN Commands, HasSource(Cmd) \/ stash[Cmd.hash] = "whole"
  PROVE  SourceIsRight(Cmd) \/ stash[Cmd.hash] = "short"
BY DEF SourceIsRight, HasSource, Verified, Loadable

\* What a write does to the blocks of the partition.
LEMMA Written ==
  ASSUME TypeOK, n \in DOMAIN Commands, NEW v \in {"new", "bad"}, Write(Cmd, v)
  PROVE  /\ block' \in [Blocks -> {"old", "new", "bad"}]
         /\ \A b \in Cmd.tgt : block'[b] = v
         /\ \A b \in Blocks : b \notin Cmd.tgt => block'[b] = block[b]
<1>1. Cmd.tgt \subseteq Blocks
  BY CommandAt DEF Cmd
<1> QED
  BY <1>1 DEF TypeOK, Write

\* No action has taken back what the places hold.
Kept(j) == \A b \in Commands[j].tgt : Holds(j, b) => Holds(j, b)'

Keeps == \A j \in DOMAIN Commands : Kept(j)

\* Nor does one that changes neither blocks nor history.
LEMMA SameKeeps ==
  ASSUME UNCHANGED <<block, durable, cut, lost>>
  PROVE  Keeps
BY DEF Keeps, Kept, Holds

\* A write takes back nothing that is there for good, and NEW and ZERO put there
\* what the update does.
LEMMA WriteKeeps ==
  ASSUME TypeOK, n \in DOMAIN Commands, NEW v \in {"new", "bad"}, Write(Cmd, v),
         v = "new" \/ Cmd.type \in Patches,
         lost' = lost \/ (v = "new" /\ lost' = lost \ Cmd.tgt),
         durable' = durable, cut' = cut
  PROVE  Keeps
<1> SUFFICES ASSUME NEW j \in DOMAIN Commands, NEW b \in Commands[j].tgt, Holds(j, b)
             PROVE  Holds(j, b)'
  BY DEF Keeps, Kept
<1>1. b \in Blocks
  BY CommandAt
<1>2. CASE j = n
  <2>1. block'[b] = v
    BY <1>2, Written DEF Cmd
  <2> QED
    BY <1>2, <2>1 DEF Holds, Cmd, Patches
<1>3. CASE j # n
  <2>1. b \notin Cmd.tgt
    BY <1>3, Apart DEF Cmd
  <2>2. block'[b] = block[b]
    BY <1>1, <2>1, Written
  <2> QED
    BY <2>1, <2>2 DEF Holds
<1> QED
  BY <1>2, <1>3

\* The resume point stays true while what it passes over is kept.
LEMMA ResumeKept ==
  ASSUME ResumePointIsTrue, retryFile' = retryFile,
         \A j \in DOMAIN Commands :
           Registered /\ PassedOver(j) /\ Commands[j].type # "new" => Kept(j)
  PROVE  ResumePointIsTrue'
<1> SUFFICES ASSUME Registered', NEW j \in DOMAIN Commands, PassedOver(j)',
                    Commands[j].type # "new", NEW b \in Commands[j].tgt
             PROVE  Holds(j, b)'
  BY DEF ResumePointIsTrue
<1>1. Registered /\ PassedOver(j)
  BY DEF Registered, PassedOver
<1>2. Holds(j, b)
  BY <1>1 DEF ResumePointIsTrue
<1> QED
  BY <1>1, <1>2 DEF Kept

LEMMA ResumeSame ==
  ASSUME ResumePointIsTrue, retryFile' = retryFile, Keeps
  PROVE  ResumePointIsTrue'
BY ResumeKept DEF Keeps

\* A place may join those behind once it holds what they do.
LEMMA ProgressKept ==
  ASSUME Progress, Keeps, retryCmd = Cut => retryCmd' = Cut,
         \A j \in Behind' : j \notin Behind => \A b \in Commands[j].tgt : Done(j, b)'
  PROVE  Progress'
<1> SUFFICES ASSUME NEW j \in Behind', NEW b \in Commands[j].tgt
             PROVE  Done(j, b)'
  BY DEF Progress
<1>1. CASE j \in Behind
  <2>1. j \in DOMAIN Commands
    BY <1>1 DEF Behind
  <2>2. Done(j, b)
    BY <1>1 DEF Progress
  <2> QED
    BY <2>1, <2>2 DEF Keeps, Kept, Done
<1>2. CASE j \notin Behind
  BY <1>2
<1> QED
  BY <1>1, <1>2

\* While nothing is written, the places ahead stay as they are.
LEMMA CleanKept ==
  ASSUME Clean, Ahead' \subseteq Ahead, block' = block, durable' = durable
  PROVE  Clean'
BY DEF Clean

\* A write touches no block of another command.
LEMMA CleanWritten ==
  ASSUME TypeOK, Clean, n \in DOMAIN Commands, NEW v, Write(Cmd, v),
         Ahead' \subseteq Ahead \ {n}, durable' = durable
  PROVE  Clean'
<1> SUFFICES ASSUME NEW j \in Ahead', NEW b \in Commands[j].tgt
             PROVE  durable[b] = block'[b]
  BY DEF Clean
<1>1. j \in DOMAIN Commands /\ j \in Ahead /\ j # n
  BY DEF Ahead
<1>2. b \notin Cmd.tgt
  BY <1>1, CommandsAssumption DEF Cmd
<1>3. b \in Blocks
  BY <1>1, CommandAt
<1> QED
  BY <1>1, <1>2, <1>3 DEF Clean, Write

\* Unless a patch is being written, what is there for good is what is read.
LEMMA LostKept ==
  ASSUME NoneLost, pc \notin {"writing", "failed"},
         \A j \in DOMAIN Commands : \A b \in Commands[j].tgt :
           (block[b] = "new" => block'[b] = "new") /\ durable'[b] \in {durable[b], block'[b]}
  PROVE  NoneLost'
BY DEF NoneLost, Spoiled

\* The command at hand stays ahead of the one registered as the update goes on.
LEMMA MetKept ==
  ASSUME TypeOK, Met, pc # "off", retryCmd = NoCmd, retryFile' = retryFile,
         n' = n \/ n' = n + 1
  PROVE  Met'
<1>1. ASSUME Registered', PassedOver(n)'
      PROVE  FALSE
  <2>1. Registered
    BY <1>1 DEF Registered
  <2>2. PassedOver(n)
    <3>1. n \in Nat
      BY Places DEF TypeOK
    <3>2. ASSUME NEW k \in 1..(n - 1) PROVE k \in 1..(n' - 1)
      <4>1. CASE n' = n
        BY <3>1, <4>1
      <4>2. CASE n' = n + 1
        BY <3>1, <4>2
      <4> QED
        BY <4>1, <4>2
    <3> QED
      BY <1>1, <3>2 DEF PassedOver
  <2> QED
    BY <2>1, <2>2 DEF Met
<1> QED
  BY <1>1 DEF Met

-----------------------------------------------------------------------------
(***************************************************************************)
(* One lemma for each action or group of actions that disturb the same.     *)
(***************************************************************************)

\* It holds at first.
LEMMA InitInv == ASSUME Init PROVE IInv
<1>1. TypeOK
  BY Places, CommandsAssumption DEF Init, TypeOK
<1>2. Files /\ NoneLost /\ Clean /\ Writing /\ Passing /\ Met /\ AtHand /\ AllDurable
  BY DEF Init, Files, NoneLost, Clean, Writing, Passing, Met, AtHand, AllDurable
<1>3. Progress
  BY DEF Init, Progress, Behind
<1>4. ~Registered
  BY CommandAt DEF Init, Registered
<1> QED
  BY <1>1, <1>2, <1>3, <1>4 DEF IInv, ResumePointIsTrue

\* The first command of an attempt has nothing behind it.
LEMMA StartStep == ASSUME IInv, Start PROVE IInv'
<1> USE DEF IInv
<1>1. TypeOK'
  BY Places, CommandsAssumption DEF TypeOK, Start, past
<1>2. Files' /\ Writing' /\ AtHand' /\ AllDurable'
  BY DEF Start, past, Files, Registered, Writing, AtHand, AllDurable
<1>3. NoneLost' /\ Clean'
  BY LostKept, CleanKept DEF Start, Ahead
<1>4. \A j \in DOMAIN Commands : ~(j < 1)
  BY Places
<1>5. Progress'
  <2>1. Behind' = {}
    BY <1>4 DEF Start, Behind
  <2> QED
    BY <2>1 DEF Progress
<1>6. Passing' /\ Met'
  <2>1. /\ n' = 1 /\ pc' = "run" /\ retryFile' = retryFile
        /\ retryCmd' = retryFile \/ retryCmd' = NoCmd
        /\ retryCmd' = NoCmd => retryFile = NoCmd
    BY CommandsAssumption DEF Start, IsRetry, Files, TypeOK
  <2>2. retryFile = NoCmd => ~Registered'
    BY <2>1, CommandAt DEF Registered
  <2> QED
    BY <1>4, <2>1, <2>2 DEF Passing, Met
<1>7. ResumePointIsTrue'
  BY ResumeSame, SameKeeps DEF Start, past
<1> QED
  BY <1>1, <1>2, <1>3, <1>5, <1>6, <1>7

\* What a retry passes over was done before.
LEMMA PassStep == ASSUME IInv, Pass PROVE IInv'
<1> USE DEF IInv
<1>1. n \in DOMAIN Commands /\ n \in Nat /\ retryCmd # NoCmd /\ Cmd.type # "new"
  BY RunsAt, Places DEF Pass, Runs
<1>2. TypeOK'
  BY <1>1, Places, CommandsAssumption DEF TypeOK, Pass, disk, past
<1>3. Files' /\ Writing' /\ AtHand' /\ AllDurable'
  BY DEF Pass, disk, past, Files, Registered, Writing, AtHand, AllDurable
<1>4. NoneLost'
  BY LostKept DEF Pass, disk
<1>5. retryCmd = retryFile /\ \A k \in DOMAIN Commands : k < n => Commands[k] # retryFile
  BY <1>1 DEF Passing, Pass
<1>6. PassedOver(n)
  <2>1. \A k \in 1..(n - 1) : k \in DOMAIN Commands /\ k < n
    BY <1>1, Places
  <2> QED
    BY <2>1, <1>5 DEF PassedOver
<1>7. retryCmd = Cut => retryCmd' = Cut
  BY <1>1, CommandAt DEF Pass, Cmd
<1>8. Keeps
  BY SameKeeps DEF Pass, disk, past
<1>9. Progress' /\ Clean'
  <2>1. Behind' \subseteq Behind \cup {n} /\ Ahead' \subseteq Ahead
    BY <1>1, Places DEF Behind, Ahead, Pass
  <2>2. ASSUME NEW j \in Behind', j \notin Behind, NEW b \in Commands[j].tgt
        PROVE  Done(j, b)'
    <3>1. j = n
      BY <2>1, <2>2
    <3>2. CASE retryCmd = Cut
      BY <1>1, <1>7, <3>1, <3>2 DEF Done, Cmd
    <3>3. CASE retryCmd # Cut
      <4>1. Registered
        BY <1>1, <1>5, <3>3 DEF Files
      <4>2. Holds(j, b)
        BY <1>1, <1>6, <3>1, <4>1 DEF ResumePointIsTrue, Cmd
      <4> QED
        BY <1>1, <1>8, <3>1, <4>2 DEF Keeps, Kept, Done
    <3> QED
      BY <3>2, <3>3
  <2> QED
    BY <1>7, <1>8, <2>1, <2>2, ProgressKept, CleanKept DEF Pass, disk
<1>10. Passing'
  <2>1. ASSUME NEW k \in DOMAIN Commands, k < n + 1, Cmd # retryCmd
        PROVE  Commands[k] # retryCmd
    BY <1>1, <1>5, <2>1, Places DEF Cmd
  <2> QED
    BY <1>5, <2>1 DEF Passing, Pass, disk
<1>11. Met'
  <2> SUFFICES ASSUME retryCmd' = NoCmd
               PROVE  ~PassedOver(n)'
    BY DEF Met
  <2>1. Cmd = retryFile /\ n' = n + 1 /\ retryFile' = retryFile
    BY <1>1, <1>5 DEF Pass, disk
  <2>2. n \in 1..(n' - 1)
    BY <1>1, <2>1, Places
  <2> QED
    BY <2>1, <2>2 DEF PassedOver, Cmd
<1>12. ResumePointIsTrue'
  BY <1>8, ResumeSame DEF Pass, disk
<1> QED
  BY <1>2, <1>3, <1>4, <1>9, <1>10, <1>11, <1>12

\* NEW writes the blocks of its command, and goes on.
LEMMA NewStep == ASSUME IInv, NewCommand PROVE IInv'
<1> USE DEF IInv
<1>1. n \in DOMAIN Commands /\ n \in Nat /\ Cmd.type = "new"
  BY RunsAt, Places DEF NewCommand, Runs
<1>2. /\ block' \in [Blocks -> {"old", "new", "bad"}]
      /\ \A b \in Cmd.tgt : block'[b] = "new"
      /\ \A b \in Blocks : b \notin Cmd.tgt => block'[b] = block[b]
  BY <1>1, Written DEF NewCommand
<1>3. TypeOK'
  BY <1>1, <1>2, Places DEF TypeOK, NewCommand, Runs, past
<1>4. Files' /\ Writing' /\ AtHand' /\ AllDurable'
  BY <1>2 DEF NewCommand, Runs, past, Files, Registered, Writing, AtHand, AllDurable
<1>5. NoneLost'
  BY <1>2, CommandAt, LostKept DEF NewCommand, Runs
<1>6. Keeps
  <2>1. Write(Cmd, "new") /\ lost' = lost /\ durable' = durable /\ cut' = cut
    BY DEF NewCommand, past
  <2> QED
    BY <1>1, <2>1, WriteKeeps
<1>7. Progress' /\ Clean'
  <2>1. Behind' \subseteq Behind \cup {n} /\ Ahead' \subseteq Ahead \ {n}
    BY <1>1, Places DEF Behind, Ahead, NewCommand, Runs
  <2>2. ASSUME NEW j \in Behind', j \notin Behind, NEW b \in Commands[j].tgt
        PROVE  Done(j, b)'
    <3>1. j = n
      BY <2>1, <2>2
    <3> QED
      BY <1>1, <1>2, <3>1 DEF Done, Holds, Cmd
  <2> QED
    BY <1>1, <1>6, <2>1, <2>2, ProgressKept, CleanWritten DEF NewCommand
<1>8. Passing'
  <2>1. retryCmd # NoCmd => Cmd # retryCmd
    <3>1. retryCmd \notin {NoCmd, Cut} => retryCmd.type # "new"
      BY DEF Files, Passing, NewCommand, Runs
    <3> QED
      BY <1>1, <3>1, CommandAt DEF Cmd
  <2>2. \A k \in DOMAIN Commands : k < n + 1 => k < n \/ k = n
    BY <1>1, Places
  <2> QED
    BY <2>1, <2>2 DEF Passing, NewCommand, Runs, Cmd
<1>9. Met'
  <2>1. CASE retryCmd = NoCmd
    BY <2>1, MetKept DEF NewCommand, Runs
  <2>2. CASE retryCmd # NoCmd
    BY <2>2 DEF Met, NewCommand
  <2> QED
    BY <2>1, <2>2
<1>10. ResumePointIsTrue'
  BY <1>6, ResumeSame DEF NewCommand
<1> QED
  BY <1>3, <1>4, <1>5, <1>7, <1>8, <1>9, <1>10

\* ZERO writes the blocks of its command, which a stop may take back.
LEMMA ZeroStep == ASSUME IInv, ZeroCommand PROVE IInv'
<1> USE DEF IInv
<1>1. n \in DOMAIN Commands /\ n \in Nat /\ Cmd.type = "zero" /\ retryCmd = NoCmd
  BY RunsAt, Places DEF ZeroCommand, Runs
<1>2. /\ block' \in [Blocks -> {"old", "new", "bad"}]
      /\ \A b \in Cmd.tgt : block'[b] = "new"
      /\ \A b \in Blocks : b \notin Cmd.tgt => block'[b] = block[b]
  BY <1>1, Written DEF ZeroCommand
<1>3. TypeOK'
  BY <1>1, <1>2 DEF TypeOK, ZeroCommand, memory
<1>4. Files' /\ Writing' /\ AtHand' /\ AllDurable' /\ Passing'
  BY <1>1, <1>2 DEF ZeroCommand, Runs, memory, Files, Registered, Writing, AtHand,
                    AllDurable, Passing, Cmd
<1>5. NoneLost'
  BY <1>2, CommandAt, LostKept DEF ZeroCommand, Runs
<1>6. Keeps
  BY <1>1, WriteKeeps DEF ZeroCommand
<1>7. Progress' /\ Clean'
  <2>1. Behind' \subseteq Behind \cup {n} /\ Ahead' \subseteq Ahead \ {n}
    BY <1>1, Places DEF Behind, Ahead, ZeroCommand, Runs, memory
  <2>2. ASSUME NEW j \in Behind', j \notin Behind, NEW b \in Commands[j].tgt
        PROVE  Done(j, b)'
    <3>1. j = n
      BY <2>1, <2>2
    <3> QED
      BY <1>1, <1>2, <3>1 DEF Done, Holds, Cmd
  <2> QED
    BY <1>1, <1>6, <2>1, <2>2, ProgressKept, CleanWritten DEF ZeroCommand, memory
<1>8. Met'
  BY <1>1, MetKept DEF ZeroCommand, Runs, memory
<1>9. ResumePointIsTrue'
  BY <1>6, ResumeSame DEF ZeroCommand
<1> QED
  BY <1>3, <1>4, <1>5, <1>7, <1>8, <1>9

\* STASH and FREE, and a patch whose target is new, are ready to be registered.
LEMMA ReadyStep ==
  ASSUME IInv, FreeCommand \/ StashSkipped \/ AlreadyNew
  PROVE  IInv'
<1> USE DEF IInv
<1>1. /\ n \in DOMAIN Commands /\ n \in Nat /\ retryCmd = NoCmd
      /\ Cmd.hash \in Hashes /\ Cmd.type # "new"
  BY RunsAt, Places, CommandAt
  DEF FreeCommand, StashSkipped, AlreadyNew, RunsPatch, Runs, Cmd, Patches
<1>2. /\ pc = "run" /\ pc' = "register" /\ UNCHANGED <<memory, block, durable, retryFile, past>>
      /\ stash' = stash \/ stash' = [stash EXCEPT ![Cmd.hash] = "none"]
  BY DEF FreeCommand, StashSkipped, AlreadyNew, RunsPatch, Runs, disk
<1>3. TypeOK'
  BY <1>1, <1>2 DEF TypeOK, memory, past
<1>4. Files' /\ Writing' /\ AtHand' /\ AllDurable' /\ Passing'
  BY <1>1, <1>2 DEF memory, past, Files, Registered, Writing, AtHand, AllDurable,
                    Passing, Cmd, TypeOK
<1>5. NoneLost'
  BY <1>2, LostKept
<1>6. Keeps
  BY <1>2, SameKeeps DEF past
<1>7. Progress' /\ Clean'
  <2>1. Behind' \subseteq Behind \cup {n} /\ Ahead' \subseteq Ahead
    BY <1>1, <1>2, Places DEF Behind, Ahead, memory
  <2>2. \A b \in Cmd.tgt : block[b] = "new" /\ durable[b] = "new"
    <3>1. CASE FreeCommand \/ StashSkipped
      BY <1>1, <3>1, CommandsAssumption DEF FreeCommand, StashSkipped, Cmd
    <3>2. CASE AlreadyNew
      BY <1>1, <3>2 DEF AlreadyNew, RunsPatch, Runs, TargetIsNew, Clean, Ahead, Cmd
    <3> QED
      BY <3>1, <3>2
  <2>3. ASSUME NEW j \in Behind', j \notin Behind, NEW b \in Commands[j].tgt
        PROVE  Done(j, b)'
    <3>1. j = n
      BY <2>1, <2>3
    <3> QED
      BY <1>2, <2>2, <3>1 DEF Done, Holds, Cmd
  <2> QED
    BY <1>2, <1>6, <2>1, <2>3, ProgressKept, CleanKept DEF memory
<1>8. Met'
  BY <1>1, <1>2, MetKept DEF memory
<1>9. ResumePointIsTrue'
  BY <1>2, <1>6, ResumeSame
<1> QED
  BY <1>3, <1>4, <1>5, <1>7, <1>8, <1>9

\* A stash is begun, or a command fails: nothing is written.
LEMMA BeginStashStep ==
  ASSUME IInv, StashCommand \/ StashSource \/ LoadFails \/ WriteFails
  PROVE  IInv'
<1> USE DEF IInv
<1>1. /\ n \in DOMAIN Commands /\ n \in Nat /\ retryCmd = NoCmd /\ Cmd.hash \in Hashes
      /\ Cmd.type \in Patches \cup {"stash"}
  BY RunsAt, Places, CommandAt
  DEF StashCommand, StashSource, LoadFails, WriteFails, RunsPatch, Runs, Cmd, Patches,
      AtHand, Passing
<1>2. /\ pc \in {"run", "writing"} /\ pc' \in {"stashing", "failed"}
      /\ pc' = "stashing" => pc = "run"
      /\ pc' = "failed" => Cmd.type \in Patches
      /\ UNCHANGED <<n, retryCmd, block, durable, retryFile, past>>
      /\ freeStash' \in {freeStash, Cmd.hash}
      /\ \/ stash' = stash
         \/ pc = "run" /\ stash' = [stash EXCEPT ![Cmd.hash] = "part"]
  BY DEF StashCommand, StashSource, LoadFails, WriteFails, RunsPatch, Runs, disk, memory,
         Patches
<1>3. TypeOK'
  BY <1>1, <1>2 DEF TypeOK, past
<1>4. Files' /\ Writing' /\ AtHand' /\ AllDurable' /\ Passing'
  BY <1>1, <1>2 DEF past, Files, Registered, Writing, AtHand, AllDurable, Passing,
                    Cmd, TypeOK
<1>5. NoneLost'
  <2>1. CASE pc = "run"
    BY <1>2, <2>1, LostKept
  <2>2. CASE pc = "writing"
    BY <1>2, <2>2 DEF NoneLost, Spoiled
  <2> QED
    BY <1>2, <2>1, <2>2
<1>6. Keeps
  BY <1>2, SameKeeps DEF past
<1>7. Progress' /\ Clean'
  <2>1. Behind' \subseteq Behind /\ Ahead' \subseteq Ahead
    BY <1>1, <1>2, Places DEF Behind, Ahead
  <2> QED
    BY <1>2, <1>6, <2>1, ProgressKept, CleanKept
<1>8. Met'
  BY <1>1, <1>2, MetKept
<1>9. ResumePointIsTrue'
  BY <1>2, <1>6, ResumeSame
<1> QED
  BY <1>3, <1>4, <1>5, <1>7, <1>8, <1>9

\* A stash is whole when it is written; for STASH that is all.
LEMMA StashWrittenStep == ASSUME IInv, StashWritten PROVE IInv'
<1> USE DEF IInv
<1>1. /\ n \in DOMAIN Commands /\ n \in Nat /\ retryCmd = NoCmd /\ Cmd.hash \in Hashes
      /\ Cmd.type \in Patches \cup {"stash"}
  BY Places, CommandAt DEF StashWritten, AtHand, Passing, Cmd
<1>2. TypeOK'
  BY <1>1 DEF TypeOK, StashWritten, memory, past
<1>3. Files' /\ Writing' /\ AtHand' /\ AllDurable' /\ Passing'
  BY <1>1 DEF StashWritten, memory, past, Files, Registered, Writing, AtHand,
              AllDurable, Passing, Cmd, TypeOK, Patches
<1>4. NoneLost'
  BY LostKept DEF StashWritten
<1>5. Keeps
  BY SameKeeps DEF StashWritten, past
<1>6. Progress' /\ Clean'
  <2>1. Behind' \subseteq Behind \cup {n} /\ Ahead' \subseteq Ahead
    BY <1>1, Places DEF Behind, Ahead, StashWritten, memory
  <2>2. n \in Behind' => Cmd.tgt = {}
    BY <1>1, CommandsAssumption DEF Behind, StashWritten, memory, Cmd
  <2>3. ASSUME NEW j \in Behind', j \notin Behind PROVE Commands[j].tgt = {}
    BY <2>1, <2>2, <2>3 DEF Cmd
  <2> QED
    BY <1>5, <2>1, <2>3, ProgressKept, CleanKept DEF StashWritten, memory
<1>7. Met'
  BY <1>1, MetKept DEF StashWritten, memory
<1>8. ResumePointIsTrue'
  BY <1>5, ResumeSame DEF StashWritten
<1> QED
  BY <1>2, <1>3, <1>4, <1>6, <1>7, <1>8

\* A patch has the right source, so it writes the right blocks, unless the stash
\* it reads was cut.
LEMMA BeginWriteStep == ASSUME IInv, BeginWrite PROVE IInv'
<1> USE DEF IInv
<1>1. /\ n \in DOMAIN Commands /\ n \in Nat /\ retryCmd = NoCmd /\ Cmd.type \in Patches
      /\ pc \in {"run", "stashed"}
  BY RunsAt, Places DEF BeginWrite, RunsPatch, Runs, AtHand, Passing, Cmd, Patches
<1>2. PICK v \in {"new", "bad"} :
        Write(Cmd, v) /\ (v = "bad" => stash[Cmd.hash] = "short")
  <2>1. SourceIsRight(Cmd) \/ stash[Cmd.hash] = "short"
    BY <1>1, RightSource DEF BeginWrite, Files
  <2> QED
    BY <2>1 DEF BeginWrite
<1>3. /\ block' \in [Blocks -> {"old", "new", "bad"}]
      /\ \A b \in Cmd.tgt : block'[b] = v
      /\ \A b \in Blocks : b \notin Cmd.tgt => block'[b] = block[b]
  BY <1>1, <1>2, Written
<1>4. TypeOK'
  BY <1>3 DEF TypeOK, BeginWrite, memory, past
<1>5. Files' /\ Writing' /\ AtHand' /\ AllDurable' /\ Passing'
  BY <1>1, <1>2, <1>3 DEF BeginWrite, memory, past, Files, Registered, Writing, TargetIsNew,
                    AtHand, AllDurable, Passing, Cmd
<1>6. NoneLost'
  <2> SUFFICES ASSUME NEW j \in DOMAIN Commands, NEW b \in Commands[j].tgt,
                      durable'[b] = "new"
               PROVE  block'[b] = "new" \/ Spoiled(j)'
    BY DEF NoneLost
  <2>1. CASE j = n
    BY <1>2, <1>3, <2>1 DEF Spoiled, BeginWrite, memory, Cmd
  <2>2. CASE j # n
    <3>1. block'[b] = block[b]
      BY <1>1, <1>3, <2>2, Apart, CommandAt DEF Cmd
    <3> QED
      BY <2>2, <3>1 DEF NoneLost, Spoiled, BeginWrite
  <2> QED
    BY <2>1, <2>2
<1>7. Keeps
  BY <1>1, <1>2, WriteKeeps DEF BeginWrite, past
<1>8. Progress' /\ Clean'
  <2>1. Behind' \subseteq Behind /\ Ahead' \subseteq Ahead \ {n}
    BY <1>1, Places DEF Behind, Ahead, BeginWrite, memory
  <2> QED
    BY <1>1, <1>2, <1>7, <2>1, ProgressKept, CleanWritten DEF BeginWrite, memory
<1>9. Met'
  BY <1>1, MetKept DEF BeginWrite, memory
<1>10. ResumePointIsTrue'
  BY <1>7, ResumeSame DEF BeginWrite
<1> QED
  BY <1>4, <1>5, <1>6, <1>8, <1>9, <1>10

\* The blocks that were written are synced.
LEMMA FinishWriteStep == ASSUME IInv, FinishWrite PROVE IInv'
<1> USE DEF IInv
<1>1. /\ n \in DOMAIN Commands /\ n \in Nat /\ retryCmd = NoCmd /\ Cmd.type \in Patches
      /\ TargetIsNew(Cmd) \/ (Cmd.type = "move" /\ Cmd.hash \in cut)
  BY Places, CommandAt DEF FinishWrite, AtHand, Passing, Writing, Files, Cmd
<1>2. TypeOK'
  BY DEF TypeOK, FinishWrite, memory, past
<1>3. Files' /\ NoneLost' /\ Writing' /\ AtHand' /\ AllDurable' /\ Passing'
  BY <1>1 DEF FinishWrite, memory, past, Files, Registered, NoneLost, Writing, AtHand,
              AllDurable, Passing, Cmd
<1>4. \A b \in Cmd.tgt : block[b] = "new" \/ (Cmd.type = "move" /\ Cmd.hash \in cut)
  BY <1>1 DEF TargetIsNew
<1>5. Keeps
  <2> SUFFICES ASSUME NEW j \in DOMAIN Commands, NEW b \in Commands[j].tgt, Holds(j, b)
               PROVE  Holds(j, b)'
    BY DEF Keeps, Kept
  <2>1. CASE j = n
    BY <1>1, <1>4, <2>1 DEF Holds, FinishWrite, past, Cmd, Patches
  <2>2. CASE j # n
    BY <2>2 DEF NoneLost, Spoiled, Holds, FinishWrite, past
  <2> QED
    BY <2>1, <2>2
<1>6. Progress' /\ Clean'
  <2>1. Behind' \subseteq Behind \cup {n}
    BY <1>1, Places DEF Behind, FinishWrite, memory
  <2>2. ASSUME NEW j \in Behind', j \notin Behind, NEW b \in Commands[j].tgt
        PROVE  Done(j, b)'
    <3>1. j = n
      BY <2>1, <2>2
    <3> QED
      BY <1>1, <1>4, <3>1 DEF Done, Holds, FinishWrite, past, Cmd, Patches
  <2>3. Clean'
    BY DEF Clean, FinishWrite
  <2> QED
    BY <1>5, <2>2, <2>3, ProgressKept DEF FinishWrite, memory
<1>7. Met'
  BY <1>1, MetKept DEF FinishWrite, memory
<1>8. ResumePointIsTrue'
  BY <1>5, ResumeSame DEF FinishWrite
<1> QED
  BY <1>2, <1>3, <1>6, <1>7, <1>8

\* The stash of a patch is freed once the patch is synced.
LEMMA FreeOwnStep == ASSUME IInv, FreeOwnStash PROVE IInv'
<1> USE DEF IInv
<1>1. n \in DOMAIN Commands /\ n \in Nat /\ retryCmd = NoCmd /\ Cmd.type \in Patches
  BY Places DEF FreeOwnStash, AtHand, Passing
<1>2. TypeOK'
  BY DEF TypeOK, FreeOwnStash, past
<1>3. Files' /\ Writing' /\ AtHand' /\ AllDurable' /\ Passing'
  BY <1>1 DEF FreeOwnStash, past, Files, Registered, Writing, AtHand, AllDurable,
              Passing, Cmd, TypeOK, Patches
<1>4. NoneLost'
  BY LostKept DEF FreeOwnStash
<1>5. Keeps
  BY SameKeeps DEF FreeOwnStash, past
<1>6. Progress' /\ Clean'
  <2>1. Behind' = Behind /\ Ahead' \subseteq Ahead
    BY <1>1, Places DEF Behind, Ahead, FreeOwnStash
  <2> QED
    BY <1>5, <2>1, ProgressKept, CleanKept DEF FreeOwnStash
<1>7. Met'
  BY <1>1, MetKept DEF FreeOwnStash
<1>8. ResumePointIsTrue'
  BY <1>5, ResumeSame DEF FreeOwnStash
<1> QED
  BY <1>2, <1>3, <1>4, <1>6, <1>7, <1>8

\* When the command at hand is registered, all that is behind it is done.
LEMMA Registering ==
  ASSUME IInv, pc = "register", retryFile' \in {Cmd, NoCmd, Cut, retryFile},
         \A j \in DOMAIN Commands : Commands[j].type # "new" => Kept(j)
  PROVE  ResumePointIsTrue'
<1> USE DEF IInv
<1>1. n \in DOMAIN Commands /\ n \in Nat /\ retryCmd = NoCmd
  BY Places DEF AtHand, Passing
<1>2. CASE retryFile' = retryFile
  BY <1>2, ResumeKept
<1>3. CASE retryFile' \in {NoCmd, Cut}
  BY <1>3, CommandAt DEF ResumePointIsTrue, Registered
<1>4. CASE retryFile' = Cmd
  <2> SUFFICES ASSUME NEW j \in DOMAIN Commands, PassedOver(j)',
                      Commands[j].type # "new", NEW b \in Commands[j].tgt
               PROVE  Holds(j, b)'
    BY DEF ResumePointIsTrue
  <2>1. j <= n
    BY <1>1, <1>4, Places DEF PassedOver, Cmd
  <2>2. j \in Behind
    BY <1>1, <2>1, Places DEF Behind
  <2>3. Holds(j, b)
    BY <1>1, <2>2, CommandAt DEF Progress, Done
  <2> QED
    BY <2>3 DEF Kept
<1> QED
  BY <1>2, <1>3, <1>4

\* A command that was executed is registered, or was not to be.
LEMMA RegisterStep == ASSUME IInv, RegisterForRetry PROVE IInv'
<1> USE DEF IInv
<1>1. n \in DOMAIN Commands /\ n \in Nat /\ retryCmd = NoCmd /\ Cmd.type # "new"
  BY Places DEF RegisterForRetry, AtHand, Passing
<1>2. retryFile' \in {Cmd, NoCmd, Cut, retryFile}
  BY DEF RegisterForRetry
<1>3. TypeOK'
  BY <1>1, <1>2, CommandAt, Places DEF TypeOK, RegisterForRetry, past, Cmd
<1>4. Writing' /\ AtHand' /\ AllDurable' /\ Passing'
  BY <1>1 DEF RegisterForRetry, Writing, AtHand, AllDurable, Passing
<1>5. Files'
  BY <1>1, <1>2 DEF RegisterForRetry, past, Files, Registered, Cmd
<1>6. NoneLost'
  BY LostKept DEF RegisterForRetry
<1>7. Keeps
  BY SameKeeps DEF RegisterForRetry, past
<1>8. Progress' /\ Clean'
  <2>1. Behind' \subseteq Behind /\ Ahead' \subseteq Ahead
    BY <1>1, Places DEF Behind, Ahead, RegisterForRetry
  <2> QED
    BY <1>7, <2>1, ProgressKept, CleanKept DEF RegisterForRetry
<1>9. Met'
  <2>1. CASE retryFile' = retryFile
    BY <1>1, <2>1, MetKept DEF RegisterForRetry
  <2>2. CASE retryFile' \in {NoCmd, Cut}
    BY <2>2, CommandAt DEF Met, Registered
  <2>3. CASE retryFile' = Cmd
    <3>1. n' = n + 1 /\ n \in 1..(n + 1 - 1)
      BY <1>1, Places DEF RegisterForRetry
    <3> QED
      BY <2>3, <3>1 DEF Met, PassedOver, Cmd
  <2> QED
    BY <1>2, <2>1, <2>2, <2>3
<1>10. ResumePointIsTrue'
  BY <1>2, <1>7, Registering DEF RegisterForRetry, Keeps
<1> QED
  BY <1>3, <1>4, <1>5, <1>6, <1>8, <1>9, <1>10

\* At the end the stash files are removed and the partition is synced.
LEMMA EndStep == ASSUME IInv, DoFreeSpace \/ SyncWriteDevPath PROVE IInv'
<1> USE DEF IInv
<1>1. /\ n > Len(Commands) /\ n \in Nat /\ n \notin DOMAIN Commands
      /\ pc \in {"run", "sync"} /\ pc' \in {"sync", "done"}
      /\ UNCHANGED <<memory, block, retryFile, past>>
      /\ durable' = durable \/ durable' = block
      /\ pc' = "done" => durable' = block
  BY Places DEF DoFreeSpace, SyncWriteDevPath, AtHand, TypeOK
<1>2. TypeOK'
  BY DEF TypeOK, DoFreeSpace, SyncWriteDevPath, memory, past
<1>3. Writing' /\ AtHand' /\ AllDurable' /\ Passing'
  BY <1>1 DEF memory, Writing, AtHand, AllDurable, Passing
<1>4. Files'
  BY <1>1 DEF DoFreeSpace, SyncWriteDevPath, memory, past, Files, Registered
<1>5. NoneLost'
  BY <1>1, LostKept
<1>6. Keeps
  <2> SUFFICES ASSUME NEW j \in DOMAIN Commands, NEW b \in Commands[j].tgt, Holds(j, b)
               PROVE  Holds(j, b)'
    BY DEF Keeps, Kept
  <2> QED
    BY <1>1 DEF NoneLost, Spoiled, Holds, past
<1>7. Progress'
  <2>1. Behind' \subseteq Behind
    BY <1>1, Places DEF Behind, memory
  <2> QED
    BY <1>1, <1>6, <2>1, ProgressKept DEF memory
<1>8. Clean'
  <2>1. Ahead' = {}
    BY <1>1, Places DEF Ahead, memory
  <2> QED
    BY <2>1 DEF Clean
<1>9. Met'
  <2>1. CASE retryCmd = NoCmd
    BY <1>1, <2>1, MetKept DEF memory
  <2>2. CASE retryCmd # NoCmd
    BY <1>1, <2>2 DEF Met, memory
  <2> QED
    BY <2>1, <2>2
<1>10. ResumePointIsTrue'
  BY <1>1, <1>6, ResumeSame
<1> QED
  BY <1>2, <1>3, <1>4, <1>5, <1>7, <1>8, <1>9, <1>10

\* A stop takes back blocks of ZERO, and of the patch it interrupts.
LEMMA StopStep == ASSUME IInv, Stop PROVE IInv'
<1> USE DEF IInv
<1>1. /\ pc' = "off" /\ block' = durable' /\ durable' \in [Blocks -> {"old", "new", "bad"}]
      /\ \A b \in Blocks : \/ durable'[b] = block[b]
                           \/ durable[b] # block[b] /\ durable'[b] \in {durable[b], "bad"}
      /\ lost' = lost \cup {b \in Zeroed : durable'[b] # block[b]}
      /\ retryFile' = retryFile \/ (pc = "register" /\ retryFile' \in {NoCmd, Cut, Cmd})
      /\ UNCHANGED memory
  BY DEF Stop
<1>2. \/ stash' = stash /\ cut' = cut
      \/ /\ pc = "stashing"
         /\ \E v \in {"none", "short", "odd"} :
              /\ stash' = [stash EXCEPT ![Cmd.hash] = v]
              /\ cut' = IF v = "short" THEN cut \cup {Cmd.hash} ELSE cut
  BY DEF Stop
<1>3. pc \in {"stashing", "register"} =>
        n \in DOMAIN Commands /\ Cmd \in Command /\ Cmd.hash \in Hashes
  BY CommandAt DEF AtHand, Cmd
<1>4. stops' \in 1..MaxStops
  BY CommandsAssumption DEF Stop, TypeOK
<1>5. TypeOK'
  <2>1. stash' \in [Hashes -> {"none", "part", "short", "odd", "whole"}]
    BY <1>2, <1>3 DEF TypeOK
  <2>2. cut' \subseteq Hashes
    BY <1>2, <1>3 DEF TypeOK
  <2>3. retryFile' \in Command \cup {NoCmd, Cut}
    BY <1>1, <1>3 DEF TypeOK
  <2>4. lost' \subseteq Blocks
    BY <1>1, CommandAt DEF Zeroed, TypeOK
  <2>5. n' = n /\ retryCmd' = retryCmd /\ freeStash' = freeStash
    BY <1>1 DEF memory
  <2> QED
    BY <1>1, <1>4, <2>1, <2>2, <2>3, <2>4, <2>5 DEF TypeOK
<1>6. NoneLost' /\ Clean' /\ Writing' /\ AtHand' /\ AllDurable' /\ Passing' /\ Met'
  BY <1>1 DEF NoneLost, Clean, Writing, AtHand, AllDurable, Passing, Met
<1>7. Files'
  <2>1. \A h \in Hashes : stash'[h] = "short" => h \in cut'
    BY <1>2, <1>3 DEF Files, TypeOK
  <2>2. retryFile' \notin {NoCmd, Cut} => Registered' /\ retryFile'.type # "new"
    BY <1>1, <1>3 DEF Files, Registered, AtHand, Cmd
  <2> QED
    BY <1>1, <1>4, <2>1, <2>2 DEF Files
<1>8. ASSUME NEW j \in DOMAIN Commands, Commands[j].type # "new",
             pc # "writing" \/ j # n \/ ~(Registered /\ PassedOver(j))
      PROVE  (Registered /\ PassedOver(j)) \/ pc = "register" => Kept(j)
  <2> SUFFICES ASSUME (Registered /\ PassedOver(j)) \/ pc = "register",
                      NEW b \in Commands[j].tgt, Holds(j, b)
               PROVE  Holds(j, b)'
    BY DEF Kept
  <2>1. b \in Blocks /\ cut \subseteq cut'
    BY <1>2, CommandAt
  <2>2. CASE Commands[j].type = "zero"
    BY <1>1, <2>1, <2>2 DEF Holds, Zeroed
  <2>3. CASE Commands[j].type # "zero"
    <3>1. durable[b] = "new" => block[b] = "new"
      BY <1>8 DEF NoneLost, Spoiled, Stop
    <3> QED
      BY <1>1, <1>8, <2>1, <2>3, <3>1 DEF Holds
  <2> QED
    BY <2>2, <2>3
<1>9. Progress'
  BY <1>1 DEF Progress, Behind
<1>10. ResumePointIsTrue'
  <2>1. pc = "writing" => retryCmd = NoCmd
    BY DEF Passing
  <2>2. pc = "writing" /\ Registered => ~PassedOver(n)
    BY <2>1 DEF Met
  <2>3. CASE pc = "register"
    BY <1>1, <1>8, <2>3, Registering
  <2>4. CASE pc # "register"
    BY <1>1, <1>8, <2>2, <2>4, ResumeKept
  <2> QED
    BY <2>3, <2>4
<1> QED
  BY <1>5, <1>6, <1>7, <1>9, <1>10

-----------------------------------------------------------------------------
\* Every step keeps the invariant.
LEMMA StepInv == ASSUME IInv, [Next]_vars PROVE IInv'
<1>1. CASE Stop
  BY <1>1, StopStep
<1>2. CASE Over \/ UNCHANGED vars
  BY <1>2 DEF Over, vars, memory, disk, past, IInv, TypeOK, Files, Registered, NoneLost,
              Spoiled, Progress, Done, Holds, Behind, Clean, Ahead, Writing, TargetIsNew,
              Passing, Met, AtHand, AllDurable, ResumePointIsTrue, PassedOver, Cmd
<1>3. CASE Update
  BY <1>3, StartStep, PassStep, NewStep, ZeroStep, ReadyStep, BeginStashStep,
     StashWrittenStep, BeginWriteStep, FinishWriteStep, FreeOwnStep, RegisterStep, EndStep
  DEF Update
<1> QED
  BY <1>1, <1>2, <1>3 DEF Next

\* The inductive invariant holds in every reachable state, whatever the stops do.
THEOREM IInvHolds == Spec => []IInv
<1>1. Init => IInv
  BY InitInv
<1>2. IInv /\ [Next]_vars => IInv'
  BY StepInv
<1> QED
  BY <1>1, <1>2, PTL DEF Spec

\* What transfer_manager.cpp passes over on a retry is done, and but for a ZERO
\* no stop takes it back, for every transfer list and any number of stops.
THEOREM ResumePointsAreTrue == Spec => []ResumePointIsTrue
<1>1. IInv => ResumePointIsTrue
  BY DEF IInv
<1> QED
  BY <1>1, IInvHolds, PTL

\* An update that ends in success has put every block in place, for good, but for
\* a ZERO taken back, a MOVE from a stash that was cut and a cut "_retry" file.
THEOREM DoneIsWhole == Spec => []DoneIsComplete
<1>1. ASSUME IInv PROVE DoneIsComplete
  <2> SUFFICES ASSUME pc = "done", NEW j \in DOMAIN Commands, NEW b \in Commands[j].tgt
               PROVE  \/ durable[b] = "new"
                      \/ Commands[j].type = "zero" /\ b \in lost
                      \/ Commands[j].type = "move" /\ Commands[j].hash \in cut
                      \/ Commands[j].type # "new" /\ retryCmd = Cut
    BY DEF DoneIsComplete
  <2>1. j < n /\ durable = block
    BY <1>1, Places DEF IInv, AtHand, AllDurable, TypeOK
  <2>2. j \in Behind
    BY <2>1 DEF Behind
  <2> QED
    BY <1>1, <2>1, <2>2 DEF IInv, Progress, Done, Holds
<1> QED
  BY <1>1, IInvHolds, PTL

\* A block that holds what the update puts there for good is never lost again to
\* a retry or a stop, unless it is the target of a patch whose stash was cut.
THEOREM NeverGoesBack == Spec => NoGoingBack
<1>1. ASSUME IInv, [Next]_vars, NEW i \in DOMAIN Commands,
             Commands[i].type \in Patches => stash[Commands[i].hash] # "short",
             NEW b \in Commands[i].tgt, durable[b] = "new"
      PROVE  durable'[b] = "new"
  <2>1. b \in Blocks
    BY CommandAt
  <2>2. block[b] = "new"
    <3>1. ~Spoiled(i) \/ Commands[i].type \notin Patches
      BY <1>1 DEF Spoiled
    <3> QED
      BY <1>1, <3>1, CommandAt DEF IInv, NoneLost, Spoiled, AtHand, Cmd
  <2>3. CASE Stop
    BY <2>1, <2>2, <2>3, <1>1 DEF Stop
  <2>4. CASE ~Stop
    <3>1. durable' = durable \/ durable' = block
      BY <1>1, <2>4 DEF Next, Update, Over, vars, disk, Start, Pass, NewCommand, ZeroCommand,
         FreeCommand, StashSkipped, StashCommand, AlreadyNew, LoadFails, StashSource,
         StashWritten, BeginWrite, WriteFails, FinishWrite, FreeOwnStash,
         RegisterForRetry, DoFreeSpace, SyncWriteDevPath
    <3> QED
      BY <1>1, <2>2, <3>1
  <2> QED
    BY <2>3, <2>4
<1>2. IInv /\ [Next]_vars =>
        [\A i \in DOMAIN Commands :
           (Commands[i].type \in Patches => stash[Commands[i].hash] # "short") =>
             \A b \in Commands[i].tgt : durable[b] = "new" => durable'[b] = "new"]_vars
  BY <1>1
<1> QED
  BY <1>2, IInvHolds, PTL DEF Spec, NoGoingBack
=============================================================================
