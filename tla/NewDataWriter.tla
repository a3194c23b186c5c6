--------------------------- MODULE NewDataWriter ---------------------------
(***************************************************************************)
(* The two threads of a block update.  The main thread executes the         *)
(* transfer list; a NEW command only posts a writer for its blocks and      *)
(* waits.  The writer thread extracts the new data, a stream for all the    *)
(* NEW commands together, and writes each chunk with the writers it finds.  *)
(* They share a mutex and one condition variable; every step here is what   *)
(* a thread does with the mutex held, or between two such sections.         *)
(***************************************************************************)
EXTENDS Naturals, Sequences, SequencesExt

CONSTANTS
  Cmds,      \* the commands: the pieces a NEW command writes, 0 for another
  DataSize,  \* the pieces of new data in the package
  MaxChunk   \* the most pieces that come in one chunk

\* The list and the data come from two files: they need not fit.
ASSUME CmdsAssumption ==
  /\ Cmds \in Seq(Nat) /\ DataSize \in Nat /\ MaxChunk \in Nat \ {0}

VARIABLES
  mainPc,        \* the main thread: at a command, waiting, woken, ...
  n,             \* the command it is at
  threadPc,      \* the writer thread
  size,          \* pieces of the chunk that are not written yet
  toWrite,       \* pieces it is about to write
  writer,        \* the command whose writer is posted, or 0 for nullptr
  readyToWrite,
  target         \* the pieces each command wrote, in order

mine   == <<mainPc, n>>
his    == <<threadPc, size, toWrite>>
shared == <<writer, readyToWrite, target>>
vars   == <<mine, his, shared>>

Commands == DOMAIN Cmds

TypeOK ==
  /\ mainPc \in {"command", "wait", "woken", "giveUp", "join", "done", "abandoned"}
  /\ n \in 1..(Len(Cmds) + 1)
  /\ threadPc \in {"extract", "check", "wait", "compute", "write", "reset", "finish", "ended"}
  /\ size \in 0..MaxChunk /\ toWrite \in 0..MaxChunk
  /\ writer \in 0..Len(Cmds)
  /\ readyToWrite \in BOOLEAN
  /\ target \in [Commands -> Seq(1..DataSize)]

Written    == Len(FlattenSeq(target))     \* pieces of the stream that are written
Left(c)    == Cmds[c] - Len(target[c])    \* GetBlocksSize() - GetTotalWritten()
WakeThread == threadPc' = IF threadPc = "wait" THEN "check" ELSE threadPc
WakeMain   == mainPc' = IF mainPc = "wait" THEN "woken" ELSE mainPc

Init ==
  /\ mainPc = "command" /\ n = 1
  /\ threadPc = "extract" /\ size = 0 /\ toWrite = 0
  /\ writer = 0 /\ readyToWrite = TRUE
  /\ target = [c \in Commands |-> <<>>]

-----------------------------------------------------------------------------
(***************************************************************************)
(* The main thread.                                                        *)
(***************************************************************************)
OtherCommand ==
  /\ mainPc = "command" /\ n <= Len(Cmds) /\ Cmds[n] = 0
  /\ n' = n + 1
  /\ UNCHANGED <<mainPc, his, shared>>

\* ExecuteTransferCommand returns at once, and the writer thread is not joined.
OtherCommandFails ==
  /\ mainPc = "command" /\ n <= Len(Cmds) /\ Cmds[n] = 0
  /\ mainPc' = "abandoned"
  /\ UNCHANGED <<n, his, shared>>

\* The writer is posted, and the thread told, before the first look at
\* readyToWrite.
PostWriter ==
  /\ mainPc = "command" /\ n <= Len(Cmds) /\ Cmds[n] > 0
  /\ writer' = n
  /\ WakeThread
  /\ mainPc' = IF readyToWrite THEN "wait" ELSE "giveUp"
  /\ UNCHANGED <<n, size, toWrite, readyToWrite, target>>

\* As if the loop around the wait were an if.
WaitOnce ==
  /\ mainPc = "woken"
  /\ mainPc' = "command" /\ n' = n + 1
  /\ UNCHANGED <<his, shared>>

\* As if every wakeup meant that the thread is gone or the writer done.
GiveUpOnWake ==
  /\ mainPc = "woken"
  /\ IF writer = 0 THEN mainPc' = "command" /\ n' = n + 1
     ELSE mainPc' = "giveUp" /\ n' = n
  /\ UNCHANGED <<his, shared>>

WaitForWriter ==
  /\ mainPc = "woken"
  /\ IF writer = 0 THEN mainPc' = "command" /\ n' = n + 1
     ELSE mainPc' = (IF readyToWrite THEN "wait" ELSE "giveUp") /\ n' = n
  /\ UNCHANGED <<his, shared>>

\* The mutex is unlocked before the writer is reset.
GiveUp ==
  /\ mainPc = "giveUp"
  /\ writer' = 0
  /\ mainPc' = "abandoned"
  /\ UNCHANGED <<n, his, readyToWrite, target>>

\* As if JoinThread did not broadcast.
JoinSilently ==
  /\ mainPc = "command" /\ n > Len(Cmds)
  /\ readyToWrite' = FALSE
  /\ mainPc' = "join"
  /\ UNCHANGED <<n, his, writer, target>>

JoinThread ==
  /\ mainPc = "command" /\ n > Len(Cmds)
  /\ readyToWrite' = FALSE
  /\ WakeThread
  /\ mainPc' = "join"
  /\ UNCHANGED <<n, size, toWrite, writer, target>>

Joined ==
  /\ mainPc = "join" /\ threadPc = "ended"
  /\ mainPc' = "done"
  /\ UNCHANGED <<n, his, shared>>

-----------------------------------------------------------------------------
(***************************************************************************)
(* The writer thread: UnpackNewData, which calls ExtractNewData for every   *)
(* chunk.                                                                  *)
(***************************************************************************)
NextChunk ==
  /\ threadPc = "extract"
  /\ \E k \in 1..MaxChunk : Written + k <= DataSize /\ size' = k
  /\ threadPc' = "check"
  /\ UNCHANGED <<mine, toWrite, shared>>

\* The end of the data, or an error of the package.
ExtractEnds ==
  /\ threadPc = "extract"
  /\ threadPc' = "finish"
  /\ UNCHANGED <<mine, size, toWrite, shared>>

CheckWriter ==
  /\ threadPc = "check"
  /\ threadPc' = IF writer # 0 THEN "compute"
                 ELSE IF readyToWrite THEN "wait" ELSE "finish"
  /\ UNCHANGED <<mine, size, toWrite, shared>>

\* The writer is used without the mutex from here on.
ComputeToWrite ==
  /\ threadPc = "compute" /\ writer # 0
  /\ toWrite' = IF size < Left(writer) THEN size ELSE Left(writer)
  /\ threadPc' = IF toWrite' = 0 THEN "extract" ELSE "write"
  /\ UNCHANGED <<mine, size, shared>>

Rest(k) == IF k > 0 THEN "check" ELSE "extract"

Write ==
  /\ threadPc = "write" /\ writer # 0
  /\ target' = [target EXCEPT ![writer] = @ \o [i \in 1..toWrite |-> Written + i]]
  /\ size' = size - toWrite
  /\ threadPc' = IF toWrite = Left(writer) THEN "reset" ELSE Rest(size')
  /\ UNCHANGED <<mine, toWrite, writer, readyToWrite>>

WriteFails ==
  /\ threadPc = "write" /\ writer # 0
  /\ threadPc' = "finish"
  /\ UNCHANGED <<mine, size, toWrite, shared>>

ResetWriter ==
  /\ threadPc = "reset"
  /\ writer' = 0
  /\ WakeMain
  /\ threadPc' = Rest(size)
  /\ UNCHANGED <<n, size, toWrite, readyToWrite, target>>

CondBroadcast ==
  /\ threadPc = "finish"
  /\ readyToWrite' = FALSE
  /\ IF writer # 0 THEN WakeMain ELSE mainPc' = mainPc
  /\ threadPc' = "ended"
  /\ UNCHANGED <<n, size, toWrite, writer, target>>

-----------------------------------------------------------------------------
SpuriousWakeup ==
  \/ mainPc = "wait" /\ mainPc' = "woken" /\ UNCHANGED <<n, his, shared>>
  \/ threadPc = "wait" /\ threadPc' = "check" /\ UNCHANGED <<mine, size, toWrite, shared>>

\* The process reports the failure and exits; what the thread does until then
\* is not modelled, for the memory it uses is freed.
Over == mainPc \in {"done", "abandoned"} /\ UNCHANGED vars

Main == OtherCommand \/ OtherCommandFails \/ PostWriter \/ WaitForWriter \/ GiveUp
        \/ JoinThread \/ Joined

Thread == /\ mainPc # "abandoned"
          /\ \/ NextChunk \/ ExtractEnds \/ CheckWriter \/ ComputeToWrite \/ Write
             \/ WriteFails \/ ResetWriter \/ CondBroadcast

Next == Main \/ Thread \/ (mainPc # "abandoned" /\ SpuriousWakeup) \/ Over

Spec == Init /\ [][Next]_vars

\* The scheduler runs a thread that can run.
FairSpec == Spec /\ WF_vars(Main) /\ WF_vars(Thread)

-----------------------------------------------------------------------------
PastIsComplete == \A c \in 1..(n - 1) : Len(target[c]) = Cmds[c]

\* The stream is cut into the commands in order, nothing twice, nothing left
\* out, and the main thread goes past a NEW command only when it is complete.
DeliversInOrder ==
  /\ FlattenSeq(target) = [i \in 1..Written |-> i]
  /\ PastIsComplete

\* The thread uses the writer without the mutex: it is there, it is that of
\* the command the main thread waits at, and is not taken away meanwhile.
WriterIsHeld ==
  threadPc \in {"compute", "write", "reset"} =>
    writer = n /\ mainPc \in {"wait", "woken"}

\* Whatever fails, and however much data there is, the update does not hang.
Ends == <>(mainPc \in {"done", "abandoned"})
=============================================================================
