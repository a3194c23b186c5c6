----------------------------- MODULE RingBuffer -----------------------------
(***************************************************************************)
(* The ring buffer through which one thread that extracts a package hands   *)
(* blocks of it to one thread that installs them.                          *)
(*                                                                         *)
(* The threads are "push" and "pop".  Each either calls its operation or,   *)
(* when it gives up or its call returned FALSE, calls Stop and leaves.  The *)
(* places in a call are the points between two critical sections:          *)
(*   check    IsFull (IsEmpty) before notifyMtx_ is taken                  *)
(*   lock     notifyMtx_ is to be taken, at first or after a wait          *)
(*   loop     IsFull (IsEmpty) with notifyMtx_ held                        *)
(*   decide   isStop_ with notifyMtx_ held                                 *)
(*   wait     in the wait of notFull_ (notEmpty_)                          *)
(*   move     the item is to be copied in or out                           *)
(*   notify   the other thread is to be notified                           *)
(*   refused  the call returned FALSE                                      *)
(*   stop1    StopPush is to be called, stop2: StopPop, ended: both are    *)
(* What is done with arrayMtx_ held is one step; notifyMtx_, which is held  *)
(* from step to step, is a variable.                                       *)
(***************************************************************************)
EXTENDS Naturals, Sequences

CONSTANTS Data,   \* the blocks, each with its length
          Num     \* num_, how many the buffer holds

\* Init accepts powers of two only, for which the masks are remainders and
\* the exclusive or below 2 * num_ adds or takes num_.
ASSUME NumAssumption == Num \in Nat \ {0}

Threads  == {"push", "pop"}
Other(t) == IF t = "push" THEN "pop" ELSE "push"
Waits    == {"lock", "loop", "decide", "wait"}
Places   == Waits \cup {"idle", "check", "move", "notify", "refused",
                        "stop1", "stop2", "ended"}

VARIABLES
  buf,         \* bufArray_ and lenArray_
  writeIndex,
  readIndex,   \* both below 2 * Num
  isStop,
  notifyMtx,   \* the thread that holds notifyMtx_, or "none"
  pc,          \* where each thread is
  item,        \* the block that Push was called with
  out          \* the block that Pop copied out last

indices == <<writeIndex, readIndex>>
vars    == <<buf, indices, isStop, notifyMtx, pc, item, out>>

TypeOK ==
  /\ buf \in [0..(Num - 1) -> Data]
  /\ writeIndex \in 0..(2 * Num - 1)
  /\ readIndex \in 0..(2 * Num - 1)
  /\ isStop \in BOOLEAN
  /\ notifyMtx \in Threads \cup {"none"}
  /\ pc \in [Threads -> Places]
  /\ item \in Data /\ out \in Data

Slot(i)      == IF i < Num THEN i ELSE i - Num
Flip(i)      == IF i < Num THEN i + Num ELSE i - Num
Increment(i) == IF i = 2 * Num - 1 THEN 0 ELSE i + 1

IsFull   == writeIndex = Flip(readIndex)
IsEmpty  == writeIndex = readIndex
Ready(t) == IF t = "push" THEN ~IsFull ELSE ~IsEmpty

Goto(t, place) == pc' = [pc EXCEPT ![t] = place]

\* Thread t goes on, and the threads of W that wait are woken.
GotoWaking(t, place, W) ==
  pc' = [u \in Threads |-> IF u = t THEN place
                           ELSE IF u \in W /\ pc[u] = "wait" THEN "lock" ELSE pc[u]]

Init ==
  /\ buf \in [0..(Num - 1) -> Data]
  /\ writeIndex = 0 /\ readIndex = 0
  /\ isStop = FALSE /\ notifyMtx = "none"
  /\ pc = [t \in Threads |-> "idle"]
  /\ item \in Data /\ out \in Data

Call(t) ==
  /\ pc[t] = "idle" /\ Goto(t, "check")
  /\ IF t = "push" THEN item' \in Data ELSE item' = item
  /\ UNCHANGED <<buf, indices, isStop, notifyMtx, out>>

Check(t) ==
  /\ pc[t] = "check"
  /\ Goto(t, IF Ready(t) THEN "move" ELSE "lock")
  /\ UNCHANGED <<buf, indices, isStop, notifyMtx, item, out>>

Lock(t) ==
  /\ pc[t] = "lock" /\ notifyMtx = "none"
  /\ notifyMtx' = t /\ Goto(t, "loop")
  /\ UNCHANGED <<buf, indices, isStop, item, out>>

Loop(t) ==
  /\ pc[t] = "loop"
  /\ IF Ready(t)
     THEN notifyMtx' = "none" /\ Goto(t, "move")
     ELSE notifyMtx' = notifyMtx /\ Goto(t, "decide")
  /\ UNCHANGED <<buf, indices, isStop, item, out>>

Decide(t) ==
  /\ pc[t] = "decide"
  /\ notifyMtx' = "none"
  /\ Goto(t, IF isStop THEN "refused" ELSE "wait")
  /\ UNCHANGED <<buf, indices, isStop, item, out>>

SpuriousWakeup(t) ==
  /\ pc[t] = "wait" /\ Goto(t, "lock")
  /\ UNCHANGED <<buf, indices, isStop, notifyMtx, item, out>>

\* As if the index were advanced before the block is copied.
CopyInLate ==
  /\ pc["push"] = "move"
  /\ writeIndex' = Increment(writeIndex)
  /\ buf' = [buf EXCEPT ![Slot(writeIndex')] = item]
  /\ Goto("push", "notify")
  /\ UNCHANGED <<readIndex, isStop, notifyMtx, item, out>>

CopyIn ==
  /\ pc["push"] = "move"
  /\ buf' = [buf EXCEPT ![Slot(writeIndex)] = item]
  /\ writeIndex' = Increment(writeIndex)
  /\ Goto("push", "notify")
  /\ UNCHANGED <<readIndex, isStop, notifyMtx, item, out>>

CopyOut ==
  /\ pc["pop"] = "move"
  /\ out' = buf[Slot(readIndex)]
  /\ readIndex' = Increment(readIndex)
  /\ Goto("pop", "notify")
  /\ UNCHANGED <<buf, writeIndex, isStop, notifyMtx, item>>

\* As if notify_all were called without notifyMtx_.
NotifyUnlocked(t) ==
  /\ pc[t] = "notify"
  /\ GotoWaking(t, "idle", {Other(t)})
  /\ UNCHANGED <<buf, indices, isStop, notifyMtx, item, out>>

\* Taken and left again in one step: nothing in between can wait.
Notify(t) ==
  /\ pc[t] = "notify" /\ notifyMtx = "none"
  /\ GotoWaking(t, "idle", {Other(t)})
  /\ UNCHANGED <<buf, indices, isStop, notifyMtx, item, out>>

\* The thread gives up, or must, for its call returned FALSE.
CallStop(t) ==
  /\ pc[t] \in {"idle", "refused"} /\ Goto(t, "stop1")
  /\ UNCHANGED <<buf, indices, isStop, notifyMtx, item, out>>

StopPush(t) ==
  /\ pc[t] = "stop1" /\ notifyMtx = "none"
  /\ isStop' = TRUE
  /\ GotoWaking(t, "stop2", {"push"})
  /\ UNCHANGED <<buf, indices, notifyMtx, item, out>>

\* As if only isStop_ were set.
StopPopSilent(t) ==
  /\ pc[t] = "stop2" /\ notifyMtx = "none"
  /\ isStop' = TRUE
  /\ Goto(t, "ended")
  /\ UNCHANGED <<buf, indices, notifyMtx, item, out>>

StopPop(t) ==
  /\ pc[t] = "stop2" /\ notifyMtx = "none"
  /\ isStop' = TRUE
  /\ GotoWaking(t, "ended", {"pop"})
  /\ UNCHANGED <<buf, indices, notifyMtx, item, out>>

Ended == /\ \A t \in Threads : pc[t] = "ended"
         /\ UNCHANGED vars

\* What a thread does once it is in a call.
Step(t) == \/ Check(t) \/ Lock(t) \/ Loop(t) \/ Decide(t) \/ Notify(t)
           \/ StopPush(t) \/ StopPop(t)
           \/ pc[t] = "refused" /\ CallStop(t)
           \/ t = "push" /\ CopyIn
           \/ t = "pop" /\ CopyOut

Next == \/ \E t \in Threads : Step(t) \/ Call(t) \/ CallStop(t) \/ SpuriousWakeup(t)
        \/ Ended

Spec == Init /\ [][Next]_vars

\* The scheduler runs a thread that can run, and does not let the other one
\* have notifyMtx_ each time that both want it.
TakesMutex(t) == Lock(t) \/ Notify(t) \/ StopPush(t) \/ StopPop(t)

FairSpec == Spec /\ \A t \in Threads : WF_vars(Step(t)) /\ SF_vars(TakesMutex(t))

-----------------------------------------------------------------------------
\* The number of blocks in the buffer, and the blocks, oldest first.
Count   == IF writeIndex >= readIndex THEN writeIndex - readIndex
                                      ELSE writeIndex + 2 * Num - readIndex
Ith(i)  == LET j == readIndex + i - 1 IN IF j < 2 * Num THEN j ELSE j - 2 * Num
Content == [i \in 1..Count |-> buf[Slot(Ith(i))]]

\* The buffer hands over every block that was pushed, once and in order, and
\* never more than Num at a time, whatever the threads interleave.
Fifo == INSTANCE BoundedFifo WITH q <- Content, closed <- isStop
IsFifo == Fifo!Spec

\* A thread that copies has room for its block, or a block, although it found
\* that out in an earlier step.
MovesSafely ==
  /\ pc["push"] = "move" => Count < Num
  /\ pc["pop"] = "move" => Count > 0

\* No wakeup is lost: a thread that waits has reason to, or the other one is
\* still going to notify it.
NoLostWakeup ==
  \A t \in Threads : pc[t] = "wait" =>
    \/ ~Ready(t) /\ ~isStop
    \/ pc[Other(t)] \in {"notify", "stop2"}

\* Stop takes nothing away: when the producer stops, Pop returns FALSE only
\* after everything that was pushed was popped.
RefusedIsEmpty == pc["pop"] = "refused" => IsEmpty

\* A thread that waits goes on once there is something for it, or a stop.
WaitEnds ==
  \A t \in Threads : pc[t] \in Waits /\ (Ready(t) \/ isStop) ~> pc[t] \notin Waits

-----------------------------------------------------------------------------
(***************************************************************************)
(* The inductive invariant.                                                *)
(***************************************************************************)
\* notifyMtx_ is held by the thread that is at a place where it is held.
MutexHeld ==
  \A t \in Threads : notifyMtx = t <=> pc[t] \in {"loop", "decide"}

\* A thread that is going to wait had no reason not to, unless the other one
\* gave it one since and is still going to notify it.
SleepsForReason ==
  \A t \in Threads : pc[t] \in {"decide", "wait"} =>
    ~Ready(t) \/ pc[Other(t)] = "notify"

\* A stop wakes the producer before the consumer.
StopWakes ==
  /\ pc["push"] = "wait" => ~isStop
  /\ pc["pop"] = "wait" /\ isStop => pc["push"] = "stop2"

StopHasCaller == isStop <=> \E t \in Threads : pc[t] \in {"stop2", "ended"}

DecidesOnEmpty ==
  /\ pc["pop"] = "refused" => isStop
  /\ pc["pop"] \in {"decide", "refused"} /\ isStop => IsEmpty

\* What the code's reasoning rests on: all of the above, step after step.
IInv == /\ TypeOK /\ Count <= Num /\ MovesSafely /\ MutexHeld
        /\ SleepsForReason /\ StopWakes /\ StopHasCaller /\ DecidesOnEmpty
=============================================================================
