-------------------------- MODULE RingBufferProofs --------------------------
(***************************************************************************)
(* RingBuffer, for every Num: its inductive invariant, and that it          *)
(* implements BoundedFifo.                                                 *)
(***************************************************************************)
EXTENDS RingBuffer, SequenceTheorems, TLAPS

LEMMA InitIInv == Init => IInv
<1> SUFFICES ASSUME Init PROVE IInv
    OBVIOUS
<1> USE NumAssumption DEF Init, Threads
<1>1. TypeOK
  <2>1. /\ writeIndex \in 0..(2 * Num - 1) /\ readIndex \in 0..(2 * Num - 1)
        /\ buf \in [0..(Num - 1) -> Data] /\ item \in Data /\ out \in Data
    OBVIOUS
  <2>2. isStop \in BOOLEAN /\ notifyMtx \in Threads \cup {"none"}
    OBVIOUS
  <2>3. pc \in [Threads -> Places]
    BY DEF Places
  <2> QED
    BY <2>1, <2>2, <2>3 DEF TypeOK
<1>2. pc["push"] = "idle" /\ pc["pop"] = "idle" /\ Count = 0
  BY DEF Count
<1>3. Count <= Num /\ MovesSafely
  BY <1>2 DEF MovesSafely
<1>4. MutexHeld /\ SleepsForReason
  BY <1>2 DEF MutexHeld, SleepsForReason
<1>5. StopWakes /\ StopHasCaller /\ DecidesOnEmpty
  BY <1>2 DEF StopWakes, StopHasCaller, DecidesOnEmpty
<1> QED
  BY <1>1, <1>3, <1>4, <1>5 DEF IInv

LEMMA StepTypeOK == TypeOK /\ [Next]_vars => TypeOK'
<1> SUFFICES ASSUME TypeOK, [Next]_vars PROVE TypeOK'
    OBVIOUS
<1> USE NumAssumption DEF TypeOK, Threads, Places, Waits, Goto, GotoWaking, indices
<1>1. ASSUME NEW t \in Threads, Call(t) PROVE TypeOK'
  BY <1>1 DEF Call
<1>2. ASSUME NEW t \in Threads, Check(t) PROVE TypeOK'
  BY <1>2 DEF Check
<1>3. ASSUME NEW t \in Threads, Lock(t) PROVE TypeOK'
  BY <1>3 DEF Lock
<1>4. ASSUME NEW t \in Threads, Loop(t) PROVE TypeOK'
  BY <1>4 DEF Loop
<1>5. ASSUME NEW t \in Threads, Decide(t) PROVE TypeOK'
  BY <1>5 DEF Decide
<1>6. ASSUME NEW t \in Threads, SpuriousWakeup(t) PROVE TypeOK'
  BY <1>6 DEF SpuriousWakeup
<1>7. CASE CopyIn
  BY <1>7 DEF CopyIn, Slot, Increment
<1>8. CASE CopyOut
  BY <1>8 DEF CopyOut, Slot, Increment
<1>9. ASSUME NEW t \in Threads, Notify(t) PROVE TypeOK'
  BY <1>9 DEF Notify
<1>10. ASSUME NEW t \in Threads, CallStop(t) PROVE TypeOK'
  BY <1>10 DEF CallStop
<1>11. ASSUME NEW t \in Threads, StopPush(t) PROVE TypeOK'
  BY <1>11 DEF StopPush
<1>12. ASSUME NEW t \in Threads, StopPop(t) PROVE TypeOK'
  BY <1>12 DEF StopPop
<1>13. CASE Ended \/ UNCHANGED vars
  BY <1>13 DEF Ended, vars
<1> QED
  BY <1>1, <1>2, <1>3, <1>4, <1>5, <1>6, <1>7, <1>8, <1>9, <1>10, <1>11, <1>12, <1>13
  DEF Next, Step

LEMMA Indices ==
  ASSUME TypeOK
  PROVE  /\ IsFull <=> Count = Num
         /\ IsEmpty <=> Count = 0
         /\ Count \in 0..(2 * Num - 1)
BY NumAssumption DEF TypeOK, IsFull, IsEmpty, Count, Flip

LEMMA StepCount ==
  ASSUME TypeOK, Count <= Num, MovesSafely
  PROVE  /\ CopyIn => Count' = Count + 1
         /\ CopyOut => Count' = Count - 1
         /\ UNCHANGED indices => Count' = Count
<1> USE NumAssumption DEF TypeOK
<1>1. CopyIn => Count' = Count + 1
  BY DEF CopyIn, Count, Increment, MovesSafely
<1>2. CopyOut => Count' = Count - 1
  BY DEF CopyOut, Count, Increment, MovesSafely
<1>3. UNCHANGED indices => Count' = Count
  BY DEF Count, indices
<1> QED
  BY <1>1, <1>2, <1>3

LEMMA StepMutexHeld == IInv /\ [Next]_vars => MutexHeld'
<1> SUFFICES ASSUME IInv, [Next]_vars PROVE MutexHeld'
    OBVIOUS
<1> USE DEF IInv, TypeOK, Threads, Places, Waits, Goto, GotoWaking, MutexHeld
<1>1. ASSUME NEW t \in Threads, Call(t) PROVE MutexHeld'
  BY <1>1 DEF Call
<1>2. ASSUME NEW t \in Threads, Check(t) PROVE MutexHeld'
  BY <1>2 DEF Check
<1>3. ASSUME NEW t \in Threads, Lock(t) PROVE MutexHeld'
  BY <1>3 DEF Lock
<1>4. ASSUME NEW t \in Threads, Loop(t) PROVE MutexHeld'
  BY <1>4 DEF Loop
<1>5. ASSUME NEW t \in Threads, Decide(t) PROVE MutexHeld'
  BY <1>5 DEF Decide
<1>6. ASSUME NEW t \in Threads, SpuriousWakeup(t) PROVE MutexHeld'
  BY <1>6 DEF SpuriousWakeup
<1>7. CASE CopyIn
  BY <1>7 DEF CopyIn
<1>8. CASE CopyOut
  BY <1>8 DEF CopyOut
<1>9. ASSUME NEW t \in Threads, Notify(t) PROVE MutexHeld'
  BY <1>9 DEF Notify
<1>10. ASSUME NEW t \in Threads, CallStop(t) PROVE MutexHeld'
  BY <1>10 DEF CallStop
<1>11. ASSUME NEW t \in Threads, StopPush(t) PROVE MutexHeld'
  BY <1>11 DEF StopPush
<1>12. ASSUME NEW t \in Threads, StopPop(t) PROVE MutexHeld'
  BY <1>12 DEF StopPop
<1>13. CASE Ended \/ UNCHANGED vars
  BY <1>13 DEF Ended, vars
<1> QED
  BY <1>1, <1>2, <1>3, <1>4, <1>5, <1>6, <1>7, <1>8, <1>9, <1>10, <1>11, <1>12, <1>13
  DEF Next, Step

LEMMA StepStopWakes == IInv /\ [Next]_vars => StopWakes'
<1> SUFFICES ASSUME IInv, [Next]_vars PROVE StopWakes'
    OBVIOUS
<1> USE DEF IInv, TypeOK, Threads, Places, Waits, Goto, GotoWaking, StopWakes, MutexHeld, StopHasCaller
<1>1. ASSUME NEW t \in Threads, Call(t) PROVE StopWakes'
  BY <1>1 DEF Call
<1>2. ASSUME NEW t \in Threads, Check(t) PROVE StopWakes'
  BY <1>2 DEF Check
<1>3. ASSUME NEW t \in Threads, Lock(t) PROVE StopWakes'
  BY <1>3 DEF Lock
<1>4. ASSUME NEW t \in Threads, Loop(t) PROVE StopWakes'
  BY <1>4 DEF Loop
<1>5. ASSUME NEW t \in Threads, Decide(t) PROVE StopWakes'
  BY <1>5 DEF Decide
<1>6. ASSUME NEW t \in Threads, SpuriousWakeup(t) PROVE StopWakes'
  BY <1>6 DEF SpuriousWakeup
<1>7. CASE CopyIn
  BY <1>7 DEF CopyIn
<1>8. CASE CopyOut
  BY <1>8 DEF CopyOut
<1>9. ASSUME NEW t \in Threads, Notify(t) PROVE StopWakes'
  BY <1>9 DEF Notify
<1>10. ASSUME NEW t \in Threads, CallStop(t) PROVE StopWakes'
  BY <1>10 DEF CallStop
<1>11. ASSUME NEW t \in Threads, StopPush(t) PROVE StopWakes'
  BY <1>11 DEF StopPush
<1>12. ASSUME NEW t \in Threads, StopPop(t) PROVE StopWakes'
  BY <1>12 DEF StopPop
<1>13. CASE Ended \/ UNCHANGED vars
  BY <1>13 DEF Ended, vars
<1> QED
  BY <1>1, <1>2, <1>3, <1>4, <1>5, <1>6, <1>7, <1>8, <1>9, <1>10, <1>11, <1>12, <1>13
  DEF Next, Step

LEMMA StepStopHasCaller == IInv /\ [Next]_vars => StopHasCaller'
<1> SUFFICES ASSUME IInv, [Next]_vars PROVE StopHasCaller'
    OBVIOUS
<1> USE DEF IInv, TypeOK, Threads, Places, Waits, Goto, GotoWaking, StopHasCaller
<1>1. ASSUME NEW t \in Threads, Call(t) PROVE StopHasCaller'
  BY <1>1 DEF Call
<1>2. ASSUME NEW t \in Threads, Check(t) PROVE StopHasCaller'
  BY <1>2 DEF Check
<1>3. ASSUME NEW t \in Threads, Lock(t) PROVE StopHasCaller'
  BY <1>3 DEF Lock
<1>4. ASSUME NEW t \in Threads, Loop(t) PROVE StopHasCaller'
  BY <1>4 DEF Loop
<1>5. ASSUME NEW t \in Threads, Decide(t) PROVE StopHasCaller'
  BY <1>5 DEF Decide
<1>6. ASSUME NEW t \in Threads, SpuriousWakeup(t) PROVE StopHasCaller'
  BY <1>6 DEF SpuriousWakeup
<1>7. CASE CopyIn
  BY <1>7 DEF CopyIn
<1>8. CASE CopyOut
  BY <1>8 DEF CopyOut
<1>9. ASSUME NEW t \in Threads, Notify(t) PROVE StopHasCaller'
  BY <1>9 DEF Notify
<1>10. ASSUME NEW t \in Threads, CallStop(t) PROVE StopHasCaller'
  BY <1>10 DEF CallStop
<1>11. ASSUME NEW t \in Threads, StopPush(t) PROVE StopHasCaller'
  BY <1>11 DEF StopPush
<1>12. ASSUME NEW t \in Threads, StopPop(t) PROVE StopHasCaller'
  BY <1>12 DEF StopPop
<1>13. CASE Ended \/ UNCHANGED vars
  BY <1>13 DEF Ended, vars
<1> QED
  BY <1>1, <1>2, <1>3, <1>4, <1>5, <1>6, <1>7, <1>8, <1>9, <1>10, <1>11, <1>12, <1>13
  DEF Next, Step

LEMMA StepMovesSafely == IInv /\ [Next]_vars => (Count <= Num /\ MovesSafely)'
<1> SUFFICES ASSUME IInv, [Next]_vars PROVE (Count <= Num /\ MovesSafely)'
    OBVIOUS
<1>a. /\ Count \in 0..Num /\ MovesSafely /\ pc \in [Threads -> Places]
      /\ Ready("push") => Count < Num
      /\ Ready("pop") => Count > 0
  <2>1. TypeOK /\ Count <= Num /\ MovesSafely
    BY DEF IInv
  <2>2. Count \in 0..Num /\ pc \in [Threads -> Places]
    BY <2>1, Indices, NumAssumption DEF TypeOK
  <2>3. Ready("push") => Count # Num
    BY <2>1, Indices DEF Ready
  <2>4. Ready("pop") => Count # 0
    BY <2>1, Indices DEF Ready
  <2> QED
    BY <2>1, <2>2, <2>3, <2>4, NumAssumption
<1>b. /\ CopyIn => Count' = Count + 1
      /\ CopyOut => Count' = Count - 1
      /\ UNCHANGED indices => Count' = Count
  BY StepCount DEF IInv
<1> USE <1>a, <1>b, NumAssumption DEF MovesSafely, Threads, Goto, GotoWaking
<1>1. ASSUME NEW t \in Threads, Call(t) PROVE (Count <= Num /\ MovesSafely)'
  BY <1>1 DEF Call
<1>2. ASSUME NEW t \in Threads, Check(t) PROVE (Count <= Num /\ MovesSafely)'
  BY <1>2 DEF Check
<1>3. ASSUME NEW t \in Threads, Lock(t) PROVE (Count <= Num /\ MovesSafely)'
  BY <1>3 DEF Lock
<1>4. ASSUME NEW t \in Threads, Loop(t) PROVE (Count <= Num /\ MovesSafely)'
  BY <1>4 DEF Loop
<1>5. ASSUME NEW t \in Threads, Decide(t) PROVE (Count <= Num /\ MovesSafely)'
  BY <1>5 DEF Decide
<1>6. ASSUME NEW t \in Threads, SpuriousWakeup(t) PROVE (Count <= Num /\ MovesSafely)'
  BY <1>6 DEF SpuriousWakeup
<1>7. CASE CopyIn
  BY <1>7 DEF CopyIn
<1>8. CASE CopyOut
  BY <1>8 DEF CopyOut
<1>9. ASSUME NEW t \in Threads, Notify(t) PROVE (Count <= Num /\ MovesSafely)'
  BY <1>9 DEF Notify
<1>10. ASSUME NEW t \in Threads, CallStop(t) PROVE (Count <= Num /\ MovesSafely)'
  BY <1>10 DEF CallStop
<1>11. ASSUME NEW t \in Threads, StopPush(t) PROVE (Count <= Num /\ MovesSafely)'
  BY <1>11 DEF StopPush
<1>12. ASSUME NEW t \in Threads, StopPop(t) PROVE (Count <= Num /\ MovesSafely)'
  BY <1>12 DEF StopPop
<1>13. CASE Ended \/ UNCHANGED vars
  BY <1>13 DEF Ended, vars
<1> QED
  BY <1>1, <1>2, <1>3, <1>4, <1>5, <1>6, <1>7, <1>8, <1>9, <1>10, <1>11, <1>12, <1>13
  DEF Next, Step

LEMMA StepSleepsForReason == IInv /\ [Next]_vars => SleepsForReason'
<1> SUFFICES ASSUME IInv, [Next]_vars PROVE SleepsForReason'
    OBVIOUS
<1> USE DEF IInv, TypeOK, Threads, Places, Waits, Goto, GotoWaking, indices, Ready, SleepsForReason, MutexHeld, Other, IsFull, IsEmpty
<1>1. ASSUME NEW t \in Threads, Call(t) PROVE SleepsForReason'
  BY <1>1 DEF Call
<1>2. ASSUME NEW t \in Threads, Check(t) PROVE SleepsForReason'
  BY <1>2 DEF Check
<1>3. ASSUME NEW t \in Threads, Lock(t) PROVE SleepsForReason'
  BY <1>3 DEF Lock
<1>4. ASSUME NEW t \in Threads, Loop(t) PROVE SleepsForReason'
  BY <1>4 DEF Loop
<1>5. ASSUME NEW t \in Threads, Decide(t) PROVE SleepsForReason'
  BY <1>5 DEF Decide
<1>6. ASSUME NEW t \in Threads, SpuriousWakeup(t) PROVE SleepsForReason'
  BY <1>6 DEF SpuriousWakeup
<1>7. CASE CopyIn
  BY <1>7 DEF CopyIn
<1>8. CASE CopyOut
  BY <1>8 DEF CopyOut
<1>9. ASSUME NEW t \in Threads, Notify(t) PROVE SleepsForReason'
  BY <1>9 DEF Notify
<1>10. ASSUME NEW t \in Threads, CallStop(t) PROVE SleepsForReason'
  BY <1>10 DEF CallStop
<1>11. ASSUME NEW t \in Threads, StopPush(t) PROVE SleepsForReason'
  BY <1>11 DEF StopPush
<1>12. ASSUME NEW t \in Threads, StopPop(t) PROVE SleepsForReason'
  BY <1>12 DEF StopPop
<1>13. CASE Ended \/ UNCHANGED vars
  BY <1>13 DEF Ended, vars
<1> QED
  BY <1>1, <1>2, <1>3, <1>4, <1>5, <1>6, <1>7, <1>8, <1>9, <1>10, <1>11, <1>12, <1>13
  DEF Next, Step

LEMMA StepDecidesOnEmpty == IInv /\ [Next]_vars => DecidesOnEmpty'
<1> SUFFICES ASSUME IInv, [Next]_vars PROVE DecidesOnEmpty'
    OBVIOUS
<1> USE DEF IInv, TypeOK, Threads, Places, Waits, Goto, GotoWaking, indices, Ready, DecidesOnEmpty, MutexHeld, StopHasCaller, IsEmpty
<1>1. ASSUME NEW t \in Threads, Call(t) PROVE DecidesOnEmpty'
  BY <1>1 DEF Call
<1>2. ASSUME NEW t \in Threads, Check(t) PROVE DecidesOnEmpty'
  BY <1>2 DEF Check
<1>3. ASSUME NEW t \in Threads, Lock(t) PROVE DecidesOnEmpty'
  BY <1>3 DEF Lock
<1>4. ASSUME NEW t \in Threads, Loop(t) PROVE DecidesOnEmpty'
  BY <1>4 DEF Loop
<1>5. ASSUME NEW t \in Threads, Decide(t) PROVE DecidesOnEmpty'
  BY <1>5 DEF Decide
<1>6. ASSUME NEW t \in Threads, SpuriousWakeup(t) PROVE DecidesOnEmpty'
  BY <1>6 DEF SpuriousWakeup
<1>7. CASE CopyIn
  BY <1>7 DEF CopyIn
<1>8. CASE CopyOut
  BY <1>8 DEF CopyOut
<1>9. ASSUME NEW t \in Threads, Notify(t) PROVE DecidesOnEmpty'
  BY <1>9 DEF Notify
<1>10. ASSUME NEW t \in Threads, CallStop(t) PROVE DecidesOnEmpty'
  BY <1>10 DEF CallStop
<1>11. ASSUME NEW t \in Threads, StopPush(t) PROVE DecidesOnEmpty'
  BY <1>11 DEF StopPush
<1>12. ASSUME NEW t \in Threads, StopPop(t) PROVE DecidesOnEmpty'
  BY <1>12 DEF StopPop
<1>13. CASE Ended \/ UNCHANGED vars
  BY <1>13 DEF Ended, vars
<1> QED
  BY <1>1, <1>2, <1>3, <1>4, <1>5, <1>6, <1>7, <1>8, <1>9, <1>10, <1>11, <1>12, <1>13
  DEF Next, Step

LEMMA StepIInv == IInv /\ [Next]_vars => IInv'
<1> SUFFICES ASSUME IInv, [Next]_vars PROVE IInv'
    OBVIOUS
<1>1. TypeOK'
  BY StepTypeOK DEF IInv
<1> QED
  BY <1>1, StepMutexHeld, StepStopWakes, StepStopHasCaller, StepMovesSafely,
     StepSleepsForReason, StepDecidesOnEmpty DEF IInv

\* The inductive invariant, for every Num.
THEOREM IInvHolds == Spec => []IInv
<1> QED
  BY InitIInv, StepIInv, PTL DEF Spec

\* What a thread found out before it took the lock holds while it copies.
THEOREM MovesAreSafe == Spec => []MovesSafely
<1>1. IInv => MovesSafely
  BY DEF IInv
<1> QED
  BY <1>1, IInvHolds, PTL

\* No wakeup is lost between the check of the indices and the wait.
THEOREM WakeupsAreKept == Spec => []NoLostWakeup
<1>1. IInv => NoLostWakeup
  <2> SUFFICES ASSUME IInv, NEW t \in Threads, pc[t] = "wait"
               PROVE  \/ ~Ready(t) /\ ~isStop
                      \/ pc[Other(t)] \in {"notify", "stop2"}
      BY DEF NoLostWakeup
  <2>1. ~Ready(t) \/ pc[Other(t)] = "notify"
    BY DEF IInv, SleepsForReason
  <2>2. ~isStop \/ pc[Other(t)] = "stop2"
    BY DEF IInv, StopWakes, Threads, Other
  <2> QED
    BY <2>1, <2>2
<1> QED
  BY <1>1, IInvHolds, PTL

\* A stop by the producer leaves the consumer everything that was pushed.
THEOREM RefusalsAreEmpty == Spec => []RefusedIsEmpty
<1>1. IInv => RefusedIsEmpty
  BY DEF IInv, DecidesOnEmpty, RefusedIsEmpty
<1> QED
  BY <1>1, IInvHolds, PTL

-----------------------------------------------------------------------------
(***************************************************************************)
(* The refinement: the blocks between the indices are the queue.           *)
(***************************************************************************)
LEMMA ContentIsSeq ==
  ASSUME TypeOK, Count <= Num
  PROVE  Content \in Seq(Data) /\ Len(Content) = Count
<1>1. Count \in Nat /\ \A i \in 1..Count : Slot(Ith(i)) \in 0..(Num - 1)
  BY NumAssumption DEF TypeOK, Count, Ith, Slot
<1>2. \A i \in 1..Count : buf[Slot(Ith(i))] \in Data
  BY <1>1 DEF TypeOK
<1> QED
  BY <1>1, <1>2 DEF Content

\* Where the next block goes: behind all the others.
LEMMA Positions ==
  ASSUME TypeOK, Count < Num
  PROVE  /\ Slot(Ith(Count + 1)) = Slot(writeIndex)
         /\ \A i \in 1..Count : Slot(Ith(i)) # Slot(writeIndex)
<1> USE NumAssumption DEF TypeOK, Count, Ith, Slot
<1>1. Slot(Ith(Count + 1)) = Slot(writeIndex)
  OBVIOUS
<1>2. \A i \in 1..Count : Slot(Ith(i)) # Slot(writeIndex)
  OBVIOUS
<1> QED
  BY <1>1, <1>2

LEMMA CopyInPuts ==
  ASSUME IInv, CopyIn
  PROVE  Fifo!Put(item)
<1>1. TypeOK /\ Count \in 0..(Num - 1) /\ Content \in Seq(Data) /\ Len(Content) = Count
  BY ContentIsSeq, Indices, NumAssumption DEF IInv, MovesSafely, CopyIn, TypeOK
<1>2. Count' = Count + 1 /\ readIndex' = readIndex
  BY StepCount DEF IInv, CopyIn
<1>3. \A i \in 1..(Count + 1) : Ith(i)' = Ith(i)
  BY <1>2 DEF Ith
<1>4. \A i \in 1..Count : buf'[Slot(Ith(i))] = buf[Slot(Ith(i))]
  BY <1>1, Positions, NumAssumption DEF CopyIn, TypeOK, Ith, Slot
<1>5. buf'[Slot(Ith(Count + 1))] = item
  BY <1>1, Positions, NumAssumption DEF CopyIn, TypeOK, Slot
<1>6. Content' = [i \in 1..(Count + 1) |-> buf'[Slot(Ith(i))]]
  BY <1>2, <1>3 DEF Content
<1>7. /\ Len(Content') = Count + 1 /\ Content' \in Seq(Data)
      /\ \A i \in 1..Count : Content'[i] = Content[i]
      /\ Content'[Count + 1] = item
  <2>1. \A i \in 1..Count : Content[i] = buf[Slot(Ith(i))] /\ Content[i] \in Data
    BY <1>1 DEF Content
  <2>2. \A i \in 1..(Count + 1) : Content'[i] = buf'[Slot(Ith(i))]
    BY <1>6
  <2>3. \A i \in 1..Count : Content'[i] = Content[i]
    BY <1>1, <1>4, <2>1, <2>2
  <2>4. Content'[Count + 1] = item /\ item \in Data
    BY <1>1, <1>5, <2>2 DEF TypeOK
  <2>5. Content' \in [1..(Count + 1) -> Data]
    <3>1. \A i \in 1..(Count + 1) : i \in 1..Count \/ i = Count + 1
      BY <1>1
    <3>2. \A i \in 1..(Count + 1) : Content'[i] \in Data
      BY <2>1, <2>3, <2>4, <3>1
    <3>3. \A i \in 1..(Count + 1) : buf'[Slot(Ith(i))] \in Data
      BY <2>2, <3>2
    <3> QED
      BY <1>6, <3>3
  <2> QED
    BY <1>1, <2>3, <2>4, <2>5
<1>8. Content' = Append(Content, item)
  <2>1. /\ Append(Content, item) \in Seq(Data) /\ Len(Append(Content, item)) = Count + 1
        /\ \A i \in 1..Count : Append(Content, item)[i] = Content[i]
        /\ Append(Content, item)[Count + 1] = item
    BY <1>1, AppendProperties DEF TypeOK
  <2> QED
    BY <1>1, <1>7, <2>1, SeqEqual
<1>9. UNCHANGED <<out, isStop>>
  BY DEF CopyIn
<1>10. Len(Content) < Num
  BY <1>1, NumAssumption
<1> QED
  BY <1>8, <1>9, <1>10 DEF Fifo!Put

LEMMA CopyOutGets ==
  ASSUME IInv, CopyOut
  PROVE  Fifo!Get
<1>1. TypeOK /\ Count \in 1..Num /\ Content \in Seq(Data) /\ Len(Content) = Count
  BY ContentIsSeq, Indices, NumAssumption DEF IInv, MovesSafely, CopyOut, TypeOK
<1>2. Count' = Count - 1 /\ readIndex' = Increment(readIndex) /\ buf' = buf
  BY StepCount DEF IInv, CopyOut
<1>3. \A i \in 1..(Count - 1) : Slot(Ith(i))' = Slot(Ith(i + 1))
  BY <1>1, <1>2, NumAssumption DEF Ith, Slot, Increment, TypeOK
<1>4. out' = Content[1]
  BY <1>1, NumAssumption DEF CopyOut, Content, Ith, TypeOK
<1>5. Content' = [i \in 1..(Count - 1) |-> buf[Slot(Ith(i))']]
  BY <1>2 DEF Content
<1>6. /\ Len(Content') = Count - 1 /\ Content' \in Seq(Data)
      /\ \A i \in 1..(Count - 1) : Content'[i] = Content[i + 1]
  <2>1. \A i \in 1..Count : Content[i] = buf[Slot(Ith(i))] /\ Content[i] \in Data
    BY <1>1 DEF Content
  <2>2. \A i \in 1..(Count - 1) : Content'[i] = buf[Slot(Ith(i))']
    BY <1>5
  <2>3. \A i \in 1..(Count - 1) : Content'[i] = Content[i + 1]
    BY <1>1, <1>3, <2>1, <2>2
  <2>4. Content' \in [1..(Count - 1) -> Data]
    BY <1>1, <1>5, <2>1, <2>3
  <2> QED
    BY <1>1, <2>3, <2>4
<1>7. Content' = Tail(Content)
  <2>1. Content # <<>>
    BY <1>1
  <2>2. /\ Tail(Content) \in Seq(Data) /\ Len(Tail(Content)) = Count - 1
        /\ \A i \in 1..(Count - 1) : Tail(Content)[i] = Content[i + 1]
    BY <1>1, <2>1, HeadTailProperties
  <2> QED
    BY <1>1, <1>6, <2>2, SeqEqual
<1>8. out' = Head(Content) /\ Content # <<>>
  BY <1>1, <1>4
<1>9. UNCHANGED isStop
  BY DEF CopyOut
<1> QED
  BY <1>7, <1>8, <1>9 DEF Fifo!Get

LEMMA ContentKept ==
  ASSUME UNCHANGED <<buf, indices>>
  PROVE  UNCHANGED Content
BY DEF Content, Count, Ith, Slot, indices

\* The ring buffer implements the queue it stands for: the blocks come out
\* once each, in the order they went in, and never more than Num are held.
THEOREM Refinement == Spec => IsFifo
<1>1. Init /\ IInv => Fifo!Init
  <2> SUFFICES ASSUME Init, IInv PROVE Fifo!Init
      OBVIOUS
  <2>1. Count = 0
    BY DEF Init, Count
  <2>2. Content = <<>>
    BY <2>1 DEF Content
  <2> QED
    BY <2>2 DEF Init, Fifo!Init
<1>2. IInv /\ [Next]_vars => [Fifo!Next]_<<Content, out, isStop>>
  <2> SUFFICES ASSUME IInv, [Next]_vars
               PROVE  Fifo!Next \/ UNCHANGED <<Content, out, isStop>>
      OBVIOUS
  <2>1. CASE CopyIn
    BY <2>1, CopyInPuts DEF Fifo!Next, IInv, TypeOK
  <2>2. CASE CopyOut
    BY <2>2, CopyOutGets DEF Fifo!Next
  <2>3. ASSUME NEW t \in Threads, StopPush(t) \/ StopPop(t) PROVE Fifo!Next
    BY <2>3, ContentKept DEF StopPush, StopPop, Fifo!Next, Fifo!Close, indices
  <2>4. ASSUME NEW t \in Threads,
               \/ Call(t) \/ Check(t) \/ Lock(t) \/ Loop(t) \/ Decide(t)
               \/ SpuriousWakeup(t) \/ Notify(t) \/ CallStop(t)
        PROVE  UNCHANGED <<Content, out, isStop>>
    BY <2>4, ContentKept DEF Call, Check, Lock, Loop, Decide, SpuriousWakeup, Notify,
       CallStop, indices
  <2>5. CASE Ended \/ UNCHANGED vars
    BY <2>5, ContentKept DEF Ended, vars
  <2> QED
    BY <2>1, <2>2, <2>3, <2>4, <2>5 DEF Next, Step
<1> QED
  BY <1>1, <1>2, IInvHolds, InitIInv, PTL DEF Spec, IsFifo, Fifo!Spec
=============================================================================
