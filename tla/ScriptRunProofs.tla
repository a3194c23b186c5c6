-------------------------- MODULE ScriptRunProofs --------------------------
(***************************************************************************)
(* What the updater and its child keep of their pipe, and what the child   *)
(* makes of its scripts, for every package of scripts, every number of     *)
(* threads and of messages.                                                *)
(***************************************************************************)
EXTENDS ScriptRun, FiniteSetTheorems, WellFoundedInduction, TLAPS

Messages == {"progress", "retry", "result"}

\* The part of the types that the proof needs.
Types ==
  /\ pipe \in Seq(Messages) /\ priority \in 1..Last
  /\ retryUpdate \in BOOLEAN /\ asked \in BOOLEAN
  /\ flag \in [Threads -> BOOLEAN]
  /\ worker \in [Threads -> {"idle", "run", "assign", "test", "copy"}]
  /\ progress \in {"none", "run", "post", "ended"}
  /\ parent \in {"forked", "reading", "waiting", "failed"} \cup Results

\* A thread works only while ExecuteScript waits for its flag, and the progress
\* thread ends before main leaves.
Joins ==
  /\ \A t \in Threads : worker[t] # "idle" => flag[t]
  /\ main # "wait" => \A t \in Threads : ~flag[t]
  /\ main = "start" => progress = "none"
  /\ main = "release" => progress = "ended"
  /\ main \in {"result", "exit"} => progress \in {"none", "ended"}

\* The result is the last message, and with it the child has nothing to say.
ResultIsLast ==
  \A i \in DOMAIN pipe : pipe[i] = "result" => i = Len(pipe) /\ main = "exit"

\* The parent stops reading when the child is silent or gone.
StopsReading ==
  parent \in {"waiting"} \cup Results => child # "running" \/ main = "exit"

\* A retry that was asked for was noted, or is still to be read.
RetryIsOnItsWay ==
  asked /\ parent # "failed" =>
    \/ retryUpdate
    \/ parent \in {"forked", "reading"} /\ \E i \in DOMAIN pipe : pipe[i] = "retry"

IInv == /\ Types /\ Joins /\ ResultIsLast /\ StopsReading /\ RetryIsOnItsWay
        /\ RetryIsKept /\ NeverBroken

-----------------------------------------------------------------------------
\* The pipe may be empty.
LEMMA EmptyPipe == << >> \in Seq(Messages)
OBVIOUS

\* What is appended to the pipe is there, and all that was there before.
LEMMA Appended ==
  ASSUME pipe \in Seq(Messages), NEW m \in Messages, pipe' = Append(pipe, m)
  PROVE  /\ pipe' \in Seq(Messages) /\ Len(pipe') = Len(pipe) + 1 /\ Len(pipe) \in Nat
         /\ DOMAIN pipe' = DOMAIN pipe \cup {Len(pipe')} /\ Len(pipe') \notin DOMAIN pipe
         /\ pipe'[Len(pipe')] = m
         /\ \A i \in DOMAIN pipe : pipe'[i] = pipe[i]
OBVIOUS

\* What is left of the pipe was there before.
LEMMA Shortened ==
  ASSUME pipe \in Seq(Messages), pipe # <<>>, pipe' = Tail(pipe)
  PROVE  /\ pipe' \in Seq(Messages) /\ Len(pipe') = Len(pipe) - 1
         /\ Len(pipe) \in Nat /\ Head(pipe) = pipe[1]
         /\ DOMAIN pipe = 1..Len(pipe) /\ DOMAIN pipe' = 1..(Len(pipe) - 1)
         /\ \A i \in DOMAIN pipe' : i + 1 \in DOMAIN pipe /\ pipe'[i] = pipe[i + 1]
OBVIOUS

\* A message is written while the parent reads: there is no broken pipe, and
\* what was in the pipe is still in it.
LEMMA Posted ==
  ASSUME IInv, child = "running", main # "exit", NEW m \in Messages, PostMessage(m),
         parent' = parent, retryUpdate' = retryUpdate,
         m = "result" => main' = "exit", asked' => asked \/ m = "retry"
  PROVE  /\ pipe' \in Seq(Messages) /\ ResultIsLast' /\ NeverBroken'
         /\ StopsReading' /\ RetryIsOnItsWay' /\ RetryIsKept'
<1> USE DEF IInv, Types
<1>1. \A i \in DOMAIN pipe : pipe[i] # "result"
  BY DEF ResultIsLast
<1>2. parent \in {"forked", "reading", "failed"}
  BY DEF StopsReading
<1>3. CASE parent = "failed"
  BY <1>1, <1>3 DEF PostMessage, ResultIsLast, NeverBroken, StopsReading, RetryIsOnItsWay,
                    RetryIsKept, Results
<1>4. CASE parent \in {"forked", "reading"}
  <2>1. pipe' = Append(pipe, m) /\ child' = child
    BY <1>4 DEF PostMessage
  <2>2. ResultIsLast'
    BY <1>1, <2>1, Appended DEF ResultIsLast
  <2>3. RetryIsOnItsWay'
    BY <1>4, <2>1, Appended DEF RetryIsOnItsWay
  <2> QED
    BY <1>4, <2>1, <2>2, <2>3, Appended DEF NeverBroken, StopsReading, RetryIsKept, Results
<1> QED
  BY <1>2, <1>3, <1>4

\* A step that leaves the pipe, its ends and the request alone keeps what is
\* said of them.
LEMMA Unposted ==
  ASSUME IInv, UNCHANGED <<pipe, parent, retryUpdate, asked>>, child' # "sigpipe",
         child # "running" => child' # "running", main = "exit" => main' = "exit"
  PROVE  /\ pipe' \in Seq(Messages) /\ ResultIsLast' /\ NeverBroken'
         /\ StopsReading' /\ RetryIsOnItsWay' /\ RetryIsKept'
BY DEF IInv, Types, ResultIsLast, NeverBroken, StopsReading, RetryIsOnItsWay, RetryIsKept

\* There is a priority to begin with.
LEMMA LastIsNat == Last \in Nat \ {0}
BY ScriptRunAssumption DEF Last

\* Whether a thread has a share of the scripts is a matter of numbers.
LEMMA FlagsAreBoolean ==
  ASSUME priority \in 1..Last
  PROVE  [t \in Threads |-> t <= Len(Scripts[priority])] \in [Threads -> BOOLEAN]
<1>1. Len(Scripts[priority]) \in Nat
  BY ScriptRunAssumption DEF Last
<1>2. \A t \in Threads : t \in Int
  BY DEF Threads
<1> QED
  BY <1>1, <1>2

-----------------------------------------------------------------------------
\* The main thread of the child.
LEMMA MainStep == ASSUME IInv, Main PROVE IInv'
<1> USE DEF IInv, Main, vars, pool, prog, control, outside, Messages
<1>1. CASE ExecFails \/ PrepareFails
  <2>1. Types' /\ Joins'
    BY <1>1 DEF ExecFails, PrepareFails, Types, Joins
  <2> QED
    BY <1>1, <2>1, Unposted DEF ExecFails, PrepareFails
<1>2. CASE CreateProgressThread
  <2>1. PostMessage("progress") /\ main = "start" /\ main' # "exit"
    BY <1>2 DEF CreateProgressThread
  <2>2. Joins' /\ (pipe' \in Seq(Messages) => Types')
    BY <1>2 DEF CreateProgressThread, Types, Joins
  <2> QED
    BY <1>2, <2>1, <2>2, Posted DEF CreateProgressThread
<1>3. CASE NoScripts \/ RunTask \/ TaskDone
  <2>1. Last \in Nat
    BY LastIsNat
  <2>2. ASSUME NoScripts \/ TaskDone PROVE Types' /\ Joins'
    BY <2>1, <2>2 DEF NoScripts, TaskDone, NextPriority, Types, Joins
  <2>3. ASSUME RunTask PROVE Types' /\ Joins'
    BY <2>3, FlagsAreBoolean DEF RunTask, Types, Joins
  <2>4. Types' /\ Joins'
    BY <1>3, <2>2, <2>3
  <2> QED
    BY <1>3, <2>4, Unposted DEF NoScripts, RunTask, TaskDone
<1>4. CASE SetProgressExitFlag \/ JoinProgressThread \/ ReleaseScriptManager
  <2>1. Types' /\ Joins'
    BY <1>4 DEF SetProgressExitFlag, JoinProgressThread, ReleaseScriptManager, Types, Joins
  <2> QED
    BY <1>4, <2>1, Unposted DEF SetProgressExitFlag, JoinProgressThread, ReleaseScriptManager
<1>5. CASE PostResult
  <2>1. PostMessage("result") /\ main = "result" /\ main' = "exit"
    BY <1>5 DEF PostResult
  <2>2. Joins' /\ (pipe' \in Seq(Messages) => Types')
    BY <1>5 DEF PostResult, Types, Joins
  <2> QED
    BY <1>5, <2>1, <2>2, Posted DEF PostResult
<1>6. CASE Exit
  <2>1. Types' /\ Joins'
    BY <1>6 DEF Exit, Types, Joins
  <2> QED
    BY <1>6, <2>1, Unposted DEF Exit
<1> QED
  BY <1>1, <1>2, <1>3, <1>4, <1>5, <1>6

\* A thread of the pool.
LEMMA WorkerStep == ASSUME IInv, NEW t \in Threads, Worker(t) PROVE IInv'
<1> USE DEF IInv, Worker, vars, pool, prog, control, outside, Messages
<1>1. CASE TakeTask(t)
  <2>1. Types' /\ Joins'
    BY <1>1 DEF TakeTask, Become, Types, Joins
  <2> QED
    BY <1>1, <2>1, Unposted DEF TakeTask
<1>2. CASE ExtractAndExecuteScript(t)
  <2>1. main = "wait" /\ main' = "wait"
    BY <1>2 DEF ExtractAndExecuteScript, Types, Joins
  <2>2. Joins' /\ (pipe' \in Seq(Messages) => Types')
    BY <1>2 DEF ExtractAndExecuteScript, Become, Types, Joins
  <2>3. CASE UNCHANGED <<asked, child, pipe>>
    BY <1>2, <2>1, <2>2, <2>3, Unposted DEF ExtractAndExecuteScript
  <2>4. CASE PostMessage("retry") /\ asked' = TRUE
    BY <1>2, <2>1, <2>2, <2>4, Posted DEF ExtractAndExecuteScript
  <2> QED
    BY <1>2, <2>3, <2>4 DEF ExtractAndExecuteScript
<1>3. CASE Crash(t)
  <2>1. Types' /\ Joins'
    BY <1>3 DEF Crash, Types, Joins
  <2> QED
    BY <1>3, <2>1, Unposted DEF Crash
<1>4. CASE AssignRet(t)
  <2>1. Types' /\ Joins'
    BY <1>4 DEF AssignRet, Become, Types, Joins
  <2> QED
    BY <1>4, <2>1, Unposted DEF AssignRet
<1>5. CASE TestRet(t) \/ CopyRet(t)
  <2>1. Types' /\ Joins'
    BY <1>5 DEF TestRet, CopyRet, NextScript, Become, Types, Joins
  <2> QED
    BY <1>5, <2>1, Unposted DEF TestRet, CopyRet
<1> QED
  BY <1>1, <1>2, <1>3, <1>4, <1>5

\* The progress thread, which main waits for before it sends the result.
LEMMA ProgressStep == ASSUME IInv, ProgressThread PROVE IInv'
<1> USE DEF IInv, ProgressThread, vars, pool, prog, control, outside, Messages
<1>1. CASE LookAtFlag
  <2>1. Types' /\ Joins'
    BY <1>1 DEF LookAtFlag, Types, Joins
  <2> QED
    BY <1>1, <2>1, Unposted DEF LookAtFlag
<1>2. CASE SendProgress
  <2>1. main # "exit" /\ main' = main /\ PostMessage("progress")
    BY <1>2 DEF SendProgress, Joins
  <2>2. Joins' /\ (pipe' \in Seq(Messages) => Types')
    BY <1>2 DEF SendProgress, Types, Joins
  <2> QED
    BY <1>2, <2>1, <2>2, Posted DEF SendProgress
<1> QED
  BY <1>1, <1>2

\* The parent: it stops reading at the result or at the end of the pipe.
LEMMA ParentStep == ASSUME IInv, Parent PROVE IInv'
<1> USE DEF IInv, pool, prog, control, outside
<1>1. CASE OpenPipe \/ OpenFails
  <2>1. parent' \in {"reading", "failed"} /\ parent = "forked" /\ (pipe' = pipe \/ pipe' = <<>>)
        /\ (parent' = "reading" => pipe' = pipe)
    BY <1>1 DEF OpenPipe, OpenFails
  <2>2. Types' /\ Joins'
    <3>1. pipe' \in Seq(Messages)
      BY <2>1, EmptyPipe DEF Types
    <3>2. UNCHANGED <<flag, worker, asked, progress, main, priority, retryUpdate>>
      BY <1>1 DEF OpenPipe, OpenFails
    <3>3. Joins'
      BY <3>2 DEF Joins
    <3>4. /\ flag' \in [Threads -> BOOLEAN] /\ asked' \in BOOLEAN /\ retryUpdate' \in BOOLEAN
          /\ worker' \in [Threads -> {"idle", "run", "assign", "test", "copy"}]
      BY <3>2 DEF Types
    <3> QED
      BY <2>1, <3>1, <3>2, <3>3, <3>4 DEF Types
  <2>3. ResultIsLast' /\ RetryIsOnItsWay'
    BY <1>1, <2>1 DEF OpenPipe, OpenFails, ResultIsLast, RetryIsOnItsWay
  <2> QED
    BY <1>1, <2>1, <2>2, <2>3 DEF OpenPipe, OpenFails, StopsReading, RetryIsKept, NeverBroken, Results
<1>2. CASE HandlePipeMsg
  <2>1. Joins' /\ parent = "reading" /\ child' = child /\ main' = main
    BY <1>2 DEF HandlePipeMsg, Joins
  <2>2. pipe \in Seq(Messages) /\ pipe # <<>>
    BY <1>2 DEF HandlePipeMsg, Types
  <2>3. Len(pipe) \in Nat \ {0} /\ Head(pipe) = pipe[1]
        /\ 1 \in DOMAIN pipe /\ DOMAIN pipe = 1..Len(pipe)
    BY <2>2
  <2>4. CASE Head(pipe) = "result"
    <3>1. Len(pipe) = 1 /\ main = "exit"
      BY <2>3, <2>4 DEF ResultIsLast
    <3>2. parent' = "waiting" /\ pipe' = <<>> /\ retryUpdate' = retryUpdate /\ asked' = asked
      BY <1>2, <2>4 DEF HandlePipeMsg, Types
    <3>3. asked => retryUpdate
      BY <2>1, <2>3, <2>4, <3>1 DEF RetryIsOnItsWay
    <3> QED
      BY <1>2, <2>1, <3>1, <3>2, <3>3 DEF HandlePipeMsg, Types, ResultIsLast, StopsReading,
         RetryIsOnItsWay, RetryIsKept, NeverBroken, Results
  <2>5. CASE Head(pipe) # "result"
    <3>1. parent' = parent /\ pipe' = Tail(pipe) /\ asked' = asked
      BY <1>2, <2>5 DEF HandlePipeMsg
    <3>2. ResultIsLast'
      BY <2>1, <2>2, <3>1, Shortened DEF ResultIsLast
    <3>3. RetryIsOnItsWay'
      <4>1. ASSUME NEW i \in DOMAIN pipe, pipe[i] = "retry", i # 1
            PROVE  \E k \in DOMAIN pipe' : pipe'[k] = "retry"
        <5>1. i - 1 \in DOMAIN pipe' /\ (i - 1) + 1 = i
          BY <2>2, <3>1, <4>1, Shortened
        <5> QED
          BY <2>2, <3>1, <4>1, <5>1, Shortened
      <4>2. retryUpdate' = (retryUpdate \/ pipe[1] = "retry")
        BY <1>2, <2>3 DEF HandlePipeMsg
      <4> QED
        BY <2>1, <3>1, <4>1, <4>2 DEF RetryIsOnItsWay
    <3> QED
      BY <1>2, <2>1, <2>2, <3>1, <3>2, <3>3, Shortened
      DEF HandlePipeMsg, Types, StopsReading, RetryIsKept, NeverBroken, Results
  <2> QED
    BY <2>4, <2>5
<1>3. CASE EndOfPipe
  <2>1. asked => retryUpdate
    BY <1>3 DEF EndOfPipe, RetryIsOnItsWay
  <2> QED
    BY <1>3, <2>1 DEF EndOfPipe, Types, Joins, ResultIsLast, StopsReading,
       RetryIsOnItsWay, RetryIsKept, NeverBroken, Results
<1>4. CASE CheckProcStatus
  <2>1. asked => retryUpdate
    BY <1>4 DEF CheckProcStatus, RetryIsOnItsWay
  <2> QED
    BY <1>4, <2>1 DEF CheckProcStatus, Types, Joins, ResultIsLast, StopsReading,
       RetryIsOnItsWay, RetryIsKept, NeverBroken, Results
<1> QED
  BY <1>1, <1>2, <1>3, <1>4 DEF Parent

-----------------------------------------------------------------------------
\* The invariant of the pipe: who may still write, and what is still to be read.
THEOREM IInvHolds == Spec => []IInv
<1>1. Init => IInv
  <2> SUFFICES ASSUME Init PROVE IInv
    OBVIOUS
  <2>1. Types
    <3>1. pipe \in Seq(Messages)
      BY EmptyPipe DEF Init
    <3>2. priority \in 1..Last
      BY LastIsNat DEF Init
    <3> QED
      BY <3>1, <3>2 DEF Init, Types
  <2>2. Joins
    BY DEF Init, Joins
  <2> QED
    BY <2>1, <2>2 DEF Init, IInv, ResultIsLast, StopsReading, RetryIsOnItsWay, RetryIsKept,
                      NeverBroken, Results
<1>2. IInv /\ [Next]_vars => IInv'
  <2> SUFFICES ASSUME IInv, [Next]_vars PROVE IInv'
    OBVIOUS
  <2>1. CASE UNCHANGED vars
    BY <2>1 DEF vars, pool, prog, control, outside, IInv, Types, Joins, ResultIsLast,
       StopsReading, RetryIsOnItsWay, RetryIsKept, NeverBroken
  <2> QED
    BY <2>1, MainStep, WorkerStep, ProgressStep, ParentStep DEF Next
<1> QED
  BY <1>1, <1>2, PTL DEF Spec

\* The child is never killed by its own message: main joins its threads before
\* it sends the result, and the parent reads until then.
THEOREM PipeIsNeverBroken == Spec => []NeverBroken
<1>1. IInv => NeverBroken
  BY DEF IInv
<1> QED
  BY <1>1, IInvHolds, PTL

\* A retry that a script asked for with "retry_update" becomes UPDATE_RETRY,
\* whatever became of the child since.
THEOREM RetriesAreKept == Spec => []RetryIsKept
<1>1. IInv => RetryIsKept
  BY DEF IInv
<1> QED
  BY <1>1, IInvHolds, PTL
-----------------------------------------------------------------------------
(***************************************************************************)
(* How the scripts of a priority are dealt out: thread t has every         *)
(* Stride-th from the t-th on, and has done those before Front(t).         *)
(***************************************************************************)
Dealt == 1..Len(Scripts[priority])
Owner(i) == ((i - 1) % Stride) + 1

Front(t) == IF worker[t] = "run" THEN at[t]
            ELSE IF worker[t] # "idle" THEN at[t] + 1
            ELSE IF flag[t] THEN 1 ELSE Len(Scripts[priority]) + 1

AllRun(p)  == \A i \in DOMAIN Scripts[p] : outcome[Scripts[p][i]] # None
NoneRun(p) == \A i \in DOMAIN Scripts[p] : outcome[Scripts[p][i]] = None
\* A script that has its priority for itself did not fail.
AloneIsGood(p) == Len(Scripts[p]) = 1 => outcome[Scripts[p][1]] = Success

Outcomes ==
  /\ {ret, retCode, status} \subseteq Codes \cup {Success, -1}
  /\ at \in [Threads -> Nat]
  /\ outcome \in [AllScripts -> Codes \cup {Success, None}]
  /\ main \in {"start", "priority", "wait", "stop", "join", "release", "result", "exit"}

\* The priorities before the one under way are done, those after it are not begun.
PriorityByPriority ==
  /\ \A p \in 1..(priority - 1) : AllRun(p) /\ AloneIsGood(p)
  /\ \A p \in (priority + 1)..Last : NoneRun(p)
  /\ main \in {"start", "priority"} => NoneRun(priority)

\* Each thread does its own scripts, one after the other.
OneAfterTheOther ==
  main = "wait" =>
    /\ \A i \in Dealt : outcome[Scripts[priority][i]] # None <=> i < Front(Owner(i))
    /\ \A t \in Threads : flag[t] => t \in Dealt
    /\ \A t \in Threads : worker[t] # "idle" => at[t] \in Dealt /\ Owner(at[t]) = t

\* The error of a script that has its priority for itself reaches retCode.
ErrorIsOnItsWay ==
  main = "wait" /\ Len(Scripts[priority]) = 1 =>
    /\ worker[1] \in {"test", "copy"} => ret = outcome[Scripts[priority][1]]
    /\ worker[1] = "copy" => ret # Success
    /\ ~flag[1] /\ retCode = Success => outcome[Scripts[priority][1]] = Success

\* What the child leaves with.
StatusIsTrue ==
  /\ main = "start" => status # Success
  /\ main \notin {"start", "priority", "wait"} /\ status = Success =>
       \A p \in 1..Last : AllRun(p) /\ AloneIsGood(p)
  /\ child = "exited" => main \in {"start", "exit"}
  /\ parent = "UPDATE_SUCCESS" => child = "exited" /\ status = Success

Earned == Outcomes /\ PriorityByPriority /\ OneAfterTheOther /\ ErrorIsOnItsWay /\ StatusIsTrue

-----------------------------------------------------------------------------
\* The scripts of a priority are scripts, each in one place.
LEMMA Places ==
  ASSUME NEW p \in 1..Last
  PROVE  /\ Scripts[p] \in Seq(AllScripts) /\ Len(Scripts[p]) \in Nat
         /\ DOMAIN Scripts[p] = 1..Len(Scripts[p])
         /\ \A i \in DOMAIN Scripts[p] : Scripts[p][i] \in AllScripts
<1>1. Scripts[p] \in Seq(AllScripts)
  BY ScriptRunAssumption DEF Last
<1> QED
  BY <1>1

\* One of the priorities has the most scripts.
LEMMA MostScripts ==
  \E m \in 1..Last : \A p \in 1..Last : Len(Scripts[p]) <= Len(Scripts[m])
<1> DEFINE Has(n) == \E m \in 1..n : \A p \in 1..n : Len(Scripts[p]) <= Len(Scripts[m])
           Bad == {n \in 1..Last : ~Has(n)}
           R == OpToRel(<, Nat)
<1>1. Last \in Nat \ {0} /\ Last \in 1..Last
  BY LastIsNat
<1>2. \A p \in 1..Last : Len(Scripts[p]) \in Nat
  BY Places
<1> SUFFICES ASSUME ~Has(Last) PROVE FALSE
  OBVIOUS
<1> HIDE DEF Has
<1>3. Bad # {}
  BY <1>1
<1>4. R = {ss \in Nat \X Nat : ss[1] < ss[2]}
  BY DEF OpToRel
<1>5. IsWellFoundedOn(R, Nat)
  BY NatLessThanWellFounded
<1> HIDE DEF R
<1>6. PICK n \in Bad : \A k \in Bad : ~(<<k, n>> \in R)
  <2>1. Bad \subseteq Nat
    BY <1>1
  <2> HIDE DEF Bad
  <2> QED
    BY <1>3, <1>5, <2>1, WFMin
<1>7. n \in 1..Last /\ ~Has(n) /\ n \in Int
  BY <1>1, <1>6
<1>8. \A k \in Bad : ~(k < n)
  <2>1. Bad \subseteq Nat
    BY <1>1
  <2> QED
    BY <1>6, <1>4, <2>1
<1>9. n # 1
  <2>1. ASSUME n = 1 PROVE Has(n)
    <3>1. \A p \in 1..1 : p = 1
      OBVIOUS
    <3>2. Len(Scripts[1]) <= Len(Scripts[1])
      BY <1>2, <1>7, <2>1
    <3> QED
      BY <2>1, <3>1, <3>2 DEF Has
  <2> QED
    BY <1>7, <2>1
<1>10. n - 1 \in 1..Last /\ Has(n - 1)
  <2>1. n - 1 \in 1..Last /\ n - 1 < n
    BY <1>1, <1>7, <1>9
  <2>2. n - 1 \notin Bad
    BY <1>8, <2>1
  <2> QED
    BY <2>1, <2>2
<1> HIDE DEF Bad
<1>11. PICK m \in 1..(n - 1) : \A p \in 1..(n - 1) : Len(Scripts[p]) <= Len(Scripts[m])
  BY <1>10 DEF Has
<1>12. n \in 1..n /\ m \in 1..n /\ m \in 1..Last
  BY <1>1, <1>7, <1>11
<1>13. \A p \in 1..n : p = n \/ p \in 1..(n - 1)
  BY <1>7
<1>14. \A p \in 1..n : Len(Scripts[p]) \in Nat
  BY <1>1, <1>2, <1>7
<1>15. CASE Len(Scripts[n]) <= Len(Scripts[m])
  <2>1. \A p \in 1..n : Len(Scripts[p]) <= Len(Scripts[m])
    BY <1>11, <1>13, <1>15
  <2> QED
    BY <1>7, <1>12, <2>1 DEF Has
<1>16. CASE ~(Len(Scripts[n]) <= Len(Scripts[m]))
  <2>1. \A p \in 1..n : Len(Scripts[p]) <= Len(Scripts[n])
    <3> SUFFICES ASSUME NEW p \in 1..n PROVE Len(Scripts[p]) <= Len(Scripts[n])
      OBVIOUS
    <3>1. Len(Scripts[p]) \in Nat /\ Len(Scripts[n]) \in Nat /\ Len(Scripts[m]) \in Nat
      BY <1>12, <1>14
    <3>2. p = n \/ Len(Scripts[p]) <= Len(Scripts[m])
      BY <1>11, <1>13
    <3> QED
      BY <1>16, <3>1, <3>2
  <2> QED
    BY <1>7, <1>12, <2>1 DEF Has
<1> QED
  BY <1>15, <1>16

\* The threads of the pool are numbered, and there is one.
LEMMA Pool == Stride \in Nat \ {0} /\ Threads = 1..Stride
<1> DEFINE Lens == {Len(Scripts[p]) : p \in 1..Last}
           Most == Max(Lens)
           Size == Min({MaxThreads, Most})
<1>1. \A p \in 1..Last : Len(Scripts[p]) \in Nat
  BY Places
<1>2. Most \in Lens /\ \A k \in Lens : Most >= k
  <2>1. \E k \in Lens : \A j \in Lens : k >= j
    BY <1>1, MostScripts
  <2> HIDE DEF Lens
  <2> QED
    BY <2>1 DEF Max
<1>3. Most \in Nat \ {0}
  <2>1. PICK s \in AllScripts : TRUE
    BY ScriptRunAssumption
  <2>2. PICK p \in 1..Last : s \in Range(Scripts[p])
    BY <2>1 DEF AllScripts
  <2>3. PICK i \in DOMAIN Scripts[p] : s = Scripts[p][i]
    BY <2>2 DEF Range
  <2>4. Len(Scripts[p]) >= 1
    BY <2>3, Places
  <2>5. Len(Scripts[p]) \in Lens
    OBVIOUS
  <2>6. Most >= Len(Scripts[p])
    BY <1>2, <2>5
  <2>7. Most \in Nat
    BY <1>1, <1>2
  <2> HIDE DEF Most
  <2> QED
    BY <1>1, <2>4, <2>6, <2>7
<1> HIDE DEF Most
<1>4. Size \in Nat \ {0}
  <2>1. MaxThreads \in Nat \ {0}
    BY ScriptRunAssumption
  <2>2. \E x \in {MaxThreads, Most} : \A y \in {MaxThreads, Most} : x =< y
    BY <1>3, <2>1
  <2>3. Size \in {MaxThreads, Most}
    BY <2>2 DEF Min
  <2> QED
    BY <1>3, <2>1, <2>3
<1>5. Threads = 1..Size
  BY DEF Threads, Most
<1> HIDE DEF Size
<1>6. Cardinality(1..Size) = Size
  BY <1>4, FS_Interval
<1> QED
  BY <1>4, <1>5, <1>6 DEF Stride

-----------------------------------------------------------------------------
\* What is left is the same, whatever whole turns are taken away.
LEMMA Remainder ==
  ASSUME NEW n \in Nat \ {0}, NEW a \in Int, NEW b \in Int, NEW r \in 0..(n - 1), NEW s \in 0..(n - 1),
         n * a + r = n * b + s
  PROVE  a = b /\ r = s
<1>1. ASSUME NEW d \in Nat \ {0} PROVE n * d >= n
  OBVIOUS
<1>2. n * (b - a) = r - s /\ n * (a - b) = s - r
  OBVIOUS
<1>3. CASE a < b
  BY <1>1, <1>2, <1>3
<1>4. CASE b < a
  BY <1>1, <1>2, <1>4
<1> QED
  BY <1>3, <1>4

LEMMA Turn ==
  ASSUME NEW n \in Nat \ {0}, NEW k \in Nat
  PROVE  (k + n) % n = k % n
<1> DEFINE q == k \div n
           r == k % n
           u == (k + n) \div n
           v == (k + n) % n
<1>1. q \in Int /\ r \in 0..(n - 1) /\ k = n * q + r
  OBVIOUS
<1>2. u \in Int /\ v \in 0..(n - 1) /\ k + n = n * u + v
  OBVIOUS
<1> HIDE DEF q, r, u, v
<1>3. n * (q + 1) = n * q + n
  BY <1>1
<1>4. n * (q + 1) + r = n * u + v /\ q + 1 \in Int
  BY <1>1, <1>2, <1>3
<1>5. r = v
  BY <1>1, <1>2, <1>4, Remainder
<1> QED
  BY <1>5 DEF r, v

\* Whose a script is: each is some thread's, the first of thread t is t.
LEMMA Owners ==
  ASSUME NEW i \in Nat \ {0}
  PROVE  /\ Owner(i) \in Threads /\ Owner(i) <= i
         /\ Owner(i + Stride) = Owner(i)
<1> DEFINE N == Stride
<1>1. N \in Nat \ {0} /\ Threads = 1..N
  BY Pool
<1>2. i - 1 \in Nat
  OBVIOUS
<1> HIDE DEF N
<1>3. ((i - 1) % N) \in 0..(N - 1)
  BY <1>1, <1>2
<1>4. ((i - 1) % N) <= i - 1
  BY <1>1, <1>2
<1>5. i + N - 1 = (i - 1) + N
  BY <1>1
<1>6. ((i + N - 1) % N) = ((i - 1) % N)
  BY <1>1, <1>2, <1>5, Turn
<1> QED
  BY <1>1, <1>2, <1>3, <1>4, <1>6 DEF Owner, N

LEMMA OwnFirst == ASSUME NEW t \in Threads PROVE Owner(t) = t
BY Pool DEF Owner

\* Two scripts of a thread are at least Stride apart.
LEMMA OwnersNext ==
  ASSUME NEW i \in Nat \ {0}, NEW j \in Nat \ {0}, Owner(i) = Owner(j), i < j
  PROVE  i + Stride <= j
<1> DEFINE N == Stride
           a == (i - 1) \div N
           b == (j - 1) \div N
<1>1. N \in Nat \ {0}
  BY Pool
<1>2. (i - 1) % N = (j - 1) % N
  <2>1. (i - 1) % N \in Int /\ (j - 1) % N \in Int
    BY <1>1
  <2> QED
    BY <2>1 DEF Owner
<1> HIDE DEF N
<1>3. a \in Int /\ b \in Int
  BY <1>1
<1>4. i - 1 = N * a + ((i - 1) % N) /\ j - 1 = N * b + ((j - 1) % N)
  BY <1>1
<1>5. (i - 1) % N \in Int
  BY <1>1
<1> HIDE DEF a, b
<1>6. j - i = N * (b - a)
  BY <1>1, <1>2, <1>3, <1>4, <1>5
<1>7. b - a >= 1
  BY <1>1, <1>3, <1>6
<1>8. N * (b - a) >= N
  BY <1>1, <1>3, <1>7
<1> QED
  BY <1>1, <1>3, <1>6, <1>8 DEF N

-----------------------------------------------------------------------------
\* Success is no failure, and -1 is none of them either.
LEMMA Failures == Success \notin Codes /\ -1 # Success /\ None # Success
BY ScriptRunAssumption DEF Success

\* What is said of a priority depends on the outcomes alone.
LEMMA SamePriority ==
  ASSUME outcome' = outcome
  PROVE  \A p : (AllRun(p)' <=> AllRun(p)) /\ (NoneRun(p)' <=> NoneRun(p))
                /\ (AloneIsGood(p)' <=> AloneIsGood(p))
BY DEF AllRun, NoneRun, AloneIsGood

\* The child goes on to the next priority, or stops with what it has.
LEMMA NextPriorityStep ==
  ASSUME IInv, Earned, NEW code \in Codes \cup {Success, -1}, NextPriority(code),
         main \in {"priority", "wait"}, child = "running", AllRun(priority),
         code = Success => AloneIsGood(priority),
         UNCHANGED <<pool, child, parent>>
  PROVE  Earned'
<1> USE DEF pool
<1>1. Last \in Nat \ {0} /\ priority \in 1..Last
  BY LastIsNat DEF IInv, Types
<1>2. CASE code = Success /\ priority < Last
  <2>1. priority' = priority + 1 /\ main' = "priority" /\ status' = Success
    BY <1>2 DEF NextPriority
  <2>2. PriorityByPriority'
    <3>1. \A p \in 1..(priority' - 1) : p \in 1..(priority - 1) \/ p = priority
      BY <1>1, <2>1
    <3>2. priority' \in (priority + 1)..Last /\ \A p \in (priority' + 1)..Last : p \in (priority + 1)..Last
      BY <1>1, <1>2, <2>1
    <3> QED
      BY <1>2, <2>1, <3>1, <3>2, SamePriority DEF Earned, PriorityByPriority
  <2> QED
    BY <2>1, <2>2 DEF Earned, Outcomes, OneAfterTheOther, ErrorIsOnItsWay, StatusIsTrue
<1>3. CASE ~(code = Success /\ priority < Last)
  <2>1. priority' = priority /\ main' = "stop" /\ status' = code
    BY <1>3 DEF NextPriority
  <2>2. PriorityByPriority'
    BY <2>1, SamePriority DEF Earned, PriorityByPriority
  <2>3. ASSUME code = Success PROVE \A p \in 1..Last : AllRun(p) /\ AloneIsGood(p)
    <3>1. \A p \in 1..Last : p \in 1..(priority - 1) \/ p = priority
      BY <1>1, <1>3, <2>3
    <3> QED
      BY <2>3, <3>1 DEF Earned, PriorityByPriority
  <2>4. StatusIsTrue'
    BY <2>1, <2>3, SamePriority DEF Earned, StatusIsTrue
  <2> QED
    BY <2>1, <2>2, <2>4 DEF Earned, Outcomes, OneAfterTheOther, ErrorIsOnItsWay
<1> QED
  BY <1>2, <1>3

\* The tasks are dealt out: nobody has begun.
LEMMA RunTaskStep == ASSUME IInv, Earned, RunTask, child = "running" PROVE Earned'
<1> USE DEF RunTask
<1>1. priority \in 1..Last /\ Len(Scripts[priority]) \in Nat /\ Dealt = DOMAIN Scripts[priority]
  BY Places DEF IInv, Types, Dealt
<1>2. Outcomes'
  BY DEF Earned, Outcomes
<1>3. PriorityByPriority'
  BY SamePriority DEF Earned, PriorityByPriority
<1>4. \A t \in Threads : worker[t] = "idle" /\ (flag'[t] <=> t <= Len(Scripts[priority]))
  BY DEF IInv, Joins
<1>5. ASSUME NEW i \in Dealt PROVE Front(Owner(i))' = 1
  <2>1. i \in Nat \ {0} /\ i <= Len(Scripts[priority])
    BY <1>1 DEF Dealt
  <2>2. Owner(i) \in Threads /\ Owner(i) <= i
    BY <2>1, Owners
  <2>3. Owner(i) \in Int
    BY <2>2, Pool
  <2>4. flag'[Owner(i)] /\ worker'[Owner(i)] = "idle"
    BY <1>1, <1>4, <2>1, <2>2, <2>3
  <2> QED
    BY <2>4 DEF Front
<1>6. OneAfterTheOther'
  <2>1. \A i \in Dealt : outcome[Scripts[priority][i]] = None /\ i >= 1
    BY <1>1 DEF Earned, PriorityByPriority, NoneRun, Dealt
  <2>2. \A t \in Threads : flag'[t] => t \in Dealt
    BY <1>1, <1>4, Pool DEF Dealt
  <2>3. Dealt' = Dealt /\ priority' = priority /\ outcome' = outcome
    BY DEF Dealt
  <2>4. \A i \in Dealt : ~(i < Front(Owner(i))')
    BY <1>1, <1>5, <2>1 DEF Dealt
  <2>5. \A t \in Threads : worker'[t] = "idle"
    BY <1>4
  <2> QED
    BY <2>1, <2>2, <2>3, <2>4, <2>5 DEF OneAfterTheOther
<1>7. ErrorIsOnItsWay'
  BY <1>1, <1>4, Pool DEF ErrorIsOnItsWay
<1>8. StatusIsTrue'
  BY DEF Earned, StatusIsTrue, outside
<1> QED
  BY <1>2, <1>3, <1>6, <1>7, <1>8 DEF Earned

\* A step that leaves the scripts, the priorities and the status alone.
LEMMA EarnedApart ==
  ASSUME IInv, Earned, UNCHANGED <<pool, priority, status>>,
         \/ main' = main
         \/ main' \notin {"start", "priority", "wait"} /\ main \notin {"start", "priority", "wait"},
         main' \in {"start", "priority", "wait", "stop", "join", "release", "result", "exit"},
         child' = "exited" => (child = "exited" /\ main' = main) \/ main' = "exit",
         parent' = "UPDATE_SUCCESS" => child' = "exited" /\ status = Success
  PROVE  Earned'
<1> USE DEF Earned, pool
<1>1. Outcomes'
  BY DEF Outcomes
<1>2. PriorityByPriority'
  BY SamePriority DEF PriorityByPriority
<1>3. OneAfterTheOther' /\ ErrorIsOnItsWay'
  BY DEF OneAfterTheOther, ErrorIsOnItsWay, Dealt, Owner, Front
<1>4. StatusIsTrue'
  BY SamePriority DEF StatusIsTrue
<1> QED
  BY <1>1, <1>2, <1>3, <1>4

\* The main thread.
LEMMA MainEarns == ASSUME IInv, Earned, Main PROVE Earned'
<1>0. child = "running" /\ parent # "UPDATE_SUCCESS"
  BY DEF Main, Earned, StatusIsTrue
<1>1. CASE ExecFails \/ PrepareFails
  <2>1. /\ main = "start" /\ status' \in Codes \cup {-1} /\ status' # Success
        /\ UNCHANGED <<pool, priority, parent>> /\ main' \in {"start", "result"}
        /\ (main' = "start" \/ child' = child)
    BY <1>1, Failures DEF ExecFails, PrepareFails, prog, control, outside
  <2>2. Outcomes' /\ OneAfterTheOther' /\ ErrorIsOnItsWay'
    BY <2>1 DEF pool, Earned, Outcomes, OneAfterTheOther, ErrorIsOnItsWay
  <2>3. PriorityByPriority'
    BY <2>1, SamePriority DEF pool, Earned, PriorityByPriority
  <2> QED
    BY <1>0, <2>1, <2>2, <2>3 DEF Earned, StatusIsTrue
<1>2. CASE CreateProgressThread
  <2>1. /\ main = "start" /\ UNCHANGED <<pool, priority, parent>> /\ child' # "exited"
        /\ \/ main' = "priority" /\ status' = Success
           \/ main' = "result" /\ status' \in Codes /\ status' # Success
    BY <1>0, <1>2, Failures DEF CreateProgressThread, PostMessage, outside
  <2>2. Outcomes' /\ OneAfterTheOther' /\ ErrorIsOnItsWay'
    BY <2>1 DEF pool, Earned, Outcomes, OneAfterTheOther, ErrorIsOnItsWay
  <2>3. PriorityByPriority'
    BY <2>1, SamePriority DEF pool, Earned, PriorityByPriority
  <2> QED
    BY <1>0, <2>1, <2>2, <2>3 DEF Earned, StatusIsTrue
<1>3. CASE NoScripts
  <2>1. AllRun(priority) /\ AloneIsGood(priority)
    BY <1>3 DEF NoScripts, AllRun, AloneIsGood
  <2> QED
    BY <1>0, <1>3, <2>1, NextPriorityStep DEF NoScripts, outside
<1>4. CASE RunTask
  BY <1>0, <1>4, RunTaskStep
<1>5. CASE TaskDone
  <2>1. main = "wait" /\ \A t \in Threads : ~flag[t] /\ worker[t] = "idle"
    BY <1>5 DEF TaskDone, IInv, Joins
  <2>2. priority \in 1..Last /\ Len(Scripts[priority]) \in Nat /\ Dealt = DOMAIN Scripts[priority]
    BY Places DEF IInv, Types, Dealt
  <2>3. ASSUME NEW i \in Dealt PROVE outcome[Scripts[priority][i]] # None
    <3>1. i \in Nat \ {0} /\ i < Len(Scripts[priority]) + 1
      BY <2>2 DEF Dealt
    <3>2. Front(Owner(i)) = Len(Scripts[priority]) + 1
      BY <2>1, <3>1, Owners DEF Front
    <3> QED
      BY <2>1, <3>1, <3>2 DEF Earned, OneAfterTheOther
  <2>4. AllRun(priority)
    BY <2>2, <2>3 DEF AllRun
  <2>5. retCode = Success => AloneIsGood(priority)
    BY <2>1, Pool DEF Earned, ErrorIsOnItsWay, AloneIsGood
  <2>6. retCode \in Codes \cup {Success, -1}
    BY DEF Earned, Outcomes
  <2> QED
    BY <1>0, <1>5, <2>1, <2>4, <2>5, <2>6, NextPriorityStep DEF TaskDone, outside
<1>6. CASE SetProgressExitFlag \/ JoinProgressThread \/ ReleaseScriptManager
  BY <1>0, <1>6, EarnedApart DEF SetProgressExitFlag, JoinProgressThread, ReleaseScriptManager, prog, outside, pool
<1>7. CASE PostResult \/ Exit
  <2>1. /\ main' = "exit" /\ main \in {"result", "exit"} /\ UNCHANGED <<pool, priority, status, parent>>
    BY <1>7 DEF PostResult, Exit, outside, control
  <2> QED
    BY <1>0, <2>1, EarnedApart
<1> QED
  BY <1>1, <1>2, <1>3, <1>4, <1>5, <1>6, <1>7 DEF Main

\* Neither the progress thread nor the parent earns anything.
LEMMA ProgressEarns == ASSUME IInv, Earned, ProgressThread PROVE Earned'
<1>1. /\ UNCHANGED <<pool, priority, status, main, parent>> /\ child = "running"
      /\ child' # "exited"
  BY DEF ProgressThread, LookAtFlag, SendProgress, PostMessage, control, outside
<1>2. parent # "UPDATE_SUCCESS" /\ main \in {"start", "priority", "wait", "stop", "join", "release", "result", "exit"}
  BY <1>1 DEF Earned, StatusIsTrue, Outcomes
<1> QED
  BY <1>1, <1>2, EarnedApart

LEMMA ParentEarns == ASSUME IInv, Earned, Parent PROVE Earned'
<1>1. UNCHANGED <<pool, priority, status, main, child>>
  BY DEF Parent, OpenPipe, OpenFails, HandlePipeMsg, EndOfPipe, CheckProcStatus, control
<1>2. parent' = "UPDATE_SUCCESS" => child = "exited" /\ status = Success
  <2>1. ASSUME parent' = "UPDATE_SUCCESS", CheckProcStatus PROVE child = "exited" /\ status % 256 = 0
    BY <2>1 DEF CheckProcStatus
  <2>2. ASSUME status % 256 = 0 PROVE status = Success
    BY <2>2, ScriptRunAssumption DEF Earned, Outcomes
  <2>3. ASSUME parent' = "UPDATE_SUCCESS", ~CheckProcStatus PROVE parent = "UPDATE_SUCCESS"
    BY <2>3 DEF Parent, OpenPipe, OpenFails, HandlePipeMsg, EndOfPipe
  <2> QED
    BY <2>1, <2>2, <2>3 DEF Earned, StatusIsTrue
<1>3. main \in {"start", "priority", "wait", "stop", "join", "release", "result", "exit"}
  BY DEF Earned, Outcomes
<1> QED
  BY <1>1, <1>2, <1>3, EarnedApart

-----------------------------------------------------------------------------
\* A thread that works has a script of its own, at its place, not yet behind it.
LEMMA AtWork ==
  ASSUME IInv, Earned, NEW t \in Threads, worker[t] # "idle" \/ flag[t]
  PROVE  /\ main = "wait" /\ flag[t] /\ t \in Dealt /\ t \in Nat \ {0}
         /\ priority \in 1..Last /\ Dealt = DOMAIN Scripts[priority]
         /\ Len(Scripts[priority]) \in Nat /\ Dealt = 1..Len(Scripts[priority])
         /\ worker[t] # "idle" => at[t] \in Dealt /\ Owner(at[t]) = t
<1>1. flag[t] /\ main = "wait"
  BY DEF IInv, Types, Joins
<1>2. priority \in 1..Last
  BY DEF IInv, Types
<1> QED
  BY <1>1, <1>2, Places, Pool DEF Earned, OneAfterTheOther, Dealt

\* A thread goes on: its own scripts are as far as before, and those of the
\* others are left alone.
LEMMA GoesOn ==
  ASSUME IInv, Earned, NEW t \in Threads, worker[t] # "idle" \/ flag[t],
         UNCHANGED <<outcome, priority, main>>,
         \A u \in Threads \ {t} : worker'[u] = worker[u] /\ at'[u] = at[u] /\ flag'[u] = flag[u],
         flag'[t] => flag[t],
         worker'[t] # "idle" => at'[t] \in Dealt /\ Owner(at'[t]) = t,
         \A i \in Dealt : Owner(i) = t => (i < Front(t)' <=> i < Front(t))
  PROVE  OneAfterTheOther'
<1>1. main = "wait" /\ Dealt' = Dealt /\ Dealt = 1..Len(Scripts[priority])
  BY AtWork DEF Dealt
<1>2. OneAfterTheOther
  BY DEF Earned
<1>3. ASSUME NEW i \in Dealt PROVE i < Front(Owner(i))' <=> i < Front(Owner(i))
  <2>1. i \in Nat \ {0}
    BY <1>1, AtWork
  <2>2. Owner(i) \in Threads
    BY <2>1, Owners
  <2>3. CASE Owner(i) = t
    BY <2>3
  <2>4. CASE Owner(i) # t
    BY <2>2, <2>4 DEF Front
  <2> QED
    BY <2>3, <2>4
<1>4. \A u \in Threads : flag'[u] => u \in Dealt
  BY <1>1, <1>2 DEF OneAfterTheOther
<1>5. \A u \in Threads : worker'[u] # "idle" => at'[u] \in Dealt /\ Owner(at'[u]) = u
  BY <1>1, <1>2 DEF OneAfterTheOther
<1> QED
  BY <1>1, <1>2, <1>3, <1>4, <1>5 DEF OneAfterTheOther

\* The next script of a thread is Stride further on; without one the thread has
\* done all that are its own.
LEMMA NextScriptStep ==
  ASSUME IInv, Earned, NEW t \in Threads, worker[t] \in {"test", "copy"}, NextScript(t),
         UNCHANGED <<outcome, priority, main>>
  PROVE  /\ OneAfterTheOther' /\ at' \in [Threads -> Nat]
         /\ worker'[t] \in {"run", "idle"} /\ (worker'[t] = "idle" <=> ~flag'[t])
         /\ \A u \in Threads \ {t} : worker'[u] = worker[u] /\ flag'[u] = flag[u]
         /\ Len(Scripts[priority]) = 1 => worker'[t] = "idle"
<1>0. worker[t] # "idle" /\ flag[t]
  BY AtWork
<1>1. /\ Dealt = 1..Len(Scripts[priority]) /\ Len(Scripts[priority]) \in Nat
      /\ at[t] \in Dealt /\ Owner(at[t]) = t /\ at[t] \in Nat \ {0}
  BY <1>0, AtWork
<1>2. Stride \in Nat \ {0} /\ t \in Nat \ {0}
  BY Pool
<1>3. /\ flag \in [Threads -> BOOLEAN] /\ at \in [Threads -> Nat] 
      /\ worker \in [Threads -> {"idle", "run", "assign", "test", "copy"}]
  BY DEF IInv, Types, Earned, Outcomes
<1>4. \A i \in Dealt : Owner(i) = t /\ at[t] < i => at[t] + Stride <= i
  BY <1>1, OwnersNext
<1>5. Front(t) = at[t] + 1
  BY <1>0 DEF Front
<1>6. CASE at[t] + Stride <= Len(Scripts[priority])
  <2>1. /\ worker' = [worker EXCEPT ![t] = "run"] /\ at' = [at EXCEPT ![t] = @ + Stride]
        /\ flag' = flag
    BY <1>6 DEF NextScript, Become
  <2>2. worker'[t] = "run" /\ at'[t] = at[t] + Stride /\ at' \in [Threads -> Nat]
    BY <1>1, <1>2, <1>3, <2>1
  <2>3. at'[t] \in Dealt /\ Owner(at'[t]) = t
    <3>1. at[t] + Stride \in Dealt
      BY <1>1, <1>2, <1>6
    <3>2. Owner(at[t] + Stride) = t
      BY <1>1, Owners
    <3> QED
      BY <2>2, <3>1, <3>2
  <2>4. Front(t)' = at[t] + Stride
    BY <2>2 DEF Front
  <2>5. \A i \in Dealt : Owner(i) = t => (i < Front(t)' <=> i < Front(t))
    BY <1>1, <1>2, <1>4, <1>5, <2>4
  <2>6. \A u \in Threads \ {t} : worker'[u] = worker[u] /\ at'[u] = at[u] /\ flag'[u] = flag[u]
    BY <1>3, <2>1
  <2>7. OneAfterTheOther'
    BY <1>0, <2>1, <2>3, <2>5, <2>6, GoesOn
  <2>8. Len(Scripts[priority]) # 1
    <3>1. at[t] >= 1 /\ Stride >= 1 /\ at[t] \in Int /\ Stride \in Int
      BY <1>1, <1>2
    <3>2. at[t] + Stride >= 2 /\ at[t] + Stride \in Int
      BY <3>1
    <3>3. ASSUME NEW n \in Nat, NEW k \in Int, k <= n, k >= 2 PROVE n # 1
      BY <3>3
    <3> QED
      BY <1>1, <1>6, <3>2, <3>3
  <2> QED
    BY <1>0, <2>1, <2>2, <2>6, <2>7, <2>8
<1>7. CASE ~(at[t] + Stride <= Len(Scripts[priority]))
  <2>1. /\ worker' = [worker EXCEPT ![t] = "idle"] /\ flag' = [flag EXCEPT ![t] = FALSE]
        /\ at' = at
    BY <1>7 DEF NextScript, Become
  <2>2. worker'[t] = "idle" /\ ~flag'[t]
    BY <1>3, <2>1
  <2>3. Front(t)' = Len(Scripts[priority]) + 1
    BY <2>2 DEF Front
  <2>4. \A i \in Dealt : Owner(i) = t => (i < Front(t)' <=> i < Front(t))
    BY <1>1, <1>2, <1>4, <1>5, <1>7, <2>3
  <2>5. \A u \in Threads \ {t} : worker'[u] = worker[u] /\ at'[u] = at[u] /\ flag'[u] = flag[u]
    BY <1>3, <2>1
  <2>6. OneAfterTheOther'
    BY <1>0, <2>2, <2>4, <2>5, GoesOn
  <2> QED
    BY <1>3, <2>1, <2>2, <2>5, <2>6
<1> QED
  BY <1>6, <1>7

\* What a step of a thread leaves as it is.
LEMMA WorkerApart ==
  ASSUME IInv, Earned, NEW t \in Threads, Worker(t)
  PROVE  /\ worker[t] # "idle" \/ flag[t]
         /\ UNCHANGED <<main, priority, status, parent>> /\ main = "wait"
         /\ child' # "exited" /\ parent # "UPDATE_SUCCESS"
         /\ StatusIsTrue'
<1>1. worker[t] # "idle" \/ flag[t]
  BY DEF Worker, TakeTask, ExtractAndExecuteScript, Crash, AssignRet, TestRet, CopyRet
<1>2. UNCHANGED <<main, priority, status, parent>>
  BY DEF Worker, TakeTask, ExtractAndExecuteScript, Crash, AssignRet, TestRet, CopyRet, control,
         outside
<1>3. child' # "exited"
  BY DEF Worker, TakeTask, ExtractAndExecuteScript, Crash, AssignRet, TestRet, CopyRet, PostMessage
<1>4. main = "wait" /\ parent # "UPDATE_SUCCESS"
  BY <1>1, AtWork DEF Worker, Earned, StatusIsTrue
<1> QED
  BY <1>1, <1>2, <1>3, <1>4 DEF StatusIsTrue

\* With a script alone in its priority, the first thread is the one at work.
LEMMA Alone ==
  ASSUME IInv, Earned, NEW t \in Threads, worker[t] # "idle" \/ flag[t], Len(Scripts[priority]) = 1
  PROVE  t = 1 /\ (worker[t] # "idle" => at[t] = 1)
BY AtWork

\* A script ends: it is the thread's next one, and has not run before.
LEMMA ScriptEnds ==
  ASSUME IInv, Earned, NEW t \in Threads, Worker(t), ExtractAndExecuteScript(t)
  PROVE  Earned'
<1> DEFINE s == Scripts[priority][at[t]]
<1>1. PICK code \in Codes \cup {Success} : outcome' = [outcome EXCEPT ![s] = code]
  BY DEF ExtractAndExecuteScript, Script
<1>2. /\ worker[t] = "run" /\ worker' = [worker EXCEPT ![t] = "assign"]
      /\ UNCHANGED <<flag, ret, retCode, at>>
  BY DEF ExtractAndExecuteScript, Become
<1>3. UNCHANGED <<main, priority, status>> /\ main = "wait" /\ StatusIsTrue'
  BY WorkerApart
<1>4. /\ priority \in 1..Last /\ Dealt = DOMAIN Scripts[priority] /\ Dealt = 1..Len(Scripts[priority])
      /\ Len(Scripts[priority]) \in Nat /\ at[t] \in Dealt /\ Owner(at[t]) = t
  BY <1>2, AtWork
<1>5. s \in AllScripts /\ code # None
  BY <1>4, Places, ScriptRunAssumption
<1>6. /\ outcome \in [AllScripts -> Codes \cup {Success, None}]
      /\ worker \in [Threads -> {"idle", "run", "assign", "test", "copy"}]
  BY DEF IInv, Types, Earned, Outcomes
<1>7. outcome'[s] = code /\ \A r \in AllScripts \ {s} : outcome'[r] = outcome[r]
  BY <1>1, <1>5, <1>6
<1>8. worker'[t] = "assign" /\ \A u \in Threads \ {t} : worker'[u] = worker[u]
  BY <1>2, <1>6
<1>9. \A p \in 1..Last : p # priority =>
        \A i \in DOMAIN Scripts[p] : Scripts[p][i] \in AllScripts \ {s}
  BY <1>4, Places, ScriptRunAssumption
<1>10. \A i \in Dealt : i # at[t] => Scripts[priority][i] \in AllScripts \ {s}
  BY <1>4, Places, ScriptRunAssumption
<1> HIDE DEF s
<1>11. Outcomes'
  BY <1>1, <1>2, <1>3, <1>6 DEF Earned, Outcomes
<1>12. PriorityByPriority'
  <2>1. Last \in Nat \ {0}
    BY LastIsNat
  <2>2. \A p \in 1..Last : p # priority =>
          (AllRun(p) => AllRun(p)') /\ (NoneRun(p) => NoneRun(p)') 
    BY <1>7, <1>9 DEF AllRun, NoneRun
  <2>3. \A p \in 1..Last : p # priority => (AloneIsGood(p) => AloneIsGood(p)')
    <3> SUFFICES ASSUME NEW p \in 1..Last, p # priority, Len(Scripts[p]) = 1
                 PROVE  outcome'[Scripts[p][1]] = outcome[Scripts[p][1]]
      BY DEF AloneIsGood
    <3>1. 1 \in DOMAIN Scripts[p]
      BY Places
    <3> QED
      BY <1>7, <1>9, <3>1
  <2>4. /\ \A p \in 1..(priority - 1) : p \in 1..Last /\ p # priority
        /\ \A p \in (priority + 1)..Last : p \in 1..Last /\ p # priority
    BY <1>4, <2>1
  <2> QED
    BY <1>3, <2>2, <2>3, <2>4 DEF Earned, PriorityByPriority
<1>13. OneAfterTheOther'
  <2>1. OneAfterTheOther
    BY DEF Earned
  <2>2. Front(t) = at[t] /\ Front(t)' = at[t] + 1
    BY <1>2, <1>8 DEF Front
  <2>3. ASSUME NEW i \in Dealt
        PROVE  outcome'[Scripts[priority][i]] # None <=> i < Front(Owner(i))'
    <3>1. i \in Nat \ {0} /\ at[t] \in Nat \ {0}
      BY <1>4
    <3>2. CASE i = at[t]
      BY <1>4, <1>5, <1>7, <2>2, <3>1, <3>2 DEF s
    <3>3. CASE i # at[t]
      <4>1. outcome'[Scripts[priority][i]] = outcome[Scripts[priority][i]]
        BY <1>7, <1>10, <3>3
      <4>2. i < Front(Owner(i))' <=> i < Front(Owner(i))
        <5>1. CASE Owner(i) = t
          BY <2>2, <3>1, <3>3, <5>1
        <5>2. CASE Owner(i) # t
          <6>1. Owner(i) \in Threads \ {t}
            BY <3>1, <5>2, Owners
          <6> QED
            BY <1>2, <1>3, <1>8, <6>1 DEF Front
        <5> QED
          BY <5>1, <5>2
      <4> QED
        BY <1>3, <2>1, <4>1, <4>2 DEF OneAfterTheOther
    <3> QED
      BY <3>2, <3>3
  <2>4. Dealt' = Dealt
    BY <1>3 DEF Dealt
  <2>5. \A u \in Threads : flag'[u] => u \in Dealt
    BY <1>2, <1>3, <2>1 DEF OneAfterTheOther
  <2>6. \A u \in Threads : worker'[u] # "idle" => at'[u] \in Dealt /\ Owner(at'[u]) = u
    BY <1>2, <1>3, <1>4, <1>8, <2>1 DEF OneAfterTheOther
  <2> QED
    BY <1>3, <2>3, <2>4, <2>5, <2>6 DEF OneAfterTheOther
<1>14. ErrorIsOnItsWay'
  <2> SUFFICES ASSUME Len(Scripts[priority]) = 1
               PROVE  worker'[1] = "assign" /\ flag'[1]
    BY <1>3 DEF ErrorIsOnItsWay
  <2>1. t = 1 /\ flag[t]
    BY <1>2, Alone, AtWork
  <2> QED
    BY <1>2, <1>8, <2>1
<1> QED
  BY <1>3, <1>11, <1>12, <1>13, <1>14 DEF Earned

\* A thread of the pool keeps all of it.
LEMMA WorkerEarns == ASSUME IInv, Earned, NEW t \in Threads, Worker(t) PROVE Earned'
<1>1. /\ worker[t] # "idle" \/ flag[t]
      /\ UNCHANGED <<main, priority, status, parent>> /\ main = "wait" /\ StatusIsTrue'
  BY WorkerApart
<1>2. /\ Dealt = 1..Len(Scripts[priority]) /\ flag[t] /\ t \in Nat \ {0} /\ t \in Dealt
      /\ worker[t] # "idle" => at[t] \in Dealt /\ Owner(at[t]) = t
  BY <1>1, AtWork
<1>3. /\ flag \in [Threads -> BOOLEAN] /\ at \in [Threads -> Nat]
      /\ worker \in [Threads -> {"idle", "run", "assign", "test", "copy"}]
      /\ {ret, retCode} \subseteq Codes \cup {Success, -1}
      /\ outcome \in [AllScripts -> Codes \cup {Success, None}]
  BY DEF IInv, Types, Earned, Outcomes
<1>4. outcome' = outcome => PriorityByPriority'
  BY <1>1, SamePriority DEF Earned, PriorityByPriority
<1>5. ASSUME worker[t] # "idle" PROVE outcome[Script(t)] \in Codes \cup {Success} <=> outcome[Script(t)] # None
  BY <1>1, <1>2, <1>3, <1>5, AtWork, Places, ScriptRunAssumption DEF Script
<1>6. CASE TakeTask(t)
  <2>1. /\ worker[t] = "idle" /\ worker' = [worker EXCEPT ![t] = "run"]
        /\ at' = [at EXCEPT ![t] = t] /\ UNCHANGED <<flag, ret, retCode, outcome>>
    BY <1>6 DEF TakeTask, Become
  <2>2. worker'[t] = "run" /\ at'[t] = t /\ at' \in [Threads -> Nat]
    BY <1>2, <1>3, <2>1
  <2>3. \A u \in Threads \ {t} : worker'[u] = worker[u] /\ at'[u] = at[u] /\ flag'[u] = flag[u]
    BY <1>3, <2>1
  <2>4. \A i \in Dealt : Owner(i) = t => t <= i
    BY <1>1, AtWork, Owners
  <2>5. Front(t) = 1 /\ Front(t)' = t
    BY <1>2, <2>1, <2>2 DEF Front
  <2>6. \A i \in Dealt : Owner(i) = t => (i < Front(t)' <=> i < Front(t))
    BY <1>1, <1>2, <2>4, <2>5, AtWork
  <2>7. OneAfterTheOther'
    BY <1>1, <1>2, <2>1, <2>2, <2>3, <2>6, GoesOn, OwnFirst
  <2>8. Outcomes'
    BY <1>1, <2>1, <2>2 DEF Earned, Outcomes
  <2>9. ErrorIsOnItsWay'
    BY <1>1, <1>2, <2>1, <2>2, Alone DEF ErrorIsOnItsWay
  <2> QED
    BY <1>1, <1>4, <2>1, <2>7, <2>8, <2>9 DEF Earned
<1>7. CASE ExtractAndExecuteScript(t)
  BY <1>7, ScriptEnds
<1>8. CASE Crash(t)
  <2>1. UNCHANGED <<pool, priority, status, main, parent>> /\ main = "wait"
    BY <1>1, <1>8 DEF Crash, control, outside
  <2> QED
    BY <1>1, <2>1, EarnedApart, WorkerApart
<1>9. CASE AssignRet(t)
  <2>1. /\ worker[t] = "assign" /\ worker' = [worker EXCEPT ![t] = "test"]
        /\ ret' = outcome[Script(t)] /\ UNCHANGED <<flag, retCode, at, outcome>>
    BY <1>9 DEF AssignRet, Become
  <2>2. worker'[t] = "test" /\ \A u \in Threads \ {t} : worker'[u] = worker[u]
    BY <1>3, <2>1
  <2>3. Front(t) = at[t] + 1 /\ Front(t)' = at[t] + 1
    BY <2>1, <2>2 DEF Front
  <2>4. OneAfterTheOther'
    BY <1>1, <1>2, <2>1, <2>2, <2>3, GoesOn
  <2>5. outcome[Script(t)] # None
    <3>1. at[t] \in Nat /\ at[t] < at[t] + 1 /\ Front(Owner(at[t])) = at[t] + 1
      BY <1>2, <1>3, <2>1, <2>3
    <3> QED
      BY <1>1, <1>2, <2>1, <3>1 DEF Earned, OneAfterTheOther, Script
  <2>6. Outcomes'
    BY <1>1, <1>5, <2>1, <2>5 DEF Earned, Outcomes
  <2>7. ErrorIsOnItsWay'
    BY <1>1, <1>2, <2>1, <2>2, Alone DEF ErrorIsOnItsWay, Script
  <2> QED
    BY <1>1, <1>4, <2>1, <2>4, <2>6, <2>7 DEF Earned
<1>10. CASE TestRet(t)
  <2>1. worker[t] = "test" /\ UNCHANGED <<ret, retCode, outcome>>
    BY <1>10 DEF TestRet
  <2>2. CASE ret = Success
    <3>1. NextScript(t)
      BY <1>10, <2>2 DEF TestRet
    <3>2. /\ OneAfterTheOther' /\ at' \in [Threads -> Nat]
          /\ worker'[t] \in {"run", "idle"} /\ (worker'[t] = "idle" <=> ~flag'[t])
          /\ Len(Scripts[priority]) = 1 => worker'[t] = "idle"
      BY <1>1, <2>1, <3>1, NextScriptStep
    <3>3. ErrorIsOnItsWay'
      <4> SUFFICES ASSUME Len(Scripts[priority]) = 1
                   PROVE  worker'[1] = "idle" /\ outcome'[Scripts[priority][1]] = Success
        BY <1>1 DEF ErrorIsOnItsWay
      <4>1. t = 1
        BY <1>1, Alone
      <4>2. outcome[Scripts[priority][1]] = Success
        BY <1>1, <2>1, <2>2, <4>1 DEF Earned, ErrorIsOnItsWay
      <4> QED
        BY <2>1, <3>2, <4>1, <4>2
    <3>4. Outcomes'
      BY <1>1, <2>1, <3>2 DEF Earned, Outcomes
    <3> QED
      BY <1>1, <1>4, <2>1, <3>2, <3>3, <3>4 DEF Earned
  <2>3. CASE ret # Success
    <3>1. worker' = [worker EXCEPT ![t] = "copy"] /\ UNCHANGED <<at, flag>>
      BY <1>10, <2>3 DEF TestRet, Become
    <3>2. worker'[t] = "copy" /\ \A u \in Threads \ {t} : worker'[u] = worker[u]
      BY <1>3, <3>1
    <3>3. Front(t) = at[t] + 1 /\ Front(t)' = at[t] + 1
      BY <2>1, <3>1, <3>2 DEF Front
    <3>4. OneAfterTheOther'
      BY <1>1, <1>2, <2>1, <3>1, <3>2, <3>3, GoesOn
    <3>5. ErrorIsOnItsWay'
      <4> SUFFICES ASSUME Len(Scripts[priority]) = 1
                   PROVE  worker'[1] = "copy" /\ flag'[1] /\ ret' = outcome'[Scripts[priority][1]]
        BY <1>1, <2>1, <2>3 DEF ErrorIsOnItsWay
      <4>1. t = 1
        BY <1>1, Alone
      <4> QED
        BY <1>1, <1>2, <2>1, <3>1, <3>2, <4>1 DEF Earned, ErrorIsOnItsWay
    <3>6. Outcomes'
      BY <1>1, <2>1, <3>1 DEF Earned, Outcomes
    <3> QED
      BY <1>1, <1>4, <2>1, <3>4, <3>5, <3>6 DEF Earned
  <2> QED
    BY <2>2, <2>3
<1>11. CASE CopyRet(t)
  <2>1. worker[t] = "copy" /\ retCode' = ret /\ NextScript(t) /\ UNCHANGED <<ret, outcome>>
    BY <1>11 DEF CopyRet
  <2>2. /\ OneAfterTheOther' /\ at' \in [Threads -> Nat]
        /\ worker'[t] \in {"run", "idle"} /\ (worker'[t] = "idle" <=> ~flag'[t])
        /\ Len(Scripts[priority]) = 1 => worker'[t] = "idle"
    BY <1>1, <2>1, NextScriptStep
  <2>3. ErrorIsOnItsWay'
    <3> SUFFICES ASSUME Len(Scripts[priority]) = 1
                 PROVE  worker'[1] = "idle" /\ retCode' # Success
      BY <1>1 DEF ErrorIsOnItsWay
    <3>1. t = 1
      BY <1>1, Alone
    <3> QED
      BY <1>1, <2>1, <2>2, <3>1 DEF Earned, ErrorIsOnItsWay
  <2>4. Outcomes'
    BY <1>1, <2>1, <2>2 DEF Earned, Outcomes
  <2> QED
    BY <1>1, <1>4, <2>1, <2>2, <2>3, <2>4 DEF Earned
<1> QED
  BY <1>6, <1>7, <1>8, <1>9, <1>10, <1>11 DEF Worker

-----------------------------------------------------------------------------
\* How the scripts are dealt out, and what has been done of them.
THEOREM EarnedHolds == Spec => []Earned
<1>1. Init => Earned
  <2> SUFFICES ASSUME Init PROVE Earned
    OBVIOUS
  <2>1. Outcomes
    BY Pool DEF Init, Outcomes
  <2>2. \A p \in 1..Last : NoneRun(p)
    BY Places DEF Init, NoneRun
  <2>3. PriorityByPriority
    BY <2>2, LastIsNat DEF Init, PriorityByPriority
  <2>4. OneAfterTheOther /\ ErrorIsOnItsWay /\ StatusIsTrue
    BY Failures DEF Init, OneAfterTheOther, ErrorIsOnItsWay, StatusIsTrue
  <2> QED
    BY <2>1, <2>3, <2>4 DEF Earned
<1>2. IInv /\ Earned /\ [Next]_vars => Earned'
  <2> SUFFICES ASSUME IInv, Earned, [Next]_vars PROVE Earned'
    OBVIOUS
  <2>1. CASE UNCHANGED vars
    <3>1. UNCHANGED <<pool, priority, status, main, child, parent>>
      BY <2>1 DEF vars, control, outside
    <3> QED
      BY <3>1, EarnedApart DEF Earned, Outcomes, StatusIsTrue
  <2> QED
    BY <2>1, MainEarns, WorkerEarns, ProgressEarns, ParentEarns DEF Next
<1> QED
  BY <1>1, <1>2, IInvHolds, PTL DEF Spec

\* UPDATE_SUCCESS means that every script was run, and that none failed which
\* had its priority for itself: ExecuteScript returns what a script alone
\* returns, whatever the threads of the pool make of ret and retCode.
THEOREM SuccessesAreEarned == Spec => []SuccessIsEarned
<1>1. Earned => SuccessIsEarned
  <2> SUFFICES ASSUME Earned, parent = "UPDATE_SUCCESS"
               PROVE  /\ \A s \in AllScripts : outcome[s] # None
                      /\ \A p \in 1..Last : Len(Scripts[p]) = 1 => outcome[Scripts[p][1]] = Success
    BY DEF SuccessIsEarned
  <2>1. \A p \in 1..Last : AllRun(p) /\ AloneIsGood(p)
    BY DEF Earned, StatusIsTrue
  <2>2. \A s \in AllScripts : \E p \in 1..Last : \E i \in DOMAIN Scripts[p] : s = Scripts[p][i]
    BY DEF AllScripts, Range
  <2> QED
    BY <2>1, <2>2 DEF AllRun, AloneIsGood
<1> QED
  BY <1>1, EarnedHolds, PTL

\* ThreadPool and ExecuteScript run each script once, and none before all
\* scripts of the priorities before its own have ended.
THEOREM ScriptsRunInOrder == Spec => RunsInOrder
<1>1. IInv /\ Earned => InOrder
  <2> SUFFICES ASSUME IInv, Earned, NEW s \in AllScripts, outcome[s] # None, NEW r \in Before(s)
               PROVE  outcome[r] # None
    BY DEF InOrder
  <2>1. Last \in Nat \ {0} /\ priority \in 1..Last
    BY LastIsNat DEF IInv, Types
  <2>2. PICK q \in 1..Last : r \in Range(Scripts[q])
                             /\ \E p \in (q + 1)..Last : s \in Range(Scripts[p])
    BY DEF Before
  <2>3. PICK p \in (q + 1)..Last : s \in Range(Scripts[p])
    BY <2>2
  <2>4. p \in 1..Last /\ q < p
    BY <2>1, <2>3
  <2>5. PICK i \in DOMAIN Scripts[p], j \in DOMAIN Scripts[q] : s = Scripts[p][i] /\ r = Scripts[q][j]
    BY <2>2, <2>3 DEF Range
  <2>6. p \notin (priority + 1)..Last
    BY <2>5 DEF Earned, PriorityByPriority, NoneRun
  <2>7. q \in 1..(priority - 1)
    BY <2>1, <2>2, <2>4, <2>6
  <2> QED
    BY <2>5, <2>7 DEF Earned, PriorityByPriority, AllRun
<1>2. IInv /\ Earned => \A t \in Threads : worker[t] = "run" => outcome[Script(t)] = None
  <2> SUFFICES ASSUME IInv, Earned, NEW t \in Threads, worker[t] = "run"
               PROVE  outcome[Script(t)] = None
    OBVIOUS
  <2>1. /\ main = "wait" /\ at[t] \in Dealt /\ Owner(at[t]) = t /\ at[t] \in Nat
    BY AtWork
  <2>2. Front(Owner(at[t])) = at[t]
    BY <2>1 DEF Front
  <2>3. ~(at[t] < Front(Owner(at[t])))
    BY <2>1, <2>2
  <2> QED
    BY <2>1, <2>3 DEF Earned, OneAfterTheOther, Script
<1>3. IInv /\ Earned =>
        [\A t \in Threads : worker[t] = "run" /\ worker'[t] # "run" => outcome[Script(t)] = None]_vars
  BY <1>2
<1> QED
  BY <1>1, <1>3, IInvHolds, EarnedHolds, PTL DEF RunsInOrder, RunsOnce
=============================================================================
