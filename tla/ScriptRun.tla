------------------------------ MODULE ScriptRun ------------------------------
(***************************************************************************)
(* The updater and the process it starts.  The child, updater_binary, runs *)
(* the scripts of the package, priority by priority, those of a priority   *)
(* in the threads of a pool; a progress thread reports meanwhile.  The     *)
(* parent reads the child's messages from a pipe until the result or the   *)
(* end, waits for the child, and makes an UpdaterStatus of both.           *)
(*                                                                         *)
(* The threads of the pool share two variables of ExecuteScript, ret and   *)
(* retCode, without a lock: every access is a step of its own.             *)
(***************************************************************************)
EXTENDS Integers, Sequences, FiniteSetsExt

CONSTANTS
  Scripts,      \* scriptFiles_: for each priority, its scripts
  MaxThreads,   \* MAX_THREAD_POOL
  Codes,        \* what a script or a step of ExecUpdate may fail with
  None,         \* the outcome of a script that has not run
  MaxProgress   \* bound: how many set_progress messages are sent

Success == 0    \* USCRIPT_SUCCESS
Last == Len(Scripts)    \* MAX_PRIORITY: priorities are counted from 1
AllScripts == UNION {Range(Scripts[p]) : p \in 1..Last}
Threads == 1..Min({MaxThreads, Max({Len(Scripts[p]) : p \in 1..Last})})
Stride == Cardinality(Threads)    \* threadNumber_

ASSUME ScriptRunAssumption ==
  /\ Scripts \in Seq(Seq(AllScripts)) /\ Last > 0 /\ AllScripts # {}
  /\ MaxThreads \in Nat \ {0} /\ MaxProgress \in Nat
  /\ \A p, q \in 1..Last : \A i \in DOMAIN Scripts[p], j \in DOMAIN Scripts[q] :
       Scripts[p][i] = Scripts[q][j] => p = q /\ i = j
  \* The codes of the child's enumerations survive the 8 bits of an exit status.
  /\ \A c \in Codes : c \in Int /\ c % 256 # 0
  /\ None \notin Codes \cup {Success}

VARIABLES
  main,         \* what the main thread of the child does next
  priority,     \* the priority under way
  flag,         \* subTaskFlag of the one slot of the pool
  ret, retCode, \* the variables that the task captures by reference
  status,       \* ret of ExecUpdate, and then of main
  worker,       \* what a thread of the pool does next
  at,           \* the script it is at
  progress,     \* what the progress thread does next
  exitFlag,     \* g_progressExitFlag
  sent,         \* bound: set_progress messages so far
  child,        \* how the child is seen from outside
  pipe,         \* messages written and not yet read
  parent,       \* what the parent does next, or the UpdaterStatus it returned
  retryUpdate,  \* retryUpdate of StartUpdaterProc
  outcome,      \* history: what each script ended with
  asked         \* history: a script asked for a retry

pool    == <<flag, ret, retCode, worker, at, outcome, asked>>
prog    == <<progress, exitFlag, sent>>
control == <<main, priority, status>>
outside == <<parent, retryUpdate>>
vars    == <<pool, prog, control, child, pipe, outside>>

Results == {"UPDATE_SUCCESS", "UPDATE_RETRY", "UPDATE_ERROR"}

TypeOK ==
  /\ main \in {"start", "priority", "wait", "stop", "join", "release", "result", "exit"}
  /\ priority \in 1..Last
  /\ flag \in [Threads -> BOOLEAN]
  /\ {ret, retCode, status} \subseteq Codes \cup {Success, -1}
  /\ worker \in [Threads -> {"idle", "run", "assign", "test", "copy"}]
  /\ \A t \in Threads : worker[t] # "idle" => at[t] \in DOMAIN Scripts[priority]
  /\ progress \in {"none", "run", "post", "ended"}
  /\ {exitFlag, retryUpdate, asked} \subseteq BOOLEAN
  /\ sent \in 0..MaxProgress
  /\ child \in {"running", "exited", "segv", "killed", "sigpipe"}
  /\ pipe \in Seq({"progress", "retry", "result"})
  /\ parent \in {"forked", "reading", "waiting", "failed"} \cup Results
  /\ \A s \in AllScripts : outcome[s] \in Codes \cup {Success, None}

Init ==
  /\ main = "start" /\ priority = 1 /\ status = -1
  /\ flag = [t \in Threads |-> FALSE] /\ ret = Success /\ retCode = Success
  /\ worker = [t \in Threads |-> "idle"] /\ at = [t \in Threads |-> 1]
  /\ progress = "none" /\ exitFlag = FALSE /\ sent = 0
  /\ child = "running" /\ pipe = <<>> /\ parent = "forked" /\ retryUpdate = FALSE
  /\ outcome = [s \in AllScripts |-> None] /\ asked = FALSE

-----------------------------------------------------------------------------
(***************************************************************************)
(* The child's end of the pipe.  A write after the parent has closed its   *)
(* end kills the child.                                                    *)
(***************************************************************************)
PostMessage(m) ==
  IF parent \in {"forked", "reading"}
  THEN pipe' = Append(pipe, m) /\ UNCHANGED child
  ELSE child' = "sigpipe" /\ UNCHANGED pipe

(***************************************************************************)
(* The main thread of the child.                                           *)
(***************************************************************************)
\* updater_binary cannot be executed, or its arguments are not good: the child
\* leaves without a word.
ExecFails ==
  /\ main = "start"
  /\ child' = "exited" /\ status' \in Codes \cup {-1}
  /\ UNCHANGED <<pool, prog, main, priority, pipe, outside>>

\* The package, its signature, the scripts that are run first or the partition
\* table are not good.
PrepareFails ==
  /\ main = "start"
  /\ \E c \in Codes : status' = c
  /\ main' = "result"
  /\ UNCHANGED <<pool, prog, priority, child, pipe, outside>>

CreateProgressThread ==
  /\ main = "start"
  /\ PostMessage("progress")
  /\ \/ progress' = "run" /\ main' = "priority" /\ status' = Success
     \/ progress' = progress /\ main' = "result" /\ status' \in Codes
  /\ UNCHANGED <<pool, exitFlag, sent, priority, outside>>

\* As if the last priority were left out.
NextPriorityEarly(code) ==
  /\ status' = code
  /\ IF code = Success /\ priority + 1 < Last
     THEN priority' = priority + 1 /\ main' = "priority"
     ELSE priority' = priority /\ main' = "stop"

NextPriority(code) ==
  /\ status' = code
  /\ IF code = Success /\ priority < Last
     THEN priority' = priority + 1 /\ main' = "priority"
     ELSE priority' = priority /\ main' = "stop"

NoScripts ==
  /\ main = "priority" /\ Scripts[priority] = <<>>
  /\ NextPriority(Success)
  /\ UNCHANGED <<pool, prog, child, pipe, outside>>

\* As if one flag too few were set.
RunTaskOffByOne ==
  /\ main = "priority" /\ Scripts[priority] # <<>>
  /\ ret' = Success /\ retCode' = Success
  /\ flag' = [t \in Threads |-> t < Len(Scripts[priority])]
  /\ main' = "wait"
  /\ UNCHANGED <<worker, at, outcome, asked, prog, priority, status, child, pipe, outside>>

\* The slot of the pool is free whenever main gets here.
RunTask ==
  /\ main = "priority" /\ Scripts[priority] # <<>>
  /\ ret' = Success /\ retCode' = Success
  /\ flag' = [t \in Threads |-> t <= Len(Scripts[priority])]
  /\ main' = "wait"
  /\ UNCHANGED <<worker, at, outcome, asked, prog, priority, status, child, pipe, outside>>

TaskDone ==
  /\ main = "wait" /\ \A t \in Threads : ~flag[t]
  /\ NextPriority(retCode)
  /\ UNCHANGED <<pool, prog, child, pipe, outside>>

\* As if the progress thread were told, and not waited for.
SetProgressExitFlagOnly ==
  /\ main = "stop"
  /\ exitFlag' = TRUE /\ main' = "release"
  /\ UNCHANGED <<pool, progress, sent, priority, status, child, pipe, outside>>

SetProgressExitFlag ==
  /\ main = "stop"
  /\ exitFlag' = TRUE /\ main' = "join"
  /\ UNCHANGED <<pool, progress, sent, priority, status, child, pipe, outside>>

JoinProgressThread ==
  /\ main = "join" /\ progress = "ended"
  /\ main' = "release"
  /\ UNCHANGED <<pool, prog, priority, status, child, pipe, outside>>

\* The threads of the pool are joined, and the environment is deleted.
ReleaseScriptManager ==
  /\ main = "release" /\ \A t \in Threads : worker[t] = "idle"
  /\ main' = "result"
  /\ UNCHANGED <<pool, prog, priority, status, child, pipe, outside>>

PostResult ==
  /\ main = "result"
  /\ PostMessage("result")
  /\ main' = "exit"
  /\ UNCHANGED <<pool, prog, priority, status, outside>>

Exit ==
  /\ main = "exit"
  /\ child' = "exited"
  /\ UNCHANGED <<pool, prog, control, pipe, outside>>

Main == /\ child = "running"
        /\ \/ ExecFails \/ PrepareFails \/ CreateProgressThread
           \/ NoScripts \/ RunTask \/ TaskDone
           \/ SetProgressExitFlag \/ JoinProgressThread \/ ReleaseScriptManager
           \/ PostResult \/ Exit

-----------------------------------------------------------------------------
(***************************************************************************)
(* A thread of the pool runs every Stride-th script of the priority.       *)
(***************************************************************************)
Script(t) == Scripts[priority][at[t]]
Become(t, place) == worker' = [worker EXCEPT ![t] = place]

TakeTask(t) ==
  /\ worker[t] = "idle" /\ flag[t]
  /\ Become(t, "run") /\ at' = [at EXCEPT ![t] = t]
  /\ UNCHANGED <<flag, ret, retCode, outcome, asked, prog, control, child, pipe, outside>>

\* The script comes to its end, or fails; an instruction that met a fault has
\* the parent told, and fails.
ExtractAndExecuteScript(t) ==
  /\ worker[t] = "run"
  /\ \E code \in Codes \cup {Success} : outcome' = [outcome EXCEPT ![Script(t)] = code]
  /\ \/ UNCHANGED <<asked, child, pipe>>
     \/ outcome'[Script(t)] # Success /\ PostMessage("retry") /\ asked' = TRUE
  /\ Become(t, "assign")
  /\ UNCHANGED <<flag, ret, retCode, at, prog, control, outside>>

\* An instruction brings the whole child down.
Crash(t) ==
  /\ worker[t] = "run"
  /\ child' \in {"segv", "killed"}
  /\ UNCHANGED <<pool, prog, control, pipe, outside>>

AssignRet(t) ==
  /\ worker[t] = "assign"
  /\ ret' = outcome[Script(t)]
  /\ Become(t, "test")
  /\ UNCHANGED <<flag, retCode, at, outcome, asked, prog, control, child, pipe, outside>>

\* As if a thread went through the scripts one by one.
NextScriptByOne(t) ==
  IF at[t] + 1 <= Len(Scripts[priority])
  THEN Become(t, "run") /\ at' = [at EXCEPT ![t] = @ + 1] /\ UNCHANGED flag
  ELSE Become(t, "idle") /\ flag' = [flag EXCEPT ![t] = FALSE] /\ UNCHANGED at

NextScript(t) ==
  IF at[t] + Stride <= Len(Scripts[priority])
  THEN Become(t, "run") /\ at' = [at EXCEPT ![t] = @ + Stride] /\ UNCHANGED flag
  ELSE Become(t, "idle") /\ flag' = [flag EXCEPT ![t] = FALSE] /\ UNCHANGED at

TestRet(t) ==
  /\ worker[t] = "test"
  /\ IF ret = Success THEN NextScript(t) ELSE Become(t, "copy") /\ UNCHANGED <<at, flag>>
  /\ UNCHANGED <<ret, retCode, outcome, asked, prog, control, child, pipe, outside>>

\* As if a failure ended the thread's work without a word to main.
CopyRetAndLeave(t) ==
  /\ worker[t] = "copy"
  /\ retCode' = ret
  /\ Become(t, "idle")
  /\ UNCHANGED <<flag, at, ret, outcome, asked, prog, control, child, pipe, outside>>

CopyRet(t) ==
  /\ worker[t] = "copy"
  /\ retCode' = ret
  /\ NextScript(t)
  /\ UNCHANGED <<ret, outcome, asked, prog, control, child, pipe, outside>>

Worker(t) == /\ child = "running"
             /\ \/ TakeTask(t) \/ ExtractAndExecuteScript(t) \/ Crash(t)
                \/ AssignRet(t) \/ TestRet(t) \/ CopyRet(t)

(***************************************************************************)
(* The progress thread looks at the flag, and then sends what is new.      *)
(***************************************************************************)
LookAtFlag ==
  /\ progress = "run"
  /\ \/ exitFlag /\ progress' = "ended"
     \/ ~exitFlag /\ sent < MaxProgress /\ progress' = "post"
  /\ UNCHANGED <<pool, exitFlag, sent, control, child, pipe, outside>>

SendProgress ==
  /\ progress = "post"
  /\ PostMessage("progress")
  /\ progress' = "run" /\ sent' = sent + 1
  /\ UNCHANGED <<pool, exitFlag, control, outside>>

ProgressThread == child = "running" /\ (LookAtFlag \/ SendProgress)

-----------------------------------------------------------------------------
(***************************************************************************)
(* The parent.                                                             *)
(***************************************************************************)
OpenPipe ==
  /\ parent = "forked"
  /\ parent' = "reading"
  /\ UNCHANGED <<pool, prog, control, child, pipe, retryUpdate>>

\* fdopen fails: the pipe is closed and UPDATE_ERROR returned, and nobody
\* waits for the child.
OpenFails ==
  /\ parent = "forked"
  /\ parent' = "failed" /\ pipe' = <<>>
  /\ UNCHANGED <<pool, prog, control, child, retryUpdate>>

HandlePipeMsg ==
  /\ parent = "reading" /\ pipe # <<>>
  /\ retryUpdate' = (retryUpdate \/ Head(pipe) = "retry")
  /\ IF Head(pipe) = "result" THEN parent' = "waiting" /\ pipe' = <<>>
     ELSE parent' = parent /\ pipe' = Tail(pipe)
  /\ UNCHANGED <<pool, prog, control, child>>

\* As if the end of the child were noticed before its last messages.
EndOfPipeEarly ==
  /\ parent = "reading" /\ child # "running"
  /\ parent' = "waiting" /\ pipe' = <<>>
  /\ UNCHANGED <<pool, prog, control, child, retryUpdate>>

EndOfPipe ==
  /\ parent = "reading" /\ pipe = <<>> /\ child # "running"
  /\ parent' = "waiting"
  /\ UNCHANGED <<pool, prog, control, child, pipe, retryUpdate>>

CheckProcStatus ==
  /\ parent = "waiting" /\ child # "running"
  /\ parent' = IF retryUpdate \/ child = "segv" THEN "UPDATE_RETRY"
               ELSE IF child = "exited" /\ status % 256 = 0 THEN "UPDATE_SUCCESS"
               ELSE "UPDATE_ERROR"
  /\ UNCHANGED <<pool, prog, control, child, pipe, retryUpdate>>

Parent == OpenPipe \/ OpenFails \/ HandlePipeMsg \/ EndOfPipe \/ CheckProcStatus

Next == Main \/ (\E t \in Threads : Worker(t)) \/ ProgressThread \/ Parent

Spec == Init /\ [][Next]_vars

\* The scheduler runs every thread and process that can run; a script ends.
FairSpec == /\ Spec
            /\ WF_vars(Main) /\ WF_vars(ProgressThread) /\ WF_vars(Parent)
            /\ \A t \in Threads : WF_vars(Worker(t))

-----------------------------------------------------------------------------
Before(s) == UNION {Range(Scripts[q]) : q \in {q \in 1..Last : \E p \in (q + 1)..Last :
                                                  s \in Range(Scripts[p])}}

\* ExecuteScript returns only when all scripts of its priority have ended: none
\* runs, or has run, beside a script of a lower priority.
InOrder ==
  \A s \in AllScripts : outcome[s] # None => \A r \in Before(s) : outcome[r] # None

\* However the scripts are dealt out to the threads, none is run twice.
RunsOnce ==
  [][\A t \in Threads : worker[t] = "run" /\ worker'[t] # "run" => outcome[Script(t)] = None]_vars

\* RunsInOrder: ThreadPool and ExecuteScript run each script once, and none before all
\* scripts of the priorities before its own have ended.
RunsInOrder == []InOrder /\ RunsOnce

\* A retry that a script asked for is what the updater gets, whatever became
\* of the child since.
RetryIsKept == asked /\ parent \in Results => parent = "UPDATE_RETRY"

\* Nothing is written once the parent may have stopped reading: the child is
\* never killed by its own message.
NeverBroken == child = "sigpipe" => parent = "failed"

\* UPDATE_SUCCESS means that every script was run, and that none failed which
\* had its priority for itself.
SuccessIsEarned ==
  parent = "UPDATE_SUCCESS" =>
    /\ \A s \in AllScripts : outcome[s] # None
    /\ \A p \in 1..Last : Len(Scripts[p]) = 1 => outcome[Scripts[p][1]] = Success

\* ExecuteScript returns the error of a script of its priority: the test of the
\* script engine expects USCRIPT_ABOART from one with a script that aborts.
FailureIsReturned ==
  parent = "UPDATE_SUCCESS" => \A s \in AllScripts : outcome[s] = Success

\* The updater always gets its status, and the child does not outlive it.
Ends == <>[](parent \in Results \cup {"failed"} /\ child # "running")
=============================================================================
