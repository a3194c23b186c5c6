---------------------------- MODULE ScriptInterp ----------------------------
(***************************************************************************)
(* The interpreter of the update scripts (script_interpreter) and the       *)
(* instructions it has built in (script_instruction), as one thread of the   *)
(* script manager uses them: registerCmd.us, loadScript.us and then the      *)
(* scripts of each priority.  ScriptRun has the threads.                     *)
(*                                                                           *)
(* A script is what the parser makes of it: its functions and its            *)
(* statements.  One step executes one statement of the script that runs.     *)
(***************************************************************************)
EXTENDS ScriptValues, FiniteSets

CONSTANTS
  ScriptPackages,       \* packages: .register and .load name a script or are "", .scripts the parsed ones
  UserNames,      \* names of the instructions of the environment's factory
  Libraries,      \* path of a library of instructions -> whether it opens, the names it makes
  MaxPriority,    \* MAX_PRIORITY
  UpdaterDir      \* the path below which directories may be deleted

VARIABLES
  pkg,            \* the package whose scripts are executed
  failing,        \* the instructions of the factory and of the libraries that fail
  garbage,        \* the code an error without a code is read as
  script,         \* the script that runs, "" before the first and after the last
  pc,             \* its next statement
  result,         \* how the script ended: "running", "success", "failed" or "crashed"
  stage,          \* "register", "load", "run" or "end"
  priority, index,   \* the scripts of which priority run, how many of them have begun
  retCode,        \* what ExecuteScript returns: "success" or "failed"
  world           \* what statements change

interpVars == <<pkg, failing, garbage, script, pc, result, stage, priority, index, retCode, world>>

\* The instructions a script manager registers before it reads a script.
BuiltIn == {"RegisterCmder", "LoadScript", "Stdout", "Abort", "Assert", "Sleep", "Concat", "IsSubString",
            "set_progress", "show_progress", "ui_print", "DeleteFile", "DeleteDir", "set_proportion"}
Reserved == {"LoadScript", "RegisterCmd", "abort", "assert", "concat", "is_substring", "stdout", "sleep",
             "set_progress", "ui_print", "show_progress", "set_proportion"}

\* ScriptInstructionHelper::AddInstruction and ScriptManagerImpl's: a name that is there is replaced.
AddInstruction(name, instrs) == IF name \in Reserved THEN instrs ELSE [n \in DOMAIN instrs \cup {name} |-> IF n = name THEN "user" ELSE instrs[n]]

Top == 1
NoVariables == [n \in {} |-> Null]
\* The contexts, the stack of them and the calls are the running script's, the rest is the manager's.
Fresh(w) == [w EXCEPT !.contexts = <<NoVariables>>, !.stack = <<Top>>, !.calls = <<>>]
InterpInit ==
  /\ pkg \in ScriptPackages /\ failing \in SUBSET (UserNames \cup UNION {Libraries[l].makes : l \in DOMAIN Libraries})
  /\ garbage \in {0, 1}
  /\ script = "" /\ pc = 1 /\ result = "success" /\ stage = "register" /\ priority = 0 /\ index = 0 /\ retCode = "success"
  /\ world = [contexts |-> <<NoVariables>>, stack |-> <<Top>>, calls |-> <<>>, unheard |-> FALSE, crashed |-> FALSE,
              told |-> <<>>, files |-> pkg.files, lib |-> <<>>, opened |-> FALSE,
              loaded |-> [p \in 0..MaxPriority - 1 |-> <<>>],
              instrs |-> FoldLeft(LAMBDA i, n : AddInstruction(n, i), [n \in BuiltIn |-> "built-in"], SetToSeq(UserNames))]
-----------------------------------------------------------------------------
(* Instructions.  A parameter is taken as what it is, never converted.        *)

Param(params, i, type) == i \in DOMAIN params /\ params[i].t = type
Params(params, types) == \A i \in DOMAIN types : Param(params, i, types[i])
Done(w) == [ok |-> TRUE, out |-> <<>>, w |-> w]
Gives(v, w) == [ok |-> TRUE, out |-> <<v>>, w |-> w]
Refused(w) == [ok |-> FALSE, out |-> <<>>, w |-> w]
Tell(what, w) == Done([w EXCEPT !.told = Append(@, what)])

Concat(params, w) ==
  IF ~Param(params, 1, "string") THEN Refused(w)
  ELSE LET parts == SelectSeq(Tail(params), LAMBDA v : v.t \in {"int", "float", "string"})
       IN Gives(Str(FoldLeft(LAMBDA s, v : s \o ToText(v), params[1].v, parts)), w)
IsSubString(params, w) ==
  IF ~Params(params, <<"string", "string">>) THEN Refused(w)
  ELSE Gives(Truth(\E i \in 1..Len(params[1].v) + 1 : IsPrefix(params[2].v, SubSeq(params[1].v, i, Len(params[1].v)))), w)
AssertOrAbort(params, w) == IF Param(params, 1, "int") /\ params[1].v # 0 THEN Done(w) ELSE Refused(w)

\* Files are deleted in their order until one fails: a file that is not there is none,
\* a directory cannot be unlinked.
RECURSIVE DeleteFile(_, _)
DeleteFile(params, w) ==
  IF params = <<>> THEN Done(w)
  ELSE IF ~Param(params, 1, "string") \/ params[1].v = <<>> \/ (\E f \in w.files : IsStrictPrefix(params[1].v, f)) THEN Refused(w)
  ELSE DeleteFile(Tail(params), [w EXCEPT !.files = @ \ {params[1].v}])
\* A directory that is not below UpdaterDir is left alone, one that does not exist is an error.
RECURSIVE DeleteDir(_, _)
DeleteDir(params, w) ==
  IF params = <<>> THEN Done(w)
  ELSE LET there == Param(params, 1, "string") /\ \E f \in w.files : IsPrefix(params[1].v, f)
           below == there /\ IsPrefix(UpdaterDir, params[1].v)
       IN IF ~there \/ (below /\ params[1].v \in w.files) THEN Refused(w)
          ELSE DeleteDir(Tail(params), [w EXCEPT !.files = IF below THEN {f \in @ : ~IsPrefix(params[1].v, f)} ELSE @])

\* ScriptManagerImpl::AddScript.
AddScript(name, p, w) ==
  IF p \in 0..MaxPriority - 1 /\ name \in {<<n>> : n \in DOMAIN pkg.scripts}
  THEN Done([w EXCEPT !.loaded[p] = Append(@, name[1])]) ELSE Refused(w)
LoadScript(params, w) ==
  IF Params(params, <<"string", "int">>) THEN AddScript(params[1].v, params[2].v, w) ELSE Refused(w)

\* All libraries are the one that was named first, even if it did not open.
RegisterUserInstruction(path, name, w) ==
  LET known == path \in DOMAIN Libraries /\ w.lib \in {<<>>, path}
      w1 == [w EXCEPT !.lib = IF known THEN path ELSE @, !.opened = @ \/ (known /\ Libraries[path].opens)]
  IN IF w1.opened /\ known /\ name \in {<<n>> : n \in Libraries[path].makes \ Reserved}
     THEN Done([w1 EXCEPT !.instrs = AddInstruction(name[1], @)])
     ELSE Refused(w1)
RegisterCmder(params, w) ==
  IF Params(params, <<"string", "string">>) THEN RegisterUserInstruction(params[2].v, params[1].v, w) ELSE Refused(w)

\* What an instruction of the factory or of a library does is not this module's.
UserInstruction(name, w) == IF name \in failing THEN Refused(w) ELSE Done(w)

Instruction(name, params, w) ==
  CASE w.instrs[name] = "user" -> UserInstruction(name, w)
    [] OTHER ->
       CASE name = "Concat" -> Concat(params, w)
         [] name = "IsSubString" -> IsSubString(params, w)
         [] name \in {"Abort", "Assert"} -> AssertOrAbort(params, w)
         [] name = "Sleep" -> IF Param(params, 1, "int") THEN Done(w) ELSE Refused(w)
         [] name = "Stdout" -> Done(w)
         [] name = "DeleteFile" -> DeleteFile(params, w)
         [] name = "DeleteDir" -> DeleteDir(params, w)
         [] name = "LoadScript" -> LoadScript(params, w)
         [] name = "RegisterCmder" -> RegisterCmder(params, w)
         [] name \in {"set_progress", "set_proportion"} ->
              IF Param(params, 1, "float") THEN Tell(<<name, params[1].v>>, w) ELSE Refused(w)
         [] name = "show_progress" ->
              IF Params(params, <<"float", "float">>) THEN Tell(<<name, params[1].v, params[2].v>>, w) ELSE Refused(w)
         [] name = "ui_print" -> IF Param(params, 1, "string") THEN Tell(<<name, params[1].v>>, w) ELSE Refused(w)
-----------------------------------------------------------------------------
(* Variables.  A context is a scope; the stack holds those that are open, and *)
(* a name is looked for from the last of them up to the script's own: what    *)
(* a function does not define it finds in its caller.                          *)

Visible(w) == {i \in DOMAIN w.stack : \A j \in DOMAIN w.stack : j > i => w.stack[j] # Top}
Holders(name, w) == {i \in Visible(w) : name \in DOMAIN w.contexts[w.stack[i]]}
FindVariable(name, w) ==
  LET h == Holders(name, w)
      i == CHOOSE i \in h : \A j \in h : j <= i
  IN IF h = {} THEN Bare ELSE w.contexts[w.stack[i]][name]
UpdateVariable(name, v, w) ==
  LET h == {w.stack[i] : i \in Holders(name, w)}
  IN [w EXCEPT !.contexts = [c \in DOMAIN @ |-> IF c \in h THEN [@[c] EXCEPT ![name] = v] ELSE @[c]]]

Defined(context, name, v) == [n \in DOMAIN context \cup {name} |-> IF n = name THEN v ELSE context[n]]
Spread(v) == IF v.t = "list" THEN v.v ELSE <<v>>
\* UpdateVariables: the values of a list go to as many names as there are.
UpdateVariables(context, names, v, from) ==
  LET n == SelectSeq([i \in DOMAIN Spread(v) |-> i], LAMBDA i : from + i - 1 \in DOMAIN names)
  IN FoldLeft(LAMBDA c, i : Defined(c, names[from + i - 1], Spread(v)[i]), context, n)
-----------------------------------------------------------------------------
(* Expressions and statements.  With(v, w) is a value and the world after it; *)
(* Ended(kind, v, w) how a statement ended.                                    *)

With(v, w) == [v |-> v, w |-> w]
Crashed(w) == With(Null, [w EXCEPT !.crashed = TRUE])
Ended(kind, v, w) == [kind |-> kind, v |-> v, w |-> w]
Normal(w) == Ended("normal", Null, w)
InvalidParam(w) == Ended("error", Error, w)
\* Nobody looks at the errors of what is evaluated here.
Unheard(w) == [w EXCEPT !.unheard = TRUE]
HeardAs(w, before) == [w EXCEPT !.unheard = before.unheard]
None == [op |-> "none"]

RECURSIVE Eval(_, _, _), Block(_, _, _)

\* The parameters of an instruction: the first that fails is the end of it.
RECURSIVE NativeParams(_, _, _, _)
MoreParams(args, local, params, r) ==
  IF Fails(r.v) THEN [ok |-> FALSE, params |-> params, w |-> r.w]
  ELSE NativeParams(Tail(args), local, params \o Spread(r.v), r.w)
NativeParams(args, local, params, w) ==
  IF args = <<>> THEN [ok |-> TRUE, params |-> params, w |-> w]
  ELSE MoreParams(args, local, params, Eval(args[1], local, w))
Called(name, unheard, r) ==
  With(IF r.ok THEN List(r.out) ELSE Error, [r.w EXCEPT !.calls = Append(@, [name |-> name, ok |-> r.ok, unheard |-> unheard])])
ExecuteNativeFunc(e, a) ==
  IF ~a.ok THEN With(Error, a.w) ELSE Called(e.name, a.w.unheard, Instruction(e.name, a.params, a.w))

Function(name) ==
  LET f == pkg.scripts[script].functions
      i == CHOOSE i \in DOMAIN f : f[i].name = name /\ \A j \in DOMAIN f : f[j].name = name => i <= j
  IN f[i]
IsFunction(name) == \E i \in DOMAIN pkg.scripts[script].functions : pkg.scripts[script].functions[i].name = name
\* GetParamNames: up to the first parameter that is not a name.
ParamNames(params) ==
  LET n == {i \in DOMAIN params : \A j \in 1..i : params[j].op = "name"}
  IN [i \in n |-> params[i].name]
\* The arguments are spread over the names: a list may fill several, and then the next has none.
RECURSIVE Bind(_, _, _, _, _, _)
BindNext(args, local, names, i, context, r) ==
  IF Fails(r.v) \/ i > Len(names) THEN [ok |-> FALSE, context |-> context, w |-> r.w]
  ELSE Bind(Tail(args), local, names, i + Len(Spread(r.v)), UpdateVariables(context, names, r.v, i), r.w)
Bind(args, local, names, i, context, w) ==
  IF args = <<>> THEN [ok |-> TRUE, context |-> context, w |-> w]
  ELSE BindNext(args, local, names, i, context, Eval(args[1], local, w))
\* A function gives what its last statement gave, and a null pointer if that is an error.
Result(r) == With(IF r.kind = "error" THEN Null ELSE r.v, r.w)
Enter(f, a) ==
  IF ~a.ok THEN With(Error, a.w)
  ELSE Result(Block(f.body, Len(a.w.contexts) + 1, [a.w EXCEPT !.contexts = Append(@, a.context)]))
ExecuteFunction(e, local, w) ==
  IF ~IsFunction(e.name) \/ Len(Function(e.name).params) # Len(e.args) THEN With(Error, w)
  ELSE Enter(Function(e.name), Bind(e.args, local, ParamNames(Function(e.name).params), 1, NoVariables, w))

\* A value that could not be computed is a null pointer, and is looked into.
Assign(e, local, r) ==
  CASE IsNull(r.v) -> Crashed(r.w)
    [] IsError(r.v) -> r
    [] ~Fails(r.v) ->
         With(r.v, IF Holders(e.names[1], r.w) # {} THEN UpdateVariable(e.names[1], r.v, r.w)
                   ELSE [r.w EXCEPT !.contexts[local] = UpdateVariables(@, e.names, r.v, 1)])

\* Only "or" may do without its right side.  A float that is compared for equality
\* differs from an error and makes none of it.
Compute(l, op, r) == With(IF IsNull(l.v) \/ IsNull(r.v) THEN Error ELSE Computer(l.v, op, r.v), HeardAs(r.w, l.w))
Binary(e, local, l) ==
  IF e.op = "||" /\ IsTrue(l.v) THEN With(Truth(TRUE), l.w)
  ELSE Compute(l, e.op,
               Eval(e.right, local, IF e.op \in {"==", "!="} /\ Single(l.v).t = "float" THEN Unheard(l.w) ELSE l.w))

Eval(e, local, w) ==
  IF w.crashed THEN With(Null, w)
  ELSE CASE e.op = "literal" -> With(e.value, w)
         [] e.op = "name" -> With(FindVariable(e.name, w), w)
         [] e.op = "assign" -> Assign(e, local, Eval(e.of, local, w))
         [] e.op = "call" -> IF e.name \in DOMAIN w.instrs THEN ExecuteNativeFunc(e, NativeParams(e.args, local, <<>>, w))
                             ELSE ExecuteFunction(e, local, w)
         [] OTHER -> Binary(e, local, Eval(e.left, local, w))

\* UpdateStatementResult.
ExpressionStatement(r) ==
  IF IsNull(r.v) THEN InvalidParam(r.w) ELSE Ended(IF IsError(r.v) THEN "error" ELSE "normal", r.v, r.w)

\* An expression that may be left out, and whose value nobody looks at.
Aside(e, local, w) == IF e = None THEN w ELSE HeardAs(Eval(e, local, Unheard(w)).w, w)
RECURSIVE Loop(_, _, _)
LoopEnd(st, local, b) ==
  CASE b.kind = "break" -> Normal(b.w)
    [] b.kind \in {"return", "error"} -> b
    [] OTHER -> Loop(st, local, Aside(st.after, local, b.w))
LoopBody(st, local, c) ==
  CASE Fails(c.v) -> InvalidParam(c.w)
    [] ~Fails(c.v) /\ ~IsTrue(c.v) -> Normal(c.w)
    [] OTHER -> LoopEnd(st, local, Block(st.body, local, c.w))
Loop(st, local, w) == LoopBody(st, local, IF st.condition = None THEN With(Truth(TRUE), w) ELSE Eval(st.condition, local, w))

\* A branch that is empty is none, and the others have a scope of their own.
RECURSIVE IfStatement(_, _, _)
\* As if a branch had no scope of its own.
BranchHere(st, local, c) ==
  LET taken == IF IsTrue(c.v) THEN st.then ELSE st.otherwise
  IN IF Fails(c.v) THEN InvalidParam(c.w)
     ELSE IF taken # <<>> THEN Block(taken, local, c.w)
     ELSE IF ~IsTrue(c.v) /\ st.elseIf # <<>> THEN IfStatement(st.elseIf[1], local, c.w)
     ELSE Normal(c.w)
Branch(st, local, c) ==
  LET taken == IF IsTrue(c.v) THEN st.then ELSE st.otherwise
  IN CASE Fails(c.v) -> InvalidParam(c.w)
       [] ~Fails(c.v) /\ taken # <<>> -> Block(taken, Len(c.w.contexts) + 1, [c.w EXCEPT !.contexts = Append(@, NoVariables)])
       [] ~Fails(c.v) /\ taken = <<>> ->
            IF ~IsTrue(c.v) /\ st.elseIf # <<>> THEN IfStatement(st.elseIf[1], local, c.w) ELSE Normal(c.w)
IfStatement(st, local, w) == Branch(st, local, Eval(st.condition, local, w))

\* What is returned may be an error.
RECURSIVE Returned(_, _, _, _)
ReturnNext(args, local, values, r) ==
  IF IsNull(r.v) THEN InvalidParam(Crashed(r.w).w) ELSE Returned(Tail(args), local, values \o Spread(r.v), r.w)
Returned(args, local, values, w) ==
  IF args = <<>> THEN Ended("return", List(values), w)
  ELSE ReturnNext(args, local, values, Eval(args[1], local, w))
ReturnStatement(st, local, w) ==
  IF st.args = <<>> THEN Ended("return", Null, w) ELSE [Returned(st.args, local, <<>>, Unheard(w)) EXCEPT !.w = HeardAs(@, w)]

Execute(st, local, w) ==
  CASE st.s = "expression" -> ExpressionStatement(Eval(st.of, local, w))
    [] st.s \in {"for", "while"} -> Loop(st, local, Aside(st.before, local, w))
    [] st.s = "if" -> IfStatement(st, local, w)
    [] st.s = "return" -> ReturnStatement(st, local, w)
    [] st.s \in {"break", "continue"} -> Ended(st.s, Null, w)

\* UScriptStatementList::Execute; the body of a loop or a function that is empty is a null pointer.
RECURSIVE Statements(_, _, _)
\* As if a list went on after a statement that failed.
NextAnyway(list, local, r) ==
  IF r.kind \notin {"normal", "error"} \/ Len(list) = 1 THEN r ELSE Statements(Tail(list), local, r.w)
NextStatement(list, local, r) == IF r.kind # "normal" \/ Len(list) = 1 THEN r ELSE Statements(Tail(list), local, r.w)
Statements(list, local, w) == NextStatement(list, local, Execute(list[1], local, w))
Block(body, local, w) ==
  IF body = <<>> \/ w.crashed THEN InvalidParam(Crashed(w).w)
  ELSE [Statements(body, local, [w EXCEPT !.stack = Append(@, local)]) EXCEPT !.w.stack = Front(@)]
-----------------------------------------------------------------------------
Statement == pkg.scripts[script].statements
\* The contexts of what ended are gone.
Kept(w) == [w EXCEPT !.contexts = <<@[Top]>>]

\* One statement of the running script; the last, or one that is not normal, ends it.
EndOf(r) ==
  CASE r.w.crashed -> "crashed"
    [] ~r.w.crashed /\ r.kind = "error" -> IF r.v = Bare /\ garbage = 0 THEN "success" ELSE "failed"
    [] OTHER -> IF r.kind # "normal" \/ pc = Len(Statement) THEN "success" ELSE "running"
RunStatement ==
  /\ result = "running"
  /\ \E r \in {Execute(Statement[pc], Top, world)} : world' = Kept(r.w) /\ result' = EndOf(r)
  /\ pc' = pc + 1
  /\ UNCHANGED <<pkg, failing, garbage, script, stage, priority, index, retCode>>

\* ExtractAndExecuteScript and LoadScript: a script that is not whole, does not parse or
\* has no statement fails at once.
Begin(name) ==
  /\ script' = name /\ pc' = 1 /\ world' = Fresh(world)
  /\ result' = IF pkg.scripts[name].whole /\ pkg.scripts[name].statements # <<>> THEN "running" ELSE "failed"
Idle == result \in {"success", "failed"}
\* ScriptManagerImpl::Init: registerCmd.us and then loadScript.us, if the package has them.
BeginInit ==
  LET name == IF stage = "register" THEN pkg.register ELSE pkg.load
  IN /\ Idle /\ stage \in {"register", "load"}
     /\ IF result = "failed" THEN /\ stage' = "end" /\ retCode' = "failed"
                                  /\ UNCHANGED <<script, pc, result, world>>
        ELSE /\ stage' = IF stage = "register" THEN "load" ELSE "run"
             /\ IF name = "" THEN UNCHANGED <<script, pc, result, world>> ELSE Begin(name)
             /\ UNCHANGED retCode
     /\ UNCHANGED <<pkg, failing, garbage, priority, index>>
\* As if there were one priority more.
OneMorePriority == priority = MaxPriority
\* ExecUpdate's loop over the priorities.
LastPriority == priority = MaxPriority - 1
\* ScriptManagerImpl::ExecuteScript for one priority after the other: all the scripts of
\* one are executed, and the next only if all of them succeeded.
BeginScript ==
  LET failed == retCode = "failed" \/ result = "failed"
      last == index = Len(world.loaded[priority])
  IN /\ Idle /\ stage = "run"
     /\ retCode' = IF failed THEN "failed" ELSE "success"
     /\ IF (index = 0 /\ priority = 0 /\ result = "failed")     \* loadScript.us failed
           \/ (last /\ (failed \/ LastPriority))
        THEN stage' = "end" /\ UNCHANGED <<priority, index, script, pc, result, world>>
        ELSE /\ stage' = stage
             /\ IF last THEN priority' = priority + 1 /\ index' = 0 /\ UNCHANGED <<script, pc, result, world>>
                ELSE priority' = priority /\ index' = index + 1 /\ Begin(world.loaded[priority][index + 1])
     /\ UNCHANGED <<pkg, failing, garbage>>
InterpNext == RunStatement \/ BeginInit \/ BeginScript
-----------------------------------------------------------------------------
InterpTypeOK ==
  /\ result \in {"running", "success", "failed", "crashed"} /\ retCode \in {"success", "failed"}
  /\ stage \in {"register", "load", "run", "end"} /\ priority \in 0..MaxPriority - 1
  /\ world.crashed = (result = "crashed") /\ ~world.unheard

\* An instruction that failed ends its script with an error, wherever in a function, a
\* loop, a condition or a parameter it was called, unless it is where the interpreter
\* looks at no error: the head of a for, a return, or what a float is compared with
\* (UScriptStatementResult::UpdateStatementResult and what leads to it).
FailureIsHeard ==
  (\E i \in DOMAIN world.calls : ~world.calls[i].ok /\ ~world.calls[i].unheard) => result \in {"failed", "crashed"}

RECURSIVE Assigned(_)
Assigned(e) ==
  CASE e.op = "assign" -> {e.names[i] : i \in DOMAIN e.names} \cup Assigned(e.of)
    [] e.op = "call" -> UNION {Assigned(e.args[i]) : i \in DOMAIN e.args}
    [] e.op \in {"none", "literal", "name"} -> {}
    [] OTHER -> Assigned(e.left) \cup Assigned(e.right)
RECURSIVE AssignedIn(_)
AssignedIn(list) ==
  UNION {CASE list[i].s = "expression" -> Assigned(list[i].of)
           [] list[i].s \in {"for", "while"} ->
                Assigned(list[i].before) \cup Assigned(list[i].condition) \cup Assigned(list[i].after) \cup AssignedIn(list[i].body)
           [] list[i].s = "if" -> Assigned(list[i].condition) \cup
                (IF list[i].elseIf = <<>> THEN {} ELSE AssignedIn(list[i].elseIf))
           [] OTHER -> {} : i \in DOMAIN list}
\* What a function or a branch defines is gone when it ends, by whatever way it ends, and
\* the contexts it opened are closed (ContextPush and ContextPop of UScriptStatementList).
ScopesHold ==
  /\ ~world.crashed => world.stack = <<Top>>
  /\ script # "" => DOMAIN world.contexts[Top] \subseteq AssignedIn(Statement)

\* A reserved name stays what it is (ScriptInstructionHelper::AddInstruction).
ReservedStay == \A n \in Reserved \cap BuiltIn : world.instrs[n] = "built-in"
\* The update does not succeed with a script that failed (ScriptManagerImpl::Init and
\* ExecuteScript, the loop over the priorities in update_processor.cpp).
FailureIsTold == result = "failed" /\ stage = "end" => retCode = "failed"
\* What the interpreter and its manager hold to (ScriptInterpreter::Execute).
ScriptsHold == InterpTypeOK /\ FailureIsHeard /\ ScopesHold /\ ReservedStay /\ FailureIsTold
=============================================================================
