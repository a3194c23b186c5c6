------------------------------ MODULE MCScripts ------------------------------
(***************************************************************************)
(* The packages of scripts MCDevice executes.                              *)
(***************************************************************************)
EXTENDS Integers, Sequences, TLC

Lit(t, v) == [op |-> "literal", value |-> [t |-> t, v |-> v]]
N(n) == Lit("int", n)
H(halves) == Lit("float", halves)
S(words) == Lit("string", words)
Var(name) == [op |-> "name", name |-> name]
Set(names, e) == [op |-> "assign", names |-> names, of |-> e]
Call(name, args) == [op |-> "call", name |-> name, args |-> args]
Op(left, op, right) == [op |-> op, left |-> left, right |-> right]
U == Call("u", <<>>)
V == Call("v", <<>>)
Nothing == [op |-> "none"]

Do(e) == [s |-> "expression", of |-> e]
Loops(s, before, condition, after, body) ==
  [s |-> s, before |-> before, condition |-> condition, after |-> after, body |-> body]
For(before, condition, after, body) == Loops("for", before, condition, after, body)
While(condition, body) == Loops("while", Nothing, condition, Nothing, body)
If(condition, then, otherwise, elseIf) ==
  [s |-> "if", condition |-> condition, then |-> then, otherwise |-> otherwise, elseIf |-> elseIf]
Return(args) == [s |-> "return", args |-> args]
Just(s) == [s |-> s]
Fun(name, params, body) == [name |-> name, params |-> params, body |-> body]
Program(functions, statements) == [whole |-> TRUE, functions |-> functions, statements |-> statements]

Sum == Fun("f", <<Var("a"), Var("b")>>, <<Do(U), Do(Set(<<"y">>, Op(Var("a"), "+", Var("b")))), Return(<<Var("y"), Var("a")>>)>>)
Down == Fun("g", <<Var("n")>>,
            <<If(Op(Var("n"), ">", N(0)),
                 <<Do(U), Do(Call("g", <<Op(Var("n"), "-", N(1))>>)), Do(Set(<<"z">>, Var("n")))>>, <<Do(V)>>, <<>>)>>)
Bad == Fun("h", <<>>, <<Do(Set(<<"outer">>, N(2))), Return(<<V>>)>>)
Empty == Fun("e", <<>>, <<>>)

Programs ==
  <<Program(<<>>, <<Do(U), Do(Set(<<"x">>, N(1))), Do(Call("w", <<>>))>>),
    Program(<<Sum, Fun("f", <<>>, <<>>)>>,
            <<Do(Set(<<"p", "q">>, Call("f", <<N(1), N(2)>>))), Do(Call("Assert", <<Op(Var("p"), "==", N(3))>>)), Do(Call("v", <<Var("p")>>))>>),
    Program(<<Down>>, <<Do(Call("g", <<N(2)>>)), Do(V)>>),
    Program(<<>>,
            <<For(Set(<<"i">>, N(0)), Op(Var("i"), "<", N(3)), Set(<<"i">>, Op(Var("i"), "+", N(1))),
                  <<Do(U), If(Op(Var("i"), "==", N(1)), <<Do(Set(<<"in">>, N(1))), Just("continue")>>, <<>>, <<>>),
                    If(Op(Var("i"), ">=", N(2)), <<Just("break")>>, <<>>, <<>>), Do(V)>>)>>),
    Program(<<>>, <<For(U, Op(Var("x"), "<", N(1)), V, <<Do(U)>>)>>),
    Program(<<Bad>>, <<Do(Set(<<"outer">>, N(1))), Do(Call("h", <<>>)), Do(Call("Assert", <<Op(Var("outer"), "==", N(2))>>)), Return(<<U>>)>>),
    Program(<<>>,
            <<While(Op(Call("IsSubString", <<S(<<"a", ".", "b">>), S(<<"b">>)>>), "==", N(1)), <<Do(U), Just("break")>>),
              While(Op(N(0), "&&", U), <<Do(V)>>), If(Op(N(1), "||", V), <<>>, <<Do(V)>>, <<>>), Do(Op(V, "||", U))>>),
    Program(<<>>, <<If(U, <<Do(V)>>, <<>>, <<If(Op(H(1), "==", U), <<>>, <<Do(U), Do(V)>>, <<>>)>>), Do(V)>>),
    Program(<<Sum>>, <<Do(Set(<<"x">>, Call("f", <<N(1), N(2)>>))), Do(Set(<<"w">>, Call("f", <<Var("x"), N(1)>>)))>>),
    Program(<<Empty>>, <<Do(U), Do(Call("e", <<>>)), Do(V)>>),
    Program(<<>>, <<Do(U), Do(Set(<<"x">>, Var("missing"))), Do(V)>>),
    Program(<<>>, <<Do(Call("ui_print", <<Call("Concat", <<S(<<"a">>), N(1)>>)>>)), Do(Call("Assert", <<Op(Call("Concat", <<S(<<"a">>), N(12), H(1)>>), "==", S(<<"a", "1", "2", "0", ".", "5", "0", "0", "0", "0", "0">>))>>)), Do(Call("set_progress", <<N(1)>>)), Do(V)>>),
    Program(<<>>,
            <<Do(Call("Stdout", <<Call("Concat", <<S(<<"a">>), N(0)>>), H(2)>>)),
              Do(Call("Assert", <<Op(Op(N(7), "/", N(2)), "==", N(3))>>)), Do(Call("Assert", <<Op(Op(H(1), "+", H(1)), "==", N(1))>>)),
              Do(Call("Assert", <<Op(S(<<"a">>), "<", S(<<"a", "b">>))>>)), Do(Call("Sleep", <<N(1)>>)), Do(Call("Abort", <<Op(N(1), "/", N(0))>>)), Do(U)>>),
    Program(<<>>,
            <<Do(Call("set_progress", <<H(1)>>)), Do(Call("show_progress", <<H(0), H(2)>>)), Do(Call("ui_print", <<S(<<"a">>)>>)),
              Do(Call("set_proportion", <<H(1)>>)), Do(Call("Sleep", <<N(1)>>)), Do(Call("DeleteFile", <<S(<<"b", "none">>), S(<<"dir", "a">>)>>)),
              Do(Call("DeleteDir", <<S(<<"b">>), S(<<"dir">>)>>)), Do(Call("DeleteFile", <<S(<<"b">>)>>)),
              Do(V)>>),
    Program(<<Sum>>, <<>>),
    [whole |-> FALSE, functions |-> <<>>, statements |-> <<Do(U)>>]>>

LibPath == S(<<"lib">>)
Register(name, path) == Do(Call("RegisterCmder", <<S(<<name>>), path>>))
Registers ==
  <<Program(<<>>, <<Register("w", LibPath), Register("Abort", LibPath)>>),
    Program(<<>>, <<Register("w", S(<<"torn">>)), Do(U)>>),
    Program(<<>>, <<Register("w", LibPath), Register("LoadScript", LibPath)>>),
    Program(<<>>, <<Register("w", LibPath), Register("w", S(<<"torn">>))>>)>>
Load(name, priority) == Do(Call("LoadScript", <<S(<<name>>), N(priority)>>))
Loads == <<Program(<<>>, <<Load("a", 0), Load("b", 1)>>), Program(<<>>, <<Load("b", 0), Load("a", 0)>>), Program(<<>>, <<Load("a", 1), Load("c", 0)>>),
           Program(<<>>, <<Load("a", 2)>>)>>
McDir == <<"dir">>
McFiles == {<<"dir", "a">>, <<"dir", "b">>, <<"b", "a">>}
McPackage(register, load, a, b) ==
  [register |-> IF register = 0 THEN "" ELSE "register", load |-> IF load = 0 THEN "" ELSE "load", files |-> McFiles,
   scripts |-> ("a" :> Programs[a]) @@ ("b" :> Programs[b])
               @@ ("register" :> Registers[IF register = 0 THEN 1 ELSE register]) @@ ("load" :> Loads[IF load = 0 THEN 1 ELSE load])]
McPackages ==
  {McPackage(0, 1, a, b) : a \in DOMAIN Programs, b \in {1, 4}}
  \cup {McPackage(r, l, 1, 4) : r \in DOMAIN Registers, l \in 0..Len(Loads)}
McLibraries == (<<"lib">> :> [opens |-> TRUE, makes |-> {"w", "Abort", "LoadScript"}]) @@ (<<"torn">> :> [opens |-> FALSE, makes |-> {"w"}])
McWords == <<"-", ".", "0", "1", "2", "3", "4", "5", "6", "7", "8", "9", "a", "b", "dir">>
=============================================================================
