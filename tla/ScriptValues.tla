---------------------------- MODULE ScriptValues ----------------------------
(***************************************************************************)
(* The values of the update script language and what its operators make of  *)
(* them (script_context.cpp).  A float is kept in halves, a string as the    *)
(* sequence of its words, which collate in the order of Words.               *)
(***************************************************************************)
EXTENDS Integers, Sequences, SequencesExt

CONSTANT Words      \* the words a string is made of, in the order of their characters: "-", ".", the digits, names

Integer(n) == [t |-> "int", v |-> n]
Float(halves) == [t |-> "float", v |-> halves]
Str(words) == [t |-> "string", v |-> words]
List(values) == [t |-> "list", v |-> values]
Null == [t |-> "null"]                        \* a null pointer
Error == [t |-> "error"]                      \* an ErrorValue, which carries a code
\* A UScriptValue of type error, which has no code: what a variable that does not exist is.
Bare == [t |-> "bare"]

IsNull(v) == v.t = "null"
IsError(v) == v.t \in {"error", "bare"}
Fails(v) == IsNull(v) \/ IsError(v)
\* A list, which is what every call of an instruction returns, is never true.
IsTrue(v) ==
  CASE v.t \in {"int", "float"} -> v.v # 0
    [] v.t = "string" -> v.v # <<>>
    [] OTHER -> FALSE

Truth(b) == Integer(IF b THEN 1 ELSE 0)
Abs(n) == IF n < 0 THEN -n ELSE n
Quotient(a, b) == (IF (a < 0) = (b < 0) THEN 1 ELSE -1) * (Abs(a) \div Abs(b))

Arithmetic == {"+", "-", "*"}
Apply(op, a, b) == CASE op = "+" -> a + b [] op = "-" -> a - b [] op = "*" -> a * b
Compare(op, a, b) ==
  CASE op = ">" -> a > b [] op = ">=" -> a >= b [] op = "<" -> a < b [] op = "<=" -> a <= b
    [] op = "==" -> a = b [] op = "!=" -> a # b
    [] op = "&&" -> a # 0 /\ b # 0 [] op = "||" -> a # 0 \/ b # 0
\* Both in halves: the product of two halves is in quarters.
ApplyHalves(op, a, b) == IF op = "*" THEN Quotient(a * b, 2) ELSE Apply(op, a, b)
Halves(v) == IF v.t = "int" THEN 2 * v.v ELSE v.v
IsNumber(v) == v.t \in {"int", "float"}

Divide(a, b) ==
  IF b.v = 0 THEN Error
  ELSE IF a.t = "int" /\ b.t = "int" THEN Integer(Quotient(a.v, b.v))
  ELSE Float(Quotient(2 * Halves(a), Halves(b)))

IntegerComputer(a, op, b) ==
  CASE ~IsNumber(b) -> Error
    [] IsNumber(b) /\ op = "/" -> Divide(a, b)
    [] IsNumber(b) /\ op \in Arithmetic ->
         IF b.t = "int" THEN Integer(Apply(op, a.v, b.v)) ELSE Float(ApplyHalves(op, Halves(a), b.v))
    [] OTHER -> Truth(Compare(op, Halves(a), Halves(b)))

\* Two floats are added, subtracted and multiplied into an integer; a float and an
\* integer are compared into a float; whatever is not a number differs from a float.
FloatComputer(a, op, b) ==
  CASE op = "==" -> Truth(IsNumber(b) /\ a.v = Halves(b))
    [] op = "!=" -> Truth(~(IsNumber(b) /\ a.v = Halves(b)))
    [] op \notin {"==", "!="} /\ ~IsNumber(b) -> Error
    [] op = "/" /\ IsNumber(b) -> Divide(a, b)
    [] op \in Arithmetic /\ IsNumber(b) ->
         LET r == ApplyHalves(op, a.v, Halves(b))
         IN IF b.t = "int" THEN Float(r) ELSE Integer(Quotient(r, 2))
    [] OTHER -> LET r == Compare(op, a.v, Halves(b))
                IN IF b.t = "int" THEN Float(IF r THEN 2 ELSE 0) ELSE Truth(r)

\* std::to_string.
RECURSIVE Digits(_)
Digits(n) == (IF n < 10 THEN <<>> ELSE Digits(n \div 10)) \o <<Words[3 + (n % 10)]>>
ToText(v) ==
  CASE v.t = "int" -> (IF v.v < 0 THEN <<"-">> ELSE <<>>) \o Digits(Abs(v.v))
    [] v.t = "float" -> (IF v.v < 0 THEN <<"-">> ELSE <<>>) \o Digits(Abs(v.v) \div 2) \o <<".">>
                        \o Digits(5 * (Abs(v.v) % 2)) \o [i \in 1..5 |-> "0"]
    [] v.t = "string" -> v.v

Rank(w) == CHOOSE i \in DOMAIN Words : Words[i] = w
\* std::string::compare: what comes first differs, or one is a part of the other.
Collate(a, b) ==
  LET d == {i \in DOMAIN a : i > Len(b) \/ a[i] # b[i]}
      i == CHOOSE i \in d : \A j \in d : i <= j
  IN IF a = b THEN 0 ELSE IF d = {} THEN -1 ELSE IF i > Len(b) THEN 1 ELSE Rank(a[i]) - Rank(b[i])
StringComputer(a, op, b) ==
  CASE op = "+" /\ b.t \in {"int", "float", "string"} -> Str(a.v \o ToText(b))
    [] op \in {">", ">=", "<", "<=", "==", "!="} /\ b.t = "string" -> Truth(Compare(op, Collate(a.v, b.v), 0))
    [] OTHER -> Error

\* GetRightCompluteValue: a list stands for its value if it has exactly one.
Single(v) == IF v.t # "list" THEN v ELSE IF Len(v.v) = 1 THEN v.v[1] ELSE Null
\* The Computer of the left value.  That of an ErrorValue returns a null pointer.
Computer(left, op, right) ==
  LET a == Single(left)
      b == Single(right)
  IN CASE a.t = "error" -> Null
       [] a.t \in {"null", "bare"} -> Error
       [] a.t \in {"int", "float", "string"} /\ IsNull(b) -> Error
       [] a.t = "int" /\ ~IsNull(b) -> IntegerComputer(a, op, b)
       [] a.t = "float" /\ ~IsNull(b) -> FloatComputer(a, op, b)
       [] a.t = "string" /\ ~IsNull(b) -> StringComputer(a, op, b)
=============================================================================
