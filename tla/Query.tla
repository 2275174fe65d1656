------------------------------- MODULE Query -------------------------------
(***************************************************************************)
(* The query compiler of src/dashquery/compile.go: what it accepts, and     *)
(* what evaluating the closures it builds does with the kinds of the        *)
(* values.  An expression is a tuple with its form first.                   *)
(***************************************************************************)
EXTENDS Sequences

Bad == "bad"

\* builtins: the types of the names, with a name that is not one of them.
names == [true |-> "bool", age |-> "number", builder |-> "string"]

Arith == {"-", "*", "/", "%"}
Order == {"<", ">", "<=", ">="}
Equality == {"==", "!="}

oneOf(t, typs) == t \in typs

\* Slip: only one operand is looked at.
sameType_left(x, y, typs) == oneOf(x, typs)

sameType(x, y, typs) == oneOf(x, typs) /\ oneOf(y, typs) /\ x = y

\* The type of the node that expr compiles to, or Bad for a compileError.
RECURSIVE expr(_)
Binary(op, x, y) ==
  CASE x = Bad \/ y = Bad -> Bad
    [] op = "+" /\ sameType(x, y, {"number", "string"}) -> x
    [] op \in Arith /\ x = "number" /\ y = "number" -> "number"
    [] op \in {"&&", "||"} /\ x = "bool" /\ y = "bool" -> "bool"
    [] op \in Order /\ sameType(x, y, {"number", "string", "time"})
                    /\ sameType(x, y, {"bool", "number", "string", "time"}) -> "bool"
    [] op \in Equality /\ sameType(x, y, {"bool", "number", "string", "time"}) -> "bool"
    [] OTHER -> Bad
Unary(op, x) ==
  CASE op \in {"u+", "u-"} /\ x = "number" -> "number"
    [] op = "!" /\ x = "bool" -> "bool"
    [] OTHER -> Bad
expr(e) ==
  CASE e[1] \in {"INT", "FLOAT"} -> "number"
    [] e[1] = "STRING" -> "string"
    [] e[1] \in {"CHAR", "call"} -> Bad
    [] e[1] = "name" -> IF e[2] \in DOMAIN names THEN names[e[2]] ELSE Bad
    [] e[1] = "paren" -> expr(e[2])
    [] e[1] = "unary" -> Unary(e[2], expr(e[3]))
    [] e[1] = "binary" -> Binary(e[2], expr(e[3]), expr(e[4]))

\* compile
compile(e) == expr(e) = "bool"

-----------------------------------------------------------------------------
(* Evaluation, on the kinds of values that go/constant tells apart: the set *)
(* of kinds that an expression may have.  "panic" is a panic of its         *)
(* operations.  A quotient of integers is a fraction; a remainder is        *)
(* defined for integers only, and a divisor may be 0.                       *)

Numbers == {"int", "float"}

BinaryOp(op, x, y) ==
  IF x = "panic" \/ y = "panic" THEN {"panic"}
  ELSE IF op = "+" /\ x = "string" /\ y = "string" THEN {"string"}
  ELSE IF ~({x, y} \subseteq Numbers) THEN {"wrong"}
  ELSE IF op = "/" THEN {"float", "panic"}
  ELSE IF op = "%" THEN IF x = "int" /\ y = "int" THEN {"int", "panic"} ELSE {"panic"}
  ELSE IF "float" \in {x, y} THEN {"float", "int"} ELSE {"int"}

Compare(op, x, y) ==
  IF x = "panic" \/ y = "panic" THEN {"panic"}
  ELSE IF (x = y /\ (x = "bool" => op \in Equality)) \/ {x, y} \subseteq Numbers THEN {"bool"} ELSE {"wrong"}

RECURSIVE eval(_)
eval(e) ==
  CASE e[1] = "INT" -> {"int"}
    [] e[1] = "FLOAT" -> {"float"}
    [] e[1] = "STRING" -> {"string"}
    [] e[1] = "name" -> {CASE names[e[2]] = "bool" -> "bool" [] names[e[2]] = "number" -> "int" [] OTHER -> "string"}
    [] e[1] = "paren" -> eval(e[2])
    [] e[1] = "unary" ->
         {IF x = "panic" \/ (e[2] = "!" /\ x = "bool") \/ (e[2] # "!" /\ x \in Numbers) THEN x ELSE "wrong" : x \in eval(e[3])}
    [] e[1] = "binary" ->
         LET xs == eval(e[3])  ys == eval(e[4])
         IN  IF e[2] \in {"&&", "||"}
             THEN {IF v \in {"bool", "panic"} THEN v ELSE "wrong" : v \in xs \cup ys}
             ELSE UNION {IF e[2] \in Order \cup Equality THEN Compare(e[2], x, y) ELSE BinaryOp(e[2], x, y) :
                           x \in xs, y \in ys}

-----------------------------------------------------------------------------
\* The expressions to try: two operators deep on one side, with one operator
\* of each group.
Leaves == {<<"INT">>, <<"FLOAT">>, <<"STRING">>, <<"CHAR">>, <<"call">>, <<"name", "true">>,
           <<"name", "builder">>, <<"name", "undefined">>}
Over(xs, ys) ==
  {<<"binary", op, x, y>> : op \in {"+", "/", "%", "&&", "<", "==", "<<"}, x \in xs, y \in ys}
    \cup {<<"unary", op, x>> : op \in {"u-", "!", "^"}, x \in xs}
    \cup {<<"paren", x>> : x \in xs}
Exprs == LET once == Leaves \cup Over(Leaves, Leaves)
         IN  Over(once, {<<"INT">>, <<"STRING">>, <<"name", "true">>})

\* A query that compiles never meets an operand of the wrong kind when it is
\* evaluated; what may still stop it is % of fractions or a division by zero.
Typed(e) == compile(e) => eval(e) \subseteq {"bool", "panic"}
=============================================================================
