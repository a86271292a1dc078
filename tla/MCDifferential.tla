--------------------------- MODULE MCDifferential ---------------------------
(***************************************************************************)
(* Every listing of at most MaxStatements statements over an unsigned and  *)
(* a signed parameter, a wider signed local that divides by a parameter    *)
(* that may be zero, a constant, and two loop variables, one counting up,  *)
(* not at all, once or twice, and one down.                                *)
(***************************************************************************)
EXTENDS Differential

CONSTANTS
  MaxStatements,
  Odd,           \* statements out of place that the front end lets through
  Folded         \* the constant's value as the constant evaluator folded it

MCSymbols == {"a", "b", "x", "y", "i", "j", "C"}
MCTypeOf  == [v \in MCSymbols |-> CASE v \in {"a", "i", "j"} -> Unsigned(2)
                                    [] v = "b" -> Signed(2)
                                    [] OTHER -> Signed(3)]
MCReturnType == Signed(4)
MCConstValue == [v \in {"C"} |-> Folded]
U(n) == Make(n, 2, FALSE)

AtItsType == Make(-1, 3, TRUE)
Narrow    == Make(-1, 1, TRUE)
ReturnB   == {Return(Name("b"))}

MCInputs == {[v \in {"a", "b"} |-> IF v = "a" THEN U(n) ELSE Make(m, 2, TRUE)] :
               n \in {0, 3}, m \in {-2, -1, 0, 1}}

MCSimple(vis) ==
  Odd \cup
  {Assign("x", Name("b")), Assign("b", Op("-", "b", "x", Signed(2))),
   Assign("x", Op("+", "x", "C", Signed(3))), Assign("x", Op("/", "x", "b", Signed(3)))}
  \cup {Assign("a", Op("+", "a", v, Unsigned(2))) : v \in vis \cap {"i", "j"}}
MCDeclare(vis) == {}
MCConditions(vis) == {Op(">", "x", "b", Unsigned(1))} \cup
                     {Op("<", v, "a", Unsigned(1)) : v \in vis \cap {"i"}}
MCLoops(vis) ==
  IF "i" \notin vis THEN {For("i", Lit(U(0)), Lit(U(1)), TRUE, t) : t \in 0 .. 2}
  ELSE IF "j" \notin vis THEN {For("j", Lit(U(3)), Lit(U(1)), FALSE, 2)}
  ELSE {}

L == INSTANCE Listings WITH
       Simple <- MCSimple, Declare <- MCDeclare, Conditions <- MCConditions, Loops <- MCLoops,
       Declarable <- {"i", "j"}, Outermost <- {"a", "b", "x", "C"}

MCPrograms ==
  {<<VarDecl("x", Name("b"))>> \o b \o <<Return(Op("^", "x", "b", Signed(3)))>> :
     b \in L!Bodies(MaxStatements)}
=============================================================================
