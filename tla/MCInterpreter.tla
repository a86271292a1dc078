--------------------------- MODULE MCInterpreter ---------------------------
(***************************************************************************)
(* Every listing of at most MaxStatements statements over a scalar         *)
(* parameter, an input and an output stream, a local, a local array, a     *)
(* constant, a constant array and two loop variables, behind which stands  *)
(* a return; and every one of at most MaxOddStatements without it, or with *)
(* one in an arm of an if.  Each is run MaxRuns times, on any inputs.      *)
(***************************************************************************)
EXTENDS Interpreter

CONSTANTS MaxStatements, MaxOddStatements

MCSymbols == {"a", "x", "m", "C", "T", "s", "r", "i", "j"}
MCTypeOf  == [v \in MCSymbols |-> CASE v = "r" -> Unsigned(3)
                                    [] v = "m" -> Signed(2)
                                    [] OTHER -> Unsigned(2)]
MCReturnType    == Unsigned(3)
MCConstValue    == [s \in {"C"} |-> Make(1, 2, FALSE)]
MCArrayLength   == [v \in {"m", "T"} |-> 2]
U(n)            == Make(n, 2, FALSE)
MCConstElements == [v \in {"T"} |-> <<U(3), U(1)>>]

\* The stream has one element, or none: reads beyond it happen.
MCInputs ==
  {[v \in {"a", "s"} |-> IF v = "a" THEN U(in[1]) ELSE in[2]] :
     in \in {<<0, <<U(3)>>>>, <<2, <<U(3)>>>>, <<2, <<>>>>}}

MCSimple(vis) ==
  LET names == vis \cap {"a", "x", "i"}
  IN  {Assign(v, e) : v \in vis \cap {"a", "x"}, e \in {Read("s"), Elem("T", "a")}}
      \cup {Store("m", Name(v), e) : v \in names, e \in {Op("-", "a", "a", Signed(2)), Elem("m", "a")}}
      \cup {Write("r", Name(v)) : v \in names}
      \cup {Write("r", Op("+", v, "a", Unsigned(3))) : v \in names}
MCDeclare(vis) ==
  IF "x" \in vis THEN {} ELSE {VarDecl("x", Read("s")), VarDecl("x", Name("a"))}
MCConditions(vis) == {Op("<", v, "a", Unsigned(1)) : v \in vis \cap {"i", "x"}}
MCLoops(vis) ==
  LET next == IF "i" \in vis THEN "j" ELSE "i"
  IN  IF next \in vis THEN {}
      ELSE {For(next, Lit(U(0)), Lit(U(1)), TRUE, 0), For(next, Lit(U(3)), Lit(U(1)), FALSE, 3)}

L == INSTANCE Listings WITH
       Simple <- MCSimple, Declare <- MCDeclare, Conditions <- MCConditions, Loops <- MCLoops,
       Declarable <- {"x", "i", "j"}, Outermost <- {"a", "T", "m", "s", "r"}

Declared(bodies) == {<<ArrayDecl("m", <<Lit(Make(1, 2, TRUE))>>)>> \o b : b \in bodies}

ReturnInArm ==
  <<If(Op("<", "a", "C", Unsigned(1))), Return(Op("+", "a", "C", Unsigned(3))), ElseToken,
    EndIfToken>>

MCPrograms ==
  {Append(p, Return(Name("a"))) : p \in Declared(L!Bodies(MaxStatements))}
    \cup {p \o e : p \in Declared(L!Bodies(MaxOddStatements)), e \in {<<>>, ReturnInArm}}
=============================================================================
