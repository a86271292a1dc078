----------------------------- MODULE MCMLIRGen -----------------------------
(***************************************************************************)
(* Every listing of at most MaxStatements statements over one parameter,   *)
(* two locals, two loop variables and a file-scope constant; and every one *)
(* of at most MaxOddStatements where the statements may also be such as    *)
(* the front end lets through and this stage refuses.                      *)
(***************************************************************************)
EXTENDS MLIRGen

CONSTANTS
  MaxStatements,
  MaxOddStatements,
  Trips           \* the trip counts of the loops that are emitted

MCSymbols == {"a", "x", "y", "i", "j", "C", "s"}
MCTypeOf  == [s \in MCSymbols |-> IF s = "y" THEN Unsigned(1) ELSE Unsigned(2)]
MCConstValue == [s \in {"C"} |-> [raw |-> 1, width |-> 2, isSigned |-> FALSE]]
MCReturnType == Unsigned(3)

One == Lit([raw |-> 1, width |-> 1, isSigned |-> FALSE])

ReturnEarly == Return(Name("a"))
OddStatements ==
  {ReturnEarly, Write("r", Name("a")), Assign("a", Read("s")),
   Assign("a", CastConst(Unsigned(2))), Assign("a", Op("||", "a", "a", Unsigned(1)))}

MCSimple(vis) ==
  UNION {{Assign(s, Name(r)) : r \in {t \in vis \ {s} : TypeOf[t].width <= TypeOf[s].width}}
            \cup {Assign(s, One)} : s \in vis \ {"i", "j", "C"}}
MCDeclare(vis) ==
  LET next == IF "x" \in vis THEN "y" ELSE "x"
  IN  IF next \in vis THEN {} ELSE {VarDecl(next, One)}
MCConditions(vis) == {Op("<", "a", "C", Unsigned(1))}
LoopsOf(vis, trips) ==
  LET next == IF "i" \in vis THEN "j" ELSE "i"
  IN  IF next \in vis THEN {} ELSE {For(next, One, One, TRUE, t) : t \in trips}
MCLoops(vis) == LoopsOf(vis, Trips)

OddSimple(vis) == MCSimple(vis) \cup OddStatements
OddLoops(vis)  ==
  LoopsOf(vis, Trips \cup {MaxIndex + 1})
    \cup {[loop EXCEPT !.init = CastConst(Unsigned(2))] : loop \in LoopsOf(vis, Trips)}

L == INSTANCE Listings WITH
       Simple <- MCSimple, Declare <- MCDeclare, Conditions <- MCConditions, Loops <- MCLoops,
       Declarable <- {"x", "y", "i", "j"}, Outermost <- {"a", "C"}

Odd == INSTANCE Listings WITH
       Simple <- OddSimple, Declare <- MCDeclare, Conditions <- MCConditions, Loops <- OddLoops,
       Declarable <- {"x", "y", "i", "j"}, Outermost <- {"a", "C"}

\* An odd listing may also end without a return.
OddPrograms ==
  IF MaxOddStatements = 0 THEN {}
  ELSE {b \o e : b \in Odd!Bodies(MaxOddStatements), e \in {<<ReturnEarly>>, <<>>}}

MCPrograms == {Append(b, ReturnEarly) : b \in L!Bodies(MaxStatements)} \cup OddPrograms
=============================================================================
