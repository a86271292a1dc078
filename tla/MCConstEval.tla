---------------------------- MODULE MCConstEval ----------------------------
(***************************************************************************)
(* Three scalar constants and an array in every way of naming one another: *)
(* forwards, backwards, themselves, and as the arms of a conditional; and  *)
(* two constants that are sizes and indices of arrays, which stand before  *)
(* or behind them.                                                         *)
(***************************************************************************)
EXTENDS ConstEval, FiniteSets

MCSymbols == {"A", "B", "C", "T", "U", "p"}
MCTypeOf  == [s \in MCSymbols |-> IF s = "C" THEN Unsigned(3) ELSE Unsigned(2)]
MCReturnType == Unsigned(1)
NoConsts == [s \in {} |-> Nullopt]

Narrow == Lit(Make(1, 1, FALSE))     \* const u2 A = u1(1);
Zero   == Lit(Make(0, 2, FALSE))
Most   == Lit(Make(3, 2, FALSE))

\* The literals of sizes have no type: they are as wide as the host's integers.
Literal(n) == Lit(Make(n, HostWidth, FALSE))

Names == {"A", "B", "C"}
Inits ==
  {Narrow, Zero, Elem("T", "A")}
  \cup {Name(s) : s \in Names}
  \cup {Op("<<", p[1], p[2], Unsigned(2)) : p \in {q \in Names \X Names : q[1] # q[2]}}
  \cup {Conditional(c, t, f) : <<c, t, f>> \in
           {p \in Names \X Names \X Names : Cardinality({p[1], p[2], p[3]}) = 3}}

Orders ==
  {<<ConstDecl("A", a), ConstDecl("B", b),
     ConstArray("T", Literal(2), <<Name("T"), Name("B")>>), ConstDecl("C", c)>> :
     a, b, c \in Inits}

\* A constant array between, before or behind the constants, a parameter array
\* or a local one, and an element of each that is read.
Scalar == {Narrow, Zero, Most, Name("A"), Name("B"), Op("<<", "A", "B", Unsigned(2))}
Sizes  == {Name("A"), Name("B"), Name("p"), Literal(1), Literal(2^LengthWidth)}

Arrays ==
  UNION {LET d == ConstDecl("A", a)
             e == ConstDecl("B", b)
             t == ConstArray("T", size, <<Elem("U", "A"), Elem("T", "B")>>)
             body == <<ArrayOf("U", other), ReadOf(Elem("T", "A")),
                       ReadOf(Elem("U", i)), StoreAt("U", "B")>>
         IN  {<<d, e, t>> \o body, <<t, d, e>> \o body, <<d, t, e>> \o body} :
           a, b \in Scalar, size, other \in Sizes, i \in {"A", "p"}}

\* Two constant arrays, the elements of each naming the other.
Mutual ==
  {<<ConstDecl("A", a), ConstArray("T", Name("A"), <<Elem("U", "B"), Name("A")>>),
     ConstArray("U", size, <<Elem("T", "A"), Elem("T", "B")>>), ConstDecl("B", b)>> :
     a, b \in Scalar, size \in Sizes}

MCDeclLists == Orders \cup Arrays \cup Mutual

\* const u2 A = u1(1); const u2 B = A << A; alone, in every order.
SmallDeclLists ==
  {<<ConstDecl("A", a), ConstDecl("B", b),
     ConstArray("T", Literal(2), <<Name("T"), Name("B")>>), ConstDecl("C", c)>> :
     a, b, c \in {Narrow, Zero, Name("A"), Elem("T", "A"), Op("<<", "A", "A", Unsigned(2))}}

\* A list with an element too many, an index before the size of its array, an
\* assignment to an element.
SmallArrays ==
  {<<ConstDecl("A", Narrow), ConstDecl("B", b), ConstArray("T", Literal(n), es),
     ConstArray("U", Literal(1), <<Zero>>), StoreAt("U", "B")>> :
     b \in {Zero, Most}, n \in {1, 2}, es \in {<<Zero, Name("A")>>, <<Elem("U", "B"), Zero>>}}

MCGaps == SmallDeclLists \cup SmallArrays
=============================================================================
