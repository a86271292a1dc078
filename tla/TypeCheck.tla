----------------------------- MODULE TypeCheck -----------------------------
(***************************************************************************)
(* The type checker (src/sema/type_check.cpp) on the expressions of one     *)
(* statement.  infer() leaves the nodes of an expression in post-order, so  *)
(* the expression is chosen while it is inferred: a node is made when       *)
(* infer() leaves it, of the operands left last.  Names stand for their     *)
(* types, and a report ends the behaviour: no property is about what the    *)
(* checker says after its first one.                                        *)
(***************************************************************************)
EXTENDS Operators, Sequences

CONSTANTS
  DeclaredTypes, \* the types programs write
  Literals,      \* the values of integer literals
  Ops,           \* the binary operators programs use
  MaxNodes       \* bound: the nodes of a statement's expressions

ASSUME TypeCheckAssumption ==
  /\ Literals \subseteq Nat
  /\ Ops \subseteq BinaryOps
  /\ MaxNodes \in Nat
  /\ DeclaredTypes \subseteq [width : Nat \ {0}, isSigned : BOOLEAN]
  /\ \A t \in DeclaredTypes : 2 * t.width <= HostWidth

VARIABLES
  nodes,     \* the nodes infer() has left, in order
  pending,   \* those that are not operands yet, last one last
  errors,    \* something was reported
  context    \* what the expressions turn out to be for

checkVars == <<nodes, pending, errors, context>>

\* Type{}: what a node has before it is given a type, and a poly one keeps.
Default == Type(1, FALSE)
U1      == Type(1, FALSE)
U128    == Type(HostWidth, FALSE)

Typing(kind, op, kids, type) ==
  [kind |-> kind, op |-> op, kids |-> kids, value |-> 0, typeKnown |-> TRUE,
   type |-> type, isPoly |-> FALSE, constValue |-> 0]

Poly(kind, op, kids, value) ==
  [Typing(kind, op, kids, Default) EXCEPT !.isPoly = TRUE, !.constValue = value % 2^HostWidth]

-----------------------------------------------------------------------------
(* fits, assignable, pinPoly, checkExpr.                                    *)

\* Mutant: the sign bit counts as a value bit.
MutantFits(value, type) == value < 2^type.width

FitsIn(value, type) == value < 2^(type.width - IF type.isSigned THEN 1 ELSE 0)

Assignable(from, to) == from.isSigned = to.isSigned /\ from.width <= to.width

\* The operands whose value is the node's own: a conditional's condition is not.
Operands(node) ==
  CASE node.kind \in {"Unary", "Binary"} -> {node.kids[i] : i \in DOMAIN node.kids}
    [] node.kind = "Ternary" -> {node.kids[2], node.kids[3]}
    [] OTHER -> {}

\* The poly nodes that are reached from n through poly nodes.
PolyUnder(tree, n) ==
  LET Under[m \in 1 .. n] ==
        IF tree[m].isPoly THEN {m} \cup UNION {Under[k] : k \in Operands(tree[m])} ELSE {}
  IN  Under[n]

Pin(node, type) == [node EXCEPT !.isPoly = FALSE, !.constValue = 0, !.type = type]

\* Mutant: "pinning only the top node".
MutantPinPoly(tree, roots, type) ==
  [m \in DOMAIN tree |-> IF m \in roots /\ tree[m].isPoly THEN Pin(tree[m], type) ELSE tree[m]]

\* Of one expression, or of several that share no node.
PinPoly(tree, roots, type) ==
  LET reached == UNION {PolyUnder(tree, n) : n \in roots}
  IN  [m \in DOMAIN tree |-> IF m \in reached THEN Pin(tree[m], type) ELSE tree[m]]

\* What checkExpr(n, type) does to the tree is PinPoly; this is its report.
Refused(n, type) ==
  IF nodes[n].isPoly THEN ~FitsIn(nodes[n].constValue, type) ELSE ~Assignable(nodes[n].type, type)

-----------------------------------------------------------------------------
(* infer, one action per case.                                              *)

Top(i) == pending[Len(pending) + 1 - i]
Room   == context = "open" /\ ~errors /\ Len(nodes) < MaxNodes
Has(k) == Room /\ Len(pending) >= k

\* The node is made on the `popped` operands left last, behind their checks.
Leave(tree, popped, node, report) ==
  /\ nodes' = Append(tree, node)
  /\ pending' = Append(SubSeq(pending, 1, Len(pending) - popped), Len(nodes) + 1)
  /\ errors' = report
  /\ UNCHANGED context

IntLit(v) ==
  Room /\ Leave(nodes, 0, [Poly("IntLit", "none", <<>>, v) EXCEPT !.value = v], FALSE)

NameRef(type) == Room /\ Leave(nodes, 0, Typing("NameRef", "none", <<>>, type), FALSE)

Index(type) ==
  /\ Has(1)
  /\ Leave(PinPoly(nodes, {Top(1)}, U128), 1,
           Typing("Index", "none", <<Top(1)>>, type), Refused(Top(1), U128))

\* The operand is inferred and nothing else.
Cast(type) ==
  /\ Has(1)
  /\ Leave(nodes, 1, Typing("Cast", "none", <<Top(1)>>, type), FALSE)

Unary(op) ==
  /\ Has(1)
  /\ LET a == nodes[Top(1)]
     IN  Leave(nodes, 1,
               IF a.isPoly THEN Poly("Unary", op, <<Top(1)>>, a.constValue)
               ELSE Typing("Unary", op, <<Top(1)>>, UnaryRule(op, a.type)), FALSE)

\* The type of operand a once it has met operand b.
Against(a, b) == IF nodes[a].isPoly THEN nodes[b].type ELSE nodes[a].type

\* Mutant: the operand's copy of its type is the one from before they met.
MutantResult(op, a, b) == WidthRule(op, nodes[a].type, nodes[b].type)

Result(op, a, b) == WidthRule(op, Against(a, b), Against(b, a))

\* One operand is typed: the other, if it is a constant, takes its type.
Meet(a, b) == PinPoly(PinPoly(nodes, {a}, Against(a, b)), {b}, Against(b, a))
Unfit(a, b) ==
  \/ nodes[a].isPoly /\ Refused(a, nodes[b].type)
  \/ nodes[b].isPoly /\ Refused(b, nodes[a].type)
BothPoly(a, b) == nodes[a].isPoly /\ nodes[b].isPoly

\* Only sums and products are folded.
Fold(op, l, r) ==
  CASE op = "+" -> l.constValue + r.constValue
    [] op = "*" -> l.constValue * r.constValue
    [] OTHER -> l.constValue

Binary(op) ==
  /\ Has(2)
  /\ LET l == Top(2)
         r == Top(1)
         result == Result(op, l, r)
     IN  IF BothPoly(l, r)
         THEN Leave(nodes, 2, Poly("Binary", op, <<l, r>>, Fold(op, nodes[l], nodes[r])), FALSE)
         ELSE Leave(Meet(l, r), 2, Typing("Binary", op, <<l, r>>, result),
                    \/ Unfit(l, r)
                    \/ ~Typed(op, Against(l, r), Against(r, l))
                    \/ result.width > HostWidth)

\* The condition's check touches neither arm, so it may come last.
Ternary ==
  /\ Has(3)
  /\ LET c == Top(3)
         t == Top(2)
         f == Top(1)
         kids == <<c, t, f>>
         T == Against(t, f)
         F == Against(f, t)
     IN  IF BothPoly(t, f)
         THEN Leave(PinPoly(nodes, {c}, U1), 3,
                    Poly("Ternary", "none", kids, nodes[f].constValue), Refused(c, U1))
         ELSE Leave(PinPoly(Meet(t, f), {c}, U1), 3,
                    Typing("Ternary", "none", kids, TernaryRule(T, F)),
                    Refused(c, U1) \/ Unfit(t, f) \/ T.isSigned # F.isSigned)

-----------------------------------------------------------------------------
(* checkStmt and check, one action per way to use an expression.            *)

\* checkExpr on each pending expression in turn.
CheckAll(type) ==
  /\ context = "open" /\ ~errors
  /\ nodes' = PinPoly(nodes, {pending[i] : i \in DOMAIN pending}, type)
  /\ errors' = \E i \in DOMAIN pending : Refused(pending[i], type)
  /\ context' = "statement"
  /\ UNCHANGED pending

\* VarDecl, Assign to a scalar, Write, Return: one expression.  The elements of
\* an array's or a constant's initialiser: any number.
Use(type) == pending # <<>> /\ CheckAll(type)

\* An If, and the condition of a nested one.
Condition == Len(pending) = 1 /\ CheckAll(U1)

\* A For: start, limit and step.
Header(type) == Len(pending) = 3 /\ CheckAll(type)

\* Assign to an element: the index is never walked.  Of the index its literals
\* are kept, the nodes whose own type the later stages read.
AssignElement(type, v) ==
  /\ Len(pending) = 1
  /\ LET index == [Typing("IntLit", "none", <<>>, Default)
                    EXCEPT !.value = v, !.typeKnown = FALSE]
     IN  /\ context = "open" /\ ~errors
         /\ nodes' = Append(PinPoly(nodes, {Top(1)}, type), index)
         /\ errors' = Refused(Top(1), type)
         /\ context' = "statement"
         /\ UNCHANGED pending

\* A value read from a stream has no expression: its node is the stream's, of
\* type `stream`, over the one of what it is stored in.
ReadInto(target, stream, report) ==
  /\ context = "open" /\ nodes = <<>>
  /\ nodes' = <<Typing("NameRef", "none", <<>>, target), Typing("Read", "none", <<1>>, stream)>>
  /\ errors' = report
  /\ context' = "statement"
  /\ UNCHANGED pending

\* Of a declaration the widths are compared.
DeclareRead(target, stream) == ReadInto(target, stream, target.width # stream.width)

\* Of an assignment nothing is.
AssignRead(target, stream) == ReadInto(target, stream, FALSE)

\* The size of an array parameter is inferred, and folded later.
ParamSize ==
  /\ Len(pending) = 1
  /\ context = "open" /\ ~errors
  /\ context' = "size"
  /\ UNCHANGED <<nodes, pending, errors>>

CheckInit ==
  /\ nodes = <<>>
  /\ pending = <<>>
  /\ errors = FALSE
  /\ context = "open"

CheckNext ==
  \/ \E v \in Literals : IntLit(v)
  \/ \E type \in DeclaredTypes :
       NameRef(type) \/ Index(type) \/ Cast(type) \/ Use(type) \/ Header(type)
  \/ \E op \in UnaryOps : Unary(op)
  \/ \E op \in Ops : Binary(op)
  \/ Ternary \/ Condition \/ ParamSize
  \/ \E type \in DeclaredTypes, v \in Literals : AssignElement(type, v)
  \/ \E target, stream \in DeclaredTypes : DeclareRead(target, stream) \/ AssignRead(target, stream)

CheckSpec == CheckInit /\ [][CheckNext]_checkVars

-----------------------------------------------------------------------------
(* What the later stages and LANGUAGE.md count on.                          *)

Accepted == context = "statement" /\ ~errors

All == DOMAIN nodes

\* "Any expression built only from literals" and operators.
Untyped ==
  LET Is[n \in All] ==
        \/ nodes[n].kind = "IntLit"
        \/ /\ nodes[n].kind \in {"Unary", "Binary", "Ternary"}
           /\ \A k \in Operands(nodes[n]) : Is[k]
  IN  {n \in All : Is[n]}

Kid(n, i) == nodes[n].kids[i]
KidType(n, i) == nodes[Kid(n, i)].type

(***************************************************************************)
(* LANGUAGE.md's own table (508-528), whatever infer() makes of it: the    *)
(* type an operator gives, and what it asks of its operands.               *)
(***************************************************************************)
Operations == {n \in All \ Untyped : nodes[n].kind \in {"Unary", "Binary", "Ternary"}}

MaxOf(a, b) == IF a.width < b.width THEN b.width ELSE a.width
MinOf(a, b) == IF a.width < b.width THEN a.width ELSE b.width

TableBinary(op, a, b) ==
  CASE op = "+" -> Type(MaxOf(a, b) + 1, a.isSigned)
    [] op = "-" -> Type(MaxOf(a, b) + 1, TRUE)
    [] op = "*" -> Type(a.width + b.width, a.isSigned)
    [] op = "/" /\ a.isSigned  -> Type(a.width + 1, TRUE)
    [] op = "/" /\ ~a.isSigned -> Type(a.width, FALSE)
    [] op = "%" -> Type(MinOf(a, b), a.isSigned)
    [] op \in {"&", "|", "^"} -> Type(MaxOf(a, b), a.isSigned)
    [] op \in {"<<", ">>"} -> a
    [] op \in {"<", "<=", ">", ">=", "==", "!=", "&&", "||"} -> Type(1, FALSE)

TableUnary(op, a) ==
  CASE op = "-" -> Type(a.width + 1, TRUE)
    [] op \in {"+", "~"} -> a
    [] op = "!" -> Type(1, FALSE)

TableType(n) ==
  CASE nodes[n].kind = "Unary" -> TableUnary(nodes[n].op, KidType(n, 1))
    [] nodes[n].kind = "Binary" -> TableBinary(nodes[n].op, KidType(n, 1), KidType(n, 2))
    [] nodes[n].kind = "Ternary" ->
         Type(MaxOf(KidType(n, 2), KidType(n, 3)), KidType(n, 2).isSigned)

OperandRule(n) ==
  CASE nodes[n].kind = "Unary" -> nodes[n].op = "!" => KidType(n, 1) = U1
    [] nodes[n].kind = "Binary" ->
         IF nodes[n].op \in {"<<", ">>"} THEN ~KidType(n, 2).isSigned
         ELSE IF nodes[n].op \in {"&&", "||"} THEN KidType(n, 1) = U1 /\ KidType(n, 2) = U1
         ELSE KidType(n, 1).isSigned = KidType(n, 2).isSigned
    [] nodes[n].kind = "Ternary" ->
         KidType(n, 1) = U1 /\ KidType(n, 2).isSigned = KidType(n, 3).isSigned

\* The operators whose operand rule infer() leaves unchecked.
Unchecked == {"!", "<<", ">>", "&&", "||"}

\* The operands of casts that nothing gives a type to, and what they are made of.
Floating ==
  LET Is[n \in All] ==
        /\ n \in Untyped
        /\ \E p \in All : /\ \E i \in DOMAIN nodes[p].kids : Kid(p, i) = n
                          /\ nodes[p].kind = "Cast" \/ (n \in Operands(nodes[p]) /\ Is[p])
  IN  {n \in All : Is[n]}

\* Constants made with `ops` alone, largest ones only.
Constants(ops) ==
  LET Is[n \in All] == \/ nodes[n].kind = "IntLit"
                       \/ /\ nodes[n].kind \in {"Unary", "Binary"}
                          /\ nodes[n].op \in ops
                          /\ \A k \in Operands(nodes[n]) : Is[k]
  IN  {n \in All : nodes[n].typeKnown /\ Is[n] /\ ~\E p \in Untyped : n \in Operands(nodes[p])}

Sums == {"+", "*"}

\* Of a constant of those operators, its value at run time, computed in the
\* types its nodes were given.
RunTime(n) ==
  LET At[m \in 1 .. n] ==
        LET l == At[Kid(m, 1)]
            r == At[Kid(m, 2)]
        IN  CASE nodes[m].kind = "IntLit" ->
                   Make(nodes[m].value, nodes[m].type.width, nodes[m].type.isSigned)
              [] nodes[m].kind = "Unary" -> ApplyUnary(nodes[m].op, l)
              [] nodes[m].kind = "Binary" -> Apply(nodes[m].op, l, r)
              [] OTHER -> Make(0, 1, FALSE)
  IN  Value(At[n])

\* Its value "in arbitrary precision".
Meant(n) ==
  LET At[m \in 1 .. n] ==
        LET l == At[Kid(m, 1)]
            r == At[Kid(m, 2)]
        IN  CASE nodes[m].kind = "IntLit" -> nodes[m].value
              [] nodes[m].kind = "Unary" -> IF nodes[m].op = "-" THEN -l ELSE l
              [] nodes[m].kind = "Binary" /\ nodes[m].op = "+" -> l + r
              [] nodes[m].kind = "Binary" /\ nodes[m].op = "-" -> l - r
              [] nodes[m].kind = "Binary" /\ nodes[m].op = "*" -> l * r
              [] nodes[m].kind = "Binary" /\ nodes[m].op = "<" -> IF l < r THEN 1 ELSE 0
              [] OTHER -> 0
  IN  At[n]

(* In an accepted statement every operator has the type LANGUAGE.md's table *)
(* gives it for the types its operands ended up with, a `!` of no u1        *)
(* excepted, and takes those operands, but for five operators; the binary   *)
(* ones keep the width limit.  A constant that meets a typed operand is     *)
(* typed before the rule is applied (infer).                                *)
RulesHold ==
  Accepted => \A n \in Operations :
    /\ nodes[n].type = TableType(n) \/ (nodes[n].op = "!" /\ ~OperandRule(n))
    /\ OperandRule(n) \/ nodes[n].op \in Unchecked
    /\ nodes[n].kind = "Binary" => nodes[n].type.width <= HostWidth

(* "`!a` | `a` is `u1`", "`a << b` | `b` unsigned", "`a && b`, `a \|\| b` |  *)
(* both `u1`" (LANGUAGE.md:519-526): every operator of an accepted statement *)
(* has operands it takes.                                                   *)
OperandRulesAreChecked == Accepted => \A n \in Operations : OperandRule(n)

(* The context's type reaches every node of a constant: none that a later   *)
(* stage reads keeps the default one, the operands of casts excepted        *)
(* (pinPoly).                                                               *)
TypesReachEveryNode == Accepted => \A n \in All : nodes[n].isPoly => n \in Floating

(* A constant made of literals, sums and products that is accepted has its  *)
(* mathematical value at run time (fits, and what infer folds): 300 is no   *)
(* u8.  What it folds to fits the host's integers.                          *)
SumsAreExact ==
  Accepted => \A n \in Constants(Sums) \ Floating :
    Meant(n) < 2^(HostWidth - 1) => RunTime(n) = Meant(n)

(* The same of every constant, "evaluated in arbitrary precision"           *)
(* (LANGUAGE.md).                                                           *)
ConstantsAreExact ==
  Accepted => \A n \in Constants(Sums \cup {"-", "<"}) \ Floating : RunTime(n) = Meant(n)

(* "Inside T(...), it takes T": a constant that is cast has its low bits at  *)
(* run time (LANGUAGE.md).                                                  *)
CastsAreExact ==
  Accepted => \A c \in All : \A n \in Constants(Sums) :
    nodes[c].kind = "Cast" /\ Kid(c, 1) = n
      => (RunTime(n) - Meant(n)) % 2^nodes[c].type.width = 0

(* "The value produced by read(s) has the stream's element type"            *)
(* (LANGUAGE.md): where it is stored, a value of that type may be.          *)
ReadsAreAssignable ==
  Accepted => \A n \in All :
    nodes[n].kind = "Read" => Assignable(nodes[n].type, KidType(n, 1))

(* Every expression that is evaluated has been typed.                       *)
EverythingIsTyped == Accepted => \A n \in All : nodes[n].typeKnown
=============================================================================
