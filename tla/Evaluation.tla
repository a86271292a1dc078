----------------------------- MODULE Evaluation -----------------------------
(***************************************************************************)
(* One expression, followed through three stages that LANGUAGE.md wants in *)
(* agreement.  The expression grows by one operator a step, with any other *)
(* operand on either side; each stage folds what it has so far:            *)
(*                                                                         *)
(*   acc    the value the interpreter (and the constant evaluator) has     *)
(*   type   the static type the checker recorded                           *)
(*   wire   what the operations MLIRGen emitted compute, or NoWire         *)
(*   exact  the number LANGUAGE.md's tables give, as a set: it is empty    *)
(*          where an operand is one the tables do not allow                *)
(*                                                                         *)
(* The steps are those the checker accepts, whether or not the tables do.  *)
(* Widths are closed under the steps (a result over HostWidth ends the     *)
(* behaviour), so the reachable states are the expressions of every depth, *)
(* each up to the first operator on which a stage is known to leave the    *)
(* others.                                                                 *)
(***************************************************************************)
EXTENDS CombGen

CONSTANT TypeWidth     \* the widest type that can be written: 64 in the code

ASSUME TypeWidthAssumption ==
  TypeWidth \in Nat \ {0} /\ 2 * TypeWidth <= HostWidth

VARIABLES acc, type, wire, exact,
  gap        \* where a stage is known to leave the others: "" while none has

vars == <<acc, type, wire, exact, gap>>

Written == [width : 1 .. TypeWidth, isSigned : BOOLEAN]
Values  == BitsOf(1 .. HostWidth)

(***************************************************************************)
(* LANGUAGE.md's reading of a value and of an operator: integers, with     *)
(* reduction only where the language drops bits.                           *)
(***************************************************************************)
Number(v) == IF v.isSigned /\ v.raw >= 2^(v.width - 1) THEN v.raw - 2^v.width ELSE v.raw
Wrap(n, t) == Number([raw |-> n % 2^t.width, width |-> t.width, isSigned |-> t.isSigned])

BitwiseExact(op, x, y, t) ==
  CHOOSE n \in -(2^(t.width - 1)) .. 2^t.width - 1 :
    /\ n = Wrap(n, t)
    /\ \A i \in 0 .. t.width - 1 :
         LET p == (x \div 2^i) % 2 = 1
             q == (y \div 2^i) % 2 = 1
             r == (n \div 2^i) % 2 = 1
         IN  r <=> CASE op = "&" -> p /\ q [] op = "|" -> p \/ q [] op = "^" -> p # q

ExactOf(op, x, y, lt, rt) ==
  LET t == WidthRule(op, lt, rt)
  IN  CASE op = "+" -> x + y
        [] op = "-" -> x - y
        [] op = "*" -> x * y
        [] op = "/" -> IF y = 0 THEN 0 ELSE TruncDiv(x, y)
        [] op = "%" -> IF y = 0 THEN 0 ELSE TruncRem(x, y)
        [] op = "<<" -> IF y >= lt.width THEN 0 ELSE Wrap(x * 2^y, t)
        [] op = ">>" -> IF y < lt.width THEN x \div 2^y ELSE IF x < 0 THEN -1 ELSE 0
        [] op \in Bitwises -> BitwiseExact(op, x, y, t)
        [] op = "<"  -> IF x < y THEN 1 ELSE 0
        [] op = "<=" -> IF x <= y THEN 1 ELSE 0
        [] op = ">"  -> IF x > y THEN 1 ELSE 0
        [] op = ">=" -> IF x >= y THEN 1 ELSE 0
        [] op = "==" -> IF x = y THEN 1 ELSE 0
        [] op = "!=" -> IF x # y THEN 1 ELSE 0
        [] op = "&&" -> IF x # 0 /\ y # 0 THEN 1 ELSE 0
        [] op = "||" -> IF x # 0 \/ y # 0 THEN 1 ELSE 0

ExactUnary(op, x, t) ==
  CASE op = "-" -> -x
    [] op = "+" -> x
    [] op = "~" -> Wrap(-1 - x, t)
    [] op = "!" -> IF x = 0 THEN 1 ELSE 0

\* The operand rules of LANGUAGE.md's table where the checker has none: an
\* amount is no negative number, && and || take u1.
Takes(op, lt, rt, y) ==
  /\ op \in Shifts => y >= 0
  /\ op \in Logicals => lt = Type(1, FALSE) /\ rt = Type(1, FALSE)

ExactNumbers(op, xs, ys, lt, rt) ==
  UNION {{ExactOf(op, x, y, lt, rt) : x \in xs} : y \in {n \in ys : Takes(op, lt, rt, n)}}

(***************************************************************************)
(* The operator applications on which the stages are known to differ.      *)
(***************************************************************************)
GapOf(op, l, r) ==
  IF op \in Shifts /\ r.raw >= 2^UintWidth THEN "shift"
  ELSE IF op = "%" /\ ~l.isSigned /\ Widest({l.raw, r.raw}) >= 2^(HostWidth - 1) THEN "remainder"
  ELSE IF op = "/" /\ l.isSigned /\ r.raw = 0 THEN "division"
  ELSE ""

WideNot(op, t) == op = "!" /\ t # Type(1, FALSE)

UnaryGapOf(op, t) ==
  IF WideNot(op, t) THEN "not" ELSE IF UnaryRule(op, t).width > HostWidth THEN "host" ELSE ""

(***************************************************************************)
(* What the checker objects to in a binary operator: mixed signedness, and *)
(* results over the computable width.                                      *)
(***************************************************************************)
Legal(op, l, r) == Typed(op, l, r) /\ WidthRule(op, l, r).width <= HostWidth

WireOf(v) == Wire(v.raw, v.width)

(***************************************************************************)
(* An expression begins as a name, an element or a literal that was given  *)
(* a type; as an operator on literals alone; or as a cast of one.  In the  *)
(* second, pinPoly gave one type to the operator and to all below it,      *)
(* which matters where the operator's rule gives another.  In the third    *)
(* nothing types the literal: its width stays the default, 1.              *)
(***************************************************************************)
Leaf ==
  /\ acc \in BitsOf(1 .. TypeWidth)
  /\ type = TypeOfBits(acc)
  /\ wire = WireOf(acc)
  /\ exact = {Number(acc)}
  /\ gap = ""

LiteralBinary(op, l, r) ==
  /\ TypeOfBits(r) = TypeOfBits(l)
  /\ type = TypeOfBits(l)
  /\ WidthRule(op, type, type) # type
  /\ acc = Apply(op, l, r)
  /\ wire = EmitBinaryAs(op, WireOf(l), type, WireOf(r), type, type)
  /\ exact = ExactNumbers(op, {Number(l)}, {Number(r)}, type, type)
  /\ gap = "literals"

LiteralUnary(op, v) ==
  /\ type = TypeOfBits(v)
  /\ UnaryRule(op, type) # type \/ WideNot(op, type)
  /\ acc = ApplyUnary(op, v)
  /\ wire = EmitUnaryAs(op, WireOf(v), type, type)
  /\ exact = {ExactUnary(op, Number(v), type)}
  /\ gap = "literals"

LiteralCast(v) ==
  /\ type = TypeOfBits(v)
  /\ acc = CastTo(Make(v.raw, 1, FALSE), type)
  /\ wire = NoWire
  /\ exact = {Number(v)}
  /\ gap = "cast"

Init ==
  \/ Leaf
  \/ \E l, r \in BitsOf(1 .. TypeWidth), op \in BinaryOps : LiteralBinary(op, l, r)
  \/ \E v \in BitsOf(1 .. TypeWidth), op \in UnaryOps : LiteralUnary(op, v)
  \/ \E v \in BitsOf(1 .. TypeWidth) : LiteralCast(v)

BinaryLeft(op, b) ==
  /\ Legal(op, type, TypeOfBits(b))
  /\ acc' = Apply(op, acc, b)
  /\ type' = WidthRule(op, type, TypeOfBits(b))
  /\ wire' = EmitBinary(op, wire, type, WireOf(b), TypeOfBits(b))
  /\ exact' = ExactNumbers(op, exact, {Number(b)}, type, TypeOfBits(b))
  /\ gap' = GapOf(op, acc, b)

BinaryRight(op, b) ==
  /\ Legal(op, TypeOfBits(b), type)
  /\ acc' = Apply(op, b, acc)
  /\ type' = WidthRule(op, TypeOfBits(b), type)
  /\ wire' = EmitBinary(op, WireOf(b), TypeOfBits(b), wire, type)
  /\ exact' = ExactNumbers(op, {Number(b)}, exact, TypeOfBits(b), type)
  /\ gap' = GapOf(op, b, acc)

UnaryStep(op) ==
  /\ acc' = ApplyUnary(op, acc)
  /\ type' = UnaryRule(op, type)
  /\ wire' = EmitUnary(op, wire, type)
  /\ exact' = {ExactUnary(op, x, type) : x \in exact}
  /\ gap' = UnaryGapOf(op, type)

CastStep(to) ==
  /\ acc' = CastTo(acc, to)
  /\ type' = to
  /\ wire' = EmitCast(wire, type.isSigned, to)
  /\ exact' = {Wrap(x, to) : x \in exact}
  /\ UNCHANGED gap

\* c ? acc : b and c ? b : acc, for either value of c.
TernaryStep(b, c, first) ==
  LET bt == TypeOfBits(b)
      t  == IF first THEN TernaryRule(type, bt) ELSE TernaryRule(bt, type)
  IN  /\ b.isSigned = type.isSigned
      /\ acc' = IF first THEN Select(c, acc, b, t) ELSE Select(c, b, acc, t)
      /\ type' = t
      /\ wire' = IF first THEN EmitTernary(WireOf(c), wire, type, WireOf(b), bt)
                          ELSE EmitTernary(WireOf(c), WireOf(b), bt, wire, type)
      /\ exact' = IF (c.raw = 1) = first THEN exact ELSE {Number(b)}
      /\ UNCHANGED gap

Next ==
  /\ gap = ""
  /\ \/ \E b \in Values, op \in BinaryOps : BinaryLeft(op, b) \/ BinaryRight(op, b)
     \/ \E op \in UnaryOps : UnaryStep(op)
     \/ \E to \in Written : CastStep(to)
     \/ \E b \in Values, c \in {Truth(TRUE), Truth(FALSE)}, first \in BOOLEAN :
          TernaryStep(b, c, first)

Spec == Init /\ [][Next]_vars

-----------------------------------------------------------------------------
\* "Results are wide enough to be exact": where the tables of LANGUAGE.md
\* give a number, the interpreter holds it, and bits are lost in casts and
\* shifts only (bits.cpp against LANGUAGE.md:490-596).
Exact == gap = "" => exact \subseteq {Number(acc)}

\* Width and signedness travel with the value in the interpreter and are
\* computed once, statically, by the checker (type_check.cpp:33-56); every
\* coercion of either back end trusts that they are the same.
StaticTypeAgrees == gap = "" => TypeOfBits(acc) = type

\* What is emitted computes the interpreter's bits, at the checker's width
\* (mlirgen.cpp:164-412 against bits.cpp).
WireAgrees == gap = "" /\ wire # NoWire => wire = Wire(acc.raw, type.width)

\* No expression meets a case `arith` leaves undefined, as long as operators
\* have the types of their rules: the guards of emitDivRem and emitShift
\* cover every operand (mlirgen.cpp:326-412).
GuardsHold == gap # "literals" => IsDefined(wire)

\* The circuit's width adjustments are those of the operations they replace,
\* on every wire an expression makes and to every width: a sign extension is
\* built from copies of the top bit alone (hwgen.cpp:96-116).
AdjustAgrees ==
  gap # "literals" /\ wire # NoWire =>
    \A to \in 1 .. HostWidth, fromSigned \in BOOLEAN :
      Adjust(wire, fromSigned, to) = CoerceWire(wire, fromSigned, to)

(***************************************************************************)
(* What the passing properties leave out, each violated by the code.       *)
(***************************************************************************)
\* "`a << b`, `b >= wa`: 0" and the rows for `>>` (LANGUAGE.md:590-592), for
\* an amount that does not fit C++ `unsigned`.
HugeShiftAmounts == gap = "shift" => exact \subseteq {Number(acc)}

\* "sign follows the dividend; (a/b)*b + a%b == a whenever b != 0"
\* (LANGUAGE.md:589), for an unsigned operand with the host's top bit set.
HugeRemainders == gap = "remainder" => exact \subseteq {Number(acc)}

\* "width wa+1 if signed, wa if unsigned" (bits.cpp:67), when the divisor is
\* zero: the width the checker and the back end rely on.
DivisionByZeroWidth == gap = "division" => TypeOfBits(acc) = type

\* The result of `!a` has width 1 and is unsigned (LANGUAGE.md:524); of an
\* operand that is no u1 the checker records the operand's type.
NotIsOneBit == gap = "not" => TypeOfBits(acc) = type

\* "where the width the table gives exceeds 128, the operation is an error"
\* (LANGUAGE.md:534-535): a unary minus is accepted at any width.
WidestNegation == gap = "host" => exact \subseteq {Number(acc)}

\* An operator on untyped constants "acquires a type from its context"
\* (LANGUAGE.md:446-447); its value has the type of the operator's rule.
LiteralsTakeOneType == gap = "literals" => TypeOfBits(acc) = type

\* "Every operation in MiniHLS is defined for every input"
\* (LANGUAGE.md:574): `~127 / ~0` as an i8 is divided in eight bits.
LiteralDivisionIsDefined == gap = "literals" => IsDefined(wire)

\* "Inside `T(...)`, it takes `T`" (LANGUAGE.md:452).
CastLiteralsKeepTheirValue == gap = "cast" => exact = {Number(acc)}
=============================================================================
