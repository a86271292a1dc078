----------------------------- MODULE Operators -----------------------------
(***************************************************************************)
(* What an operator of the language means to each stage that meets it: its *)
(* result in the tree-walking evaluators (interp/interpreter.cpp and       *)
(* sema/const_eval.cpp dispatch alike), and the type the checker gives it  *)
(* (sema/type_check.cpp, widthRule and infer).                             *)
(***************************************************************************)
EXTENDS Bits

Comparisons == {"<", "<=", ">", ">=", "==", "!="}
Logicals    == {"&&", "||"}
Shifts      == {"<<", ">>"}
Bitwises    == {"&", "|", "^"}
BinaryOps   == {"+", "-", "*", "/", "%"} \cup Bitwises \cup Shifts \cup Comparisons \cup Logicals
UnaryOps    == {"-", "+", "~", "!"}

Truth(p) == Make(IF p THEN 1 ELSE 0, 1, FALSE)

Apply(op, l, r) ==
  CASE op = "+"  -> Add(l, r)
    [] op = "-"  -> Sub(l, r)
    [] op = "*"  -> Mul(l, r)
    [] op = "/"  -> Divide(l, r)
    [] op = "%"  -> Remainder(l, r)
    [] op = "&"  -> BitAnd(l, r)
    [] op = "|"  -> BitOr(l, r)
    [] op = "^"  -> BitXor(l, r)
    [] op = "<<" -> Shl(l, r)
    [] op = ">>" -> Shr(l, r)
    [] op \in Comparisons -> Compare(l, r, op)
    [] op = "&&" -> Truth(l.raw # 0 /\ r.raw # 0)
    [] op = "||" -> Truth(l.raw # 0 \/ r.raw # 0)

ApplyUnary(op, a) ==
  CASE op = "-" -> Neg(a)
    [] op = "+" -> a
    [] op = "~" -> BitNot(a)
    [] op = "!" -> Truth(a.raw = 0)

\* The result's width is the wider arm's, and both arms were evaluated.
Select(c, t, f, type) == CastTo(IF c.raw # 0 THEN t ELSE f, type)

-----------------------------------------------------------------------------
Type(w, s) == [width |-> w, isSigned |-> s]
TypeOfBits(v) == Type(v.width, v.isSigned)
Widest(widths) == CHOOSE w \in widths : \A v \in widths : v <= w
Wider(l, r)    == Widest({l.width, r.width})
Narrower(l, r) == l.width + r.width - Wider(l, r)

WidthRule(op, l, r) ==
  CASE op = "+" -> Type(Wider(l, r) + 1, l.isSigned)
    [] op = "-" -> Type(Wider(l, r) + 1, TRUE)
    [] op = "*" -> Type(l.width + r.width, l.isSigned)
    [] op = "/" -> IF l.isSigned THEN Type(l.width + 1, TRUE) ELSE Type(l.width, FALSE)
    [] op = "%" -> Type(Narrower(l, r), l.isSigned)
    [] op \in Bitwises -> Type(Wider(l, r), l.isSigned)
    [] op \in Shifts   -> l
    [] op \in Comparisons \cup Logicals -> Type(1, FALSE)

UnaryRule(op, a) == IF op = "-" THEN Type(a.width + 1, TRUE) ELSE a

TernaryRule(t, f) == Type(Wider(t, f), t.isSigned)

\* infer(): mixed signedness is reported, shifts excepted.
Typed(op, l, r) == l.isSigned = r.isSigned \/ op \in Shifts
=============================================================================
