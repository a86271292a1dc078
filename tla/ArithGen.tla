------------------------------ MODULE ArithGen ------------------------------
(***************************************************************************)
(* The arithmetic half of mlirgen/mlirgen.cpp: which `arith` operations an *)
(* expression becomes.  Each emit function is written as the value the     *)
(* operations it emits compute on given wires, so it can be run against    *)
(* the interpreter.  A wire is a word of a width, without signedness,      *)
(* Undefined where `arith` defines no result, or NoWire where the walk     *)
(* reported something instead of emitting.                                 *)
(***************************************************************************)
EXTENDS Operators

Undefined == [raw |-> -1, width |-> 0]
NoWire    == [raw |-> -2, width |-> 0]     \* the null Value: nothing was emitted
Wire(x, w) == [raw |-> x % 2^w, width |-> w]
IsDefined(v) == v # Undefined

(***************************************************************************)
(* The `arith` dialect, external: two's complement words; division by      *)
(* zero, a signed quotient that overflows, and a shift by the width or     *)
(* more have no result.                                                    *)
(***************************************************************************)
SignedOf(v) == IF v.raw >= 2^(v.width - 1) THEN v.raw - 2^v.width ELSE v.raw

ExtSI(v, w)  == IF IsDefined(v) THEN Wire(SignedOf(v), w) ELSE v
ExtUI(v, w)  == IF IsDefined(v) THEN Wire(v.raw, w) ELSE v
TruncI(v, w) == IF IsDefined(v) THEN Wire(v.raw, w) ELSE v

On(a, b, x, w) == IF IsDefined(a) /\ IsDefined(b) THEN Wire(x, w) ELSE Undefined
AddI(a, b) == On(a, b, a.raw + b.raw, a.width)
SubI(a, b) == On(a, b, a.raw - b.raw, a.width)
MulI(a, b) == On(a, b, a.raw * b.raw, a.width)
BitI(op, a, b) ==
  IF ~(IsDefined(a) /\ IsDefined(b)) THEN Undefined
  ELSE Wire(FromBits([i \in 0 .. HostWidth - 1 |->
         LET p == Bit(a.raw, i) = 1
             q == Bit(b.raw, i) = 1
             r == CASE op = "&" -> p /\ q [] op = "|" -> p \/ q [] op = "^" -> p # q
         IN  IF r THEN 1 ELSE 0]), a.width)
Overflows(a, b) == SignedOf(a) = -(2^(a.width - 1)) /\ SignedOf(b) = -1
DivI(a, b, signed) ==
  IF ~IsDefined(a) \/ ~IsDefined(b) \/ b.raw = 0 \/ (signed /\ Overflows(a, b)) THEN Undefined
  ELSE IF signed THEN Wire(TruncDiv(SignedOf(a), SignedOf(b)), a.width)
                 ELSE Wire(a.raw \div b.raw, a.width)
RemI(a, b, signed) ==
  IF ~IsDefined(a) \/ ~IsDefined(b) \/ b.raw = 0 THEN Undefined
  ELSE IF signed THEN Wire(TruncRem(SignedOf(a), SignedOf(b)), a.width)
                 ELSE Wire(a.raw % b.raw, a.width)
ShI(op, a, by) ==
  IF ~IsDefined(a) \/ ~IsDefined(by) \/ by.raw >= a.width THEN Undefined
  ELSE CASE op = "shl"  -> Wire(a.raw * 2^by.raw, a.width)
         [] op = "shru" -> Wire(a.raw \div 2^by.raw, a.width)
         [] op = "shrs" -> Wire(SignedOf(a) \div 2^by.raw, a.width)
CmpI(pred, a, b, signed) ==
  LET x == IF signed THEN SignedOf(a) ELSE a.raw
      y == IF signed THEN SignedOf(b) ELSE b.raw
      holds == CASE pred = "<" -> x < y [] pred = "<=" -> x <= y
                 [] pred = ">" -> x > y [] pred = ">=" -> x >= y
                 [] pred = "==" -> x = y [] pred = "!=" -> x # y
  IN  On(a, b, IF holds THEN 1 ELSE 0, 1)
SelectI(c, t, f) == IF IsDefined(c) THEN (IF c.raw = 1 THEN t ELSE f) ELSE Undefined

-----------------------------------------------------------------------------
(***************************************************************************)
(* The emit functions.                                                     *)
(***************************************************************************)
\* coerce: which extension is the SOURCE's signedness.
\* Mutant: every extension is a zero extension.
ZeroExtended(v, fromSigned, toWidth) ==
  IF v.width > toWidth THEN TruncI(v, toWidth) ELSE ExtUI(v, toWidth)
CoerceWire(v, fromSigned, toWidth) ==
  IF v.width = toWidth \/ ~IsDefined(v) THEN v
  ELSE IF v.width > toWidth THEN TruncI(v, toWidth)
  ELSE IF fromSigned THEN ExtSI(v, toWidth) ELSE ExtUI(v, toWidth)

IntConst(raw, w) == Wire(raw, w)

BitsFor(v) == CHOOSE n \in 1 .. v + 1 : 2^(n - 1) <= v /\ v < 2^n

\* What stands in for an operand on which the operation is undefined.
\* Mutant: nothing does.
Unguarded(outside, safe, v) == v
Guarded(outside, safe, v) == SelectI(outside, safe, v)

\* Division and remainder: the guard protects the divisor.
EmitDivRem(op, l, lt, r, rt, res) ==
  LET wide   == Widest({lt.width, rt.width, res.width})
      a      == CoerceWire(l, lt.isSigned, wide)
      b      == CoerceWire(r, rt.isSigned, wide)
      zero   == IntConst(0, wide)
      byZero == CmpI("==", b, zero, FALSE)
      safe   == Guarded(byZero, IntConst(1, wide), b)
      out    == IF op = "/" THEN DivI(a, safe, res.isSigned) ELSE RemI(a, safe, res.isSigned)
  IN  CoerceWire(SelectI(byZero, zero, out), res.isSigned, res.width)

\* Shifts: the out-of-range test comes first, on the original amount.
EmitShift(op, l, lt, r, rt) ==
  LET w       == lt.width
      gw      == Widest({rt.width, BitsFor(w)})
      amount  == CoerceWire(r, FALSE, gw)
      oob     == CmpI(">=", amount, IntConst(w, gw), FALSE)
      clamped == Guarded(oob, IntConst(w - 1, gw), amount)
      inRange == Guarded(oob, IntConst(0, gw), amount)
      by      == CoerceWire(inRange, FALSE, w)
      out     == ShI(IF op = "<<" THEN "shl" ELSE "shru", l, by)
  IN  IF op = ">>" /\ lt.isSigned
      THEN ShI("shrs", l, CoerceWire(clamped, FALSE, w))
      ELSE SelectI(oob, IntConst(0, w), out)

EmitCompare(op, l, lt, r, rt) ==
  LET w == Wider(lt, rt)
  IN  CmpI(op, CoerceWire(l, lt.isSigned, w), CoerceWire(r, rt.isSigned, w), lt.isSigned)

EmitGrowing(op, l, lt, r, rt, res) ==
  LET a == CoerceWire(l, lt.isSigned, res.width)
      b == CoerceWire(r, rt.isSigned, res.width)
  IN  CASE op = "+" -> AddI(a, b)
        [] op = "-" -> SubI(a, b)
        [] op = "*" -> MulI(a, b)
        [] op \in Bitwises -> BitI(op, a, b)

BinaryOperations(op, l, lt, r, rt, res) ==
  CASE op \in Comparisons -> EmitCompare(op, l, lt, r, rt)
    [] op = "&&" -> BitI("&", l, r)
    [] op = "||" -> BitI("|", l, r)
    [] op \in Shifts -> EmitShift(op, l, lt, r, rt)
    [] op \in {"/", "%"} -> EmitDivRem(op, l, lt, r, rt, res)
    [] OTHER -> EmitGrowing(op, l, lt, r, rt, res)

\* emitBinary, of a node whose recorded type is res.
EmitBinaryAs(op, l, lt, r, rt, res) ==
  IF \/ NoWire \in {l, r}
     \/ op \in Logicals /\ ~(lt.width = 1 /\ rt.width = 1)
  THEN NoWire
  ELSE BinaryOperations(op, l, lt, r, rt, res)

EmitBinary(op, l, lt, r, rt) == EmitBinaryAs(op, l, lt, r, rt, WidthRule(op, lt, rt))

UnaryOperations(op, v, t, res) ==
  CASE op = "+" -> v
    [] op = "-" -> SubI(IntConst(0, res.width), CoerceWire(v, t.isSigned, res.width))
    [] op = "~" -> BitI("^", v, IntConst(-1, res.width))
    [] op = "!" -> CmpI("==", v, IntConst(0, t.width), FALSE)

EmitUnaryAs(op, v, t, res) == IF v = NoWire THEN NoWire ELSE UnaryOperations(op, v, t, res)

EmitUnary(op, v, t) == EmitUnaryAs(op, v, t, UnaryRule(op, t))

EmitCast(v, fromSigned, to) == IF v = NoWire THEN NoWire ELSE CoerceWire(v, fromSigned, to.width)

EmitTernary(c, t, tt, f, ft) ==
  LET w == Wider(tt, ft)
  IN  IF NoWire \in {c, t, f} THEN NoWire
      ELSE SelectI(c, CoerceWire(t, tt.isSigned, w), CoerceWire(f, ft.isSigned, w))
=============================================================================
