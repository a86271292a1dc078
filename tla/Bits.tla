-------------------------------- MODULE Bits --------------------------------
(***************************************************************************)
(* The arithmetic of src/support/bits.cpp: values of a width and a         *)
(* signedness, computed in a host integer of HostWidth bits (u128 and i128 *)
(* in the code).  `x % 2^w` is the code's `x & mask(w)`.                   *)
(***************************************************************************)
EXTENDS Integers

CONSTANTS
  HostWidth,   \* bits of the host integer: 128 in the code
  UintWidth    \* bits of C++ `unsigned`: 32 in the code

ASSUME WidthsAssumption ==
  /\ HostWidth \in Nat \ {0}
  /\ UintWidth \in Nat \ {0}
  /\ HostWidth < 2^UintWidth

Smaller(m, n) == IF m <= n THEN m ELSE n
Larger(m, n)  == IF m >= n THEN m ELSE n
Flag(p) == IF p THEN 1 ELSE 0

(***************************************************************************)
(* The only constructor: keeps the low `width` bits.  mask() saturates at  *)
(* the host width.                                                         *)
(***************************************************************************)
Make(x, width, isSigned) ==
  [raw |-> x % 2^Smaller(width, HostWidth), width |-> width, isSigned |-> isSigned]

\* The values there are: what Make makes, of a width the host may not hold.
AllBits ==
  {v \in [raw : Nat, width : Nat \ {0}, isSigned : BOOLEAN] :
     v.raw < 2^Smaller(v.width, HostWidth)}

BitsOf(widths) ==
  UNION {[raw : 0 .. 2^w - 1, width : {w}, isSigned : BOOLEAN] : w \in widths}

\* static_cast<i128> of a host word
AsHostSigned(x) == IF x >= 2^(HostWidth - 1) THEN x - 2^HostWidth ELSE x

Value(v) ==
  IF v.isSigned /\ v.raw >= 2^(v.width - 1) THEN v.raw - 2^v.width
                                            ELSE AsHostSigned(v.raw)

\* C++ division truncates toward zero, TLA+'s \div rounds down.
TruncDiv(x, y) ==
  LET Abs(n) == IF n < 0 THEN -n ELSE n
      q == Abs(x) \div Abs(y)
  IN  IF (x < 0) # (y < 0) THEN -q ELSE q
TruncRem(x, y) == x - y * TruncDiv(x, y)

MaxW(a, b) == Larger(a.width, b.width)
MinW(a, b) == Smaller(a.width, b.width)
EitherSigned(a, b) == a.isSigned \/ b.isSigned

\* Mutant: the carry is lost.
AddWithoutCarry(a, b) == Make(Value(a) + Value(b), MaxW(a, b), EitherSigned(a, b))
Add(a, b) == Make(Value(a) + Value(b), MaxW(a, b) + 1, EitherSigned(a, b))
Sub(a, b) == Make(Value(a) - Value(b), MaxW(a, b) + 1, TRUE)
Mul(a, b) == Make(Value(a) * Value(b), a.width + b.width, EitherSigned(a, b))
Neg(a)    == Make(-Value(a), a.width + 1, TRUE)

Divide(a, b) ==
  IF b.raw = 0 THEN Make(0, a.width, a.isSigned)
  ELSE IF EitherSigned(a, b)
       THEN Make(TruncDiv(Value(a), Value(b)), a.width + 1, TRUE)
       ELSE Make(a.raw \div b.raw, a.width, FALSE)

\* Mutant: the width is the wider operand's.
WideRemainder(a, b) ==
  Make(IF b.raw = 0 THEN 0 ELSE TruncRem(Value(a), Value(b)), MaxW(a, b), EitherSigned(a, b))
Remainder(a, b) ==
  Make(IF b.raw = 0 THEN 0 ELSE TruncRem(Value(a), Value(b)),
       MinW(a, b), EitherSigned(a, b))

\* The shift amount goes through a C++ `unsigned`.
Amount(b) == b.raw % 2^UintWidth

Shl(a, b) ==
  Make(IF Amount(b) >= a.width THEN 0 ELSE a.raw * 2^Amount(b), a.width, a.isSigned)

Shr(a, b) ==
  LET sign == IF a.isSigned /\ Value(a) < 0 THEN -1 ELSE 0
      from == IF a.isSigned THEN Value(a) ELSE a.raw
  IN  Make(IF Amount(b) >= a.width THEN sign ELSE from \div 2^Amount(b),
           a.width, a.isSigned)

\* A host word built bit by bit.
Bit(x, i) == (x \div 2^i) % 2
FromBits(bit) ==
  LET upTo[n \in 0 .. HostWidth] ==
        IF n = 0 THEN 0 ELSE upTo[n - 1] + bit[n - 1] * 2^(n - 1)
  IN  upTo[HostWidth]
\* `ones` are the pairs of bits that give a one.
Bitwise2(a, b, ones) ==
  LET x == Value(a) % 2^HostWidth
      y == Value(b) % 2^HostWidth
      word == FromBits([i \in 0 .. HostWidth - 1 |-> Flag(<<Bit(x, i), Bit(y, i)>> \in ones)])
  IN  Make(word, MaxW(a, b), EitherSigned(a, b))

BitAnd(a, b) == Bitwise2(a, b, {<<1, 1>>})
BitOr(a, b)  == Bitwise2(a, b, {<<0, 1>>, <<1, 0>>, <<1, 1>>})
BitXor(a, b) == Bitwise2(a, b, {<<0, 1>>, <<1, 0>>})
BitNot(a)    == Make(-1 - a.raw, a.width, a.isSigned)

CastTo(v, type) == Make(Value(v), type.width, type.isSigned)

Compare(a, b, op) ==
  LET x == IF a.isSigned THEN Value(a) ELSE a.raw
      y == IF a.isSigned THEN Value(b) ELSE b.raw
      holds == CASE op = "<"  -> x < y
                 [] op = "<=" -> x <= y
                 [] op = ">"  -> x > y
                 [] op = ">=" -> x >= y
                 [] op = "==" -> x = y
                 [] op = "!=" -> x # y
  IN  Make(Flag(holds), 1, FALSE)
=============================================================================
