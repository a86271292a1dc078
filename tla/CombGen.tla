------------------------------ MODULE CombGen ------------------------------
(***************************************************************************)
(* The width adjustments of hwgen/hwgen.cpp.  comb has neither signedness  *)
(* nor extensions; they are built from its extract, replicate and concat,  *)
(* which are external.  Its other operations are words', like arith's.     *)
(***************************************************************************)
EXTENDS ArithGen

Extract(v, low, w) == IF IsDefined(v) THEN Wire(v.raw \div 2^low, w) ELSE Undefined
Replicate(bit, n) == IF IsDefined(bit) THEN Wire(bit.raw * (2^n - 1), n) ELSE Undefined
Concat(high, v) ==
  IF IsDefined(high) /\ IsDefined(v)
  THEN Wire(high.raw * 2^v.width + v.raw, high.width + v.width) ELSE Undefined

\* Mutant: the bit below the top one is replicated.
SextWrongBit(v, to) ==
  Concat(Replicate(Extract(v, IF v.width = 1 THEN 0 ELSE v.width - 2, 1), to - v.width), v)
Sext(v, to) == Concat(Replicate(Extract(v, v.width - 1, 1), to - v.width), v)
Zext(v, to) == Concat(Wire(0, to - v.width), v)
Trunc(v, to) == Extract(v, 0, to)

Adjust(v, fromSigned, to) ==
  IF to = v.width THEN v
  ELSE IF to < v.width THEN Trunc(v, to)
  ELSE IF fromSigned THEN Sext(v, to) ELSE Zext(v, to)
=============================================================================
