----------------------------- MODULE BitsProofs -----------------------------
(***************************************************************************)
(* The arithmetic of Bits and the operators of the language for values of  *)
(* every width: what Make keeps of a number, which operations lose         *)
(* nothing, and that an operator's result has the checker's type.          *)
(***************************************************************************)
EXTENDS Operators, FiniteSetTheorems, NaturalsInduction, TLAPS

-----------------------------------------------------------------------------
(***************************************************************************)
(* Powers of two, from what the library knows of the sets of subsets.      *)
(***************************************************************************)
LEMMA Subsets ==
  ASSUME NEW n \in Nat
  PROVE  IsFiniteSet(SUBSET (1 .. n)) /\ Cardinality(SUBSET (1 .. n)) = 2^n
<1>1. IsFiniteSet(1 .. n) /\ Cardinality(1 .. n) = n
  BY FS_Interval
<1> QED
  BY <1>1, FS_SUBSET

LEMMA PowerOfTwo == ASSUME NEW n \in Nat PROVE 2^n \in Nat \ {0}
<1>1. IsFiniteSet(SUBSET (1 .. n)) /\ Cardinality(SUBSET (1 .. n)) = 2^n
  BY Subsets
<1>2. {} \in SUBSET (1 .. n)
  OBVIOUS
<1>3. Cardinality(SUBSET (1 .. n)) \in Nat
  BY <1>1, FS_CardinalityType
<1>4. Cardinality(SUBSET (1 .. n)) # 0
  BY <1>1, <1>2, FS_EmptySet
<1> QED
  BY <1>1, <1>3, <1>4

LEMMA PowersGrow ==
  ASSUME NEW m \in Nat, NEW n \in Nat, m <= n
  PROVE  2^m <= 2^n
<1>1. SUBSET (1 .. m) \in SUBSET (SUBSET (1 .. n))
  OBVIOUS
<1>2. /\ IsFiniteSet(SUBSET (1 .. n)) /\ Cardinality(SUBSET (1 .. n)) = 2^n
      /\ Cardinality(SUBSET (1 .. m)) = 2^m
  BY Subsets
<1> QED
  BY <1>1, <1>2, FS_Subset

\* Subsets without n and subsets with n are equally many.
LEMMA PowerDoubles == ASSUME NEW n \in Nat \ {0} PROVE 2^n = 2 * 2^(n - 1)
<1> DEFINE A == SUBSET (1 .. n - 1)
           B == {T \cup {n} : T \in A}
           f == [T \in A |-> T \cup {n}]
           g == [U \in B |-> U \ {n}]
<1>0. n - 1 \in Nat /\ n \in Nat
  OBVIOUS
<1>1. /\ IsFiniteSet(A) /\ Cardinality(A) = 2^(n - 1)
      /\ IsFiniteSet(SUBSET (1 .. n)) /\ Cardinality(SUBSET (1 .. n)) = 2^n
  <2>1. IsFiniteSet(A) /\ Cardinality(A) = 2^(n - 1)
    BY <1>0, Subsets
  <2>2. IsFiniteSet(SUBSET (1 .. n)) /\ Cardinality(SUBSET (1 .. n)) = 2^n
    BY <1>0, Subsets
  <2> QED
    BY <2>1, <2>2
<1>2. A \cup B = SUBSET (1 .. n) /\ A \cap B = {}
  <2>1. \A T \in A : n \notin T
    <3>1. n \notin 1 .. n - 1
      BY <1>0
    <3> QED
      BY <3>1
  <2>2. A \cap B = {}
    BY <2>1
  <2>3. A \subseteq SUBSET (1 .. n) /\ B \subseteq SUBSET (1 .. n)
    <3>1. 1 .. n - 1 \subseteq 1 .. n /\ n \in 1 .. n
      BY <1>0
    <3> QED
      BY <3>1
  <2>4. ASSUME NEW T \in SUBSET (1 .. n) PROVE T \in A \cup B
    <3>1. T \ {n} \in A
      <4>1. \A i \in 1 .. n : i # n => i \in 1 .. n - 1
        BY <1>0
      <4> QED
        BY <4>1
    <3>2. CASE n \in T
      <4>1. T = (T \ {n}) \cup {n}
        BY <3>2
      <4> QED
        BY <3>1, <4>1
    <3>3. CASE n \notin T
      BY <3>3
    <3> QED
      BY <3>2, <3>3
  <2> QED
    BY <2>2, <2>3, <2>4
<1>3. f \in Surjection(A, B) /\ g \in Surjection(B, A)
  <2>1. \A T \in A : T \cup {n} \in B /\ (T \cup {n}) \ {n} = T
    BY <1>0
  <2>2. \A U \in B : \E T \in A : U = T \cup {n}
    OBVIOUS
  <2>3. ASSUME NEW U \in B PROVE U \ {n} \in A
    <3>1. PICK T \in A : U = T \cup {n}
      BY <2>2
    <3>2. (T \cup {n}) \ {n} = T
      BY <2>1
    <3>3. U \ {n} = T
      BY <3>1, <3>2
    <3> QED
      BY <3>3
  <2>4. f \in Surjection(A, B)
    BY <2>1, <2>2 DEF Surjection
  <2>5. g \in Surjection(B, A)
    BY <2>1, <2>3 DEF Surjection
  <2> QED
    BY <2>4, <2>5
<1> HIDE DEF A, B, f, g
<1>4. IsFiniteSet(B) /\ Cardinality(B) = Cardinality(A)
  <2>1. IsFiniteSet(B) /\ Cardinality(B) <= Cardinality(A)
    BY <1>1, <1>3, FS_Surjection
  <2>2. Cardinality(A) <= Cardinality(B)
    BY <1>3, <2>1, FS_Surjection
  <2>3. Cardinality(A) \in Nat /\ Cardinality(B) \in Nat
    BY <1>1, <2>1, FS_CardinalityType
  <2> QED
    BY <2>1, <2>2, <2>3
<1>5. /\ Cardinality(A \cup B) = Cardinality(A) + Cardinality(B) - Cardinality(A \cap B)
      /\ Cardinality({}) = 0
  BY <1>1, <1>4, FS_Union, FS_EmptySet
<1>6. 2^(n - 1) \in Nat
  BY <1>0, PowerOfTwo
<1>7. 2^n = 2^(n - 1) + 2^(n - 1) - 0
  BY <1>1, <1>2, <1>4, <1>5
<1> QED
  BY <1>6, <1>7

-----------------------------------------------------------------------------
(***************************************************************************)
(* Residues.                                                               *)
(***************************************************************************)
LEMMA Quotient ==
  ASSUME NEW m \in Nat \ {0}, NEW x \in Int
  PROVE  x = m * (x \div m) + (x % m) /\ x \div m \in Int /\ x % m \in 0 .. m - 1
<1>1. x = m * (x \div m) + (x % m) /\ x \div m \in Int
  OBVIOUS
<1>2. x % m \in Int /\ 0 <= x % m /\ x % m < m
  OBVIOUS
<1> QED
  BY <1>1, <1>2

LEMMA Wraps ==
  ASSUME NEW m \in Nat \ {0}, NEW q \in Int, NEW r \in 0 .. m - 1
  PROVE  (m * q + r) % m = r
OBVIOUS

LEMMA MultiplesVanish ==
  ASSUME NEW m \in Nat \ {0}, NEW q \in Int, NEW x \in Int
  PROVE  (m * q + x) % m = x % m
<1>1. x = m * (x \div m) + (x % m) /\ x \div m \in Int /\ x % m \in 0 .. m - 1
  BY Quotient
<1> DEFINE d == x \div m
           r == x % m
<1> HIDE DEF d, r
<1>2. x = m * d + r /\ d \in Int /\ r \in 0 .. m - 1
  BY <1>1 DEF d, r
<1>3. m * q + x = m * (q + d) + r /\ q + d \in Int
  BY <1>2
<1>4. (m * (q + d) + r) % m = r
  BY <1>2, <1>3, Wraps
<1> QED
  BY <1>3, <1>4 DEF r

\* A number and its residue agree.
LEMMA Residue ==
  ASSUME NEW m \in Nat \ {0}, NEW e \in Int
  PROVE  ((e % m) - e) % m = 0
<1>1. e = m * (e \div m) + (e % m) /\ e \div m \in Int
  BY Quotient
<1>2. (e % m) - e = m * (-(e \div m))
  BY <1>1
<1>3. \A k \in Int : (m * k) % m = 0
  OBVIOUS
<1> QED
  BY <1>1, <1>2, <1>3

\* Sums and differences of residues.
LEMMA ResidueSum ==
  ASSUME NEW m \in Nat \ {0}, NEW x \in Int, NEW y \in Int
  PROVE  /\ ((x % m) + (y % m)) % m = (x + y) % m
         /\ ((x % m) - (y % m)) % m = (x - y) % m
<1> DEFINE p == x \div m
           q == y \div m
           r == x % m
           s == y % m
<1>1. x = m * p + r /\ y = m * q + s /\ p \in Int /\ q \in Int /\ r \in Int /\ s \in Int
  BY Quotient
<1> HIDE DEF p, q, r, s
<1>2. x + y = m * (p + q) + (r + s) /\ x - y = m * (p - q) + (r - s)
  BY <1>1
<1>3. /\ (m * (p + q) + (r + s)) % m = (r + s) % m
      /\ (m * (p - q) + (r - s)) % m = (r - s) % m
  <2>1. p + q \in Int /\ p - q \in Int /\ r + s \in Int /\ r - s \in Int
    BY <1>1
  <2>2. (m * (p + q) + (r + s)) % m = (r + s) % m
    BY <2>1, MultiplesVanish
  <2>3. (m * (p - q) + (r - s)) % m = (r - s) % m
    BY <2>1, MultiplesVanish
  <2> QED
    BY <2>2, <2>3
<1>4. (r + s) % m = (x + y) % m /\ (r - s) % m = (x - y) % m
  BY <1>2, <1>3
<1> QED
  BY <1>4 DEF r, s

-----------------------------------------------------------------------------
(***************************************************************************)
(* The numbers of a type, the widths whose numbers a host integer tells    *)
(* apart, and the values of a type.                                        *)
(***************************************************************************)
Fits(n, w, s) ==
  IF s THEN n \in -(2^(w - 1)) .. 2^(w - 1) - 1 ELSE n \in 0 .. 2^w - 1

Hosted(w, s) == w \in Nat /\ 1 <= w /\ (IF s THEN w <= HostWidth ELSE w < HostWidth)

Canonical(v) ==
  /\ v.isSigned \in BOOLEAN
  /\ Hosted(v.width, v.isSigned)
  /\ v.raw \in 0 .. 2^v.width - 1

LEMMA MakeFields ==
  ASSUME NEW x \in Int, NEW w \in 0 .. HostWidth, NEW s
  PROVE  /\ Make(x, w, s).raw = x % 2^w
         /\ Make(x, w, s).width = w
         /\ Make(x, w, s).isSigned = s
<1>1. w <= HostWidth
  BY WidthsAssumption
<1> QED
  BY <1>1 DEF Make, Smaller

\* 2^(w - 1) and 2^w, where the host's sign bit stands above them.
LEMMA HostedPowers ==
  ASSUME NEW w, NEW s \in BOOLEAN, Hosted(w, s)
  PROVE  /\ w \in 1 .. HostWidth /\ 2^w \in Nat \ {0} /\ 2^(w - 1) \in Nat \ {0}
         /\ 2^w = 2 * 2^(w - 1)
         /\ 2^(HostWidth - 1) \in Nat
         /\ 2^(w - 1) <= 2^(HostWidth - 1)
         /\ ~s => 2^w <= 2^(HostWidth - 1)
<1>1. /\ HostWidth \in Nat /\ HostWidth - 1 \in Nat /\ w \in Nat \ {0} /\ w - 1 \in Nat
      /\ w <= HostWidth /\ w - 1 <= HostWidth - 1
      /\ ~s => w <= HostWidth - 1
  BY WidthsAssumption DEF Hosted
<1>2. 2^w \in Nat \ {0}
  BY <1>1, PowerOfTwo
<1>3. 2^(w - 1) \in Nat \ {0}
  BY <1>1, PowerOfTwo
<1>4. 2^(HostWidth - 1) \in Nat
  BY <1>1, PowerOfTwo
<1>5. 2^w = 2 * 2^(w - 1)
  BY <1>1, PowerDoubles
<1> DEFINE top  == HostWidth - 1
           next == w - 1
<1>6. 2^next <= 2^top
  <2>1. next \in Nat /\ top \in Nat /\ next <= top
    BY <1>1
  <2> HIDE DEF next, top
  <2> QED
    BY <2>1, PowersGrow
<1>7. ASSUME ~s PROVE 2^w <= 2^top
  <2>1. w \in Nat /\ top \in Nat /\ w <= top
    BY <1>1, <1>7
  <2> HIDE DEF top
  <2> QED
    BY <2>1, PowersGrow
<1> QED
  BY <1>1, <1>2, <1>3, <1>4, <1>5, <1>6, <1>7

\* Make keeps the numbers of the type it is given.
LEMMA ValueOfMake ==
  ASSUME NEW n \in Int, NEW w, NEW s \in BOOLEAN, Hosted(w, s), Fits(n, w, s)
  PROVE  Value(Make(n, w, s)) = n
<1> DEFINE v == Make(n, w, s)
           M == 2^w
           H == 2^(w - 1)
           T == 2^(HostWidth - 1)
<1>1. /\ w \in 0 .. HostWidth /\ M \in Nat \ {0} /\ H \in Nat \ {0} /\ M = 2 * H
      /\ T \in Nat /\ H <= T
      /\ ~s => M <= T
  BY HostedPowers
<1>2. v.raw = n % M /\ v.width = w /\ v.isSigned = s
  BY <1>1, MakeFields
<1>3. Value(v) = IF s /\ n % M >= H THEN (n % M) - M
                 ELSE IF n % M >= T THEN (n % M) - 2^HostWidth ELSE n % M
  BY <1>2 DEF Value, AsHostSigned
<1>4. IF s THEN n \in -H .. H - 1 ELSE n \in 0 .. M - 1
  BY DEF Fits
<1> HIDE DEF v, M, H, T
<1>5. CASE n >= 0
  <2>1. n \in 0 .. M - 1
    <3>1. CASE s
      BY <1>1, <1>4, <1>5, <3>1
    <3>2. CASE ~s
      BY <1>4, <3>2
    <3> QED
      BY <3>1, <3>2
  <2>2. n % M = n
    BY <1>1, <2>1
  <2>3. s => n < H /\ n < T
    BY <1>1, <1>4, <1>5
  <2>4. ~s => n < T
    BY <1>1, <1>4, <1>5
  <2>5. ~(s /\ n >= H) /\ ~(n >= T)
    BY <1>1, <2>3, <2>4
  <2> QED
    BY <1>3, <2>2, <2>5 DEF v
<1>6. CASE n < 0
  <2>1. s /\ n + M \in 0 .. M - 1 /\ n + M >= H
    BY <1>1, <1>4, <1>6
  <2>2. (M * (-1) + (n + M)) % M = n + M
    BY <1>1, <2>1, Wraps
  <2>3. M * (-1) + (n + M) = n
    BY <1>1
  <2>4. n % M = n + M
    BY <2>2, <2>3
  <2>5. Value(v) = (n + M) - M
    <3>1. s /\ n % M >= H
      BY <2>1, <2>4
    <3>2. Value(v) = (n % M) - M
      BY <1>3, <3>1
    <3> QED
      BY <1>1, <2>4, <3>2
  <2> QED
    BY <1>1, <2>5 DEF v
<1> QED
  BY <1>5, <1>6

\* The number of a value is one of its type's.
LEMMA ValueFits ==
  ASSUME NEW v, Canonical(v)
  PROVE  Value(v) \in Int /\ Fits(Value(v), v.width, v.isSigned)
<1> DEFINE w == v.width
           s == v.isSigned
           r == v.raw
           M == 2^w
           H == 2^(w - 1)
           T == 2^(HostWidth - 1)
<1>1. /\ M \in Nat \ {0} /\ H \in Nat \ {0} /\ M = 2 * H
      /\ T \in Nat /\ H <= T
      /\ ~s => M <= T
  BY HostedPowers DEF Canonical
<1>2. Value(v) = IF s /\ r >= H THEN r - M ELSE IF r >= T THEN r - 2^HostWidth ELSE r
  BY DEF Value, AsHostSigned
<1>3. r \in 0 .. M - 1 /\ s \in BOOLEAN
  BY DEF Canonical
<1> HIDE DEF w, s, r, M, H, T
<1>4. CASE s
  <2>1. Value(v) \in -H .. H - 1
    <3>1. CASE r >= H
      <4>1. Value(v) = r - M
        BY <1>2, <1>4, <3>1
      <4> QED
        BY <1>1, <1>3, <3>1, <4>1
    <3>2. CASE ~(r >= H)
      <4>1. ~(r >= T)
        BY <1>1, <1>3, <3>2
      <4>2. Value(v) = r
        BY <1>2, <3>2, <4>1
      <4> QED
        BY <1>1, <1>3, <3>2, <4>2
    <3> QED
      BY <3>1, <3>2
  <2> QED
    BY <1>1, <1>4, <2>1 DEF Fits, w, s, H
<1>5. CASE ~s
  <2>1. ~(r >= T)
    BY <1>1, <1>3, <1>5
  <2>2. Value(v) = r
    BY <1>2, <1>5, <2>1
  <2> QED
    BY <1>1, <1>3, <1>5, <2>2 DEF Fits, w, s, M
<1> QED
  BY <1>4, <1>5

\* A wider type of the same signedness has all of a type's numbers; a signed
\* one that is wider has those of an unsigned one.
LEMMA WiderFits ==
  ASSUME NEW n \in Int, NEW v \in Nat \ {0}, NEW w \in Nat \ {0}, v <= w,
         NEW s \in BOOLEAN, Fits(n, v, s)
  PROVE  Fits(n, w, s)
<1>1. v \in Nat /\ w \in Nat /\ v - 1 \in Nat /\ w - 1 \in Nat /\ v - 1 <= w - 1
  OBVIOUS
<1>2. 2^v <= 2^w /\ 2^v \in Nat /\ 2^w \in Nat
  BY <1>1, PowersGrow, PowerOfTwo
<1>3. 2^(v - 1) <= 2^(w - 1) /\ 2^(v - 1) \in Nat /\ 2^(w - 1) \in Nat
  BY <1>1, PowersGrow, PowerOfTwo
<1>4. CASE s
  BY <1>3, <1>4 DEF Fits
<1>5. CASE ~s
  BY <1>2, <1>5 DEF Fits
<1> QED
  BY <1>4, <1>5

-----------------------------------------------------------------------------
(***************************************************************************)
(* Sums, differences, negations and conversions.                           *)
(***************************************************************************)
\* "Results are wide enough to be exact" (LANGUAGE.md): for operands of every
\* width of one signedness, as long as the host's integer holds the result
\* (operator+, bits.cpp).
THEOREM AddIsExact ==
  ASSUME NEW a, NEW b, Canonical(a), Canonical(b), a.isSigned = b.isSigned,
         Hosted(MaxW(a, b) + 1, a.isSigned)
  PROVE  Value(Add(a, b)) = Value(a) + Value(b)
<1> DEFINE w == MaxW(a, b)
           s == a.isSigned
           x == Value(a)
           y == Value(b)
<1>1. /\ w \in Nat \ {0} /\ a.width \in Nat \ {0} /\ b.width \in Nat \ {0}
      /\ a.width <= w /\ b.width <= w /\ s \in BOOLEAN
  BY DEF Canonical, Hosted, MaxW, Larger
<1>2. x \in Int /\ Fits(x, a.width, s)
  BY ValueFits
<1>3. y \in Int /\ Fits(y, b.width, s)
  BY ValueFits
<1> HIDE DEF x, y
<1>4. Fits(x, w, s)
  BY <1>1, <1>2, WiderFits
<1>5. Fits(y, w, s)
  BY <1>1, <1>3, WiderFits
<1> HIDE DEF w
<1>6. 2^(w + 1) = 2 * 2^w /\ 2^w = 2 * 2^(w - 1) /\ 2^w \in Nat /\ 2^(w - 1) \in Nat
  <2>1. w + 1 \in Nat \ {0} /\ (w + 1) - 1 = w /\ w - 1 \in Nat
    BY <1>1
  <2>2. 2^(w + 1) = 2 * 2^((w + 1) - 1)
    BY <2>1, PowerDoubles
  <2>3. 2^w = 2 * 2^(w - 1)
    BY <1>1, PowerDoubles
  <2>4. 2^w \in Nat
    BY <1>1, PowerOfTwo
  <2>5. 2^(w - 1) \in Nat
    BY <2>1, PowerOfTwo
  <2> QED
    BY <2>1, <2>2, <2>3, <2>4, <2>5
<1>7. Fits(x + y, w + 1, s)
  <2>1. (w + 1) - 1 = w
    BY <1>1
  <2>2. CASE s
    <3>1. x \in -(2^(w - 1)) .. 2^(w - 1) - 1 /\ y \in -(2^(w - 1)) .. 2^(w - 1) - 1
      BY <1>4, <1>5, <2>2 DEF Fits
    <3>2. x + y \in -(2^w) .. 2^w - 1
      BY <1>2, <1>3, <1>6, <3>1
    <3> QED
      BY <2>1, <2>2, <3>2 DEF Fits
  <2>3. CASE ~s
    <3>1. x \in 0 .. 2^w - 1 /\ y \in 0 .. 2^w - 1
      BY <1>4, <1>5, <2>3 DEF Fits
    <3>2. x + y \in 0 .. 2^(w + 1) - 1
      BY <1>2, <1>3, <1>6, <3>1
    <3> QED
      BY <2>3, <3>2 DEF Fits
  <2> QED
    BY <2>2, <2>3
<1>8. x + y \in Int /\ Hosted(w + 1, s)
  BY <1>2, <1>3 DEF w
<1>9. Value(Make(x + y, w + 1, s)) = x + y
  BY <1>1, <1>7, <1>8, ValueOfMake
<1>10. Add(a, b) = Make(x + y, w + 1, EitherSigned(a, b)) /\ EitherSigned(a, b) = s
  BY <1>1 DEF Add, x, y, w, EitherSigned
<1> QED
  BY <1>9, <1>10 DEF x, y

\* A difference is signed, whatever its operands are (operator-, bits.cpp).
THEOREM SubIsExact ==
  ASSUME NEW a, NEW b, Canonical(a), Canonical(b), a.isSigned = b.isSigned,
         Hosted(MaxW(a, b) + 1, TRUE)
  PROVE  Value(Sub(a, b)) = Value(a) - Value(b)
<1> DEFINE w == MaxW(a, b)
           s == a.isSigned
           x == Value(a)
           y == Value(b)
<1>1. /\ w \in Nat \ {0} /\ a.width \in Nat \ {0} /\ b.width \in Nat \ {0}
      /\ a.width <= w /\ b.width <= w /\ s \in BOOLEAN
  BY DEF Canonical, Hosted, MaxW, Larger
<1>2. x \in Int /\ Fits(x, a.width, s)
  BY ValueFits
<1>3. y \in Int /\ Fits(y, b.width, s)
  BY ValueFits
<1> HIDE DEF x, y
<1>4. Fits(x, w, s)
  BY <1>1, <1>2, WiderFits
<1>5. Fits(y, w, s)
  BY <1>1, <1>3, WiderFits
<1> HIDE DEF w
<1>6. 2^w = 2 * 2^(w - 1) /\ 2^w \in Nat /\ 2^(w - 1) \in Nat
  <2>1. w - 1 \in Nat /\ w \in Nat
    BY <1>1
  <2>2. 2^w = 2 * 2^(w - 1)
    BY <1>1, PowerDoubles
  <2>3. 2^w \in Nat
    BY <2>1, PowerOfTwo
  <2>4. 2^(w - 1) \in Nat
    BY <2>1, PowerOfTwo
  <2> QED
    BY <2>2, <2>3, <2>4
<1>7. Fits(x - y, w + 1, TRUE)
  <2>1. (w + 1) - 1 = w
    BY <1>1
  <2>2. x - y \in -(2^w) .. 2^w - 1
    <3>1. CASE s
      <4>1. x \in -(2^(w - 1)) .. 2^(w - 1) - 1 /\ y \in -(2^(w - 1)) .. 2^(w - 1) - 1
        BY <1>4, <1>5, <3>1 DEF Fits
      <4> QED
        BY <1>2, <1>3, <1>6, <4>1
    <3>2. CASE ~s
      <4>1. x \in 0 .. 2^w - 1 /\ y \in 0 .. 2^w - 1
        BY <1>4, <1>5, <3>2 DEF Fits
      <4> QED
        BY <1>2, <1>3, <1>6, <4>1
    <3> QED
      BY <3>1, <3>2
  <2> QED
    BY <2>1, <2>2 DEF Fits
<1>8. x - y \in Int
  BY <1>2, <1>3
<1>11. Hosted(w + 1, TRUE)
  BY DEF w
<1>9. Value(Make(x - y, w + 1, TRUE)) = x - y
  BY <1>7, <1>8, <1>11, ValueOfMake
<1>10. Sub(a, b) = Make(x - y, w + 1, TRUE)
  BY DEF Sub, x, y, w
<1> QED
  BY <1>9, <1>10 DEF x, y

\* A conversion to a wider type of the same signedness keeps the number
\* (castTo, bits.cpp).
THEOREM WideningIsExact ==
  ASSUME NEW v, Canonical(v), NEW type, type.isSigned = v.isSigned,
         Hosted(type.width, type.isSigned), v.width <= type.width
  PROVE  Value(CastTo(v, type)) = Value(v)
<1>1. Value(v) \in Int /\ Fits(Value(v), v.width, v.isSigned)
  BY ValueFits
<1>2. v.width \in Nat \ {0} /\ type.width \in Nat \ {0} /\ v.isSigned \in BOOLEAN
  BY DEF Canonical, Hosted
<1>3. Fits(Value(v), type.width, v.isSigned)
  BY <1>1, <1>2, WiderFits
<1>4. Value(Make(Value(v), type.width, type.isSigned)) = Value(v)
  BY <1>1, <1>2, <1>3, ValueOfMake
<1> QED
  BY <1>4 DEF CastTo

-----------------------------------------------------------------------------
(***************************************************************************)
(* A word built bit by bit is a number.  What FromBits defines by          *)
(* recursion exists, and is natural at every step: were it not, it would   *)
(* fail at a least step, and so would the one before.                      *)
(***************************************************************************)
Less == {ss \in Nat \X Nat : ss[1] < ss[2]}

\* Every set of numbers has a least one.
LEMMA LeastNumber ==
  ASSUME NEW T, T \subseteq Nat, T # {}
  PROVE  \E x \in T : \A y \in T : x <= y
<1>1. OpToRel(<, Nat) = Less
  BY Zenon DEF OpToRel, Less
<1>2. IsWellFoundedOn(Less, Nat)
  BY <1>1, NatLessThanWellFounded, Zenon
<1>3. PICK x \in T : \A y \in T : ~ (<<y, x>> \in Less)
  BY <1>2, WFMin
<1>4. ASSUME NEW y \in T
      PROVE  x <= y
  <2>1. x \in Nat /\ y \in Nat
    OBVIOUS
  <2>2. <<y, x>> \notin Less
    BY <1>3
  <2>3. ~(y < x)
    BY <2>1, <2>2 DEF Less
  <2> QED
    BY <2>1, <2>3
<1> QED
  BY <1>4

\* A function that is defined by recursion over bits exists.
Builds(f, bit, k) ==
  f = [n \in 0 .. k |-> IF n = 0 THEN 0 ELSE f[n - 1] + bit[n - 1] * 2^(n - 1)]

LEMMA BuiltUpTo ==
  ASSUME NEW bit, NEW k \in Nat PROVE \E f : Builds(f, bit, k)
<1> DEFINE T == {m \in Nat : ~ \E f : Builds(f, bit, m)}
<1>1. CASE T = {}
  BY <1>1
<1>2. CASE T # {}
  <2>1. PICK m \in T : \A y \in T : m <= y
    BY <1>2, LeastNumber
  <2>2. m # 0
    <3>1. Builds([n \in 0 .. 0 |-> 0], bit, 0)
      BY DEF Builds
    <3> QED
      BY <2>1, <3>1
  <2>3. m - 1 \in Nat /\ m \in Nat /\ m - 1 \notin T
    BY <2>1, <2>2
  <2>4. PICK f : Builds(f, bit, m - 1)
    BY <2>3
  <2> DEFINE g == [n \in 0 .. m |-> IF n = 0 THEN 0 ELSE f[n - 1] + bit[n - 1] * 2^(n - 1)]
  <2>5. \A n \in 0 .. m - 1 : g[n] = f[n]
    BY <2>3, <2>4 DEF Builds
  <2>6. \A n \in 0 .. m : n # 0 => n - 1 \in 0 .. m - 1
    BY <2>3
  <2>7. \A n \in 0 .. m : n # 0 => f[n - 1] = g[n - 1]
    BY <2>5, <2>6
  <2>8. Builds(g, bit, m)
    BY <2>7 DEF Builds
  <2> QED
    BY <2>1, <2>8
<1> QED
  BY <1>1, <1>2

LEMMA BuiltIsNatural ==
  ASSUME NEW bit, NEW k \in Nat, \A i \in 0 .. k - 1 : bit[i] \in Nat,
         NEW f, Builds(f, bit, k)
  PROVE  \A n \in 0 .. k : f[n] \in Nat
<1> DEFINE T == {m \in 0 .. k : f[m] \notin Nat}
<1>1. CASE T = {}
  BY <1>1
<1>2. CASE T # {}
  <2>1. PICK m \in T : \A y \in T : m <= y
    <3>1. T \subseteq Nat
      OBVIOUS
    <3> HIDE DEF T
    <3> QED
      BY <1>2, <3>1, LeastNumber
  <2>2. f[0] = 0
    BY DEF Builds
  <2>3. m # 0 /\ m \in 0 .. k
    BY <2>1, <2>2
  <2>4. f[m] = f[m - 1] + bit[m - 1] * 2^(m - 1)
    BY <2>3 DEF Builds
  <2>5. m - 1 \in 0 .. k /\ m - 1 \in 0 .. k - 1 /\ m - 1 \notin T /\ m - 1 \in Nat
    BY <2>1, <2>3
  <2>6. f[m - 1] \in Nat /\ bit[m - 1] \in Nat /\ 2^(m - 1) \in Nat
    BY <2>5, PowerOfTwo
  <2>7. f[m] \in Nat
    BY <2>4, <2>6
  <2> QED
    BY <2>1, <2>7
<1> QED
  BY <1>1, <1>2

LEMMA WordIsNatural ==
  ASSUME NEW bit, \A i \in 0 .. HostWidth - 1 : bit[i] \in Nat
  PROVE  FromBits(bit) \in Nat
<1> DEFINE u == CHOOSE f : Builds(f, bit, HostWidth)
<1>1. HostWidth \in Nat
  BY WidthsAssumption
<1>2. Builds(u, bit, HostWidth)
  BY <1>1, BuiltUpTo
<1>3. FromBits(bit) = u[HostWidth]
  BY DEF FromBits, Builds
<1> HIDE DEF u
<1>4. u[HostWidth] \in Nat
  BY <1>1, <1>2, BuiltIsNatural
<1> QED
  BY <1>3, <1>4

-----------------------------------------------------------------------------
(***************************************************************************)
(* Values as the interpreter computes them: of a width the host's integer  *)
(* need not hold, but no more than its bits.                               *)
(***************************************************************************)
Kept(w) == Smaller(w, HostWidth)

Proper(v) ==
  /\ v.width \in Nat \ {0}
  /\ v.isSigned \in BOOLEAN
  /\ v.raw \in 0 .. 2^Kept(v.width) - 1

LEMMA KeptWidth ==
  ASSUME NEW w \in Nat \ {0}
  PROVE  Kept(w) \in Nat \ {0} /\ Kept(w) <= HostWidth /\ Kept(w) <= w
BY WidthsAssumption DEF Kept, Smaller

LEMMA MakeProper ==
  ASSUME NEW x \in Int, NEW w \in Nat \ {0}, NEW s \in BOOLEAN
  PROVE  Proper(Make(x, w, s)) /\ TypeOfBits(Make(x, w, s)) = Type(w, s)
<1>1. 2^Kept(w) \in Nat \ {0}
  BY KeptWidth, PowerOfTwo
<1>2. x % 2^Kept(w) \in 0 .. 2^Kept(w) - 1
  BY <1>1, Quotient
<1>3. Make(x, w, s) = [raw |-> x % 2^Kept(w), width |-> w, isSigned |-> s]
  BY DEF Make, Kept
<1> QED
  BY <1>2, <1>3 DEF Proper, TypeOfBits

\* The number of a value is its bits, or it is negative.
LEMMA ValueOfProper ==
  ASSUME NEW v, Proper(v)
  PROVE  /\ Value(v) \in Int /\ v.raw \in Nat
         /\ v.raw # 0 => Value(v) # 0
         /\ Value(v) >= 0 => Value(v) = v.raw
<1> DEFINE w == v.width
           r == v.raw
           M == 2^w
           W == 2^HostWidth
           K == 2^Kept(w)
           H == 2^(w - 1)
           T == 2^(HostWidth - 1)
<1>1. w \in Nat \ {0} /\ w \in Nat /\ w - 1 \in Nat /\ HostWidth \in Nat /\ HostWidth - 1 \in Nat
  BY WidthsAssumption DEF Proper
<1>2. Kept(w) \in Nat /\ Kept(w) <= HostWidth /\ Kept(w) <= w
  BY <1>1, KeptWidth
<1>3. M \in Nat
  BY <1>1, PowerOfTwo
<1>4. W \in Nat
  BY <1>1, PowerOfTwo
<1>5. K \in Nat
  BY <1>2, PowerOfTwo
<1>6. H \in Nat
  BY <1>1, PowerOfTwo
<1>7. T \in Nat
  BY <1>1, PowerOfTwo
<1>8. K <= M
  BY <1>1, <1>2, PowersGrow
<1>9. K <= W
  BY <1>1, <1>2, PowersGrow
<1>10. r \in 0 .. K - 1
  BY DEF Proper
<1>11. Value(v) = IF v.isSigned /\ r >= H THEN r - M ELSE IF r >= T THEN r - W ELSE r
  BY DEF Value, AsHostSigned
<1> HIDE DEF w, r, M, W, K, H, T
<1>12. Value(v) \in {r - M, r - W, r}
  BY <1>11
<1>13. r < M /\ r < W /\ r \in Nat
  BY <1>3, <1>4, <1>5, <1>8, <1>9, <1>10
<1>14. Value(v) \in Int /\ (r # 0 => Value(v) # 0)
  BY <1>3, <1>4, <1>12, <1>13
<1>15. Value(v) >= 0 => Value(v) = r
  <2>1. ~(r - M >= 0) /\ ~(r - W >= 0)
    BY <1>3, <1>4, <1>13
  <2> QED
    BY <1>12, <2>1
<1> QED
  BY <1>13, <1>14, <1>15 DEF r

\* The number of a value is not zero unless all its bits are.
LEMMA ProperValue ==
  ASSUME NEW v, Proper(v)
  PROVE  /\ Value(v) \in Int /\ v.raw \in Nat
         /\ v.raw # 0 => Value(v) # 0
BY ValueOfProper

LEMMA MaxWidth ==
  ASSUME NEW l, NEW r, l.width \in Nat \ {0}, r.width \in Nat \ {0}
  PROVE  /\ MaxW(l, r) \in Nat \ {0} /\ MinW(l, r) \in Nat \ {0}
         /\ Wider(l, r) = MaxW(l, r) /\ Narrower(l, r) = MinW(l, r)
<1>1. /\ MaxW(l, r) \in {l.width, r.width} /\ MinW(l, r) \in {l.width, r.width}
      /\ l.width <= MaxW(l, r) /\ r.width <= MaxW(l, r)
      /\ MaxW(l, r) + MinW(l, r) = l.width + r.width
  BY DEF MaxW, MinW, Larger, Smaller
<1>2. \A w \in {l.width, r.width} :
        (\A v \in {l.width, r.width} : v <= w) => w = MaxW(l, r)
  BY <1>1
<1>3. Wider(l, r) = MaxW(l, r)
  BY <1>1, <1>2 DEF Wider, Widest
<1> QED
  BY <1>1, <1>3 DEF Narrower

LEMMA TruncatedInt ==
  ASSUME NEW x \in Int, NEW y \in Int, y # 0
  PROVE  TruncDiv(x, y) \in Int /\ TruncRem(x, y) \in Int
<1> DEFINE m == IF x < 0 THEN -x ELSE x
           n == IF y < 0 THEN -y ELSE y
           q == m \div n
<1>1. m \in Nat /\ n \in Nat \ {0}
  OBVIOUS
<1>2. q \in Int
  BY <1>1
<1>3. TruncDiv(x, y) = IF (x < 0) # (y < 0) THEN -q ELSE q
  BY DEF TruncDiv
<1> HIDE DEF q
<1>4. TruncDiv(x, y) \in {q, -q}
  BY <1>3
<1>5. TruncDiv(x, y) \in Int
  BY <1>2, <1>4
<1>6. y * TruncDiv(x, y) \in Int
  BY <1>5
<1> QED
  BY <1>5, <1>6 DEF TruncRem

LEMMA FlagNatural == ASSUME NEW p PROVE Flag(p) \in Nat
BY DEF Flag

LEMMA BitwiseProper ==
  ASSUME NEW l, NEW r, Proper(l), Proper(r), NEW ones
  PROVE  /\ Proper(Bitwise2(l, r, ones))
         /\ TypeOfBits(Bitwise2(l, r, ones)) = Type(MaxW(l, r), EitherSigned(l, r))
<1> DEFINE x == Value(l) % 2^HostWidth
           y == Value(r) % 2^HostWidth
           bit == [i \in 0 .. HostWidth - 1 |-> Flag(<<Bit(x, i), Bit(y, i)>> \in ones)]
<1>1. \A i \in 0 .. HostWidth - 1 : bit[i] \in Nat
  BY FlagNatural
<1>2. Bitwise2(l, r, ones) = Make(FromBits(bit), MaxW(l, r), EitherSigned(l, r))
  BY DEF Bitwise2
<1> HIDE DEF bit
<1>3. FromBits(bit) \in Int
  BY <1>1, WordIsNatural
<1>4. MaxW(l, r) \in Nat \ {0} /\ EitherSigned(l, r) \in BOOLEAN
  BY MaxWidth DEF Proper, EitherSigned
<1> QED
  BY <1>2, <1>3, <1>4, MakeProper

-----------------------------------------------------------------------------
(***************************************************************************)
(* Each operator, and what the checker says of it.                         *)
(***************************************************************************)
LEMMA SumsTyped ==
  ASSUME NEW l, NEW r, Proper(l), Proper(r)
  PROVE  /\ Proper(Add(l, r)) /\ TypeOfBits(Add(l, r)) = Type(MaxW(l, r) + 1, EitherSigned(l, r))
         /\ Proper(Sub(l, r)) /\ TypeOfBits(Sub(l, r)) = Type(MaxW(l, r) + 1, TRUE)
         /\ Proper(Mul(l, r)) /\ TypeOfBits(Mul(l, r)) = Type(l.width + r.width, EitherSigned(l, r))
<1> DEFINE x == Value(l)
           y == Value(r)
<1>1. x \in Int /\ y \in Int
  BY ProperValue
<1>2. /\ MaxW(l, r) + 1 \in Nat \ {0} /\ l.width + r.width \in Nat \ {0}
      /\ EitherSigned(l, r) \in BOOLEAN
  BY MaxWidth DEF Proper, EitherSigned
<1> HIDE DEF x, y
<1>3. x + y \in Int /\ x - y \in Int /\ x * y \in Int
  BY <1>1
<1>4. Proper(Add(l, r)) /\ TypeOfBits(Add(l, r)) = Type(MaxW(l, r) + 1, EitherSigned(l, r))
  BY <1>2, <1>3, MakeProper DEF Add, x, y
<1>5. Proper(Sub(l, r)) /\ TypeOfBits(Sub(l, r)) = Type(MaxW(l, r) + 1, TRUE)
  BY <1>2, <1>3, MakeProper DEF Sub, x, y
<1>6. Proper(Mul(l, r)) /\ TypeOfBits(Mul(l, r)) = Type(l.width + r.width, EitherSigned(l, r))
  BY <1>2, <1>3, MakeProper DEF Mul, x, y
<1> QED
  BY <1>4, <1>5, <1>6

LEMMA DivideTyped ==
  ASSUME NEW l, NEW r, Proper(l), Proper(r)
  PROVE  /\ Proper(Divide(l, r))
         /\ r.raw # 0 => TypeOfBits(Divide(l, r)) = IF EitherSigned(l, r) THEN Type(l.width + 1, TRUE)
                                                    ELSE Type(l.width, FALSE)
         /\ r.raw = 0 => TypeOfBits(Divide(l, r)) = Type(l.width, l.isSigned)
<1>1. /\ l.width \in Nat \ {0} /\ l.width + 1 \in Nat \ {0} /\ l.isSigned \in BOOLEAN
      /\ EitherSigned(l, r) \in BOOLEAN
  BY DEF Proper, EitherSigned
<1>2. CASE r.raw = 0
  <2>1. Divide(l, r) = Make(0, l.width, l.isSigned)
    BY <1>2 DEF Divide
  <2> QED
    BY <1>1, <1>2, <2>1, MakeProper
<1>3. CASE r.raw # 0 /\ EitherSigned(l, r)
  <2>1. Divide(l, r) = Make(TruncDiv(Value(l), Value(r)), l.width + 1, TRUE)
    BY <1>3 DEF Divide
  <2>2. Value(l) \in Int /\ Value(r) \in Int /\ Value(r) # 0
    BY <1>3, ProperValue
  <2>3. TruncDiv(Value(l), Value(r)) \in Int
    BY <2>2, TruncatedInt
  <2> QED
    BY <1>1, <1>3, <2>1, <2>3, MakeProper
<1>4. CASE r.raw # 0 /\ ~EitherSigned(l, r)
  <2>1. Divide(l, r) = Make(l.raw \div r.raw, l.width, FALSE)
    BY <1>4 DEF Divide
  <2>2. l.raw \in Nat /\ r.raw \in Nat \ {0}
    BY <1>4, ProperValue
  <2>3. l.raw \div r.raw \in Int
    BY <2>2
  <2> QED
    BY <1>1, <1>4, <2>1, <2>3, MakeProper
<1> QED
  BY <1>2, <1>3, <1>4

LEMMA RemainderTyped ==
  ASSUME NEW l, NEW r, Proper(l), Proper(r)
  PROVE  /\ Proper(Remainder(l, r))
         /\ TypeOfBits(Remainder(l, r)) = Type(MinW(l, r), EitherSigned(l, r))
<1> DEFINE n == IF r.raw = 0 THEN 0 ELSE TruncRem(Value(l), Value(r))
<1>1. MinW(l, r) \in Nat \ {0} /\ EitherSigned(l, r) \in BOOLEAN
  BY MaxWidth DEF Proper, EitherSigned
<1>2. n \in Int
  <2>1. CASE r.raw = 0
    BY <2>1
  <2>2. CASE r.raw # 0
    <3>1. Value(l) \in Int /\ Value(r) \in Int /\ Value(r) # 0
      BY <2>2, ProperValue
    <3>2. TruncRem(Value(l), Value(r)) \in Int
      BY <3>1, TruncatedInt
    <3> QED
      BY <2>2, <3>2
  <2> QED
    BY <2>1, <2>2
<1>3. Remainder(l, r) = Make(n, MinW(l, r), EitherSigned(l, r))
  BY DEF Remainder
<1> HIDE DEF n
<1> QED
  BY <1>1, <1>2, <1>3, MakeProper

LEMMA ShiftsTyped ==
  ASSUME NEW l, NEW r, Proper(l), Proper(r)
  PROVE  /\ Proper(Shl(l, r)) /\ TypeOfBits(Shl(l, r)) = TypeOfBits(l)
         /\ Proper(Shr(l, r)) /\ TypeOfBits(Shr(l, r)) = TypeOfBits(l)
<1>1. l.width \in Nat \ {0} /\ l.isSigned \in BOOLEAN /\ TypeOfBits(l) = Type(l.width, l.isSigned)
  BY DEF Proper, TypeOfBits
<1>2. Amount(r) \in Nat
  <2>1. r.raw \in Nat /\ UintWidth \in Nat
    BY ProperValue, WidthsAssumption
  <2>2. 2^UintWidth \in Nat \ {0}
    BY <2>1, PowerOfTwo
  <2> QED
    BY <2>1, <2>2 DEF Amount
<1>3. l.raw \in Nat /\ Value(l) \in Int
  BY ProperValue
<1> DEFINE p == 2^Amount(r)
           n == IF Amount(r) >= l.width THEN 0 ELSE l.raw * p
           sign == IF l.isSigned /\ Value(l) < 0 THEN -1 ELSE 0
           from == IF l.isSigned THEN Value(l) ELSE l.raw
           m == IF Amount(r) >= l.width THEN sign ELSE from \div p
<1>4. p \in Nat \ {0}
  BY <1>2, PowerOfTwo
<1>5. from \in Int /\ sign \in Int
  BY <1>1, <1>3
<1>6. Shl(l, r) = Make(n, l.width, l.isSigned) /\ Shr(l, r) = Make(m, l.width, l.isSigned)
  BY DEF Shl, Shr
<1> HIDE DEF p, from, sign
<1>7. l.raw * p \in Int /\ from \div p \in Int
  BY <1>3, <1>4, <1>5
<1>8. n \in Int /\ m \in Int
  BY <1>5, <1>7
<1> HIDE DEF n, m
<1>9. Proper(Shl(l, r)) /\ TypeOfBits(Shl(l, r)) = TypeOfBits(l)
  BY <1>1, <1>6, <1>8, MakeProper
<1>10. Proper(Shr(l, r)) /\ TypeOfBits(Shr(l, r)) = TypeOfBits(l)
  BY <1>1, <1>6, <1>8, MakeProper
<1> QED
  BY <1>9, <1>10

LEMMA OneBit ==
  ASSUME NEW n \in Int
  PROVE  Proper(Make(n, 1, FALSE)) /\ TypeOfBits(Make(n, 1, FALSE)) = Type(1, FALSE)
<1>1. \A w \in Nat \ {0}, s \in BOOLEAN :
        Proper(Make(n, w, s)) /\ TypeOfBits(Make(n, w, s)) = Type(w, s)
  BY MakeProper
<1>2. 1 \in Nat \ {0}
  OBVIOUS
<1>3. FALSE \in BOOLEAN
  OBVIOUS
<1> QED
  BY <1>1, <1>2, <1>3, Zenon

LEMMA TruthTyped == ASSUME NEW p PROVE Proper(Truth(p)) /\ TypeOfBits(Truth(p)) = Type(1, FALSE)
<1> DEFINE n == IF p THEN 1 ELSE 0
<1>1. n \in Int
  OBVIOUS
<1> HIDE DEF n
<1>2. Proper(Make(n, 1, FALSE)) /\ TypeOfBits(Make(n, 1, FALSE)) = Type(1, FALSE)
  BY <1>1, OneBit
<1> QED
  BY <1>2 DEF Truth, n

LEMMA CompareTyped ==
  ASSUME NEW l, NEW r, NEW op
  PROVE  Proper(Compare(l, r, op)) /\ TypeOfBits(Compare(l, r, op)) = Type(1, FALSE)
<1>1. PICK p : Compare(l, r, op) = Make(Flag(p), 1, FALSE)
  BY DEF Compare
<1> DEFINE n == Flag(p)
<1>2. n \in Int
  BY DEF Flag
<1> HIDE DEF n
<1>3. Proper(Make(n, 1, FALSE)) /\ TypeOfBits(Make(n, 1, FALSE)) = Type(1, FALSE)
  BY <1>2, OneBit
<1> QED
  BY <1>1, <1>3 DEF n

\* An operator's result has the static type the checker computes from its
\* operands' (widthRule, type_check.cpp), for operands of every width: the one
\* exception is a signed quotient by zero (bits.cpp:77).
THEOREM AppliedIsTyped ==
  ASSUME NEW op \in BinaryOps, NEW l, NEW r, Proper(l), Proper(r)
  PROVE  /\ Proper(Apply(op, l, r))
         /\ Typed(op, TypeOfBits(l), TypeOfBits(r)) /\ ~(op = "/" /\ l.isSigned /\ r.raw = 0)
              => TypeOfBits(Apply(op, l, r)) = WidthRule(op, TypeOfBits(l), TypeOfBits(r))
<1> DEFINE lt == TypeOfBits(l)
           rt == TypeOfBits(r)
<1>1. /\ lt.width = l.width /\ rt.width = r.width
      /\ lt.isSigned = l.isSigned /\ rt.isSigned = r.isSigned
  BY DEF TypeOfBits, Type
<1>2. l.width \in Nat \ {0} /\ r.width \in Nat \ {0}
  BY DEF Proper
<1>3. Wider(lt, rt) = MaxW(l, r) /\ Narrower(lt, rt) = MinW(l, r)
  <2>1. Wider(lt, rt) = Wider(l, r) /\ Narrower(lt, rt) = Narrower(l, r)
    BY <1>1 DEF Wider, Narrower
  <2> QED
    BY <1>2, <2>1, MaxWidth
<1>4. l.isSigned = r.isSigned => EitherSigned(l, r) = l.isSigned
  BY DEF EitherSigned, Proper
<1> HIDE DEF lt, rt
<1>5. CASE op = "+"
  <2>1. Apply(op, l, r) = Add(l, r) /\ WidthRule(op, lt, rt) = Type(MaxW(l, r) + 1, l.isSigned)
    BY <1>1, <1>3, <1>5 DEF Apply, WidthRule, Comparisons, Logicals, Bitwises, Shifts
  <2>2. Proper(Apply(op, l, r))
    BY <2>1, SumsTyped
  <2>3. ASSUME Typed(op, lt, rt)
        PROVE  TypeOfBits(Apply(op, l, r)) = WidthRule(op, lt, rt)
    <3>1. EitherSigned(l, r) = l.isSigned
      BY <1>1, <1>4, <1>5, <2>3 DEF Typed, Shifts
    <3> QED
      BY <2>1, <3>1, SumsTyped
  <2> QED
    BY <2>2, <2>3 DEF lt, rt
<1>6. CASE op = "-"
  <2>1. Apply(op, l, r) = Sub(l, r) /\ WidthRule(op, lt, rt) = Type(MaxW(l, r) + 1, TRUE)
    BY <1>3, <1>6 DEF Apply, WidthRule, Comparisons, Logicals, Bitwises, Shifts
  <2> QED
    BY <2>1, SumsTyped DEF lt, rt
<1>7. CASE op = "*"
  <2>1. /\ Apply(op, l, r) = Mul(l, r)
        /\ WidthRule(op, lt, rt) = Type(l.width + r.width, l.isSigned)
    BY <1>1, <1>7 DEF Apply, WidthRule, Comparisons, Logicals, Bitwises, Shifts
  <2>2. Proper(Apply(op, l, r))
    BY <2>1, SumsTyped
  <2>3. ASSUME Typed(op, lt, rt)
        PROVE  TypeOfBits(Apply(op, l, r)) = WidthRule(op, lt, rt)
    <3>1. EitherSigned(l, r) = l.isSigned
      BY <1>1, <1>4, <1>7, <2>3 DEF Typed, Shifts
    <3> QED
      BY <2>1, <3>1, SumsTyped
  <2> QED
    BY <2>2, <2>3 DEF lt, rt
<1>8. CASE op = "/"
  <2>1. /\ Apply(op, l, r) = Divide(l, r)
        /\ WidthRule(op, lt, rt) = IF l.isSigned THEN Type(l.width + 1, TRUE)
                                                ELSE Type(l.width, FALSE)
    BY <1>1, <1>8 DEF Apply, WidthRule, Comparisons, Logicals, Bitwises, Shifts
  <2>2. Proper(Apply(op, l, r))
    BY <2>1, DivideTyped
  <2>3. ASSUME Typed(op, lt, rt), ~(l.isSigned /\ r.raw = 0)
        PROVE  TypeOfBits(Apply(op, l, r)) = WidthRule(op, lt, rt)
    <3>1. EitherSigned(l, r) = l.isSigned
      BY <1>1, <1>4, <1>8, <2>3 DEF Typed, Shifts
    <3>2. CASE r.raw = 0
      <4>1. l.isSigned = FALSE
        BY <2>3, <3>2 DEF Proper
      <4> QED
        BY <2>1, <3>2, <4>1, DivideTyped
    <3>3. CASE r.raw # 0
      BY <2>1, <3>1, <3>3, DivideTyped
    <3> QED
      BY <3>2, <3>3
  <2> QED
    BY <1>8, <2>2, <2>3 DEF lt, rt
<1>9. CASE op = "%"
  <2>1. Apply(op, l, r) = Remainder(l, r) /\ WidthRule(op, lt, rt) = Type(MinW(l, r), l.isSigned)
    BY <1>1, <1>3, <1>9 DEF Apply, WidthRule, Comparisons, Logicals, Bitwises, Shifts
  <2> QED
    BY <1>1, <1>4, <1>9, <2>1, RemainderTyped DEF Typed, Shifts, lt, rt
<1>10. CASE op \in Bitwises
  <2>1. \E ones : Apply(op, l, r) = Bitwise2(l, r, ones)
    BY <1>10 DEF Apply, Bitwises, Comparisons, BitAnd, BitOr, BitXor
  <2>2. WidthRule(op, lt, rt) = Type(MaxW(l, r), l.isSigned)
    BY <1>1, <1>3, <1>10 DEF WidthRule, Bitwises, Shifts, Comparisons, Logicals
  <2>3. op \notin Shifts
    BY <1>10 DEF Bitwises, Shifts
  <2> QED
    BY <1>1, <1>4, <2>1, <2>2, <2>3, BitwiseProper DEF Typed, lt, rt
<1>11. CASE op \in Shifts
  <2>1. Apply(op, l, r) \in {Shl(l, r), Shr(l, r)} /\ WidthRule(op, lt, rt) = lt
    BY <1>11 DEF Apply, Shifts, WidthRule, Bitwises, Comparisons, Logicals
  <2> QED
    BY <2>1, ShiftsTyped DEF lt, rt
<1>12. CASE op \in Comparisons
  <2>1. Apply(op, l, r) = Compare(l, r, op) /\ WidthRule(op, lt, rt) = Type(1, FALSE)
    BY <1>12 DEF Apply, WidthRule, Comparisons, Logicals, Bitwises, Shifts
  <2> QED
    BY <2>1, CompareTyped DEF lt, rt
<1>13. CASE op \in Logicals
  <2>1. (\E p : Apply(op, l, r) = Truth(p)) /\ WidthRule(op, lt, rt) = Type(1, FALSE)
    BY <1>13 DEF Apply, WidthRule, Comparisons, Logicals, Bitwises, Shifts
  <2> QED
    BY <2>1, TruthTyped DEF lt, rt
<1> QED
  BY <1>5, <1>6, <1>7, <1>8, <1>9, <1>10, <1>11, <1>12, <1>13 DEF BinaryOps
=============================================================================
