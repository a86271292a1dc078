-------------------------- MODULE EvaluationProofs --------------------------
(***************************************************************************)
(* For host integers of every width: what MLIRGen emits for an expression  *)
(* computes the interpreter's bits, at the checker's type, and they are    *)
(* the number LANGUAGE.md's tables give.  And the type checker gives every *)
(* expression of an accepted statement its type, and none to a sum that    *)
(* its value does not fit.                                                 *)
(***************************************************************************)
EXTENDS Evaluation, TypeCheck, BitsProofs

-----------------------------------------------------------------------------
(***************************************************************************)
(* More of powers, quotients and residues.                                 *)
(***************************************************************************)
LEMMA PowerZero == 2^0 = 1
<1>1. 0 \in Nat /\ SUBSET (1 .. 0) = {{}}
  OBVIOUS
<1>2. Cardinality(SUBSET (1 .. 0)) = 2^0
  BY <1>1, Subsets
<1>3. Cardinality({{}}) = 1
  BY FS_Singleton
<1> QED
  BY <1>1, <1>2, <1>3

LEMMA PowersMultiply ==
  ASSUME NEW m \in Nat, NEW n \in Nat
  PROVE  2^(m + n) = 2^m * 2^n
<1> DEFINE T == {k \in Nat : 2^(m + k) # 2^m * 2^k}
<1>1. CASE T = {}
  BY <1>1
<1>2. CASE T # {}
  <2>1. PICK k \in T : \A y \in T : k <= y
    <3>1. T \subseteq Nat
      OBVIOUS
    <3> HIDE DEF T
    <3> QED
      BY <1>2, <3>1, LeastNumber
  <2>2. 2^0 = 1
    BY PowerZero
  <2>3. 2^m \in Nat
    BY PowerOfTwo
  <2>4. k # 0
    <3>1. m + 0 = m /\ 2^m * 1 = 2^m
      BY <2>3
    <3>2. 2^(m + 0) = 2^m * 2^0
      BY <2>2, <3>1
    <3> QED
      BY <2>1, <3>2
  <2>5. k - 1 \in Nat /\ k \in Nat \ {0} /\ k - 1 \notin T /\ m + k \in Nat \ {0}
        /\ (m + k) - 1 = m + (k - 1)
    BY <2>1, <2>4
  <2>6. 2^(m + (k - 1)) = 2^m * 2^(k - 1)
    BY <2>5
  <2>7. 2^(m + k) = 2 * 2^((m + k) - 1)
    BY <2>5, PowerDoubles
  <2>8. 2^k = 2 * 2^(k - 1)
    BY <2>5, PowerDoubles
  <2>9. 2^(k - 1) \in Nat
    BY <2>5, PowerOfTwo
  <2>10. 2^(m + k) = 2 * (2^m * 2^(k - 1))
    BY <2>5, <2>6, <2>7
  <2>11. \A a, b \in Nat : 2 * (a * b) = a * (2 * b)
    OBVIOUS
  <2>12. 2^(m + k) = 2^m * 2^k
    BY <2>3, <2>8, <2>9, <2>10, <2>11
  <2> QED
    BY <2>1, <2>12
<1> QED
  BY <1>1, <1>2

LEMMA QuotientIs ==
  ASSUME NEW m \in Nat \ {0}, NEW q \in Int, NEW r \in 0 .. m - 1
  PROVE  (m * q + r) \div m = q
OBVIOUS

\* Keeping b bits and then fewer is keeping the fewer.
LEMMA Narrowing ==
  ASSUME NEW x \in Int, NEW a \in Nat, NEW b \in Nat, a <= b
  PROVE  (x % 2^b) % 2^a = x % 2^a
<1>1. 2^b \in Nat \ {0} /\ 2^a \in Nat \ {0} /\ b - a \in Nat
  BY PowerOfTwo
<1>2. 2^(b - a) \in Nat
  BY <1>1, PowerOfTwo
<1>3. 2^b = 2^a * 2^(b - a)
  <2>1. 2^(a + (b - a)) = 2^a * 2^(b - a)
    BY <1>1, PowersMultiply
  <2> QED
    BY <1>1, <2>1
<1> DEFINE A == 2^a
           B == 2^b
           C == 2^(b - a)
           q == x \div B
           r == x % B
<1>4. x = B * q + r /\ q \in Int /\ r \in Int
  <2>1. B \in Nat \ {0}
    BY <1>1
  <2> HIDE DEF B
  <2>2. x = B * (x \div B) + (x % B) /\ x \div B \in Int /\ x % B \in 0 .. B - 1
    BY <2>1, Quotient
  <2>3. x % B \in Int
    BY <2>1, <2>2
  <2> QED
    BY <2>2, <2>3
<1>5. A \in Nat \ {0} /\ C \in Nat /\ B = A * C
  BY <1>1, <1>2, <1>3
<1> HIDE DEF A, B, C, q, r
<1>6. x = A * (C * q) + r /\ C * q \in Int
  BY <1>4, <1>5
<1>7. (A * (C * q) + r) % A = r % A
  BY <1>4, <1>5, <1>6, MultiplesVanish
<1> QED
  BY <1>6, <1>7 DEF A, B, r

\* Numbers that differ by a multiple keep the same bits.
LEMMA SameResidue ==
  ASSUME NEW m \in Nat \ {0}, NEW x \in Int, NEW y \in Int, NEW q \in Int, x = m * q + y
  PROVE  x % m = y % m
BY MultiplesVanish

LEMMA ResidueProduct ==
  ASSUME NEW m \in Nat \ {0}, NEW x \in Int, NEW y \in Int
  PROVE  ((x % m) * (y % m)) % m = (x * y) % m
<1> DEFINE p == x \div m
           q == y \div m
           r == x % m
           s == y % m
<1>1. x = m * p + r /\ y = m * q + s /\ p \in Int /\ q \in Int /\ r \in Int /\ s \in Int
  BY Quotient
<1> HIDE DEF p, q, r, s
<1> DEFINE d == (m * p) * q + (p * s + r * q)
<1>2. d \in Int /\ x * y \in Int /\ r * s \in Int
  BY <1>1
<1>3. x * y = m * d + r * s
  BY <1>1
<1> HIDE DEF d
<1>4. (x * y) % m = (r * s) % m
  BY <1>2, <1>3, SameResidue
<1> QED
  BY <1>4 DEF r, s

-----------------------------------------------------------------------------
(***************************************************************************)
(* Words of a width, and the number a word stands for when it is read with *)
(* a sign or without one.                                                  *)
(***************************************************************************)
IsWord(v, w) == w \in Nat \ {0} /\ v \in [raw : 0 .. 2^w - 1, width : {w}]
NumberIn(v, s) == IF s THEN SignedOf(v) ELSE v.raw

LEMMA WordFields ==
  ASSUME NEW v, NEW w, IsWord(v, w)
  PROVE  /\ w \in Nat \ {0} /\ w - 1 \in Nat
         /\ 2^w \in Nat \ {0} /\ 2^(w - 1) \in Nat \ {0} /\ 2^w = 2 * 2^(w - 1)
         /\ v.width = w /\ v.raw \in 0 .. 2^w - 1 /\ v.raw \in Nat
         /\ v = [raw |-> v.raw, width |-> w]
         /\ IsDefined(v)
<1>1. w \in Nat \ {0} /\ w \in Nat /\ w - 1 \in Nat
  BY DEF IsWord
<1>2. 2^w \in Nat \ {0}
  BY <1>1, PowerOfTwo
<1>3. 2^(w - 1) \in Nat \ {0}
  BY <1>1, PowerOfTwo
<1>4. 2^w = 2 * 2^(w - 1)
  BY <1>1, PowerDoubles
<1> DEFINE M == 2^w
<1>5. v \in [raw : 0 .. M - 1, width : {w}] /\ M \in Nat \ {0}
  BY <1>2 DEF IsWord
<1> HIDE DEF M
<1>6. v.width = w /\ v.raw \in 0 .. M - 1 /\ v.raw \in Nat /\ v = [raw |-> v.raw, width |-> w]
  BY <1>5
<1>7. IsDefined(v)
  BY <1>1, <1>6 DEF IsDefined, Undefined
<1> QED
  BY <1>1, <1>2, <1>3, <1>4, <1>6, <1>7 DEF M

\* Where something was emitted, that is told from nothing by its width.
LEMMA WordIsEmitted ==
  ASSUME NEW v, NEW w, IsWord(v, w)
  PROVE  v # NoWire
<1>1. v.width # 0
  BY WordFields
<1>2. \A k : [raw |-> k, width |-> 0].width = 0
  OBVIOUS
<1>3. NoWire.width = 0
  BY <1>2, Zenon DEF NoWire
<1> QED
  BY <1>1, <1>3

LEMMA WireIsWord ==
  ASSUME NEW x \in Int, NEW w \in Nat \ {0}
  PROVE  /\ IsWord(Wire(x, w), w) /\ IsDefined(Wire(x, w))
         /\ Wire(x, w).raw = x % 2^w /\ Wire(x, w).width = w
<1> DEFINE M == 2^w
<1>1. M \in Nat \ {0}
  BY PowerOfTwo
<1>2. Wire(x, w) = [raw |-> x % M, width |-> w]
  BY DEF Wire
<1>3. IsWord(Wire(x, w), w)
  <2> HIDE DEF M
  <2>1. x % M \in 0 .. M - 1
    BY <1>1, Quotient
  <2> QED
    BY <1>2, <2>1 DEF IsWord, M
<1> QED
  BY <1>2, <1>3, WordFields

\* A word is what it is made of, and what its signed reading makes.
LEMMA SignedReading ==
  ASSUME NEW v, NEW w, IsWord(v, w)
  PROVE  /\ SignedOf(v) \in Int
         /\ SignedOf(v) \in -(2^(w - 1)) .. 2^(w - 1) - 1
         /\ \E q \in Int : SignedOf(v) = 2^w * q + v.raw
<1> DEFINE M == 2^w
           H == 2^(w - 1)
           r == v.raw
<1>1. M \in Nat \ {0} /\ H \in Nat \ {0} /\ M = 2 * H /\ r \in 0 .. M - 1 /\ v.width = w
  BY WordFields
<1>2. SignedOf(v) = IF r >= H THEN r - M ELSE r
  BY <1>1 DEF SignedOf
<1> HIDE DEF M, H, r
<1>3. CASE r >= H
  <2>1. SignedOf(v) = M * (-1) + r /\ SignedOf(v) \in Int /\ SignedOf(v) \in -H .. H - 1
    BY <1>1, <1>2, <1>3
  <2>2. -1 \in Int
    OBVIOUS
  <2> QED
    BY <2>1, <2>2 DEF M, H, r
<1>4. CASE ~(r >= H)
  <2>1. SignedOf(v) = M * 0 + r /\ SignedOf(v) \in Int /\ SignedOf(v) \in -H .. H - 1
    BY <1>1, <1>2, <1>4
  <2>2. 0 \in Int
    OBVIOUS
  <2> QED
    BY <2>1, <2>2 DEF M, H, r
<1> QED
  BY <1>3, <1>4

LEMMA NumberReading ==
  ASSUME NEW v, NEW w, IsWord(v, w), NEW s
  PROVE  /\ NumberIn(v, s) \in Int
         /\ \E q \in Int : NumberIn(v, s) = 2^w * q + v.raw
         /\ NumberIn(v, s) % 2^w = v.raw
<1> DEFINE M == 2^w
           r == v.raw
           n == NumberIn(v, s)
<1>1. M \in Nat \ {0} /\ r \in 0 .. M - 1
  BY WordFields
<1>2. n \in Int /\ \E q \in Int : n = M * q + r
  <2>1. CASE s
    <3>1. n = SignedOf(v)
      BY <2>1 DEF NumberIn
    <3> QED
      BY <3>1, SignedReading
  <2>2. CASE ~s
    <3>1. n = r /\ 0 \in Int
      BY <2>2 DEF NumberIn
    <3>2. r \in Int /\ r = M * 0 + r
      BY <1>1
    <3> QED
      BY <3>1, <3>2
  <2> QED
    BY <2>1, <2>2
<1> HIDE DEF M, r, n
<1>3. PICK q \in Int : n = M * q + r
  BY <1>2
<1>4. n % M = r
  BY <1>1, <1>3, Wraps
<1> QED
  BY <1>2, <1>4 DEF M, r, n

\* A coercion keeps the low bits of the number the word stands for in its
\* own signedness, whichever way its width goes (coerce, mlirgen.cpp).
LEMMA Coerced ==
  ASSUME NEW v, NEW w, IsWord(v, w), NEW s \in BOOLEAN, NEW to \in Nat \ {0}
  PROVE  CoerceWire(v, s, to) = Wire(NumberIn(v, s), to)
<1>1. /\ v.width = w /\ IsDefined(v) /\ v = [raw |-> v.raw, width |-> w] /\ v.raw \in Int
      /\ w \in Nat
  BY WordFields
<1>2. NumberIn(v, s) \in Int /\ NumberIn(v, s) % 2^w = v.raw
  BY NumberReading
<1>3. CASE to = w
  <2>1. CoerceWire(v, s, to) = v
    BY <1>1, <1>3 DEF CoerceWire
  <2>2. Wire(NumberIn(v, s), to) = [raw |-> v.raw, width |-> w]
    BY <1>2, <1>3 DEF Wire
  <2> QED
    BY <1>1, <2>1, <2>2
<1>4. CASE w > to
  <2>1. CoerceWire(v, s, to) = Wire(v.raw, to)
    BY <1>1, <1>4 DEF CoerceWire, TruncI
  <2>2. (NumberIn(v, s) % 2^w) % 2^to = NumberIn(v, s) % 2^to
    <3>1. to \in Nat /\ to <= w
      BY <1>1, <1>4
    <3> QED
      BY <1>1, <1>2, <3>1, Narrowing
  <2>3. v.raw % 2^to = NumberIn(v, s) % 2^to
    BY <1>2, <2>2
  <2> QED
    BY <2>1, <2>3 DEF Wire
<1>5. CASE w < to
  BY <1>1, <1>5 DEF CoerceWire, ExtSI, ExtUI, NumberIn
<1> QED
  BY <1>1, <1>3, <1>4, <1>5

\* The circuit's sign extension is a copy of the top bit for every new one.
LEMMA SignExtended ==
  ASSUME NEW v, NEW w, IsWord(v, w), NEW to \in Nat \ {0}, w < to
  PROVE  Sext(v, to) = Wire(SignedOf(v), to)
<1> DEFINE n == to - w
           M == 2^w
           H == 2^(w - 1)
           N == 2^n
           T == 2^to
           r == v.raw
           top == Extract(v, w - 1, 1)
           copies == Replicate(top, n)
<1>1. /\ w \in Nat /\ M \in Nat \ {0} /\ H \in Nat \ {0} /\ M = 2 * H
      /\ r \in 0 .. M - 1 /\ v.width = w /\ IsDefined(v) /\ n \in Nat \ {0} /\ n + w = to
  <2>1. /\ w \in Nat /\ M \in Nat \ {0} /\ H \in Nat \ {0} /\ M = 2 * H
        /\ r \in 0 .. M - 1 /\ v.width = w /\ IsDefined(v)
    BY WordFields
  <2>2. n \in Nat \ {0} /\ n + w = to
    BY <2>1
  <2> QED
    BY <2>1, <2>2
<1>2. N \in Nat \ {0} /\ T = N * M
  <2>1. n \in Nat /\ w \in Nat /\ n + w = to
    BY <1>1
  <2> HIDE DEF n
  <2>2. 2^(n + w) = 2^n * 2^w
    BY <2>1, PowersMultiply
  <2>3. 2^n \in Nat \ {0}
    BY <2>1, PowerOfTwo
  <2> QED
    BY <2>1, <2>2, <2>3
<1>3. SignedOf(v) = IF r >= H THEN r - M ELSE r
  BY <1>1 DEF SignedOf
<1>4. top = Wire(r \div H, 1)
  BY <1>1 DEF Extract
<1>5. 2^1 = 2
  <2>1. 1 \in Nat \ {0} /\ 1 - 1 = 0
    OBVIOUS
  <2>2. 2^1 = 2 * 2^(1 - 1)
    BY <2>1, PowerDoubles
  <2> QED
    BY <2>1, <2>2, PowerZero
<1>6. Sext(v, to) = Concat(copies, v)
  BY <1>1 DEF Sext
<1> DEFINE b == r \div H
<1>7. b \in {0, 1} /\ (b = 1 <=> r >= H)
  <2> HIDE DEF M, H, r
  <2>1. CASE r >= H
    <3>1. r = H * 1 + (r - H) /\ r - H \in 0 .. H - 1 /\ 1 \in Int
      BY <1>1, <2>1
    <3>2. (H * 1 + (r - H)) \div H = 1
      BY <1>1, <3>1, QuotientIs
    <3> QED
      BY <2>1, <3>1, <3>2
  <2>2. CASE ~(r >= H)
    <3>1. r = H * 0 + r /\ r \in 0 .. H - 1 /\ 0 \in Int
      BY <1>1, <2>2
    <3>2. (H * 0 + r) \div H = 0
      BY <1>1, <3>1, QuotientIs
    <3> QED
      BY <2>2, <3>1, <3>2
  <2> QED
    BY <2>1, <2>2
<1>8. top = [raw |-> b, width |-> 1] /\ IsDefined(top)
  <2>1. top = Wire(b, 1)
    BY <1>4
  <2> HIDE DEF b, top
  <2>2. b % 2 = b
    BY <1>7
  <2>3. top = [raw |-> b, width |-> 1]
    BY <1>5, <2>1, <2>2 DEF Wire
  <2> QED
    BY <2>3 DEF IsDefined, Undefined
<1>9. copies = Wire(b * (N - 1), n)
  <2> HIDE DEF b, n, top
  <2> QED
    BY <1>8 DEF Replicate
<1> HIDE DEF b, top
<1>10. (b * (N - 1)) % N = b * (N - 1) /\ b * (N - 1) \in Int
  <2> HIDE DEF N
  <2>1. CASE b = 0
    BY <1>2, <2>1
  <2>2. CASE b = 1
    BY <1>2, <2>2
  <2> QED
    BY <1>7, <2>1, <2>2
<1>11. copies = [raw |-> b * (N - 1), width |-> n] /\ IsDefined(copies)
  <2>1. copies = [raw |-> (b * (N - 1)) % N, width |-> n]
    BY <1>9 DEF Wire
  <2>2. copies = [raw |-> b * (N - 1), width |-> n]
    BY <1>10, <2>1
  <2> HIDE DEF N, n, copies
  <2> QED
    BY <1>1, <2>2 DEF IsDefined, Undefined
<1> HIDE DEF copies
<1>12. Sext(v, to) = Wire((b * (N - 1)) * M + r, to)
  <2>1. Concat(copies, v) = Wire(copies.raw * 2^v.width + v.raw, copies.width + v.width)
    BY <1>1, <1>11 DEF Concat
  <2> HIDE DEF N, n
  <2>2. copies.raw = b * (N - 1) /\ copies.width = n
    BY <1>11
  <2> QED
    BY <1>1, <1>6, <2>1, <2>2
<1> DEFINE x == (b * (N - 1)) * M + r
<1>13. x % T = SignedOf(v) % T
  <2> HIDE DEF M, H, N, T, r
  <2>1. T \in Nat \ {0} /\ SignedOf(v) \in Int /\ x \in Int
    BY <1>1, <1>2, <1>3, <1>10
  <2>2. CASE b = 1
    <3>1. x = T * 1 + SignedOf(v)
      BY <1>1, <1>2, <1>3, <1>7, <2>2
    <3> HIDE DEF x
    <3>2. 1 \in Int
      OBVIOUS
    <3> QED
      BY <2>1, <3>1, <3>2, SameResidue
  <2>3. CASE b = 0
    BY <1>1, <1>2, <1>3, <1>7, <2>3
  <2> QED
    BY <1>7, <2>2, <2>3
<1> HIDE DEF x
<1> QED
  BY <1>12, <1>13 DEF Wire, x

\* The circuit adjusts a word's width as the operations it replaces do.
LEMMA Adjusted ==
  ASSUME NEW v, NEW w, IsWord(v, w), NEW s \in BOOLEAN, NEW to \in Nat \ {0}
  PROVE  Adjust(v, s, to) = CoerceWire(v, s, to)
<1>1. /\ v.width = w /\ IsDefined(v) /\ v.raw \in Int /\ w \in Nat
      /\ 2^w \in Nat \ {0}
  BY WordFields
<1>2. CASE to = w
  BY <1>1, <1>2 DEF Adjust, CoerceWire
<1>3. CASE to < w
  <2>1. Adjust(v, s, to) = Wire(v.raw \div 2^0, to)
    BY <1>1, <1>3 DEF Adjust, Trunc, Extract
  <2>2. v.raw \div 2^0 = v.raw
    BY <1>1, PowerZero
  <2> QED
    BY <1>1, <1>3, <2>1, <2>2 DEF CoerceWire, TruncI
<1>4. CASE w < to /\ s
  <2>1. Adjust(v, s, to) = Sext(v, to) /\ CoerceWire(v, s, to) = Wire(SignedOf(v), to)
    BY <1>1, <1>4 DEF Adjust, CoerceWire, ExtSI
  <2>2. Sext(v, to) = Wire(SignedOf(v), to)
    BY <1>4, SignExtended
  <2> QED
    BY <2>1, <2>2
<1>5. CASE w < to /\ ~s
  <2>1. Adjust(v, s, to) = Zext(v, to) /\ CoerceWire(v, s, to) = Wire(v.raw, to)
    BY <1>1, <1>5 DEF Adjust, CoerceWire, ExtUI
  <2> DEFINE n == to - w
             high == Wire(0, n)
  <2>2. n \in Nat \ {0} /\ n + w = to
    BY <1>1, <1>5
  <2>3. high.raw = 0 /\ high.width = n /\ IsDefined(high)
    <3> HIDE DEF n
    <3>1. 2^n \in Nat \ {0}
      BY <2>2, PowerOfTwo
    <3>2. 0 % 2^n = 0
      BY <3>1
    <3>3. high = [raw |-> 0, width |-> n]
      BY <3>2 DEF Wire
    <3> HIDE DEF high
    <3> QED
      BY <2>2, <3>3 DEF IsDefined, Undefined
  <2>4. Zext(v, to) = Concat(high, v)
    BY <1>1 DEF Zext
  <2> HIDE DEF high
  <2>5. Concat(high, v) = Wire(high.raw * 2^v.width + v.raw, high.width + v.width)
    BY <1>1, <2>3 DEF Concat
  <2>6. high.raw * 2^v.width + v.raw = v.raw
    BY <1>1, <2>3
  <2> QED
    BY <1>1, <2>1, <2>2, <2>3, <2>4, <2>5, <2>6
<1> QED
  BY <1>1, <1>2, <1>3, <1>4, <1>5

-----------------------------------------------------------------------------
(***************************************************************************)
(* Values the host's integer holds, and the words that carry their bits.   *)
(***************************************************************************)
Held(v) == Proper(v) /\ v.width <= HostWidth

LEMMA HeldFields ==
  ASSUME NEW v, Held(v)
  PROVE  /\ v.width \in 1 .. HostWidth /\ v.width \in Nat \ {0} /\ v.isSigned \in BOOLEAN
         /\ v.raw \in 0 .. 2^v.width - 1 /\ v.raw \in Nat
         /\ Value(v) \in Int
<1>1. HostWidth \in Nat /\ v.width \in Nat \ {0} /\ v.width <= HostWidth /\ v.isSigned \in BOOLEAN
  BY WidthsAssumption DEF Held, Proper
<1>2. Kept(v.width) = v.width
  BY <1>1 DEF Kept, Smaller
<1>3. v.raw \in 0 .. 2^v.width - 1
  BY <1>2 DEF Held, Proper
<1>4. v.raw \in Nat /\ Value(v) \in Int
  BY ProperValue DEF Held
<1> QED
  BY <1>1, <1>3, <1>4

LEMMA WireOfHeld ==
  ASSUME NEW v, Held(v)
  PROVE  /\ IsWord(WireOf(v), v.width) /\ WireOf(v).raw = v.raw /\ WireOf(v).width = v.width
         /\ IsDefined(WireOf(v))
<1>1. /\ v.width \in Nat \ {0} /\ v.raw \in 0 .. 2^v.width - 1 /\ v.raw \in Int
      /\ 2^v.width \in Nat \ {0}
  BY HeldFields, PowerOfTwo
<1>2. v.raw % 2^v.width = v.raw
  <2> DEFINE M == 2^v.width
             r == v.raw
  <2>1. M \in Nat \ {0} /\ r \in 0 .. M - 1
    BY <1>1
  <2> HIDE DEF M, r
  <2>2. r % M = r
    BY <2>1
  <2> QED
    BY <2>2 DEF M, r
<1> QED
  BY <1>1, <1>2, WireIsWord DEF WireOf

LEMMA HeldIsEmitted == ASSUME NEW v, Held(v) PROVE WireOf(v) # NoWire
<1>1. IsWord(WireOf(v), v.width)
  BY WireOfHeld
<1> QED
  BY <1>1, WordIsEmitted

\* Make keeps the bits a wire of the width keeps.
LEMMA WireOfMake ==
  ASSUME NEW n \in Int, NEW w \in 1 .. HostWidth, NEW s \in BOOLEAN
  PROVE  Held(Make(n, w, s)) /\ WireOf(Make(n, w, s)) = Wire(n, w)
<1>1. w \in 0 .. HostWidth /\ w \in Nat \ {0} /\ w \in Nat /\ w <= HostWidth
  BY WidthsAssumption
<1>2. Proper(Make(n, w, s)) /\ Make(n, w, s).raw = n % 2^w /\ Make(n, w, s).width = w
  BY <1>1, MakeProper, MakeFields
<1>3. (n % 2^w) % 2^w = n % 2^w
  BY <1>1, Narrowing
<1> QED
  BY <1>1, <1>2, <1>3 DEF Held, WireOf, Wire

LEMMA HostPowers ==
  ASSUME NEW w \in 1 .. HostWidth
  PROVE  /\ w \in Nat \ {0} /\ w \in Nat
         /\ 2^w \in Nat \ {0} /\ 2^(w - 1) \in Nat \ {0} /\ 2^w = 2 * 2^(w - 1)
         /\ 2^(HostWidth - 1) \in Nat \ {0} /\ 2^HostWidth \in Nat \ {0}
         /\ 2^(w - 1) <= 2^(HostWidth - 1)
         /\ \E c \in Nat : 2^HostWidth = 2^w * c
<1>1. Hosted(w, TRUE)
  BY WidthsAssumption DEF Hosted
<1>2. /\ 2^w \in Nat \ {0} /\ 2^(w - 1) \in Nat \ {0} /\ 2^w = 2 * 2^(w - 1)
      /\ 2^(HostWidth - 1) \in Nat /\ 2^(w - 1) <= 2^(HostWidth - 1)
  BY <1>1, HostedPowers
<1>3. w \in Nat \ {0} /\ w \in Nat /\ HostWidth \in Nat /\ HostWidth - w \in Nat
      /\ w + (HostWidth - w) = HostWidth
  BY WidthsAssumption
<1>4. 2^HostWidth \in Nat \ {0} /\ 2^(HostWidth - w) \in Nat
  BY <1>3, PowerOfTwo
<1>5. 2^(w + (HostWidth - w)) = 2^w * 2^(HostWidth - w)
  BY <1>3, PowersMultiply
<1>6. 2^HostWidth = 2^w * 2^(HostWidth - w)
  BY <1>3, <1>5
<1>7. 2^(HostWidth - 1) \in Nat \ {0}
  BY <1>2
<1> QED
  BY <1>2, <1>3, <1>4, <1>6, <1>7

\* value() of a held value, and the bits of it that any type keeps.
LEMMA ValueReading ==
  ASSUME NEW v, Held(v)
  PROVE  /\ v.isSigned => Value(v) = SignedOf(WireOf(v))
         /\ (~v.isSigned /\ v.raw < 2^(HostWidth - 1)) => Value(v) = v.raw
         /\ \A to \in 1 .. HostWidth :
              Value(v) % 2^to = NumberIn(WireOf(v), v.isSigned) % 2^to
<1> DEFINE w == v.width
           r == v.raw
           M == 2^w
           H == 2^(w - 1)
           T == 2^(HostWidth - 1)
           W == 2^HostWidth
<1>1. /\ w \in 1 .. HostWidth /\ r \in 0 .. M - 1 /\ v.isSigned \in BOOLEAN
      /\ WireOf(v).raw = r /\ WireOf(v).width = w
  BY HeldFields, WireOfHeld
<1>2. H \in Nat \ {0} /\ M = 2 * H /\ T \in Nat \ {0} /\ H <= T /\ W \in Nat
  BY <1>1, HostPowers
<1>3. Value(v) = IF v.isSigned /\ r >= H THEN r - M ELSE IF r >= T THEN r - W ELSE r
  BY DEF Value, AsHostSigned
<1>4. SignedOf(WireOf(v)) = IF r >= H THEN r - M ELSE r
  BY <1>1 DEF SignedOf
<1> HIDE DEF M, H, T, W
<1>5. v.isSigned => Value(v) = SignedOf(WireOf(v))
  <2>1. ~(r >= H) => ~(r >= T)
    BY <1>1, <1>2
  <2> QED
    BY <1>3, <1>4, <2>1
<1>6. (~v.isSigned /\ r < T) => Value(v) = r
  BY <1>1, <1>2, <1>3
<1>7. ASSUME NEW to \in 1 .. HostWidth
      PROVE  Value(v) % 2^to = NumberIn(WireOf(v), v.isSigned) % 2^to
  <2>1. CASE v.isSigned
    BY <1>5, <2>1 DEF NumberIn
  <2>2. CASE ~v.isSigned
    <3>1. NumberIn(WireOf(v), v.isSigned) = r
      BY <1>1, <2>2 DEF NumberIn
    <3>2. CASE r >= T
      <4>1. Value(v) = r - W
        BY <1>3, <2>2, <3>2
      <4>2. PICK c \in Nat : W = 2^to * c
        BY HostPowers DEF W
      <4>3. 2^to \in Nat \ {0}
        BY HostPowers
      <4> DEFINE N == 2^to
      <4> HIDE DEF N
      <4>4. N \in Nat \ {0} /\ W = N * c
        BY <4>2, <4>3 DEF N
      <4>5. r - W = N * (-c) + r /\ r \in Int /\ r - W \in Int /\ -c \in Int
        BY <1>1, <1>2, <4>4
      <4>6. (r - W) % N = r % N
        BY <4>4, <4>5, SameResidue
      <4> QED
        BY <3>1, <4>1, <4>6 DEF N
    <3>3. CASE ~(r >= T)
      BY <1>3, <2>2, <3>1, <3>3
    <3> QED
      BY <3>2, <3>3
  <2> QED
    BY <1>1, <2>1, <2>2
<1> QED
  BY <1>5, <1>6, <1>7 DEF T

\* A conversion of the interpreter's and the coercion MLIRGen emits for it.
LEMMA CastIsCoercion ==
  ASSUME NEW v, Held(v), NEW t, t.width \in 1 .. HostWidth, t.isSigned \in BOOLEAN
  PROVE  /\ Held(CastTo(v, t)) /\ TypeOfBits(CastTo(v, t)) = Type(t.width, t.isSigned)
         /\ WireOf(CastTo(v, t)) = CoerceWire(WireOf(v), v.isSigned, t.width)
<1>1. Value(v) \in Int /\ v.isSigned \in BOOLEAN /\ t.width \in Nat \ {0}
  BY HeldFields
<1>2. CastTo(v, t) = Make(Value(v), t.width, t.isSigned)
  BY DEF CastTo
<1>3. Held(CastTo(v, t)) /\ WireOf(CastTo(v, t)) = Wire(Value(v), t.width)
  BY <1>1, <1>2, WireOfMake
<1>4. TypeOfBits(CastTo(v, t)) = Type(t.width, t.isSigned)
  BY <1>1, <1>2, MakeProper
<1>5. IsWord(WireOf(v), v.width)
  BY WireOfHeld
<1>6. CoerceWire(WireOf(v), v.isSigned, t.width) = Wire(NumberIn(WireOf(v), v.isSigned), t.width)
  BY <1>1, <1>5, Coerced
<1>7. Value(v) % 2^t.width = NumberIn(WireOf(v), v.isSigned) % 2^t.width
  BY ValueReading
<1> QED
  BY <1>3, <1>4, <1>6, <1>7 DEF Wire

-----------------------------------------------------------------------------
(***************************************************************************)
(* The operations of `arith` on words of one width.                        *)
(***************************************************************************)
LEMMA SumsOfWords ==
  ASSUME NEW x \in Int, NEW y \in Int, NEW w \in Nat \ {0}
  PROVE  /\ AddI(Wire(x, w), Wire(y, w)) = Wire(x + y, w)
         /\ SubI(Wire(x, w), Wire(y, w)) = Wire(x - y, w)
         /\ MulI(Wire(x, w), Wire(y, w)) = Wire(x * y, w)
<1> DEFINE M == 2^w
           a == Wire(x, w)
           b == Wire(y, w)
<1>1. M \in Nat \ {0}
  BY PowerOfTwo
<1>2. IsDefined(a) /\ a.raw = x % M /\ a.width = w
  BY WireIsWord
<1>3. IsDefined(b) /\ b.raw = y % M
  BY WireIsWord
<1> HIDE DEF M, a, b
<1>4. /\ ((x % M) + (y % M)) % M = (x + y) % M
      /\ ((x % M) - (y % M)) % M = (x - y) % M
      /\ ((x % M) * (y % M)) % M = (x * y) % M
  BY <1>1, ResidueSum, ResidueProduct
<1>5. /\ AddI(a, b) = Wire((x % M) + (y % M), w)
      /\ SubI(a, b) = Wire((x % M) - (y % M), w)
      /\ MulI(a, b) = Wire((x % M) * (y % M), w)
  BY <1>2, <1>3 DEF AddI, SubI, MulI, On
<1> QED
  BY <1>4, <1>5 DEF Wire, M, a, b

\* Wires that keep the same bits are the same.
LEMMA SameWire ==
  ASSUME NEW x \in Int, NEW y \in Int, NEW w, x % 2^w = y % 2^w
  PROVE  Wire(x, w) = Wire(y, w)
BY DEF Wire

\* What the operands of a sum, a difference or a product are widened to.
LEMMA SumsEmitted ==
  ASSUME NEW l, NEW r, Held(l), Held(r), NEW w \in 1 .. HostWidth
  PROVE  LET a == CoerceWire(WireOf(l), l.isSigned, w)
             b == CoerceWire(WireOf(r), r.isSigned, w)
         IN  /\ AddI(a, b) = Wire(Value(l) + Value(r), w)
             /\ SubI(a, b) = Wire(Value(l) - Value(r), w)
             /\ MulI(a, b) = Wire(Value(l) * Value(r), w)
<1> DEFINE a == CoerceWire(WireOf(l), l.isSigned, w)
           b == CoerceWire(WireOf(r), r.isSigned, w)
           m == NumberIn(WireOf(l), l.isSigned)
           n == NumberIn(WireOf(r), r.isSigned)
<1>1. w \in Nat \ {0}
  BY WidthsAssumption
<1>2. Value(l) \in Int /\ l.isSigned \in BOOLEAN /\ IsWord(WireOf(l), l.width)
  BY HeldFields, WireOfHeld
<1>3. Value(r) \in Int /\ r.isSigned \in BOOLEAN /\ IsWord(WireOf(r), r.width)
  BY HeldFields, WireOfHeld
<1>4. m \in Int
  BY <1>2, NumberReading
<1>5. n \in Int
  BY <1>3, NumberReading
<1>6. a = Wire(m, w)
  BY <1>1, <1>2, Coerced
<1>7. b = Wire(n, w)
  BY <1>1, <1>3, Coerced
<1>8. Value(l) % 2^w = m % 2^w
  BY ValueReading
<1>9. Value(r) % 2^w = n % 2^w
  BY ValueReading
<1> HIDE DEF m, n, a, b
<1>10. a = Wire(Value(l), w)
  BY <1>2, <1>4, <1>6, <1>8, SameWire
<1>11. b = Wire(Value(r), w)
  BY <1>3, <1>5, <1>7, <1>9, SameWire
<1>12. /\ AddI(a, b) = Wire(Value(l) + Value(r), w)
       /\ SubI(a, b) = Wire(Value(l) - Value(r), w)
       /\ MulI(a, b) = Wire(Value(l) * Value(r), w)
  BY <1>1, <1>2, <1>3, <1>10, <1>11, SumsOfWords
<1> QED
  BY <1>12 DEF a, b

\* An extension keeps the number.
LEMMA Extended ==
  ASSUME NEW v, NEW w, IsWord(v, w), NEW s \in BOOLEAN, NEW to \in Nat \ {0}, w <= to
  PROVE  /\ IsWord(CoerceWire(v, s, to), to)
         /\ NumberIn(CoerceWire(v, s, to), s) = NumberIn(v, s)
<1> DEFINE n == NumberIn(v, s)
           c == CoerceWire(v, s, to)
           M == 2^to
           H == 2^(to - 1)
<1>1. n \in Int
  BY NumberReading
<1>2. c = Wire(n, to)
  BY Coerced
<1>3. IsWord(c, to) /\ c.raw = n % M /\ c.width = to
  BY <1>1, <1>2, WireIsWord
<1>4. M \in Nat \ {0} /\ H \in Nat \ {0} /\ M = 2 * H
  BY <1>3, WordFields
<1>5. /\ w \in Nat \ {0} /\ w - 1 \in Nat /\ 2^w \in Nat /\ 2^(w - 1) \in Nat
      /\ v.raw \in 0 .. 2^w - 1
  BY WordFields
<1>6. 2^w <= M /\ 2^(w - 1) <= H
  <2>1. w \in Nat /\ to \in Nat /\ w - 1 \in Nat /\ to - 1 \in Nat /\ w - 1 <= to - 1
    BY <1>5
  <2>2. 2^w <= M
    BY <2>1, PowersGrow
  <2>3. 2^(w - 1) <= H
    BY <2>1, PowersGrow
  <2> QED
    BY <2>2, <2>3
<1> HIDE DEF c, M, H
<1>7. CASE ~s
  <2>1. n \in 0 .. M - 1
    BY <1>4, <1>5, <1>6, <1>7 DEF NumberIn
  <2> HIDE DEF n
  <2>2. n % M = n
    BY <1>4, <2>1
  <2> QED
    BY <1>3, <1>7, <2>2 DEF NumberIn, n, c
<1>8. CASE s
  <2>1. n \in -H .. H - 1
    <3>1. n \in -(2^(w - 1)) .. 2^(w - 1) - 1
      BY <1>8, SignedReading DEF NumberIn
    <3> HIDE DEF n
    <3> QED
      BY <1>4, <1>5, <1>6, <3>1
  <2> HIDE DEF n
  <2>2. SignedOf(c) = IF c.raw >= H THEN c.raw - M ELSE c.raw
    BY <1>3 DEF SignedOf, H, M
  <2>3. CASE n >= 0
    <3>1. n % M = n
      BY <1>4, <2>1, <2>3
    <3>2. SignedOf(c) = n
      BY <1>3, <1>4, <2>1, <2>2, <2>3, <3>1
    <3> QED
      BY <1>3, <1>8, <3>2 DEF NumberIn, n, c
  <2>4. CASE n < 0
    <3>1. n = M * (-1) + (n + M) /\ n + M \in 0 .. M - 1 /\ -1 \in Int
      BY <1>4, <2>1, <2>4
    <3>2. n % M = n + M
      BY <1>4, <3>1, Wraps
    <3>3. SignedOf(c) = n
      BY <1>3, <1>4, <2>1, <2>2, <2>4, <3>2
    <3> QED
      BY <1>3, <1>8, <3>3 DEF NumberIn, n, c
  <2> QED
    BY <1>1, <2>3, <2>4
<1> QED
  BY <1>7, <1>8

\* A wire made narrower keeps what a narrower wire would have kept.
LEMMA Narrowed ==
  ASSUME NEW x \in Int, NEW w \in Nat \ {0}, NEW s \in BOOLEAN, NEW to \in Nat \ {0}, to <= w
  PROVE  CoerceWire(Wire(x, w), s, to) = Wire(x, to)
<1> DEFINE v == Wire(x, w)
           n == NumberIn(v, s)
<1>1. IsWord(v, w) /\ v.raw = x % 2^w
  BY WireIsWord
<1>2. n \in Int /\ n % 2^w = x % 2^w
  BY <1>1, NumberReading
<1>3. CoerceWire(v, s, to) = Wire(n, to)
  BY <1>1, Coerced
<1> HIDE DEF n
<1>4. (n % 2^w) % 2^to = n % 2^to /\ (x % 2^w) % 2^to = x % 2^to
  BY <1>2, Narrowing
<1> QED
  BY <1>2, <1>3, <1>4 DEF Wire

-----------------------------------------------------------------------------
(***************************************************************************)
(* Bits of words.  The low bits of a word that is built bit by bit are     *)
(* built from the low bits alone.                                          *)
(***************************************************************************)
LEMMA BitKept ==
  ASSUME NEW x \in Int, NEW b \in Nat, NEW i \in Nat, i < b
  PROVE  Bit(x % 2^b, i) = Bit(x, i)
<1> DEFINE I == 2^i
           C == 2^(b - (i + 1))
           B == 2^b
           q == x \div B
           r == x % B
           d == r \div I
           e == r % I
<1>1. i + 1 \in Nat \ {0} /\ (i + 1) - 1 = i /\ b - (i + 1) \in Nat /\ (i + 1) + (b - (i + 1)) = b
  OBVIOUS
<1>2. I \in Nat \ {0}
  BY PowerOfTwo
<1>3. B \in Nat \ {0}
  BY PowerOfTwo
<1>4. C \in Nat \ {0}
  BY <1>1, PowerOfTwo
<1>5. B = (2 * I) * C
  <2>1. 2^(i + 1) = 2 * 2^((i + 1) - 1)
    BY <1>1, PowerDoubles
  <2>2. 2^((i + 1) + (b - (i + 1))) = 2^(i + 1) * 2^(b - (i + 1))
    BY <1>1, PowersMultiply
  <2> QED
    BY <1>1, <2>1, <2>2
<1>6. x = B * q + r /\ q \in Int /\ r \in 0 .. B - 1
  <2> HIDE DEF B
  <2> QED
    BY <1>3, Quotient
<1> HIDE DEF q, r, B, C
<1>7. r = I * d + e /\ d \in Int /\ e \in 0 .. I - 1
  <2>1. r \in Int
    BY <1>3, <1>6
  <2> HIDE DEF I
  <2> QED
    BY <1>2, <2>1, Quotient
<1> HIDE DEF I, d, e
<1>8. x = I * (2 * (C * q) + d) + e /\ C * q \in Int /\ 2 * (C * q) + d \in Int
  <2>1. C * q \in Int
    BY <1>4, <1>6
  <2>2. ((2 * I) * C) * q = I * (2 * (C * q))
    BY <1>2, <1>4, <1>6
  <2>3. I * (2 * (C * q)) + I * d = I * (2 * (C * q) + d)
    BY <1>2, <1>7, <2>1
  <2>4. x = I * (2 * (C * q)) + (I * d + e)
    BY <1>5, <1>6, <1>7, <2>2
  <2>5. I * (2 * (C * q)) \in Int /\ I * d \in Int /\ e \in Int
    BY <1>2, <1>7, <2>1
  <2>6. x = I * (2 * (C * q) + d) + e
    BY <2>3, <2>4, <2>5
  <2> QED
    BY <1>7, <2>1, <2>6
<1>9. x \div I = 2 * (C * q) + d
  <2> DEFINE k == 2 * (C * q) + d
  <2>1. k \in Int /\ x = I * k + e
    BY <1>8
  <2> HIDE DEF k
  <2>2. x \div I = k
    BY <1>2, <1>7, <2>1, QuotientIs
  <2> QED
    BY <2>2 DEF k
<1>10. (x \div I) % 2 = d % 2
  <2> DEFINE k == C * q
  <2>1. k \in Int /\ 2 * k + d \in Int /\ 2 \in Nat \ {0}
    BY <1>8
  <2> HIDE DEF k
  <2>2. (2 * k + d) % 2 = d % 2
    BY <1>7, <2>1, MultiplesVanish
  <2> QED
    BY <1>9, <2>2 DEF k
<1> QED
  BY <1>10 DEF Bit, I, d, r, B

LEMMA BitIs == ASSUME NEW x \in Int, NEW i \in Nat PROVE Bit(x, i) \in {0, 1}
<1> DEFINE d == x \div 2^i
<1>1. 2^i \in Nat \ {0}
  BY PowerOfTwo
<1>2. d \in Int
  BY <1>1, Quotient
<1> HIDE DEF d
<1>3. d % 2 \in {0, 1}
  BY <1>2
<1> QED
  BY <1>3 DEF Bit, d

\* What is built from k bits of a function, and what FromBits returns.
LEMMA BuiltWord ==
  ASSUME NEW bit
  PROVE  \E f : Builds(f, bit, HostWidth) /\ FromBits(bit) = f[HostWidth]
<1> DEFINE u == CHOOSE f : Builds(f, bit, HostWidth)
<1>1. HostWidth \in Nat
  BY WidthsAssumption
<1>2. Builds(u, bit, HostWidth)
  BY <1>1, BuiltUpTo
<1>3. FromBits(bit) = u[HostWidth]
  BY DEF FromBits, Builds
<1> QED
  BY <1>2, <1>3

\* The low w bits of it are built by the first w steps.
LEMMA BuiltLow ==
  ASSUME NEW bit, NEW k \in Nat, \A i \in 0 .. k - 1 : bit[i] \in Nat,
         NEW f, Builds(f, bit, k), NEW w \in 0 .. k
  PROVE  \A n \in w .. k : f[n] % 2^w = f[w] % 2^w
<1> DEFINE T == {m \in w .. k : f[m] % 2^w # f[w] % 2^w}
<1>1. CASE T = {}
  BY <1>1
<1>2. CASE T # {}
  <2>1. PICK m \in T : \A y \in T : m <= y
    <3>1. T \subseteq Nat
      OBVIOUS
    <3> HIDE DEF T
    <3> QED
      BY <1>2, <3>1, LeastNumber
  <2>2. m # w /\ m \in w .. k /\ m \in 0 .. k /\ w \in Nat
    BY <2>1
  <2>3. m - 1 \in w .. k /\ m - 1 \notin T /\ m # 0 /\ m - 1 \in 0 .. k - 1 /\ m - 1 \in 0 .. k
        /\ m - 1 \in Nat /\ w <= m - 1
    BY <2>1, <2>2
  <2>4. f[m - 1] % 2^w = f[w] % 2^w
    BY <2>3
  <2>5. f[m] = f[m - 1] + bit[m - 1] * 2^(m - 1)
    BY <2>2, <2>3 DEF Builds
  <2>6. f[m - 1] \in Nat
    BY <2>3, BuiltIsNatural
  <2>7. bit[m - 1] \in Nat
    BY <2>3
  <2>8. (m - 1) - w \in Nat /\ w + ((m - 1) - w) = m - 1
    BY <2>2, <2>3
  <2>9. 2^(w + ((m - 1) - w)) = 2^w * 2^((m - 1) - w)
    BY <2>2, <2>8, PowersMultiply
  <2>10. 2^w \in Nat \ {0}
    BY <2>2, PowerOfTwo
  <2>11. 2^((m - 1) - w) \in Nat
    BY <2>8, PowerOfTwo
  <2> DEFINE W == 2^w
             C == 2^((m - 1) - w)
             c == bit[m - 1]
             g == f[m - 1]
  <2>12. f[m] = g + c * (W * C)
    BY <2>5, <2>8, <2>9
  <2>13. W \in Nat \ {0} /\ C \in Nat /\ c \in Nat /\ g \in Nat
    BY <2>6, <2>7, <2>10, <2>11
  <2> HIDE DEF W, C, c, g
  <2>14. f[m] = W * (c * C) + g /\ c * C \in Int /\ f[m] \in Int /\ g \in Int
    BY <2>12, <2>13
  <2>15. f[m] % W = g % W
    BY <2>13, <2>14, SameResidue
  <2> QED
    BY <2>1, <2>4, <2>15 DEF W, g
<1> QED
  BY <1>1, <1>2

\* Two words with the same low bits.
LEMMA SameBuilt ==
  ASSUME NEW p, NEW q, NEW k \in Nat, NEW w \in 0 .. k,
         \A i \in 0 .. w - 1 : p[i] = q[i],
         NEW f, Builds(f, p, k), NEW g, Builds(g, q, k)
  PROVE  f[w] = g[w]
<1> DEFINE T == {m \in 0 .. w : f[m] # g[m]}
<1>1. CASE T = {}
  BY <1>1
<1>2. CASE T # {}
  <2>1. PICK m \in T : \A y \in T : m <= y
    <3>1. T \subseteq Nat
      OBVIOUS
    <3> HIDE DEF T
    <3> QED
      BY <1>2, <3>1, LeastNumber
  <2>2. f[0] = 0 /\ g[0] = 0
    BY DEF Builds
  <2>3. m # 0 /\ m \in 0 .. w /\ m \in 0 .. k
    BY <2>1, <2>2
  <2>4. m - 1 \in 0 .. w - 1 /\ m - 1 \in 0 .. w /\ m - 1 \notin T
    BY <2>1, <2>3
  <2>5. f[m - 1] = g[m - 1] /\ p[m - 1] = q[m - 1]
    BY <2>4
  <2>6. f[m] = f[m - 1] + p[m - 1] * 2^(m - 1) /\ g[m] = g[m - 1] + q[m - 1] * 2^(m - 1)
    BY <2>3 DEF Builds
  <2> QED
    BY <2>1, <2>5, <2>6
<1> QED
  BY <1>1, <1>2

LEMMA SameLowBits ==
  ASSUME NEW p, NEW q, NEW w \in 0 .. HostWidth,
         \A i \in 0 .. HostWidth - 1 : p[i] \in Nat /\ q[i] \in Nat,
         \A i \in 0 .. w - 1 : p[i] = q[i]
  PROVE  FromBits(p) % 2^w = FromBits(q) % 2^w
<1>1. HostWidth \in Nat /\ HostWidth \in w .. HostWidth
  BY WidthsAssumption
<1>2. PICK f : Builds(f, p, HostWidth) /\ FromBits(p) = f[HostWidth]
  BY BuiltWord
<1>3. PICK g : Builds(g, q, HostWidth) /\ FromBits(q) = g[HostWidth]
  BY BuiltWord
<1>4. f[w] = g[w]
  BY <1>1, <1>2, <1>3, SameBuilt
<1>5. f[HostWidth] % 2^w = f[w] % 2^w
  BY <1>1, <1>2, BuiltLow
<1>6. g[HostWidth] % 2^w = g[w] % 2^w
  BY <1>1, <1>3, BuiltLow
<1> QED
  BY <1>2, <1>3, <1>4, <1>5, <1>6

\* A number's bits make its residue again.
LEMMA BitStep ==
  ASSUME NEW x \in Int, NEW n \in Nat
  PROVE  x % 2^(n + 1) = (x % 2^n) + Bit(x, n) * 2^n
<1> DEFINE N == 2^n
           q == x \div N
           r == x % N
           e == q \div 2
           b == q % 2
<1>1. N \in Nat \ {0}
  BY PowerOfTwo
<1>2. 2^(n + 1) = 2 * N
  <2>1. n + 1 \in Nat \ {0} /\ (n + 1) - 1 = n
    OBVIOUS
  <2>2. 2^(n + 1) = 2 * 2^((n + 1) - 1)
    BY <2>1, PowerDoubles
  <2> QED
    BY <2>1, <2>2
<1>3. x = N * q + r /\ q \in Int /\ r \in 0 .. N - 1
  <2> HIDE DEF N
  <2> QED
    BY <1>1, Quotient
<1> HIDE DEF q, r
<1>4. q = 2 * e + b /\ e \in Int /\ b \in {0, 1}
  BY <1>3
<1> HIDE DEF N, e, b
<1>5. x = (2 * N) * e + (b * N + r)
  <2>1. N * (2 * e + b) = (2 * N) * e + b * N
    BY <1>1, <1>4
  <2>2. N * (2 * e + b) \in Int /\ (2 * N) * e \in Int /\ b * N \in Int /\ r \in Int
    BY <1>1, <1>3, <1>4
  <2> QED
    BY <1>3, <1>4, <2>1, <2>2
<1>6. b * N + r \in 0 .. (2 * N) - 1
  <2>1. CASE b = 0
    BY <1>1, <1>3, <2>1
  <2>2. CASE b = 1
    BY <1>1, <1>3, <2>2
  <2> QED
    BY <1>4, <2>1, <2>2
<1>7. x % (2 * N) = b * N + r
  <2> DEFINE M == 2 * N
             s == b * N + r
  <2>1. M \in Nat \ {0} /\ s \in 0 .. M - 1 /\ x = M * e + s
    BY <1>1, <1>5, <1>6
  <2> HIDE DEF M, s
  <2>2. x % M = s
    BY <1>4, <2>1, Wraps
  <2> QED
    BY <2>2 DEF M, s
<1>8. r + b * N = b * N + r
  BY <1>1, <1>3, <1>4
<1> QED
  BY <1>2, <1>7, <1>8 DEF r, b, q, N, Bit

BitsOfNumber(x) == [i \in 0 .. HostWidth - 1 |-> Bit(x, i)]

LEMMA Recomposed ==
  ASSUME NEW x \in Int, NEW w \in 0 .. HostWidth
  PROVE  FromBits(BitsOfNumber(x)) % 2^w = x % 2^w
<1> DEFINE bit == BitsOfNumber(x)
<1>1. HostWidth \in Nat /\ HostWidth \in w .. HostWidth
  BY WidthsAssumption
<1>2. \A i \in 0 .. HostWidth - 1 : bit[i] = Bit(x, i)
  BY DEF BitsOfNumber
<1> HIDE DEF bit
<1>3. \A i \in 0 .. HostWidth - 1 : bit[i] \in Nat
  <2> TAKE i \in 0 .. HostWidth - 1
  <2>1. i \in Nat
    BY <1>1
  <2>2. Bit(x, i) \in {0, 1}
    BY <2>1, BitIs
  <2> QED
    BY <1>2, <2>2
<1>4. PICK f : Builds(f, bit, HostWidth) /\ FromBits(bit) = f[HostWidth]
  BY BuiltWord
<1>5. f[HostWidth] % 2^w = f[w] % 2^w
  BY <1>1, <1>3, <1>4, BuiltLow
<1> DEFINE T == {m \in 0 .. HostWidth : f[m] # x % 2^m}
<1>6. T = {}
  <2>1. SUFFICES ASSUME T # {} PROVE FALSE
    OBVIOUS
  <2>2. PICK m \in T : \A y \in T : m <= y
    <3>1. T \subseteq Nat
      OBVIOUS
    <3> HIDE DEF T
    <3> QED
      BY <2>1, <3>1, LeastNumber
  <2>3. f[0] = 0 /\ x % 2^0 = 0
    <3>1. f[0] = 0
      BY <1>1, <1>4 DEF Builds
    <3>2. x % 1 = 0
      OBVIOUS
    <3> QED
      BY <3>1, <3>2, PowerZero
  <2>4. m # 0 /\ m \in 0 .. HostWidth
    BY <2>2, <2>3
  <2>5. m - 1 \in 0 .. HostWidth - 1 /\ m - 1 \in 0 .. HostWidth /\ m - 1 \notin T
        /\ m - 1 \in Nat /\ (m - 1) + 1 = m
    BY <1>1, <2>2, <2>4
  <2>6. f[m - 1] = x % 2^(m - 1)
    BY <2>5
  <2>7. f[m] = f[m - 1] + bit[m - 1] * 2^(m - 1)
    BY <1>4, <2>4 DEF Builds
  <2>8. bit[m - 1] = Bit(x, m - 1)
    BY <1>2, <2>5
  <2>9. x % 2^((m - 1) + 1) = (x % 2^(m - 1)) + Bit(x, m - 1) * 2^(m - 1)
    BY <2>5, BitStep
  <2>10. f[m] = x % 2^m
    BY <2>5, <2>6, <2>7, <2>8, <2>9
  <2> QED
    BY <2>2, <2>10
<1>7. f[w] = x % 2^w
  BY <1>6
<1>8. w \in Nat
  BY <1>1
<1>9. (x % 2^w) % 2^w = x % 2^w
  BY <1>8, Narrowing
<1> QED
  BY <1>4, <1>5, <1>7, <1>9 DEF bit

\* The complement has the other bits.
LEMMA ComplementBit ==
  ASSUME NEW x \in Int, NEW i \in Nat
  PROVE  Bit(-1 - x, i) = 1 - Bit(x, i)
<1> DEFINE I == 2^i
           d == x \div I
           e == x % I
<1>1. I \in Nat \ {0}
  BY PowerOfTwo
<1>2. x = I * d + e /\ d \in Int /\ e \in 0 .. I - 1
  <2> HIDE DEF I
  <2> QED
    BY <1>1, Quotient
<1> HIDE DEF I, d, e
<1>3. -1 - x = I * (-1 - d) + (I - 1 - e) /\ -1 - d \in Int /\ I - 1 - e \in 0 .. I - 1
  <2>1. I * (-1 - d) = -I - I * d /\ I * d \in Int
    BY <1>1, <1>2
  <2> QED
    BY <1>1, <1>2, <2>1
<1>4. (-1 - x) \div I = -1 - d
  <2> DEFINE k == -1 - d
             s == I - 1 - e
             y == -1 - x
  <2>1. k \in Int /\ s \in 0 .. I - 1 /\ y = I * k + s
    BY <1>3
  <2> HIDE DEF k, s, y
  <2>2. y \div I = k
    BY <1>1, <2>1, QuotientIs
  <2> QED
    BY <2>2 DEF k, y
<1>5. (-1 - d) % 2 = 1 - (d % 2)
  BY <1>2
<1> QED
  BY <1>4, <1>5 DEF Bit, d, I

LEMMA LowBit == ASSUME NEW x \in Int PROVE Bit(x, 0) = x % 2
<1>1. x \div 1 = x
  OBVIOUS
<1> QED
  BY <1>1, PowerZero DEF Bit

-----------------------------------------------------------------------------
(***************************************************************************)
(* The bitwise operators.                                                  *)
(***************************************************************************)
OnesOf(op) == CASE op = "&" -> {<<1, 1>>}
                [] op = "|" -> {<<0, 1>>, <<1, 0>>, <<1, 1>>}
                [] op = "^" -> {<<0, 1>>, <<1, 0>>}

BitsOfPair(x, y, ones) ==
  [i \in 0 .. HostWidth - 1 |-> Flag(<<Bit(x, i), Bit(y, i)>> \in ones)]

\* arith's bitwise operations, with the pairs of bits that give a one.
LEMMA BitsOfWords ==
  ASSUME NEW op \in Bitwises, NEW a, NEW b, NEW w, IsWord(a, w), IsWord(b, w)
  PROVE  BitI(op, a, b) = Wire(FromBits(BitsOfPair(a.raw, b.raw, OnesOf(op))), w)
<1>1. IsDefined(a) /\ a.width = w /\ a.raw \in Int
  BY WordFields
<1>2. IsDefined(b) /\ b.raw \in Int
  BY WordFields
<1> DEFINE word == [i \in 0 .. HostWidth - 1 |->
                      LET p == Bit(a.raw, i) = 1
                          q == Bit(b.raw, i) = 1
                          r == CASE op = "&" -> p /\ q [] op = "|" -> p \/ q [] op = "^" -> p # q
                      IN  IF r THEN 1 ELSE 0]
<1>3. BitI(op, a, b) = Wire(FromBits(word), w)
  BY <1>1, <1>2 DEF BitI
<1>4. ASSUME NEW i \in 0 .. HostWidth - 1
      PROVE  word[i] = Flag(<<Bit(a.raw, i), Bit(b.raw, i)>> \in OnesOf(op))
  <2> DEFINE p == Bit(a.raw, i)
             q == Bit(b.raw, i)
             r == CASE op = "&" -> p = 1 /\ q = 1 [] op = "|" -> p = 1 \/ q = 1
                    [] op = "^" -> (p = 1) # (q = 1)
  <2>1. i \in Nat
    BY WidthsAssumption
  <2>2. p \in {0, 1}
    BY <1>1, <2>1, BitIs
  <2>3. q \in {0, 1}
    BY <1>2, <2>1, BitIs
  <2>4. word[i] = IF r THEN 1 ELSE 0
    OBVIOUS
  <2> SUFFICES word[i] = Flag(<<p, q>> \in OnesOf(op))
    OBVIOUS
  <2> HIDE DEF word, p, q
  <2>5. CASE op = "&"
    <3>1. OnesOf(op) = {<<1, 1>>}
      BY <2>5, Zenon DEF OnesOf
    <3>2. r <=> p = 1 /\ q = 1
      BY <2>5, Zenon
    <3>3. <<p, q>> \in OnesOf(op) <=> p = 1 /\ q = 1
      BY <3>1
    <3> HIDE DEF r
    <3> QED
      BY <2>4, <3>2, <3>3, Zenon DEF Flag
  <2>6. CASE op = "|"
    <3>1. OnesOf(op) = {<<0, 1>>, <<1, 0>>, <<1, 1>>}
      BY <2>6 DEF OnesOf
    <3>2. r <=> p = 1 \/ q = 1
      BY <2>6
    <3>3. <<p, q>> \in OnesOf(op) <=> p = 1 \/ q = 1
      BY <2>2, <2>3, <3>1
    <3> HIDE DEF r
    <3> QED
      BY <2>4, <3>2, <3>3, Zenon DEF Flag
  <2>7. CASE op = "^"
    <3>1. OnesOf(op) = {<<0, 1>>, <<1, 0>>}
      BY <2>7 DEF OnesOf
    <3>2. r <=> (p = 1) # (q = 1)
      BY <2>7
    <3>3. <<p, q>> \in OnesOf(op) <=> (p = 1) # (q = 1)
      BY <2>2, <2>3, <3>1
    <3> HIDE DEF r
    <3> QED
      BY <2>4, <3>2, <3>3, Zenon DEF Flag
  <2> HIDE DEF r
  <2> QED
    BY <2>5, <2>6, <2>7 DEF Bitwises
<1>5. word = BitsOfPair(a.raw, b.raw, OnesOf(op))
  BY <1>4 DEF BitsOfPair
<1> QED
  BY <1>3, <1>5

LEMMA PairIsNatural ==
  ASSUME NEW x, NEW y, NEW ones
  PROVE  /\ \A i \in 0 .. HostWidth - 1 : BitsOfPair(x, y, ones)[i] \in Nat
         /\ FromBits(BitsOfPair(x, y, ones)) \in Nat
<1>1. \A i \in 0 .. HostWidth - 1 : BitsOfPair(x, y, ones)[i] \in Nat
  BY FlagNatural DEF BitsOfPair
<1>2. FromBits(BitsOfPair(x, y, ones)) \in Nat
  BY <1>1, WordIsNatural
<1> QED
  BY <1>1, <1>2

\* The low bits of the numbers decide the low bits of the word.
LEMMA PairsOfLowBits ==
  ASSUME NEW w \in 0 .. HostWidth, NEW ones,
         NEW x \in Int, NEW y \in Int, NEW u \in Int, NEW v \in Int,
         x % 2^w = u % 2^w, y % 2^w = v % 2^w
  PROVE  FromBits(BitsOfPair(x, y, ones)) % 2^w = FromBits(BitsOfPair(u, v, ones)) % 2^w
<1> DEFINE p == BitsOfPair(x, y, ones)
           q == BitsOfPair(u, v, ones)
<1>1. \A i \in 0 .. HostWidth - 1 : p[i] \in Nat /\ q[i] \in Nat
  BY PairIsNatural
<1>2. ASSUME NEW i \in 0 .. w - 1 PROVE p[i] = q[i]
  <2>1. i \in 0 .. HostWidth - 1 /\ i \in Nat /\ w \in Nat /\ i < w
    BY WidthsAssumption
  <2>2. Bit(x % 2^w, i) = Bit(x, i) /\ Bit(u % 2^w, i) = Bit(u, i)
    BY <2>1, BitKept
  <2>3. Bit(y % 2^w, i) = Bit(y, i) /\ Bit(v % 2^w, i) = Bit(v, i)
    BY <2>1, BitKept
  <2>4. Bit(x, i) = Bit(u, i) /\ Bit(y, i) = Bit(v, i)
    BY <2>2, <2>3
  <2> QED
    BY <2>1, <2>4 DEF BitsOfPair
<1> HIDE DEF p, q
<1>3. FromBits(p) % 2^w = FromBits(q) % 2^w
  BY <1>1, <1>2, SameLowBits
<1> QED
  BY <1>3 DEF p, q

LEMMA BitwiseEmitted ==
  ASSUME NEW op \in Bitwises, NEW l, NEW r, Held(l), Held(r), NEW w \in 1 .. HostWidth
  PROVE  BitI(op, CoerceWire(WireOf(l), l.isSigned, w), CoerceWire(WireOf(r), r.isSigned, w))
         = Wire(FromBits(BitsOfPair(Value(l) % 2^HostWidth, Value(r) % 2^HostWidth, OnesOf(op))), w)
<1> DEFINE a == CoerceWire(WireOf(l), l.isSigned, w)
           b == CoerceWire(WireOf(r), r.isSigned, w)
           m == NumberIn(WireOf(l), l.isSigned)
           n == NumberIn(WireOf(r), r.isSigned)
           x == Value(l) % 2^HostWidth
           y == Value(r) % 2^HostWidth
<1>1. w \in Nat \ {0} /\ w \in Nat /\ HostWidth \in Nat /\ w <= HostWidth /\ w \in 0 .. HostWidth
  BY WidthsAssumption
<1>2. Value(l) \in Int /\ l.isSigned \in BOOLEAN /\ IsWord(WireOf(l), l.width)
  BY HeldFields, WireOfHeld
<1>3. Value(r) \in Int /\ r.isSigned \in BOOLEAN /\ IsWord(WireOf(r), r.width)
  BY HeldFields, WireOfHeld
<1>4. m \in Int
  BY <1>2, NumberReading
<1>5. n \in Int
  BY <1>3, NumberReading
<1>6. a = Wire(m, w)
  BY <1>1, <1>2, Coerced
<1>7. b = Wire(n, w)
  BY <1>1, <1>3, Coerced
<1>8. Value(l) % 2^w = m % 2^w
  BY ValueReading
<1>9. Value(r) % 2^w = n % 2^w
  BY ValueReading
<1>10. x \in Int /\ y \in Int
  <2>1. 2^HostWidth \in Nat \ {0}
    BY <1>1, PowerOfTwo
  <2>2. x \in 0 .. 2^HostWidth - 1
    BY <1>2, <2>1, Quotient
  <2>3. y \in 0 .. 2^HostWidth - 1
    BY <1>3, <2>1, Quotient
  <2> HIDE DEF x, y
  <2> QED
    BY <2>2, <2>3
<1>11. x % 2^w = Value(l) % 2^w
  BY <1>1, <1>2, Narrowing
<1>12. y % 2^w = Value(r) % 2^w
  BY <1>1, <1>3, Narrowing
<1> HIDE DEF m, n, x, y, a, b
<1>13. IsWord(a, w) /\ a.raw = m % 2^w
  BY <1>1, <1>4, <1>6, WireIsWord
<1>14. IsWord(b, w) /\ b.raw = n % 2^w
  BY <1>1, <1>5, <1>7, WireIsWord
<1> DEFINE word == FromBits(BitsOfPair(a.raw, b.raw, OnesOf(op)))
           host == FromBits(BitsOfPair(x, y, OnesOf(op)))
<1>15. BitI(op, a, b) = Wire(word, w)
  BY <1>13, <1>14, BitsOfWords
<1>16. word % 2^w = host % 2^w
  <2>1. (m % 2^w) % 2^w = m % 2^w /\ (n % 2^w) % 2^w = n % 2^w
    BY <1>1, <1>4, <1>5, Narrowing
  <2>2. a.raw % 2^w = x % 2^w /\ b.raw % 2^w = y % 2^w
    BY <1>8, <1>9, <1>11, <1>12, <1>13, <1>14, <2>1
  <2>3. a.raw \in Int
    BY <1>13, WordFields
  <2>4. b.raw \in Int
    BY <1>14, WordFields
  <2> QED
    BY <1>1, <1>10, <2>2, <2>3, <2>4, PairsOfLowBits
<1>17. Wire(word, w) = Wire(host, w)
  BY <1>16 DEF Wire
<1> QED
  BY <1>15, <1>17 DEF a, b, x, y

\* On u1 operands the bitwise operations are the logical ones.
LEMMA OneBitWord ==
  ASSUME NEW x \in {0, 1}, NEW y \in {0, 1}, NEW ones
  PROVE  Wire(FromBits(BitsOfPair(x, y, ones)), 1) = Wire(Flag(<<x, y>> \in ones), 1)
<1> DEFINE n == Flag(<<x, y>> \in ones)
           p == BitsOfPair(x, y, ones)
           q == BitsOfNumber(n)
<1>1. n \in {0, 1} /\ n \in Int /\ x \in Int /\ y \in Int
  BY DEF Flag
<1>2. 1 \in 0 .. HostWidth /\ 0 \in 0 .. HostWidth - 1 /\ 0 .. 1 - 1 = {0}
  BY WidthsAssumption
<1>3. \A z \in {0, 1} : Bit(z, 0) = z
  BY LowBit
<1>4. p[0] = n
  BY <1>2, <1>3 DEF BitsOfPair
<1> HIDE DEF n
<1>5. q[0] = n
  BY <1>1, <1>2, <1>3 DEF BitsOfNumber
<1>6. ASSUME NEW i \in 0 .. HostWidth - 1 PROVE p[i] \in Nat /\ q[i] \in Nat
  <2>1. p[i] \in Nat
    BY PairIsNatural
  <2>2. i \in Nat
    BY WidthsAssumption
  <2>3. Bit(n, i) \in {0, 1}
    BY <1>1, <2>2, BitIs
  <2> QED
    BY <2>1, <2>3 DEF BitsOfNumber
<1>7. \A i \in 0 .. 1 - 1 : p[i] = q[i]
  BY <1>2, <1>4, <1>5
<1> HIDE DEF p
<1>8. FromBits(p) % 2^1 = FromBits(q) % 2^1
  <2> HIDE DEF q
  <2> DEFINE one == 1
  <2>1. one \in 0 .. HostWidth /\ \A i \in 0 .. one - 1 : p[i] = q[i]
    BY <1>2, <1>7
  <2> HIDE DEF one
  <2>2. FromBits(p) % 2^one = FromBits(q) % 2^one
    BY <1>6, <2>1, SameLowBits
  <2> QED
    BY <2>2 DEF one
<1>9. FromBits(q) % 2^1 = n % 2^1
  BY <1>1, <1>2, Recomposed
<1> QED
  BY <1>8, <1>9 DEF Wire, p, n

LEMMA TruthWire ==
  ASSUME NEW p
  PROVE  Held(Truth(p)) /\ WireOf(Truth(p)) = Wire(Flag(p), 1) /\ TypeOfBits(Truth(p)) = Type(1, FALSE)
<1> DEFINE n == IF p THEN 1 ELSE 0
<1>1. n \in Int /\ n = Flag(p)
  BY DEF Flag
<1>2. 1 \in 1 .. HostWidth /\ FALSE \in BOOLEAN
  BY WidthsAssumption
<1>3. Truth(p) = Make(n, 1, FALSE)
  BY DEF Truth
<1> HIDE DEF n
<1> DEFINE one == 1
           no == FALSE
<1>4. one \in 1 .. HostWidth /\ no \in BOOLEAN
  BY <1>2
<1> HIDE DEF one, no
<1>5. Held(Make(n, one, no)) /\ WireOf(Make(n, one, no)) = Wire(n, one)
  BY <1>1, <1>4, WireOfMake
<1> QED
  BY <1>1, <1>3, <1>5, TruthTyped DEF one, no

LEMMA LogicalsEmitted ==
  ASSUME NEW l, NEW r, Held(l), Held(r), l.width = 1, r.width = 1
  PROVE  /\ BitI("&", WireOf(l), WireOf(r)) = WireOf(Truth(l.raw # 0 /\ r.raw # 0))
         /\ BitI("|", WireOf(l), WireOf(r)) = WireOf(Truth(l.raw # 0 \/ r.raw # 0))
<1> DEFINE a == WireOf(l)
           b == WireOf(r)
           x == l.raw
           y == r.raw
           and == Flag(x # 0 /\ y # 0)
           or == Flag(x # 0 \/ y # 0)
<1>1. 2^1 = 2
  <2>1. 1 \in Nat \ {0} /\ 1 - 1 = 0
    OBVIOUS
  <2>2. 2^1 = 2 * 2^(1 - 1)
    BY <2>1, PowerDoubles
  <2> QED
    BY <2>1, <2>2, PowerZero
<1>2. IsWord(a, 1) /\ a.raw = x /\ x \in {0, 1}
  <2>1. x \in 0 .. 2^1 - 1
    BY HeldFields
  <2>2. x \in {0, 1}
    BY <1>1, <2>1
  <2> QED
    BY <2>2, WireOfHeld
<1>3. IsWord(b, 1) /\ b.raw = y /\ y \in {0, 1}
  <2>1. y \in 0 .. 2^1 - 1
    BY HeldFields
  <2>2. y \in {0, 1}
    BY <1>1, <2>1
  <2> QED
    BY <2>2, WireOfHeld
<1> HIDE DEF a, b, x, y
<1>4. "&" \in Bitwises /\ "|" \in Bitwises
  BY DEF Bitwises
<1>5. BitI("&", a, b) = Wire(FromBits(BitsOfPair(x, y, {<<1, 1>>})), 1)
  <2>1. BitI("&", a, b) = Wire(FromBits(BitsOfPair(a.raw, b.raw, OnesOf("&"))), 1)
    BY <1>2, <1>3, <1>4, BitsOfWords
  <2>2. OnesOf("&") = {<<1, 1>>}
    BY Zenon DEF OnesOf
  <2> QED
    BY <1>2, <1>3, <2>1, <2>2
<1>6. BitI("|", a, b) = Wire(FromBits(BitsOfPair(x, y, {<<0, 1>>, <<1, 0>>, <<1, 1>>})), 1)
  <2>1. BitI("|", a, b) = Wire(FromBits(BitsOfPair(a.raw, b.raw, OnesOf("|"))), 1)
    BY <1>2, <1>3, <1>4, BitsOfWords
  <2>2. OnesOf("|") = {<<0, 1>>, <<1, 0>>, <<1, 1>>}
    BY DEF OnesOf
  <2> QED
    BY <1>2, <1>3, <2>1, <2>2
<1>7. Wire(FromBits(BitsOfPair(x, y, {<<1, 1>>})), 1) = Wire(Flag(<<x, y>> \in {<<1, 1>>}), 1)
  BY <1>2, <1>3, OneBitWord
<1>8. Wire(FromBits(BitsOfPair(x, y, {<<0, 1>>, <<1, 0>>, <<1, 1>>})), 1)
      = Wire(Flag(<<x, y>> \in {<<0, 1>>, <<1, 0>>, <<1, 1>>}), 1)
  BY <1>2, <1>3, OneBitWord
<1>9. Flag(<<x, y>> \in {<<1, 1>>}) = and
  BY <1>2, <1>3 DEF Flag
<1>10. Flag(<<x, y>> \in {<<0, 1>>, <<1, 0>>, <<1, 1>>}) = or
  BY <1>2, <1>3 DEF Flag
<1>11. BitI("&", a, b) = WireOf(Truth(x # 0 /\ y # 0))
  <2>1. WireOf(Truth(x # 0 /\ y # 0)) = Wire(and, 1)
    BY TruthWire
  <2> QED
    BY <1>5, <1>7, <1>9, <2>1
<1>12. BitI("|", a, b) = WireOf(Truth(x # 0 \/ y # 0))
  <2>1. WireOf(Truth(x # 0 \/ y # 0)) = Wire(or, 1)
    BY TruthWire
  <2> QED
    BY <1>6, <1>8, <1>10, <2>1
<1> QED
  BY <1>11, <1>12 DEF a, b, x, y

\* An exclusive or with all ones is the complement.
LEMMA ComplementEmitted ==
  ASSUME NEW v, Held(v)
  PROVE  BitI("^", WireOf(v), IntConst(-1, v.width)) = WireOf(BitNot(v))
<1> DEFINE w == v.width
           x == v.raw
           a == WireOf(v)
           b == IntConst(-1, w)
           ones == {<<0, 1>>, <<1, 0>>}
           p == BitsOfPair(x, -1, ones)
           n == -1 - x
<1>1. /\ w \in 1 .. HostWidth /\ w \in Nat \ {0} /\ w \in Nat /\ w \in 0 .. HostWidth
      /\ v.isSigned \in BOOLEAN /\ x \in Int
  BY HeldFields
<1>2. IsWord(a, w) /\ a.raw = x
  BY WireOfHeld
<1>3. IsWord(b, w) /\ b.raw = (-1) % 2^w
  <2>1. -1 \in Int
    OBVIOUS
  <2>2. b = Wire(-1, w)
    BY DEF IntConst
  <2> QED
    BY <1>1, <2>1, <2>2, WireIsWord
<1> HIDE DEF a, b
<1>4. BitI("^", a, b) = Wire(FromBits(BitsOfPair(x, b.raw, ones)), w)
  <2>1. "^" \in Bitwises
    BY DEF Bitwises
  <2>2. BitI("^", a, b) = Wire(FromBits(BitsOfPair(a.raw, b.raw, OnesOf("^"))), w)
    BY <1>2, <1>3, <2>1, BitsOfWords
  <2>3. OnesOf("^") = ones
    BY DEF OnesOf
  <2> QED
    BY <1>2, <2>2, <2>3
<1> HIDE DEF w, x
<1>5. FromBits(BitsOfPair(x, b.raw, ones)) % 2^w = FromBits(p) % 2^w
  <2>1. b.raw \in Int
    BY <1>3, WordFields
  <2>2. -1 \in Int
    OBVIOUS
  <2>3. b.raw % 2^w = (-1) % 2^w
    <3> DEFINE k == -1
    <3>1. k \in Int
      OBVIOUS
    <3> HIDE DEF k
    <3>2. (k % 2^w) % 2^w = k % 2^w
      BY <1>1, <3>1, Narrowing
    <3> QED
      BY <1>3, <3>2 DEF k
  <2> HIDE DEF ones
  <2>4. FromBits(BitsOfPair(x, b.raw, ones)) % 2^w = FromBits(BitsOfPair(x, -1, ones)) % 2^w
    BY <1>1, <2>1, <2>2, <2>3, PairsOfLowBits
  <2> QED
    BY <2>4
<1>6. n \in Int
  BY <1>1
<1>7. p = BitsOfNumber(n)
  <2>1. ASSUME NEW i \in 0 .. HostWidth - 1
        PROVE  Flag(<<Bit(x, i), Bit(-1, i)>> \in ones) = Bit(n, i)
    <3>1. i \in Nat
      BY WidthsAssumption
    <3>2. Bit(x, i) \in {0, 1}
      BY <1>1, <3>1, BitIs
    <3>3. Bit(n, i) = 1 - Bit(x, i)
      BY <1>1, <3>1, ComplementBit
    <3>4. Bit(-1, i) = 1
      <4>1. Bit(-1 - 0, i) = 1 - Bit(0, i)
        BY <3>1, ComplementBit
      <4>2. 2^i \in Nat \ {0}
        BY <3>1, PowerOfTwo
      <4>3. 0 \div 2^i = 0
        BY <4>2
      <4>4. Bit(0, i) = 0
        <5>1. Bit(0, i) = (0 \div 2^i) % 2
          BY DEF Bit
        <5>2. 0 % 2 = 0
          OBVIOUS
        <5> QED
          BY <4>3, <5>1, <5>2
      <4>5. -1 - 0 = -1
        OBVIOUS
      <4> QED
        BY <4>1, <4>4, <4>5
    <3> HIDE DEF n
    <3> QED
      BY <3>2, <3>3, <3>4 DEF Flag
  <2> QED
    BY <2>1 DEF BitsOfPair, BitsOfNumber
<1> HIDE DEF p, n
<1>8. FromBits(p) % 2^w = n % 2^w
  BY <1>1, <1>6, <1>7, Recomposed
<1>9. WireOf(BitNot(v)) = Wire(n, w)
  <2>1. BitNot(v) = Make(n, w, v.isSigned)
    BY DEF BitNot, n, w, x
  <2> QED
    BY <1>1, <1>6, <2>1, WireOfMake
<1>10. BitI("^", a, b) = Wire(n, w)
  BY <1>4, <1>5, <1>8 DEF Wire
<1> QED
  BY <1>9, <1>10 DEF a, b, w

-----------------------------------------------------------------------------
(***************************************************************************)
(* Comparisons, the unary operators and the conditional.                   *)
(***************************************************************************)
Holds(op, x, y) ==
  CASE op = "<"  -> x < y
    [] op = "<=" -> x <= y
    [] op = ">"  -> x > y
    [] op = ">=" -> x >= y
    [] op = "==" -> x = y
    [] op = "!=" -> x # y

LEMMA ComparedWords ==
  ASSUME NEW op, NEW a, NEW b, NEW s, IsDefined(a), IsDefined(b)
  PROVE  CmpI(op, a, b, s) = Wire(Flag(Holds(op, NumberIn(a, s), NumberIn(b, s))), 1)
<1>1. CmpI(op, a, b, s)
      = On(a, b, IF Holds(op, NumberIn(a, s), NumberIn(b, s)) THEN 1 ELSE 0, 1)
  BY Zenon DEF CmpI, Holds, NumberIn
<1> QED
  BY <1>1 DEF On, Flag

LEMMA FlagWire ==
  ASSUME NEW p, NEW s \in BOOLEAN
  PROVE  WireOf(Make(Flag(p), 1, s)) = Wire(Flag(p), 1)
<1> DEFINE one == 1
           n == Flag(p)
<1>1. one \in 1 .. HostWidth /\ n \in Int
  BY WidthsAssumption DEF Flag
<1> HIDE DEF one, n
<1>2. WireOf(Make(n, one, s)) = Wire(n, one)
  BY <1>1, WireOfMake
<1> QED
  BY <1>2 DEF one, n

LEMMA WiderType ==
  ASSUME NEW l, NEW r, Held(l), Held(r)
  PROVE  /\ Wider(TypeOfBits(l), TypeOfBits(r)) = MaxW(l, r)
         /\ Narrower(TypeOfBits(l), TypeOfBits(r)) = MinW(l, r)
         /\ MaxW(l, r) \in 1 .. HostWidth /\ MinW(l, r) \in 1 .. HostWidth
         /\ l.width <= MaxW(l, r) /\ r.width <= MaxW(l, r)
         /\ MinW(l, r) <= l.width /\ MinW(l, r) <= r.width
<1>1. l.width \in 1 .. HostWidth /\ l.width \in Nat \ {0}
  BY HeldFields
<1>2. r.width \in 1 .. HostWidth /\ r.width \in Nat \ {0}
  BY HeldFields
<1>3. Wider(l, r) = MaxW(l, r) /\ Narrower(l, r) = MinW(l, r)
  BY <1>1, <1>2, MaxWidth
<1>4. /\ Wider(TypeOfBits(l), TypeOfBits(r)) = Wider(l, r)
      /\ Narrower(TypeOfBits(l), TypeOfBits(r)) = Narrower(l, r)
  BY DEF Wider, Narrower, TypeOfBits, Type
<1>5. /\ MaxW(l, r) \in 1 .. HostWidth /\ MinW(l, r) \in 1 .. HostWidth
      /\ l.width <= MaxW(l, r) /\ r.width <= MaxW(l, r)
      /\ MinW(l, r) <= l.width /\ MinW(l, r) <= r.width
  BY <1>1, <1>2, WidthsAssumption DEF MaxW, MinW, Larger, Smaller
<1> QED
  BY <1>3, <1>4, <1>5

LEMMA CompareEmitted ==
  ASSUME NEW op, NEW l, NEW r, Held(l), Held(r), l.isSigned = r.isSigned
  PROVE  EmitCompare(op, WireOf(l), TypeOfBits(l), WireOf(r), TypeOfBits(r))
         = WireOf(Compare(l, r, op))
<1> DEFINE w == MaxW(l, r)
           s == l.isSigned
           a == CoerceWire(WireOf(l), s, w)
           b == CoerceWire(WireOf(r), s, w)
           x == IF s THEN Value(l) ELSE l.raw
           y == IF s THEN Value(r) ELSE r.raw
<1>1. w \in Nat \ {0} /\ l.width <= w /\ r.width <= w /\ s \in BOOLEAN
  <2>1. w \in 1 .. HostWidth /\ l.width <= w /\ r.width <= w
    BY WiderType
  <2>2. s \in BOOLEAN
    BY HeldFields
  <2> HIDE DEF w
  <2> QED
    BY <2>1, <2>2, WidthsAssumption
<1>2. IsWord(WireOf(l), l.width) /\ WireOf(l).raw = l.raw
  BY WireOfHeld
<1>3. IsWord(WireOf(r), r.width) /\ WireOf(r).raw = r.raw
  BY WireOfHeld
<1>4. NumberIn(WireOf(l), s) = x
  BY <1>2, ValueReading DEF NumberIn
<1>5. NumberIn(WireOf(r), s) = y
  BY <1>3, ValueReading DEF NumberIn
<1>6. EmitCompare(op, WireOf(l), TypeOfBits(l), WireOf(r), TypeOfBits(r)) = CmpI(op, a, b, s)
  <2>1. Wider(TypeOfBits(l), TypeOfBits(r)) = w
    BY WiderType
  <2>2. TypeOfBits(l).isSigned = s /\ TypeOfBits(r).isSigned = s
    BY DEF TypeOfBits, Type
  <2> HIDE DEF w
  <2> QED
    BY <2>1, <2>2 DEF EmitCompare
<1> HIDE DEF w, s
<1>7. IsWord(a, w) /\ NumberIn(a, s) = NumberIn(WireOf(l), s)
  BY <1>1, <1>2, Extended
<1>8. IsWord(b, w) /\ NumberIn(b, s) = NumberIn(WireOf(r), s)
  BY <1>1, <1>3, Extended
<1> HIDE DEF a, b, x, y
<1>9. IsDefined(a)
  BY <1>7, WordFields
<1>10. IsDefined(b)
  BY <1>8, WordFields
<1>11. CmpI(op, a, b, s) = Wire(Flag(Holds(op, x, y)), 1)
  BY <1>4, <1>5, <1>7, <1>8, <1>9, <1>10, ComparedWords
<1>12. Compare(l, r, op) = Make(Flag(Holds(op, x, y)), 1, FALSE)
  BY Zenon DEF Compare, Holds, x, y, s
<1>13. WireOf(Make(Flag(Holds(op, x, y)), 1, FALSE)) = Wire(Flag(Holds(op, x, y)), 1)
  BY FlagWire
<1> QED
  BY <1>6, <1>11, <1>12, <1>13

LEMMA NegationEmitted ==
  ASSUME NEW v, Held(v), v.width + 1 <= HostWidth
  PROVE  /\ Held(Neg(v)) /\ TypeOfBits(Neg(v)) = Type(v.width + 1, TRUE)
         /\ SubI(IntConst(0, v.width + 1), CoerceWire(WireOf(v), v.isSigned, v.width + 1))
            = WireOf(Neg(v))
<1> DEFINE w == v.width + 1
           x == Value(v)
           n == NumberIn(WireOf(v), v.isSigned)
           c == CoerceWire(WireOf(v), v.isSigned, w)
<1>1. w \in 1 .. HostWidth /\ w \in Nat \ {0} /\ x \in Int /\ v.isSigned \in BOOLEAN
  BY HeldFields, WidthsAssumption
<1>2. IsWord(WireOf(v), v.width)
  BY WireOfHeld
<1>3. n \in Int
  BY <1>2, NumberReading
<1> HIDE DEF w
<1>4. c = Wire(n, w)
  BY <1>1, <1>2, Coerced
<1>5. x % 2^w = n % 2^w
  BY <1>1, ValueReading
<1>6. Neg(v) = Make(-x, w, TRUE)
  BY DEF Neg, w
<1> HIDE DEF x, n, c
<1>7. c = Wire(x, w)
  BY <1>1, <1>3, <1>4, <1>5, SameWire
<1>8. SubI(Wire(0, w), Wire(x, w)) = Wire(0 - x, w)
  <2> DEFINE z == 0
  <2>1. z \in Int
    OBVIOUS
  <2> HIDE DEF z
  <2>2. SubI(Wire(z, w), Wire(x, w)) = Wire(z - x, w)
    BY <1>1, <2>1, SumsOfWords
  <2> QED
    BY <2>2 DEF z
<1>9. 0 - x = -x /\ -x \in Int /\ TRUE \in BOOLEAN
  BY <1>1
<1> DEFINE m == -x
           yes == TRUE
<1>10. m \in Int /\ yes \in BOOLEAN
  BY <1>9
<1> HIDE DEF m, yes
<1>11. Held(Make(m, w, yes)) /\ WireOf(Make(m, w, yes)) = Wire(m, w)
  BY <1>1, <1>10, WireOfMake
<1>12. TypeOfBits(Make(m, w, yes)) = Type(w, yes)
  BY <1>1, <1>10, MakeProper
<1>13. Neg(v) = Make(m, w, yes) /\ Wire(0 - x, w) = Wire(m, w)
  BY <1>6, <1>9 DEF m, yes
<1>14. SubI(IntConst(0, w), c) = WireOf(Neg(v))
  BY <1>7, <1>8, <1>11, <1>13 DEF IntConst
<1> QED
  BY <1>11, <1>12, <1>13, <1>14 DEF w, c, yes

LEMMA NotEmitted ==
  ASSUME NEW v, Held(v)
  PROVE  CmpI("==", WireOf(v), IntConst(0, v.width), FALSE) = WireOf(Truth(v.raw = 0))
<1> DEFINE a == WireOf(v)
           z == IntConst(0, v.width)
<1>1. IsDefined(a) /\ a.raw = v.raw
  BY WireOfHeld
<1>2. v.width \in Nat \ {0} /\ 2^v.width \in Nat \ {0}
  BY HeldFields, PowerOfTwo
<1>3. IsDefined(z) /\ z.raw = 0
  <2>1. 0 % 2^v.width = 0 /\ 0 \in Int
    BY <1>2
  <2>2. z = Wire(0, v.width)
    BY DEF IntConst
  <2> QED
    BY <1>2, <2>1, <2>2, WireIsWord
<1> HIDE DEF a, z
<1>4. CmpI("==", a, z, FALSE) = Wire(Flag(Holds("==", NumberIn(a, FALSE), NumberIn(z, FALSE))), 1)
  <2>1. ASSUME NEW op, NEW s
        PROVE  CmpI(op, a, z, s) = Wire(Flag(Holds(op, NumberIn(a, s), NumberIn(z, s))), 1)
    BY <1>1, <1>3, ComparedWords
  <2> QED
    BY <2>1, Zenon
<1>5. NumberIn(a, FALSE) = v.raw /\ NumberIn(z, FALSE) = 0
  BY <1>1, <1>3 DEF NumberIn
<1>6. Flag(Holds("==", v.raw, 0)) = Flag(v.raw = 0)
  BY DEF Holds
<1>7. WireOf(Truth(v.raw = 0)) = Wire(Flag(v.raw = 0), 1)
  BY TruthWire
<1> QED
  BY <1>4, <1>5, <1>6, <1>7 DEF a, z

LEMMA UnaryEmitted ==
  ASSUME NEW op \in UnaryOps, NEW v, Held(v),
         UnaryRule(op, TypeOfBits(v)).width <= HostWidth,
         ~WideNot(op, TypeOfBits(v))
  PROVE  /\ Held(ApplyUnary(op, v))
         /\ TypeOfBits(ApplyUnary(op, v)) = UnaryRule(op, TypeOfBits(v))
         /\ EmitUnary(op, WireOf(v), TypeOfBits(v)) = WireOf(ApplyUnary(op, v))
<1> DEFINE t == TypeOfBits(v)
<1>1. t.width = v.width /\ t.isSigned = v.isSigned
  BY DEF TypeOfBits, Type
<1> HIDE DEF t
<1>6. EmitUnary(op, WireOf(v), t) = UnaryOperations(op, WireOf(v), t, UnaryRule(op, t))
  <2>1. WireOf(v) # NoWire
    BY HeldIsEmitted
  <2> QED
    BY <2>1, Zenon DEF EmitUnary, EmitUnaryAs
<1>2. CASE op = "-"
  <2>1. /\ ApplyUnary(op, v) = Neg(v) /\ UnaryRule(op, t) = Type(v.width + 1, TRUE)
        /\ EmitUnary(op, WireOf(v), t)
           = SubI(IntConst(0, v.width + 1), CoerceWire(WireOf(v), v.isSigned, v.width + 1))
    <3>1. UnaryRule(op, t) = Type(v.width + 1, TRUE)
      BY <1>1, <1>2 DEF UnaryRule
    <3>2. UnaryRule(op, t).width = v.width + 1
      BY <3>1 DEF Type
    <3> QED
      BY <1>1, <1>2, <1>6, <3>1, <3>2 DEF ApplyUnary, UnaryOperations
  <2>2. v.width + 1 <= HostWidth
    BY <2>1 DEF Type, t
  <2> QED
    BY <2>1, <2>2, NegationEmitted DEF t
<1>3. CASE op = "+"
  BY <1>3, <1>6 DEF ApplyUnary, UnaryRule, UnaryOperations, t
<1>4. CASE op = "~"
  <2>1. /\ ApplyUnary(op, v) = BitNot(v) /\ UnaryRule(op, t) = t
        /\ EmitUnary(op, WireOf(v), t) = BitI("^", WireOf(v), IntConst(-1, v.width))
    BY <1>1, <1>4, <1>6 DEF ApplyUnary, UnaryRule, UnaryOperations
  <2>2. BitNot(v) = Make(-1 - v.raw, v.width, v.isSigned)
    BY DEF BitNot
  <2>3. /\ v.width \in 1 .. HostWidth /\ v.width \in Nat \ {0} /\ v.isSigned \in BOOLEAN
        /\ v.raw \in Nat
    BY HeldFields
  <2> DEFINE n == -1 - v.raw
  <2>4. n \in Int /\ BitNot(v) = Make(n, v.width, v.isSigned)
    BY <2>2, <2>3
  <2> HIDE DEF n
  <2>5. Held(BitNot(v)) /\ TypeOfBits(BitNot(v)) = Type(v.width, v.isSigned)
    BY <2>3, <2>4, WireOfMake, MakeProper
  <2> QED
    BY <2>1, <2>5, ComplementEmitted DEF t, TypeOfBits
<1>5. CASE op = "!"
  <2>1. /\ ApplyUnary(op, v) = Truth(v.raw = 0) /\ UnaryRule(op, t) = t
        /\ EmitUnary(op, WireOf(v), t) = CmpI("==", WireOf(v), IntConst(0, v.width), FALSE)
    BY <1>1, <1>5, <1>6 DEF ApplyUnary, UnaryRule, UnaryOperations
  <2>2. t = Type(1, FALSE)
    BY <1>5 DEF t, WideNot
  <2>3. Held(Truth(v.raw = 0)) /\ TypeOfBits(Truth(v.raw = 0)) = Type(1, FALSE)
    BY TruthWire
  <2> QED
    BY <2>1, <2>2, <2>3, NotEmitted DEF t
<1> QED
  BY <1>2, <1>3, <1>4, <1>5 DEF UnaryOps

\* `!` of a wide operand is emitted too: its result is the bit the
\* interpreter has, though the checker recorded the operand's type.
LEMMA WideNotEmitted ==
  ASSUME NEW op \in UnaryOps, NEW v, Held(v), WideNot(op, TypeOfBits(v))
  PROVE  IsWord(EmitUnary(op, WireOf(v), TypeOfBits(v)), 1)
<1> DEFINE t == TypeOfBits(v)
           e == EmitUnary(op, WireOf(v), t)
<1>1. t.width = v.width /\ op = "!"
  BY DEF TypeOfBits, Type, WideNot
<1> HIDE DEF t
<1>2. e = UnaryOperations(op, WireOf(v), t, UnaryRule(op, t))
  <2>1. WireOf(v) # NoWire
    BY HeldIsEmitted
  <2> QED
    BY <2>1, Zenon DEF EmitUnary, EmitUnaryAs
<1>3. e = CmpI("==", WireOf(v), IntConst(0, v.width), FALSE)
  BY <1>1, <1>2 DEF UnaryOperations
<1>4. Held(Truth(v.raw = 0)) /\ Truth(v.raw = 0).width = 1
  BY TruthWire DEF TypeOfBits, Type
<1>5. e = WireOf(Truth(v.raw = 0))
  BY <1>3, NotEmitted
<1> HIDE DEF e
<1> QED
  BY <1>4, <1>5, WireOfHeld DEF e, t

LEMMA HostOrWider ==
  ASSUME NEW op, NEW v, Held(v), ~(UnaryRule(op, TypeOfBits(v)).width > HostWidth)
  PROVE  UnaryRule(op, TypeOfBits(v)).width <= HostWidth
<1> DEFINE t == TypeOfBits(v)
           w == UnaryRule(op, t).width
<1>1. t.width = v.width
  BY DEF TypeOfBits, Type
<1>2. v.width \in Nat /\ HostWidth \in Nat
  BY HeldFields, WidthsAssumption
<1> HIDE DEF t
<1>3. w \in Nat
  <2>1. CASE op = "-"
    <3>1. UnaryRule(op, t) = Type(t.width + 1, TRUE)
      BY <2>1 DEF UnaryRule
    <3>2. w = t.width + 1
      BY <3>1 DEF Type
    <3> QED
      BY <1>1, <1>2, <3>2
  <2>2. CASE op # "-"
    BY <1>1, <1>2, <2>2 DEF UnaryRule
  <2> QED
    BY <2>1, <2>2
<1>4. ~(w > HostWidth)
  BY DEF t
<1> HIDE DEF w
<1>5. w <= HostWidth
  BY <1>2, <1>3, <1>4
<1> QED
  BY <1>5 DEF w, t

\* A minus whose type the checker let grow past the host's integer is
\* computed in that type.
LEMMA WideMinusEmitted ==
  ASSUME NEW op \in UnaryOps, NEW v, Held(v), UnaryRule(op, TypeOfBits(v)).width > HostWidth
  PROVE  LET e == EmitUnary(op, WireOf(v), TypeOfBits(v)) IN IsWord(e, e.width)
<1> DEFINE t == TypeOfBits(v)
           e == EmitUnary(op, WireOf(v), t)
           w == v.width + 1
<1>1. t.width = v.width /\ t.isSigned = v.isSigned
  BY DEF TypeOfBits, Type
<1>2. v.width \in Nat \ {0} /\ v.width <= HostWidth /\ HostWidth \in Nat /\ v.isSigned \in BOOLEAN
  BY HeldFields, WidthsAssumption
<1>3. w \in Nat \ {0}
  BY <1>2
<1>4. IsWord(WireOf(v), v.width)
  BY WireOfHeld
<1> HIDE DEF t, w
<1>5. op = "-"
  <2>1. op # "-" => UnaryRule(op, t) = t
    BY DEF UnaryRule
  <2> QED
    BY <1>1, <1>2, <2>1 DEF t
<1>6. UnaryRule(op, t) = Type(w, TRUE)
  BY <1>1, <1>5 DEF UnaryRule, w
<1>7. UnaryRule(op, t).width = w
  BY <1>6 DEF Type
<1>8. e = UnaryOperations(op, WireOf(v), t, UnaryRule(op, t))
  <2>1. WireOf(v) # NoWire
    BY HeldIsEmitted
  <2> QED
    BY <2>1, Zenon DEF EmitUnary, EmitUnaryAs
<1>9. e = SubI(Wire(0, w), CoerceWire(WireOf(v), v.isSigned, w))
  BY <1>1, <1>5, <1>7, <1>8 DEF UnaryOperations, IntConst
<1> DEFINE n == NumberIn(WireOf(v), v.isSigned)
           z == 0
<1>10. CoerceWire(WireOf(v), v.isSigned, w) = Wire(n, w) /\ n \in Int
  BY <1>2, <1>3, <1>4, Coerced, NumberReading
<1>11. z \in Int
  OBVIOUS
<1> HIDE DEF n, z, e
<1>12. SubI(Wire(z, w), Wire(n, w)) = Wire(z - n, w)
  BY <1>3, <1>10, <1>11, SumsOfWords
<1>13. IsWord(Wire(z - n, w), w) /\ Wire(z - n, w).width = w
  <2>1. z - n \in Int
    BY <1>10, <1>11
  <2> QED
    BY <1>3, <2>1, WireIsWord
<1>14. e = Wire(z - n, w)
  BY <1>9, <1>10, <1>12 DEF z
<1> QED
  BY <1>13, <1>14 DEF e, t

LEMMA TernaryEmitted ==
  ASSUME NEW c, Held(c), c.width = 1, NEW t, NEW f, Held(t), Held(f), t.isSigned = f.isSigned
  PROVE  LET rule == TernaryRule(TypeOfBits(t), TypeOfBits(f))
             v == Select(c, t, f, rule)
         IN  /\ Held(v) /\ TypeOfBits(v) = rule
             /\ EmitTernary(WireOf(c), WireOf(t), TypeOfBits(t), WireOf(f), TypeOfBits(f)) = WireOf(v)
<1> DEFINE rule == TernaryRule(TypeOfBits(t), TypeOfBits(f))
           v == Select(c, t, f, rule)
           w == MaxW(t, f)
           arm == IF c.raw # 0 THEN t ELSE f
           s == t.isSigned
<1>1. w \in 1 .. HostWidth /\ Wider(TypeOfBits(t), TypeOfBits(f)) = w
  BY WiderType
<1>2. s \in BOOLEAN /\ f.isSigned = s
  BY HeldFields
<1> HIDE DEF w
<1>3. rule = Type(w, s)
  BY <1>1 DEF TernaryRule, TypeOfBits, Type
<1>4. rule.width = w /\ rule.isSigned = s
  BY <1>3 DEF Type
<1>5. v = CastTo(arm, rule)
  BY DEF Select
<1> HIDE DEF rule, v
<1>6. Held(arm) /\ arm.isSigned = s
  BY <1>2
<1>7. c.raw \in {0, 1} /\ IsDefined(WireOf(c)) /\ WireOf(c).raw = c.raw
  <2>1. c.raw \in 0 .. 2^1 - 1
    BY HeldFields
  <2>2. 2^1 = 2
    <3>1. 1 \in Nat \ {0} /\ 1 - 1 = 0
      OBVIOUS
    <3>2. 2^1 = 2 * 2^(1 - 1)
      BY <3>1, PowerDoubles
    <3> QED
      BY <3>1, <3>2, PowerZero
  <2>3. c.raw \in {0, 1}
    BY <2>1, <2>2
  <2> QED
    BY <2>3, WireOfHeld
<1>8. EmitTernary(WireOf(c), WireOf(t), TypeOfBits(t), WireOf(f), TypeOfBits(f))
      = SelectI(WireOf(c), CoerceWire(WireOf(t), s, w), CoerceWire(WireOf(f), s, w))
  <2>1. TypeOfBits(t).isSigned = s /\ TypeOfBits(f).isSigned = s
    BY <1>2 DEF TypeOfBits, Type
  <2>2. WireOf(c) # NoWire
    BY HeldIsEmitted
  <2>3. WireOf(t) # NoWire
    BY HeldIsEmitted
  <2>4. WireOf(f) # NoWire
    BY HeldIsEmitted
  <2>5. NoWire \notin {WireOf(c), WireOf(t), WireOf(f)}
    BY <2>2, <2>3, <2>4, Zenon
  <2> QED
    BY <1>1, <2>1, <2>5, Zenon DEF EmitTernary
<1>9. SelectI(WireOf(c), CoerceWire(WireOf(t), s, w), CoerceWire(WireOf(f), s, w))
      = CoerceWire(WireOf(arm), s, w)
  <2>1. CASE c.raw = 1
    BY <1>7, <2>1 DEF SelectI
  <2>2. CASE c.raw = 0
    BY <1>7, <2>2 DEF SelectI
  <2> QED
    BY <1>7, <2>1, <2>2
<1> HIDE DEF arm
<1>10. /\ Held(v) /\ TypeOfBits(v) = Type(w, s)
       /\ WireOf(v) = CoerceWire(WireOf(arm), s, w)
  BY <1>1, <1>2, <1>4, <1>5, <1>6, CastIsCoercion
<1> QED
  BY <1>3, <1>8, <1>9, <1>10 DEF v, rule

-----------------------------------------------------------------------------
(***************************************************************************)
(* Division and remainder: the guard replaces a divisor that is zero, and  *)
(* no other.                                                               *)
(***************************************************************************)
LEMMA WidestOfThree ==
  ASSUME NEW a \in Nat, NEW b \in Nat, NEW c \in Nat
  PROVE  LET w == Widest({a, b, c}) IN w \in {a, b, c} /\ a <= w /\ b <= w /\ c <= w
<1> DEFINE S == {a, b, c}
<1>1. \E w \in S : \A v \in S : v <= w
  OBVIOUS
<1>2. Widest(S) \in S /\ \A v \in S : v <= Widest(S)
  BY <1>1 DEF Widest
<1> QED
  BY <1>2

LEMMA WidestOfTwo ==
  ASSUME NEW a \in Nat, NEW b \in Nat
  PROVE  LET w == Widest({a, b}) IN w \in {a, b} /\ a <= w /\ b <= w
<1> DEFINE S == {a, b}
<1>1. \E w \in S : \A v \in S : v <= w
  OBVIOUS
<1>2. Widest(S) \in S /\ \A v \in S : v <= Widest(S)
  BY <1>1 DEF Widest
<1> QED
  BY <1>2

\* A number that a width can hold is what its constant carries.
LEMMA ConstantFits ==
  ASSUME NEW w \in Nat \ {0}, NEW n \in Nat, n < 2^w
  PROVE  IsWord(IntConst(n, w), w) /\ IntConst(n, w).raw = n
<1> DEFINE M == 2^w
<1>1. M \in Nat \ {0} /\ n \in 0 .. M - 1
  BY PowerOfTwo
<1> HIDE DEF M
<1>2. n % M = n
  BY <1>1
<1>3. n \in Int
  OBVIOUS
<1>4. IsWord(Wire(n, w), w) /\ Wire(n, w).raw = n % 2^w
  BY <1>3, WireIsWord
<1> QED
  BY <1>2, <1>4 DEF IntConst, M

LEMMA PowerExceeds == ASSUME NEW n \in Nat PROVE n < 2^n
<1> DEFINE T == {k \in Nat : ~(k < 2^k)}
<1>1. CASE T = {}
  BY <1>1
<1>2. CASE T # {}
  <2>1. PICK k \in T : \A y \in T : k <= y
    <3>1. T \subseteq Nat
      OBVIOUS
    <3> HIDE DEF T
    <3> QED
      BY <1>2, <3>1, LeastNumber
  <2>2. k # 0
    <3>1. 0 < 2^0
      BY PowerZero
    <3> QED
      BY <2>1, <3>1
  <2>3. k - 1 \in Nat /\ k \in Nat \ {0} /\ k - 1 \notin T
    BY <2>1, <2>2
  <2>4. k - 1 < 2^(k - 1)
    BY <2>3
  <2>5. 2^k = 2 * 2^(k - 1)
    BY <2>3, PowerDoubles
  <2>6. 2^(k - 1) \in Nat
    BY <2>3, PowerOfTwo
  <2> DEFINE P == 2^(k - 1)
  <2>7. k - 1 < P /\ 2^k = 2 * P /\ P \in Nat
    BY <2>4, <2>5, <2>6
  <2> HIDE DEF P
  <2>8. k < 2^k
    BY <2>3, <2>7
  <2> QED
    BY <2>1, <2>8
<1> QED
  BY <1>1, <1>2

\* A word is zero as its extension is.
LEMMA ZeroExtends ==
  ASSUME NEW v, NEW w, IsWord(v, w), NEW s \in BOOLEAN, NEW to \in Nat \ {0}, w <= to
  PROVE  CoerceWire(v, s, to).raw = 0 <=> v.raw = 0
<1> DEFINE c == CoerceWire(v, s, to)
           n == NumberIn(v, s)
<1>1. IsWord(c, to) /\ NumberIn(c, s) = n
  BY Extended
<1>2. n \in Int /\ n % 2^w = v.raw
  BY NumberReading
<1>3. c = Wire(n, to) /\ 2^to \in Nat \ {0} /\ 2^w \in Nat \ {0}
  BY Coerced, WordFields, PowerOfTwo
<1>4. c.raw = n % 2^to
  BY <1>2, <1>3, WireIsWord
<1>5. ASSUME NEW m \in Nat \ {0} PROVE 0 % m = 0
  OBVIOUS
<1>6. ASSUME v.raw = 0 PROVE c.raw = 0
  <2>1. n = 0
    <3>1. CASE s
      <4>1. 2^(w - 1) \in Nat \ {0} /\ v.width = w
        BY WordFields
      <4>2. ~(v.raw >= 2^(w - 1))
        BY <1>6, <4>1
      <4> QED
        BY <1>6, <3>1, <4>1, <4>2 DEF NumberIn, SignedOf
    <3>2. CASE ~s
      BY <1>6, <3>2 DEF NumberIn
    <3> QED
      BY <3>1, <3>2
  <2> QED
    BY <1>3, <1>4, <1>5, <2>1
<1>7. ASSUME c.raw = 0 PROVE v.raw = 0
  <2>1. NumberIn(c, s) = 0
    <3>1. CASE s
      <4>1. 2^(to - 1) \in Nat \ {0} /\ c.width = to
        BY <1>1, WordFields
      <4>2. ~(c.raw >= 2^(to - 1))
        BY <1>7, <4>1
      <4> QED
        BY <1>7, <3>1, <4>1, <4>2 DEF NumberIn, SignedOf
    <3>2. CASE ~s
      BY <1>7, <3>2 DEF NumberIn
    <3> QED
      BY <3>1, <3>2
  <2> HIDE DEF n, c
  <2>2. n = 0
    BY <1>1, <2>1
  <2> QED
    BY <1>2, <1>3, <1>5, <2>2
<1> QED
  BY <1>6, <1>7

\* A shorter signed word is no least number of a longer width, so its
\* division by -1 does not overflow there.
LEMMA ShorterIsLarger ==
  ASSUME NEW v, NEW w, IsWord(v, w), NEW to \in Nat, w < to
  PROVE  SignedOf(v) # -(2^(to - 1))
<1> DEFINE H == 2^(w - 1)
           T == 2^(to - 1)
           x == SignedOf(v)
<1>1. w \in Nat /\ H \in Nat \ {0} /\ 2^w = 2 * H
  BY WordFields
<1>2. 2^w <= T /\ T \in Nat
  <2>1. to - 1 \in Nat /\ w <= to - 1
    BY <1>1
  <2> QED
    BY <1>1, <2>1, PowersGrow, PowerOfTwo
<1>3. x \in Int /\ -H <= x
  BY SignedReading
<1> HIDE DEF H, T, x
<1>4. x # -T
  BY <1>1, <1>2, <1>3
<1> QED
  BY <1>4 DEF T, x

LEMMA DivRemGuarded ==
  ASSUME NEW op \in {"/", "%"}, NEW l, NEW r, Held(l), Held(r), l.isSigned = r.isSigned,
         NEW res, res.width \in Nat \ {0}, res.isSigned = l.isSigned,
         op = "/" /\ l.isSigned => l.width < res.width
  PROVE  LET s == l.isSigned
             m == NumberIn(WireOf(l), s)
             n == NumberIn(WireOf(r), s)
             wide == Widest({l.width, r.width, res.width})
             out == CASE op = "/" /\ s -> TruncDiv(m, n)
                      [] op = "%" /\ s -> TruncRem(m, n)
                      [] op = "/" /\ ~s -> m \div n
                      [] op = "%" /\ ~s -> m % n
         IN  EmitDivRem(op, WireOf(l), TypeOfBits(l), WireOf(r), TypeOfBits(r), res)
             = IF r.raw = 0 THEN Wire(0, res.width) ELSE Wire(out, res.width)
<1> DEFINE s == l.isSigned
           m == NumberIn(WireOf(l), s)
           n == NumberIn(WireOf(r), s)
           wide == Widest({l.width, r.width, res.width})
           out == CASE op = "/" /\ s -> TruncDiv(m, n)
                    [] op = "%" /\ s -> TruncRem(m, n)
                    [] op = "/" /\ ~s -> m \div n
                    [] op = "%" /\ ~s -> m % n
           a == CoerceWire(WireOf(l), s, wide)
           b == CoerceWire(WireOf(r), s, wide)
           zero == IntConst(0, wide)
           byZero == CmpI("==", b, zero, FALSE)
           safe == Guarded(byZero, IntConst(1, wide), b)
           quot == IF op = "/" THEN DivI(a, safe, s) ELSE RemI(a, safe, s)
<1>1. /\ wide \in Nat \ {0} /\ l.width <= wide /\ r.width <= wide /\ res.width <= wide
      /\ s \in BOOLEAN
  <2>1. l.width \in Nat \ {0} /\ r.width \in Nat \ {0} /\ s \in BOOLEAN
    BY HeldFields
  <2>2. /\ wide \in {l.width, r.width, res.width}
        /\ l.width <= wide /\ r.width <= wide /\ res.width <= wide
    BY <2>1, WidestOfThree
  <2> HIDE DEF wide
  <2> QED
    BY <2>1, <2>2
<1>2. /\ TypeOfBits(l).width = l.width /\ TypeOfBits(r).width = r.width
      /\ TypeOfBits(l).isSigned = s /\ TypeOfBits(r).isSigned = s
  BY DEF TypeOfBits, Type
<1>3. EmitDivRem(op, WireOf(l), TypeOfBits(l), WireOf(r), TypeOfBits(r), res)
      = CoerceWire(SelectI(byZero, zero, quot), s, res.width)
  BY <1>2 DEF EmitDivRem
<1>4. IsWord(WireOf(l), l.width)
  BY WireOfHeld
<1>5. IsWord(WireOf(r), r.width) /\ WireOf(r).raw = r.raw
  BY WireOfHeld
<1> HIDE DEF s, wide
<1>6. IsWord(a, wide) /\ NumberIn(a, s) = m
  BY <1>1, <1>4, Extended
<1>7. IsWord(b, wide) /\ NumberIn(b, s) = n
  BY <1>1, <1>5, Extended
<1>8. b.raw = 0 <=> r.raw = 0
  BY <1>1, <1>5, ZeroExtends
<1>9. 2^wide \in Nat /\ 0 < 2^wide /\ 1 < 2^wide
  <2>1. wide \in Nat
    BY <1>1
  <2>2. 2^wide \in Nat /\ wide < 2^wide
    BY <2>1, PowerOfTwo, PowerExceeds
  <2> QED
    BY <1>1, <2>2
<1>10. IsWord(zero, wide) /\ zero.raw = 0
  <2>1. 0 \in Nat
    OBVIOUS
  <2> QED
    BY <1>1, <1>9, <2>1, ConstantFits
<1> DEFINE one == IntConst(1, wide)
<1>11. IsWord(one, wide) /\ one.raw = 1
  <2>1. 1 \in Nat
    OBVIOUS
  <2> QED
    BY <1>1, <1>9, <2>1, ConstantFits
<1>12. IsDefined(a) /\ a.width = wide /\ a.raw \in Int
  BY <1>6, WordFields
<1>13. IsDefined(b) /\ b.raw \in Int
  BY <1>7, WordFields
<1>14. IsDefined(zero)
  BY <1>10, WordFields
<1>15. IsDefined(one)
  BY <1>11, WordFields
<1>16. m \in Int
  BY <1>4, NumberReading
<1>17. n \in Int
  BY <1>5, NumberReading
<1>18. safe = SelectI(byZero, one, b)
  BY DEF Guarded
<1> HIDE DEF a, b, zero, one, m, n, safe
<1>19. byZero = Wire(Flag(b.raw = 0), 1)
  <2>1. ASSUME NEW eq, NEW no
        PROVE  CmpI(eq, b, zero, no) = Wire(Flag(Holds(eq, NumberIn(b, no), NumberIn(zero, no))), 1)
    BY <1>13, <1>14, ComparedWords
  <2>2. byZero = Wire(Flag(Holds("==", NumberIn(b, FALSE), NumberIn(zero, FALSE))), 1)
    BY <2>1, Zenon
  <2>3. NumberIn(b, FALSE) = b.raw /\ NumberIn(zero, FALSE) = 0
    BY <1>10 DEF NumberIn
  <2>4. Flag(Holds("==", b.raw, 0)) = Flag(b.raw = 0)
    BY DEF Holds
  <2> QED
    BY <2>2, <2>3, <2>4
<1>20. IsDefined(byZero) /\ byZero.raw = Flag(b.raw = 0)
  <2>1. Flag(b.raw = 0) \in {0, 1} /\ 2^1 = 2
    <3>1. 1 \in Nat \ {0} /\ 1 - 1 = 0
      OBVIOUS
    <3>2. 2^1 = 2 * 2^(1 - 1)
      BY <3>1, PowerDoubles
    <3> QED
      BY <3>1, <3>2, PowerZero DEF Flag
  <2> DEFINE k == Flag(b.raw = 0)
             u == 1
  <2>2. k \in Int /\ k % 2^u = k /\ u \in Nat \ {0}
    BY <2>1
  <2> HIDE DEF k, u
  <2>3. IsDefined(Wire(k, u)) /\ Wire(k, u).raw = k
    BY <2>2, WireIsWord
  <2> QED
    BY <1>19, <2>3 DEF k, u
<1> HIDE DEF byZero
<1>21. CASE r.raw = 0
  <2>1. byZero.raw = 1
    BY <1>8, <1>20, <1>21 DEF Flag
  <2>2. SelectI(byZero, zero, quot) = zero
    BY <1>20, <2>1 DEF SelectI
  <2>3. CoerceWire(zero, s, res.width) = Wire(0, res.width)
    <3>1. 0 \in Int
      OBVIOUS
    <3>2. zero = Wire(0, wide)
      BY DEF zero, IntConst
    <3> QED
      BY <1>1, <3>1, <3>2, Narrowed
  <2> QED
    BY <1>3, <1>21, <2>2, <2>3 DEF s, wide, zero, byZero, safe, a, b
<1>22. CASE r.raw # 0
  <2>1. byZero.raw = 0 /\ b.raw # 0
    BY <1>8, <1>20, <1>22 DEF Flag
  <2>2. SelectI(byZero, zero, quot) = quot /\ safe = b
    BY <1>18, <1>20, <2>1 DEF SelectI
  <2>3. n # 0
    <3>1. r.raw = n % 2^r.width /\ 2^r.width \in Nat \ {0}
      BY <1>5, NumberReading, WordFields DEF n
    <3>2. 0 % 2^r.width = 0
      BY <3>1
    <3> QED
      BY <1>22, <3>1, <3>2
  <2>4. out \in Int /\ quot = Wire(out, wide)
    <3>1. CASE op = "/" /\ s
      <4>1. out = TruncDiv(m, n)
        BY <3>1
      <4>3. SignedOf(a) = m /\ SignedOf(b) = n
        BY <1>6, <1>7, <3>1 DEF NumberIn
      <4>4. m # -(2^(wide - 1))
        <5>1. l.width < wide
          BY <1>1, <3>1, HeldFields DEF s
        <5>2. m = SignedOf(WireOf(l))
          BY <3>1 DEF m, NumberIn
        <5> QED
          BY <1>1, <1>4, <5>1, <5>2, ShorterIsLarger
      <4>5. ~Overflows(a, b)
        BY <1>12, <4>3, <4>4 DEF Overflows
      <4>2. quot = Wire(TruncDiv(SignedOf(a), SignedOf(b)), wide)
        BY <1>12, <1>13, <2>1, <2>2, <3>1, <4>5 DEF DivI
      <4> QED
        BY <1>16, <1>17, <2>3, <4>1, <4>2, <4>3, TruncatedInt
    <3>2. CASE op = "%" /\ s
      <4>1. out = TruncRem(m, n)
        BY <3>2
      <4>2. quot = Wire(TruncRem(SignedOf(a), SignedOf(b)), wide)
        BY <1>12, <1>13, <2>1, <2>2, <3>2 DEF RemI
      <4>3. SignedOf(a) = m /\ SignedOf(b) = n
        BY <1>6, <1>7, <3>2 DEF NumberIn
      <4> QED
        BY <1>16, <1>17, <2>3, <4>1, <4>2, <4>3, TruncatedInt
    <3>3. ASSUME ~s PROVE a.raw = m /\ b.raw = n /\ n \in Nat \ {0}
      <4>1. a.raw = m /\ b.raw = n
        BY <1>6, <1>7, <3>3 DEF NumberIn
      <4>2. b.raw \in Nat
        BY <1>7, WordFields
      <4> QED
        BY <2>3, <4>1, <4>2
    <3>4. CASE op = "/" /\ ~s
      <4>1. out = m \div n
        BY <3>4
      <4>2. quot = Wire(a.raw \div b.raw, wide)
        BY <1>12, <1>13, <2>1, <2>2, <3>4 DEF DivI
      <4>3. m \div n \in Int
        BY <1>16, <3>3, <3>4
      <4> QED
        BY <3>3, <3>4, <4>1, <4>2, <4>3
    <3>5. CASE op = "%" /\ ~s
      <4>1. out = m % n
        BY <3>5
      <4>2. quot = Wire(a.raw % b.raw, wide)
        BY <1>12, <1>13, <2>1, <2>2, <3>5 DEF RemI
      <4>3. m % n \in Int
        BY <1>16, <3>3, <3>5
      <4> QED
        BY <3>3, <3>5, <4>1, <4>2, <4>3
    <3> QED
      BY <1>1, <3>1, <3>2, <3>4, <3>5
  <2> HIDE DEF out, quot
  <2>5. CoerceWire(Wire(out, wide), s, res.width) = Wire(out, res.width)
    BY <1>1, <2>4, Narrowed
  <2> QED
    BY <1>3, <1>22, <2>2, <2>4, <2>5 DEF s, wide, zero, byZero, safe, a, b, out, quot, m, n
<1> QED
  BY <1>21, <1>22

LEMMA TruncatedNatural ==
  ASSUME NEW x \in Nat, NEW y \in Nat \ {0}
  PROVE  TruncRem(x, y) = x % y
<1> DEFINE q == x \div y
<1>1. TruncDiv(x, y) = q
  BY DEF TruncDiv
<1>2. x = y * q + (x % y) /\ q \in Int /\ x % y \in 0 .. y - 1
  BY Quotient
<1> HIDE DEF q
<1>3. TruncRem(x, y) = x - y * q
  BY <1>1 DEF TruncRem
<1> QED
  BY <1>2, <1>3

LEMMA DivideEmitted ==
  ASSUME NEW l, NEW r, Held(l), Held(r), l.isSigned = r.isSigned,
         ~(l.isSigned /\ r.raw = 0),
         NEW res, res = WidthRule("/", TypeOfBits(l), TypeOfBits(r)), res.width <= HostWidth
  PROVE  EmitDivRem("/", WireOf(l), TypeOfBits(l), WireOf(r), TypeOfBits(r), res)
         = WireOf(Divide(l, r))
<1> DEFINE s == l.isSigned
           m == NumberIn(WireOf(l), s)
           n == NumberIn(WireOf(r), s)
           e == EmitDivRem("/", WireOf(l), TypeOfBits(l), WireOf(r), TypeOfBits(r), res)
           out == CASE "/" = "/" /\ s -> TruncDiv(m, n)
                    [] "/" = "%" /\ s -> TruncRem(m, n)
                    [] "/" = "/" /\ ~s -> m \div n
                    [] "/" = "%" /\ ~s -> m % n
<1>1. s \in BOOLEAN /\ l.width \in Nat \ {0} /\ l.width \in 1 .. HostWidth /\ EitherSigned(l, r) = s
  BY HeldFields DEF EitherSigned
<1>2. res = IF s THEN Type(l.width + 1, TRUE) ELSE Type(l.width, FALSE)
  BY DEF WidthRule, Comparisons, Logicals, Bitwises, Shifts, TypeOfBits, Type
<1>3. res.isSigned = s /\ res.width = (IF s THEN l.width + 1 ELSE l.width)
      /\ res.width \in 1 .. HostWidth /\ res.width \in Nat \ {0}
  <2>1. res.isSigned = s /\ res.width = (IF s THEN l.width + 1 ELSE l.width)
    <3>1. CASE s
      <4>1. res = Type(l.width + 1, TRUE)
        BY <1>2, <3>1
      <4>2. res.isSigned = TRUE /\ res.width = l.width + 1
        BY <4>1 DEF Type
      <4> QED
        BY <3>1, <4>2
    <3>2. CASE ~s
      <4>1. res = Type(l.width, FALSE)
        BY <1>2, <3>2
      <4>2. res.isSigned = FALSE /\ res.width = l.width
        BY <4>1 DEF Type
      <4> QED
        BY <1>1, <3>2, <4>2
    <3> QED
      BY <1>1, <3>1, <3>2
  <2> QED
    BY <1>1, <2>1, WidthsAssumption
<1>4. e = IF r.raw = 0 THEN Wire(0, res.width) ELSE Wire(out, res.width)
  <2>1. "/" \in {"/", "%"}
    OBVIOUS
  <2>2. s => l.width < res.width
    BY <1>1, <1>3
  <2> QED
    BY <1>3, <2>1, <2>2, DivRemGuarded
<1>5. CASE s
  <2>1. r.raw # 0
    BY <1>5
  <2>2. out = TruncDiv(m, n)
    BY <1>5
  <2>3. Divide(l, r) = Make(TruncDiv(Value(l), Value(r)), l.width + 1, TRUE)
    BY <1>1, <1>5, <2>1 DEF Divide
  <2>4. Value(l) = m /\ Value(r) = n
    BY <1>5, ValueReading DEF NumberIn
  <2>5. Value(l) \in Int /\ Value(r) \in Int /\ Value(r) # 0
    BY <2>1, ProperValue DEF Held
  <2> HIDE DEF m, n, out, e
  <2> DEFINE d == TruncDiv(m, n)
  <2>6. d \in Int
    BY <2>4, <2>5, TruncatedInt
  <2> HIDE DEF d
  <2>7. Divide(l, r) = Make(d, res.width, TRUE) /\ e = Wire(d, res.width)
    BY <1>3, <1>4, <1>5, <2>1, <2>2, <2>3, <2>4 DEF d
  <2>8. TRUE \in BOOLEAN
    OBVIOUS
  <2>9. WireOf(Make(d, res.width, TRUE)) = Wire(d, res.width)
    BY <1>3, <2>6, <2>8, WireOfMake
  <2> QED
    BY <2>7, <2>9 DEF e
<1>6. CASE ~s
  <2>1. out = m \div n
    BY <1>6
  <2>2. m = l.raw /\ n = r.raw /\ m \in Nat /\ n \in Nat
    BY <1>6, HeldFields, WireOfHeld DEF NumberIn
  <2> DEFINE d == IF r.raw = 0 THEN 0 ELSE l.raw \div r.raw
  <2>3. d \in Int
    BY <2>2
  <2>4. Divide(l, r) = Make(d, l.width, FALSE)
    BY <1>1, <1>6 DEF Divide
  <2>5. e = Wire(d, l.width)
    <3> HIDE DEF e, out
    <3>1. CASE r.raw = 0
      BY <1>3, <1>4, <1>6, <3>1
    <3>2. CASE r.raw # 0
      BY <1>3, <1>4, <1>6, <2>1, <2>2, <3>2
    <3> QED
      BY <3>1, <3>2
  <2> HIDE DEF d, e
  <2>6. FALSE \in BOOLEAN
    OBVIOUS
  <2>7. WireOf(Make(d, l.width, FALSE)) = Wire(d, l.width)
    BY <1>1, <2>3, <2>6, WireOfMake
  <2> QED
    BY <2>4, <2>5, <2>7 DEF e
<1> QED
  BY <1>1, <1>5, <1>6

LEMMA RemainderEmitted ==
  ASSUME NEW l, NEW r, Held(l), Held(r), l.isSigned = r.isSigned,
         l.isSigned \/ (l.raw < 2^(HostWidth - 1) /\ r.raw < 2^(HostWidth - 1)),
         NEW res, res = WidthRule("%", TypeOfBits(l), TypeOfBits(r))
  PROVE  EmitDivRem("%", WireOf(l), TypeOfBits(l), WireOf(r), TypeOfBits(r), res)
         = WireOf(Remainder(l, r))
<1> DEFINE s == l.isSigned
           m == NumberIn(WireOf(l), s)
           n == NumberIn(WireOf(r), s)
           e == EmitDivRem("%", WireOf(l), TypeOfBits(l), WireOf(r), TypeOfBits(r), res)
           out == CASE "%" = "/" /\ s -> TruncDiv(m, n)
                    [] "%" = "%" /\ s -> TruncRem(m, n)
                    [] "%" = "/" /\ ~s -> m \div n
                    [] "%" = "%" /\ ~s -> m % n
           d == IF r.raw = 0 THEN 0 ELSE TruncRem(Value(l), Value(r))
           w == MinW(l, r)
<1>1. s \in BOOLEAN /\ EitherSigned(l, r) = s
  BY HeldFields DEF EitherSigned
<1>2. w \in 1 .. HostWidth /\ Narrower(TypeOfBits(l), TypeOfBits(r)) = w
  BY WiderType
<1> HIDE DEF w
<1>3. w \in Nat \ {0}
  BY <1>2, WidthsAssumption
<1>4. res = Type(w, s)
  <2>1. TypeOfBits(l).isSigned = s
    BY DEF TypeOfBits, Type
  <2> QED
    BY <1>2, <2>1 DEF WidthRule, Comparisons, Logicals, Bitwises, Shifts
<1>5. res.isSigned = s /\ res.width = w
  BY <1>4 DEF Type
<1>6. e = IF r.raw = 0 THEN Wire(0, w) ELSE Wire(out, w)
  <2>1. "%" \in {"/", "%"}
    OBVIOUS
  <2>2. res.width \in Nat \ {0} /\ "%" # "/"
    BY <1>3, <1>5
  <2>3. e = IF r.raw = 0 THEN Wire(0, res.width) ELSE Wire(out, res.width)
    BY <1>5, <2>1, <2>2, DivRemGuarded
  <2> QED
    BY <1>5, <2>3
<1>7. Remainder(l, r) = Make(d, w, s)
  BY <1>1 DEF Remainder, w
<1>8. d \in Int
  <2>1. CASE r.raw = 0
    BY <2>1
  <2>2. CASE r.raw # 0
    <3>1. Value(l) \in Int /\ Value(r) \in Int /\ Value(r) # 0
      BY <2>2, ProperValue DEF Held
    <3>2. TruncRem(Value(l), Value(r)) \in Int
      BY <3>1, TruncatedInt
    <3> QED
      BY <2>2, <3>2
  <2> QED
    BY <2>1, <2>2
<1>9. ASSUME r.raw # 0 PROVE out = d
  <2>1. CASE s
    <3>1. out = TruncRem(m, n)
      BY <2>1
    <3>2. Value(l) = m /\ Value(r) = n
      BY <2>1, ValueReading DEF NumberIn
    <3> HIDE DEF out, m, n
    <3> QED
      BY <1>9, <3>1, <3>2
  <2>2. CASE ~s
    <3>1. out = m % n
      BY <2>2
    <3>2. m = l.raw /\ n = r.raw /\ m \in Nat /\ n \in Nat \ {0}
      BY <1>9, <2>2, HeldFields, WireOfHeld DEF NumberIn
    <3>3. Value(l) = l.raw /\ Value(r) = r.raw
      BY <2>2, ValueReading
    <3> HIDE DEF out, m, n
    <3>4. TruncRem(m, n) = m % n
      BY <3>2, TruncatedNatural
    <3> QED
      BY <1>9, <3>1, <3>2, <3>3, <3>4
  <2> QED
    BY <1>1, <2>1, <2>2
<1>10. e = Wire(d, w)
  <2> HIDE DEF e, out
  <2>1. CASE r.raw = 0
    BY <1>6, <2>1
  <2>2. CASE r.raw # 0
    BY <1>6, <1>9, <2>2
  <2> QED
    BY <2>1, <2>2
<1> HIDE DEF d, e
<1>11. WireOf(Make(d, w, s)) = Wire(d, w)
  BY <1>1, <1>2, <1>8, WireOfMake
<1> QED
  BY <1>7, <1>10, <1>11 DEF e

-----------------------------------------------------------------------------
(***************************************************************************)
(* Shifts: the amount is compared with the width before it is made to fit  *)
(* the operation.                                                          *)
(***************************************************************************)
LEMMA BitsForHolds ==
  ASSUME NEW v \in Nat \ {0}
  PROVE  BitsFor(v) \in Nat \ {0} /\ v < 2^BitsFor(v)
<1> DEFINE T == {k \in Nat : v < 2^k}
<1>1. PICK n \in T : \A y \in T : n <= y
  <2>1. v \in Nat /\ T \subseteq Nat
    OBVIOUS
  <2>2. v \in T
    BY <2>1, PowerExceeds
  <2> HIDE DEF T
  <2> QED
    BY <2>1, <2>2, LeastNumber
<1>2. n \in Nat /\ v < 2^n /\ n <= v
  BY <1>1, PowerExceeds
<1>3. n # 0
  <2>1. ~(v < 2^0)
    BY PowerZero
  <2> QED
    BY <1>2, <2>1
<1>4. n - 1 \in Nat /\ n - 1 \notin T
  BY <1>1, <1>2, <1>3
<1>5. 2^(n - 1) \in Nat
  BY <1>4, PowerOfTwo
<1>6. 2^(n - 1) <= v
  <2>1. ~(v < 2^(n - 1))
    BY <1>4
  <2> QED
    BY <1>5, <2>1
<1>7. n \in 1 .. v + 1
  BY <1>2, <1>3
<1>8. BitsFor(v) \in 1 .. v + 1 /\ v < 2^BitsFor(v)
  BY <1>2, <1>6, <1>7 DEF BitsFor
<1> QED
  BY <1>8

\* A word that is less than a width is a shift by it.
LEMMA ShiftedWord ==
  ASSUME NEW v, NEW w, IsWord(v, w), NEW g, NEW gw, IsWord(g, gw), g.raw < w
  PROVE  LET by == CoerceWire(g, FALSE, w)
         IN  /\ ShI("shl", v, by) = Wire(v.raw * 2^g.raw, w)
             /\ ShI("shru", v, by) = Wire(v.raw \div 2^g.raw, w)
             /\ ShI("shrs", v, by) = Wire(SignedOf(v) \div 2^g.raw, w)
<1> DEFINE by == CoerceWire(g, FALSE, w)
<1>1. IsDefined(v) /\ v.width = w /\ w \in Nat \ {0} /\ w \in Nat
  BY WordFields
<1>2. g.raw \in Nat
  BY WordFields
<1>3. by = Wire(g.raw, w)
  <2>1. FALSE \in BOOLEAN
    OBVIOUS
  <2>2. by = Wire(NumberIn(g, FALSE), w)
    BY <1>1, <2>1, Coerced
  <2> QED
    BY <2>2 DEF NumberIn
<1>4. g.raw < 2^w
  <2>1. w < 2^w /\ 2^w \in Nat
    BY <1>1, PowerExceeds, PowerOfTwo
  <2> QED
    BY <1>1, <1>2, <2>1
<1>5. IsWord(by, w) /\ by.raw = g.raw
  BY <1>1, <1>2, <1>3, <1>4, ConstantFits DEF IntConst
<1>6. IsDefined(by)
  BY <1>5, WordFields
<1> HIDE DEF by
<1>7. ~(~IsDefined(v) \/ ~IsDefined(by) \/ by.raw >= v.width)
  BY <1>1, <1>2, <1>5, <1>6
<1>8. /\ ShI("shl", v, by) = Wire(v.raw * 2^g.raw, w)
      /\ ShI("shru", v, by) = Wire(v.raw \div 2^g.raw, w)
      /\ ShI("shrs", v, by) = Wire(SignedOf(v) \div 2^g.raw, w)
  BY <1>1, <1>5, <1>7 DEF ShI
<1> QED
  BY <1>8 DEF by

LEMMA ShiftGuarded ==
  ASSUME NEW op \in Shifts, NEW l, NEW r, Held(l), Held(r)
  PROVE  EmitShift(op, WireOf(l), TypeOfBits(l), WireOf(r), TypeOfBits(r))
         = IF op = ">>" /\ l.isSigned
           THEN Wire(SignedOf(WireOf(l)) \div 2^(IF r.raw >= l.width THEN l.width - 1 ELSE r.raw),
                     l.width)
           ELSE IF r.raw >= l.width THEN Wire(0, l.width)
           ELSE IF op = "<<" THEN Wire(l.raw * 2^r.raw, l.width)
           ELSE Wire(l.raw \div 2^r.raw, l.width)
<1> DEFINE a == WireOf(l)
           w == l.width
           k == r.raw
           gw == Widest({r.width, BitsFor(w)})
           amount == CoerceWire(WireOf(r), FALSE, gw)
           oob == CmpI(">=", amount, IntConst(w, gw), FALSE)
           clamped == Guarded(oob, IntConst(w - 1, gw), amount)
           inRange == Guarded(oob, IntConst(0, gw), amount)
           by == CoerceWire(inRange, FALSE, w)
           out == ShI(IF op = "<<" THEN "shl" ELSE "shru", a, by)
           e == EmitShift(op, a, TypeOfBits(l), WireOf(r), TypeOfBits(r))
<1>1. IsWord(a, w) /\ a.raw = l.raw /\ w \in Nat \ {0}
  BY WireOfHeld, HeldFields
<1>2. IsWord(WireOf(r), r.width) /\ WireOf(r).raw = k /\ k \in Nat /\ r.width \in Nat \ {0}
  BY WireOfHeld, HeldFields
<1>3. /\ e = IF op = ">>" /\ l.isSigned THEN ShI("shrs", a, CoerceWire(clamped, FALSE, w))
             ELSE SelectI(oob, IntConst(0, w), out)
  <2>1. TypeOfBits(l).width = w /\ TypeOfBits(l).isSigned = l.isSigned /\ TypeOfBits(r).width = r.width
    BY DEF TypeOfBits, Type
  <2> QED
    BY <2>1 DEF EmitShift
<1>4. gw \in Nat \ {0} /\ r.width <= gw /\ w < 2^gw
  <2> DEFINE bf == BitsFor(w)
  <2>1. bf \in Nat \ {0} /\ w < 2^bf
    BY <1>1, BitsForHolds
  <2> HIDE DEF bf
  <2>2. Widest({r.width, bf}) \in {r.width, bf} /\ r.width <= Widest({r.width, bf})
        /\ bf <= Widest({r.width, bf})
    BY <1>2, <2>1, WidestOfTwo
  <2>3. gw = Widest({r.width, bf})
    BY DEF bf
  <2> HIDE DEF gw
  <2>4. gw \in Nat \ {0} /\ gw \in Nat /\ bf \in Nat /\ bf <= gw
    BY <1>2, <2>1, <2>2, <2>3
  <2>5. 2^bf <= 2^gw /\ 2^bf \in Nat /\ 2^gw \in Nat
    BY <2>4, PowersGrow, PowerOfTwo
  <2> QED
    BY <1>1, <2>1, <2>2, <2>3, <2>4, <2>5
<1> HIDE DEF gw, w, k, a, e
<1>5. IsWord(amount, gw) /\ amount.raw = k
  <2>1. FALSE \in BOOLEAN
    OBVIOUS
  <2>2. IsWord(amount, gw) /\ NumberIn(amount, FALSE) = NumberIn(WireOf(r), FALSE)
    BY <1>2, <1>4, <2>1, Extended
  <2> QED
    BY <1>2, <2>2 DEF NumberIn
<1>6. \A n \in Nat : n <= w => IsWord(IntConst(n, gw), gw) /\ IntConst(n, gw).raw = n
  <2> TAKE n \in Nat
  <2> HAVE n <= w
  <2>1. n < 2^gw
    <3>1. 2^gw \in Nat
      BY <1>4, PowerOfTwo
    <3> QED
      BY <1>1, <1>4, <3>1
  <2> QED
    BY <1>4, <2>1, ConstantFits
<1> DEFINE lim == IntConst(w, gw)
           top == IntConst(w - 1, gw)
           nul == IntConst(0, gw)
<1>7. /\ IsWord(lim, gw) /\ lim.raw = w /\ IsWord(top, gw) /\ top.raw = w - 1
      /\ IsWord(nul, gw) /\ nul.raw = 0
  <2>1. w \in Nat /\ w - 1 \in Nat /\ 0 \in Nat /\ w <= w /\ w - 1 <= w /\ 0 <= w
    BY <1>1
  <2> QED
    BY <1>6, <2>1
<1>8. IsDefined(amount)
  BY <1>5, WordFields
<1>9. IsDefined(lim)
  BY <1>7, WordFields
<1>10. clamped = SelectI(oob, top, amount) /\ inRange = SelectI(oob, nul, amount)
  BY DEF Guarded
<1> HIDE DEF amount, lim, top, nul, clamped, inRange
<1>11. oob = Wire(Flag(k >= w), 1)
  <2>1. ASSUME NEW ge, NEW no
        PROVE  CmpI(ge, amount, lim, no) = Wire(Flag(Holds(ge, NumberIn(amount, no), NumberIn(lim, no))), 1)
    BY <1>8, <1>9, ComparedWords
  <2>2. CmpI(">=", amount, lim, FALSE)
        = Wire(Flag(Holds(">=", NumberIn(amount, FALSE), NumberIn(lim, FALSE))), 1)
    BY <2>1, Zenon
  <2>3. NumberIn(amount, FALSE) = k /\ NumberIn(lim, FALSE) = w
    BY <1>5, <1>7 DEF NumberIn
  <2>4. Flag(Holds(">=", k, w)) = Flag(k >= w)
    BY DEF Holds
  <2> QED
    BY <2>2, <2>3, <2>4 DEF lim
<1>12. IsDefined(oob) /\ oob.raw = Flag(k >= w)
  <2>1. Flag(k >= w) \in {0, 1} /\ 2^1 = 2
    <3>1. 1 \in Nat \ {0} /\ 1 - 1 = 0
      OBVIOUS
    <3>2. 2^1 = 2 * 2^(1 - 1)
      BY <3>1, PowerDoubles
    <3> QED
      BY <3>1, <3>2, PowerZero DEF Flag
  <2> DEFINE f == Flag(k >= w)
             u == 1
  <2>2. f \in Int /\ f % 2^u = f /\ u \in Nat \ {0}
    BY <2>1
  <2> HIDE DEF f, u, oob
  <2>3. IsDefined(Wire(f, u)) /\ Wire(f, u).raw = f
    BY <2>2, WireIsWord
  <2> QED
    BY <1>11, <2>3 DEF f, u
<1> HIDE DEF oob
<1>13. /\ clamped = (IF k >= w THEN top ELSE amount)
       /\ inRange = (IF k >= w THEN nul ELSE amount)
  BY <1>10, <1>12 DEF SelectI, Flag
<1>14. /\ IsWord(clamped, gw) /\ clamped.raw = (IF k >= w THEN w - 1 ELSE k) /\ clamped.raw < w
       /\ IsWord(inRange, gw) /\ inRange.raw = (IF k >= w THEN 0 ELSE k) /\ inRange.raw < w
  <2>1. CASE k >= w
    BY <1>1, <1>7, <1>13, <2>1
  <2>2. CASE ~(k >= w)
    BY <1>1, <1>2, <1>5, <1>13, <2>2
  <2> QED
    BY <2>1, <2>2
<1> DEFINE c == IF k >= w THEN w - 1 ELSE k
<1>15. ShI("shrs", a, CoerceWire(clamped, FALSE, w)) = Wire(SignedOf(a) \div 2^c, w)
  <2>1. ShI("shrs", a, CoerceWire(clamped, FALSE, w)) = Wire(SignedOf(a) \div 2^clamped.raw, w)
    BY <1>1, <1>14, ShiftedWord
  <2>2. clamped.raw = c
    BY <1>14
  <2> QED
    BY <2>1, <2>2
<1>16. /\ ShI("shl", a, by) = Wire(a.raw * 2^inRange.raw, w)
       /\ ShI("shru", a, by) = Wire(a.raw \div 2^inRange.raw, w)
  BY <1>1, <1>14, ShiftedWord
<1> HIDE DEF by, c
<1>17. SelectI(oob, IntConst(0, w), out) = IF k >= w THEN Wire(0, w)
         ELSE IF op = "<<" THEN Wire(l.raw * 2^k, w) ELSE Wire(l.raw \div 2^k, w)
  <2>1. CASE k >= w
    <3>1. SelectI(oob, IntConst(0, w), out) = IntConst(0, w)
      BY <1>12, <2>1 DEF SelectI, Flag
    <3> QED
      BY <2>1, <3>1 DEF IntConst
  <2>2. CASE ~(k >= w)
    <3>1. SelectI(oob, IntConst(0, w), out) = out
      BY <1>12, <2>2 DEF SelectI, Flag
    <3>2. inRange.raw = k
      BY <1>14, <2>2
    <3>3. CASE op = "<<"
      BY <1>1, <1>16, <2>2, <3>1, <3>2, <3>3
    <3>4. CASE op # "<<"
      BY <1>1, <1>16, <2>2, <3>1, <3>2, <3>4
    <3> QED
      BY <3>3, <3>4
  <2> QED
    BY <2>1, <2>2
<1> QED
  BY <1>3, <1>15, <1>17 DEF e, a, w, k, c

\* A signed number shifted by its width but one is its sign.
LEMMA SignRemains ==
  ASSUME NEW v, NEW w, IsWord(v, w)
  PROVE  SignedOf(v) \div 2^(w - 1) = IF SignedOf(v) < 0 THEN -1 ELSE 0
<1> DEFINE x == SignedOf(v)
           H == 2^(w - 1)
<1>1. x \in -H .. H - 1 /\ x \in Int /\ H \in Nat \ {0}
  BY SignedReading, WordFields
<1> HIDE DEF x, H
<1>2. CASE x < 0
  <2>1. x = H * (-1) + (x + H) /\ x + H \in 0 .. H - 1 /\ -1 \in Int
    BY <1>1, <1>2
  <2>2. x \div H = -1
    BY <1>1, <2>1, QuotientIs
  <2> QED
    BY <1>2, <2>2 DEF x, H
<1>3. CASE ~(x < 0)
  <2>1. x = H * 0 + x /\ x \in 0 .. H - 1 /\ 0 \in Int
    BY <1>1, <1>3
  <2>2. x \div H = 0
    BY <1>1, <2>1, QuotientIs
  <2> QED
    BY <1>3, <2>2 DEF x, H
<1> QED
  BY <1>2, <1>3

LEMMA ShiftsAreInt ==
  ASSUME NEW x \in Int, NEW k \in Nat
  PROVE  x * 2^k \in Int /\ x \div 2^k \in Int
<1> DEFINE K == 2^k
<1>1. K \in Nat \ {0}
  BY PowerOfTwo
<1> HIDE DEF K
<1>2. x * K \in Int /\ x \div K \in Int
  BY <1>1
<1> QED
  BY <1>2 DEF K

LEMMA ShiftEmitted ==
  ASSUME NEW op \in Shifts, NEW l, NEW r, Held(l), Held(r), r.raw < 2^UintWidth
  PROVE  EmitShift(op, WireOf(l), TypeOfBits(l), WireOf(r), TypeOfBits(r)) = WireOf(Apply(op, l, r))
<1> DEFINE a == WireOf(l)
           w == l.width
           s == l.isSigned
           k == r.raw
           e == EmitShift(op, a, TypeOfBits(l), WireOf(r), TypeOfBits(r))
<1>1. /\ IsWord(a, w) /\ a.raw = l.raw /\ w \in Nat \ {0} /\ w \in 1 .. HostWidth
      /\ s \in BOOLEAN /\ l.raw \in Nat /\ Value(l) \in Int
  BY WireOfHeld, HeldFields
<1>2. k \in Nat
  BY HeldFields
<1>3. Amount(r) = k
  <2>1. 2^UintWidth \in Nat \ {0}
    BY WidthsAssumption, PowerOfTwo
  <2> DEFINE U == 2^UintWidth
  <2>2. U \in Nat \ {0} /\ k < U
    BY <2>1
  <2> HIDE DEF U, k
  <2>3. k % U = k
    BY <1>2, <2>2
  <2> QED
    BY <2>3 DEF Amount, U, k
<1>4. e = IF op = ">>" /\ s THEN Wire(SignedOf(a) \div 2^(IF k >= w THEN w - 1 ELSE k), w)
          ELSE IF k >= w THEN Wire(0, w)
          ELSE IF op = "<<" THEN Wire(l.raw * 2^k, w) ELSE Wire(l.raw \div 2^k, w)
  BY ShiftGuarded
<1> HIDE DEF a, w, k, s, e
<1>5. ASSUME NEW n \in Int, Apply(op, l, r) = Make(n, w, s), e = Wire(n, w)
      PROVE  e = WireOf(Apply(op, l, r))
  BY <1>1, <1>5, WireOfMake
<1>6. CASE op = "<<"
  <2> DEFINE n == IF k >= w THEN 0 ELSE l.raw * 2^k
  <2>1. l.raw * 2^k \in Int
    BY <1>1, <1>2, ShiftsAreInt
  <2>2. n \in Int
    BY <2>1
  <2>3. Apply(op, l, r) = Shl(l, r)
    BY <1>6 DEF Apply, Comparisons
  <2>4. Shl(l, r) = Make(n, w, s)
    BY <1>3 DEF Shl, w, s
  <2>5. e = Wire(n, w)
    BY <1>4, <1>6
  <2> HIDE DEF n
  <2>6. Apply(op, l, r) = Make(n, w, s)
    BY <2>3, <2>4
  <2> QED
    BY <1>5, <2>2, <2>5, <2>6 DEF e, a
<1>7. CASE op = ">>" /\ ~s
  <2> DEFINE n == IF k >= w THEN 0 ELSE l.raw \div 2^k
  <2>1. l.raw \div 2^k \in Int
    BY <1>1, <1>2, ShiftsAreInt
  <2>2. n \in Int
    BY <2>1
  <2>3. Apply(op, l, r) = Shr(l, r)
    BY <1>7 DEF Apply, Comparisons
  <2>4. Shr(l, r) = Make(n, w, s)
    BY <1>3, <1>7 DEF Shr, w, s
  <2>5. e = Wire(n, w)
    BY <1>4, <1>7
  <2> HIDE DEF n
  <2>6. Apply(op, l, r) = Make(n, w, s)
    BY <2>3, <2>4
  <2> QED
    BY <1>5, <2>2, <2>5, <2>6 DEF e, a
<1>8. CASE op = ">>" /\ s
  <2> DEFINE x == SignedOf(a)
             sign == IF x < 0 THEN -1 ELSE 0
             n == IF k >= w THEN sign ELSE x \div 2^k
  <2>1. Value(l) = x
    BY <1>8, ValueReading DEF s, a
  <2>2. x \in Int
    BY <1>1, SignedReading
  <2>3. x \div 2^k \in Int
    BY <1>2, <2>2, ShiftsAreInt
  <2>4. x \div 2^(w - 1) = sign
    BY <1>1, SignRemains
  <2> HIDE DEF x
  <2>5. n \in Int
    BY <2>3
  <2>6. Apply(op, l, r) = Shr(l, r)
    BY <1>8 DEF Apply, Comparisons
  <2>7. Shr(l, r) = Make(n, w, s)
    BY <1>3, <1>8, <2>1 DEF Shr, w, s
  <2>8. e = Wire(n, w)
    <3>1. e = Wire(x \div 2^(IF k >= w THEN w - 1 ELSE k), w)
      BY <1>4, <1>8 DEF x
    <3>2. CASE k >= w
      <4>1. e = Wire(x \div 2^(w - 1), w)
        BY <3>1, <3>2
      <4> QED
        BY <2>4, <3>2, <4>1
    <3>3. CASE ~(k >= w)
      BY <3>1, <3>3
    <3> QED
      BY <3>2, <3>3
  <2> HIDE DEF n
  <2>9. Apply(op, l, r) = Make(n, w, s)
    BY <2>6, <2>7
  <2> QED
    BY <1>5, <2>5, <2>8, <2>9 DEF e, a
<1> QED
  BY <1>1, <1>6, <1>7, <1>8 DEF Shifts

-----------------------------------------------------------------------------
(***************************************************************************)
(* The operators together.                                                 *)
(***************************************************************************)
LEMMA SumAsMake ==
  ASSUME NEW n \in Int, NEW v, NEW w, NEW s \in BOOLEAN, w \in 1 .. HostWidth,
         v = Make(n, w, s), NEW e, e = Wire(n, w)
  PROVE  e = WireOf(v)
BY WireOfMake

\* The bitwise operators of the evaluators, as one (bits.cpp).
LEMMA BitwiseApplied ==
  ASSUME NEW op \in Bitwises, NEW l, NEW r
  PROVE  Apply(op, l, r) = Bitwise2(l, r, OnesOf(op))
<1>1. CASE op = "&"
  <2>1. Apply(op, l, r) = BitAnd(l, r)
    BY <1>1 DEF Apply, Comparisons
  <2> QED
    BY <1>1, <2>1 DEF BitAnd, OnesOf
<1>2. CASE op = "|"
  <2>1. Apply(op, l, r) = BitOr(l, r)
    BY <1>2 DEF Apply, Comparisons
  <2> QED
    BY <1>2, <2>1 DEF BitOr, OnesOf
<1>3. CASE op = "^"
  <2>1. Apply(op, l, r) = BitXor(l, r)
    BY <1>3 DEF Apply, Comparisons
  <2> QED
    BY <1>3, <2>1 DEF BitXor, OnesOf
<1> QED
  BY <1>1, <1>2, <1>3 DEF Bitwises

LEMMA GrowingEmitted ==
  ASSUME NEW op \in {"+", "-", "*"} \cup Bitwises, NEW l, NEW r, Held(l), Held(r),
         l.isSigned = r.isSigned,
         NEW res, res = WidthRule(op, TypeOfBits(l), TypeOfBits(r)), res.width <= HostWidth
  PROVE  EmitGrowing(op, WireOf(l), TypeOfBits(l), WireOf(r), TypeOfBits(r), res)
         = WireOf(Apply(op, l, r))
<1> DEFINE lt == TypeOfBits(l)
           rt == TypeOfBits(r)
           w == res.width
           s == l.isSigned
           a == CoerceWire(WireOf(l), l.isSigned, w)
           b == CoerceWire(WireOf(r), r.isSigned, w)
           e == EmitGrowing(op, WireOf(l), lt, WireOf(r), rt, res)
           x == Value(l)
           y == Value(r)
<1>1. /\ lt.width = l.width /\ rt.width = r.width
      /\ lt.isSigned = l.isSigned /\ rt.isSigned = r.isSigned
  BY DEF TypeOfBits, Type
<1>2. /\ l.width \in Nat \ {0} /\ r.width \in Nat \ {0} /\ s \in BOOLEAN
      /\ x \in Int /\ y \in Int /\ EitherSigned(l, r) = s /\ HostWidth \in Nat
  BY HeldFields, WidthsAssumption DEF EitherSigned
<1>3. Wider(lt, rt) = MaxW(l, r) /\ MaxW(l, r) \in Nat \ {0}
  <2>1. Wider(lt, rt) = MaxW(l, r) /\ MaxW(l, r) \in 1 .. HostWidth
    BY WiderType
  <2> QED
    BY <1>2, <2>1
<1>4. x + y \in Int /\ x - y \in Int /\ x * y \in Int
  BY <1>2
<1>6. ASSUME w \in 1 .. HostWidth
      PROVE  /\ AddI(a, b) = Wire(x + y, w) /\ SubI(a, b) = Wire(x - y, w)
             /\ MulI(a, b) = Wire(x * y, w)
  BY <1>6, SumsEmitted
<1> HIDE DEF lt, rt, x, y
<1>7. CASE op = "+"
  <2>1. res = Type(MaxW(l, r) + 1, s)
    BY <1>1, <1>3, <1>7 DEF WidthRule, Comparisons, Logicals, Bitwises, Shifts, lt, rt
  <2>2. w = MaxW(l, r) + 1
    BY <2>1 DEF Type
  <2>3. w \in 1 .. HostWidth
    BY <1>2, <1>3, <2>2
  <2>4. e = AddI(a, b)
    BY <1>1, <1>7 DEF EmitGrowing, Bitwises
  <2>5. Apply(op, l, r) = Make(x + y, w, s)
    <3>1. Apply(op, l, r) = Add(l, r)
      BY <1>7 DEF Apply, Comparisons
    <3> QED
      BY <1>2, <2>2, <3>1 DEF Add, x, y
  <2> HIDE DEF e, a, b, w
  <2>6. e = Wire(x + y, w)
    BY <1>6, <2>3, <2>4
  <2> DEFINE n == x + y
  <2>7. n \in Int /\ Apply(op, l, r) = Make(n, w, s) /\ e = Wire(n, w)
    BY <1>4, <2>5, <2>6
  <2> HIDE DEF n
  <2>8. e = WireOf(Apply(op, l, r))
    BY <1>2, <2>3, <2>7, SumAsMake
  <2> QED
    BY <2>8 DEF e, lt, rt
<1>8. CASE op = "-"
  <2>1. res = Type(MaxW(l, r) + 1, TRUE)
    BY <1>3, <1>8 DEF WidthRule, Comparisons, Logicals, Bitwises, Shifts, lt, rt
  <2>2. w = MaxW(l, r) + 1
    BY <2>1 DEF Type
  <2>3. w \in 1 .. HostWidth
    BY <1>2, <1>3, <2>2
  <2>4. e = SubI(a, b)
    BY <1>1, <1>8 DEF EmitGrowing, Bitwises
  <2>5. Apply(op, l, r) = Make(x - y, w, TRUE)
    <3>1. Apply(op, l, r) = Sub(l, r)
      BY <1>8 DEF Apply, Comparisons
    <3> QED
      BY <1>2, <2>2, <3>1 DEF Sub, x, y
  <2> HIDE DEF e, a, b, w
  <2>6. e = Wire(x - y, w)
    BY <1>6, <2>3, <2>4
  <2> DEFINE n == x - y
             yes == TRUE
  <2>7. n \in Int /\ yes \in BOOLEAN /\ Apply(op, l, r) = Make(n, w, yes) /\ e = Wire(n, w)
    BY <1>4, <2>5, <2>6
  <2> HIDE DEF n, yes
  <2>8. e = WireOf(Apply(op, l, r))
    BY <2>3, <2>7, SumAsMake
  <2> QED
    BY <2>8 DEF e, lt, rt
<1>9. CASE op = "*"
  <2>1. res = Type(l.width + r.width, s)
    BY <1>1, <1>9 DEF WidthRule, Comparisons, Logicals, Bitwises, Shifts, lt, rt
  <2>2. w = l.width + r.width
    BY <2>1 DEF Type
  <2>3. w \in 1 .. HostWidth
    BY <1>2, <2>2
  <2>4. e = MulI(a, b)
    BY <1>1, <1>9 DEF EmitGrowing, Bitwises
  <2>5. Apply(op, l, r) = Make(x * y, w, s)
    <3>1. Apply(op, l, r) = Mul(l, r)
      BY <1>9 DEF Apply, Comparisons
    <3> QED
      BY <1>2, <2>2, <3>1 DEF Mul, x, y
  <2> HIDE DEF e, a, b, w
  <2>6. e = Wire(x * y, w)
    BY <1>6, <2>3, <2>4
  <2> DEFINE n == x * y
  <2>7. n \in Int /\ Apply(op, l, r) = Make(n, w, s) /\ e = Wire(n, w)
    BY <1>4, <2>5, <2>6
  <2> HIDE DEF n
  <2>8. e = WireOf(Apply(op, l, r))
    BY <1>2, <2>3, <2>7, SumAsMake
  <2> QED
    BY <2>8 DEF e, lt, rt
<1>10. CASE op \in Bitwises
  <2>1. op = "&" \/ op = "|" \/ op = "^"
    BY <1>10 DEF Bitwises
  <2>2. res = Type(MaxW(l, r), s)
    BY <1>1, <1>3, <1>10, <2>1 DEF WidthRule, Comparisons, Logicals, Shifts, lt, rt
  <2>3. w = MaxW(l, r)
    BY <2>2 DEF Type
  <2>4. w \in 1 .. HostWidth
    BY <2>3, WiderType
  <2>5. e = BitI(op, a, b)
    BY <1>1, <1>10, <2>1 DEF EmitGrowing
  <2> DEFINE p == BitsOfPair(Value(l) % 2^HostWidth, Value(r) % 2^HostWidth, OnesOf(op))
             n == FromBits(p)
  <2>6. Apply(op, l, r) = Bitwise2(l, r, OnesOf(op))
    BY <1>10, BitwiseApplied
  <2>7. Bitwise2(l, r, OnesOf(op)) = Make(n, w, s)
    BY <1>2, <2>3 DEF Bitwise2, BitsOfPair
  <2>8. BitI(op, a, b) = Wire(n, w)
    BY <1>10, <2>4, BitwiseEmitted
  <2>9. n \in Int
    BY PairIsNatural
  <2> HIDE DEF e, a, b, w, n
  <2>10. e = WireOf(Apply(op, l, r))
    BY <1>2, <2>4, <2>5, <2>6, <2>7, <2>8, <2>9, SumAsMake
  <2> QED
    BY <2>10 DEF e, lt, rt
<1> QED
  BY <1>7, <1>8, <1>9, <1>10

\* A guarded division has a result whatever its operands are.
LEMMA DivRemIsWord ==
  ASSUME NEW op \in {"/", "%"}, NEW l, NEW r, Held(l), Held(r), l.isSigned = r.isSigned,
         NEW res, res.width \in Nat \ {0}, res.isSigned = l.isSigned,
         op = "/" /\ l.isSigned => l.width < res.width
  PROVE  IsWord(EmitDivRem(op, WireOf(l), TypeOfBits(l), WireOf(r), TypeOfBits(r), res), res.width)
<1> DEFINE s == l.isSigned
           m == NumberIn(WireOf(l), s)
           n == NumberIn(WireOf(r), s)
           e == EmitDivRem(op, WireOf(l), TypeOfBits(l), WireOf(r), TypeOfBits(r), res)
           out == CASE op = "/" /\ s -> TruncDiv(m, n)
                    [] op = "%" /\ s -> TruncRem(m, n)
                    [] op = "/" /\ ~s -> m \div n
                    [] op = "%" /\ ~s -> m % n
<1>1. e = IF r.raw = 0 THEN Wire(0, res.width) ELSE Wire(out, res.width)
  BY DivRemGuarded
<1>2. m \in Int
  BY WireOfHeld, NumberReading
<1>3. IsWord(WireOf(r), r.width) /\ WireOf(r).raw = r.raw /\ s \in BOOLEAN /\ r.raw \in Nat
  BY WireOfHeld, HeldFields
<1>4. n \in Int
  BY <1>3, NumberReading
<1>5. ASSUME r.raw # 0 PROVE out \in Int
  <2>1. n # 0 /\ (~s => n \in Nat \ {0})
    <3>1. r.raw = n % 2^r.width /\ 2^r.width \in Nat \ {0}
      BY <1>3, NumberReading, WordFields
    <3>2. ~s => n = r.raw
      BY <1>3 DEF NumberIn
    <3> HIDE DEF n
    <3>3. 0 % 2^r.width = 0
      BY <3>1
    <3> QED
      BY <1>3, <1>5, <3>1, <3>2, <3>3
  <2> HIDE DEF m, n
  <2>2. CASE op = "/" /\ s
    <3>1. out = TruncDiv(m, n)
      BY <2>2
    <3> QED
      BY <1>2, <1>4, <2>1, <3>1, TruncatedInt
  <2>3. CASE op = "%" /\ s
    <3>1. out = TruncRem(m, n)
      BY <2>3
    <3> QED
      BY <1>2, <1>4, <2>1, <3>1, TruncatedInt
  <2>4. CASE op = "/" /\ ~s
    <3>1. out = m \div n
      BY <2>4
    <3> QED
      BY <1>2, <2>1, <2>4, <3>1
  <2>5. CASE op = "%" /\ ~s
    <3>1. out = m % n
      BY <2>5
    <3> QED
      BY <1>2, <2>1, <2>5, <3>1
  <2> QED
    BY <1>3, <2>2, <2>3, <2>4, <2>5
<1> HIDE DEF out, e
<1>6. \A k \in Int : IsWord(Wire(k, res.width), res.width)
  BY WireIsWord
<1>7. IsWord(e, res.width)
  <2>1. CASE r.raw = 0
    <3>1. 0 \in Int
      OBVIOUS
    <3> QED
      BY <1>1, <1>6, <2>1, <3>1
  <2>2. CASE r.raw # 0
    BY <1>1, <1>5, <1>6, <2>2
  <2> QED
    BY <2>1, <2>2
<1> QED
  BY <1>7 DEF e

\* So does a guarded shift.
LEMMA ShiftIsWord ==
  ASSUME NEW op \in Shifts, NEW l, NEW r, Held(l), Held(r)
  PROVE  IsWord(EmitShift(op, WireOf(l), TypeOfBits(l), WireOf(r), TypeOfBits(r)), l.width)
<1> DEFINE x == SignedOf(WireOf(l))
           w == l.width
           k == r.raw
           c == IF k >= w THEN w - 1 ELSE k
           e == EmitShift(op, WireOf(l), TypeOfBits(l), WireOf(r), TypeOfBits(r))
<1>1. /\ w \in Nat \ {0} /\ l.raw \in Int /\ IsWord(WireOf(l), w) /\ k \in Nat
  BY HeldFields, WireOfHeld
<1>2. x \in Int /\ c \in Nat
  <2>1. x \in Int
    BY <1>1, SignedReading
  <2> HIDE DEF x, w, k
  <2> QED
    BY <1>1, <2>1
<1>3. /\ e = IF op = ">>" /\ l.isSigned THEN Wire(x \div 2^c, w)
          ELSE IF k >= w THEN Wire(0, w)
          ELSE IF op = "<<" THEN Wire(l.raw * 2^k, w) ELSE Wire(l.raw \div 2^k, w)
  BY ShiftGuarded
<1> HIDE DEF x, w, k, c, e
<1>4. x \div 2^c \in Int /\ l.raw * 2^k \in Int /\ l.raw \div 2^k \in Int /\ 0 \in Int
  BY <1>1, <1>2, ShiftsAreInt
<1>5. \A n \in Int : IsWord(Wire(n, w), w)
  BY <1>1, WireIsWord
<1>6. e \in {Wire(x \div 2^c, w), Wire(0, w), Wire(l.raw * 2^k, w), Wire(l.raw \div 2^k, w)}
  BY <1>3
<1>7. IsWord(e, w)
  BY <1>4, <1>5, <1>6
<1> QED
  BY <1>7 DEF e, w

\* On operands the checker accepts, an operator is refused or its operations
\* have a result of the static type's width; where no stage is known to
\* differ it is the interpreter's, of the checker's type (emitBinary,
\* mlirgen.cpp).
LEMMA BinaryEmitted ==
  ASSUME NEW op \in BinaryOps, NEW l, NEW r, Held(l), Held(r),
         Legal(op, TypeOfBits(l), TypeOfBits(r))
  PROVE  LET e   == EmitBinary(op, WireOf(l), TypeOfBits(l), WireOf(r), TypeOfBits(r))
             res == WidthRule(op, TypeOfBits(l), TypeOfBits(r))
         IN  /\ e = NoWire \/ IsWord(e, res.width)
             /\ GapOf(op, l, r) = "" => /\ Held(Apply(op, l, r))
                                        /\ TypeOfBits(Apply(op, l, r)) = res
                                        /\ e = NoWire \/ e = WireOf(Apply(op, l, r))
<1> DEFINE lt  == TypeOfBits(l)
           rt  == TypeOfBits(r)
           e   == EmitBinary(op, WireOf(l), lt, WireOf(r), rt)
           res == WidthRule(op, lt, rt)
           v   == Apply(op, l, r)
<1>1. /\ lt.width = l.width /\ rt.width = r.width
      /\ lt.isSigned = l.isSigned /\ rt.isSigned = r.isSigned
      /\ lt = Type(l.width, l.isSigned) /\ rt = Type(r.width, r.isSigned)
  BY DEF TypeOfBits, Type
<1>2. Proper(l) /\ Proper(r) /\ l.isSigned \in BOOLEAN /\ l.width \in Nat \ {0}
      /\ l.width \in 1 .. HostWidth
  BY HeldFields DEF Held
<1>3. Typed(op, lt, rt) /\ res.width <= HostWidth
  BY DEF Legal
<1>4. op \notin Shifts => l.isSigned = r.isSigned
  BY <1>1, <1>3 DEF Typed
<1>5. Proper(v) /\ (~(op = "/" /\ l.isSigned /\ r.raw = 0) => TypeOfBits(v) = res)
  BY <1>2, <1>3, AppliedIsTyped
<1> HIDE DEF lt, rt, res, v
<1>6. ASSUME ~(op = "/" /\ l.isSigned /\ r.raw = 0)
      PROVE  TypeOfBits(v) = res /\ Held(v) /\ v.width = res.width
  <2>1. TypeOfBits(v) = res
    BY <1>5, <1>6
  <2>2. v.width = res.width
    BY <2>1 DEF TypeOfBits, Type
  <2> QED
    BY <1>3, <1>5, <2>1, <2>2 DEF Held
<1>7. ASSUME ~(op = "/" /\ l.isSigned /\ r.raw = 0), e = WireOf(v)
      PROVE  IsWord(e, res.width) /\ Held(v) /\ TypeOfBits(v) = res /\ e = WireOf(v)
  <2>1. Held(v) /\ TypeOfBits(v) = res /\ v.width = res.width
    BY <1>6, <1>7
  <2>2. IsWord(WireOf(v), v.width)
    BY <2>1, WireOfHeld
  <2> QED
    BY <1>7, <2>1, <2>2
<1> DEFINE refused == op \in Logicals /\ ~(lt.width = 1 /\ rt.width = 1)
<1>8. e = IF refused THEN NoWire ELSE BinaryOperations(op, WireOf(l), lt, WireOf(r), rt, res)
  <2>1. WireOf(l) # NoWire
    BY HeldIsEmitted
  <2>2. WireOf(r) # NoWire
    BY HeldIsEmitted
  <2>3. NoWire \notin {WireOf(l), WireOf(r)}
    BY <2>1, <2>2, Zenon
  <2> QED
    BY <2>3, Zenon DEF e, EmitBinary, EmitBinaryAs, res
<1>15. CASE refused
  <2>1. op # "/" /\ e = NoWire
    BY <1>8, <1>15 DEF Logicals
  <2>2. Held(v) /\ TypeOfBits(v) = res
    BY <1>6, <2>1
  <2> QED
    BY <2>1, <2>2, Zenon DEF e, res, v, lt, rt
<1>16. SUFFICES ASSUME ~refused
                PROVE  /\ IsWord(e, res.width)
                       /\ GapOf(op, l, r) = "" => Held(v) /\ TypeOfBits(v) = res /\ e = WireOf(v)
  BY <1>15, Zenon DEF e, res, v, lt, rt
<1>17. e = BinaryOperations(op, WireOf(l), lt, WireOf(r), rt, res)
  BY <1>8, <1>16
<1>18. op \in Logicals => lt.width = 1 /\ rt.width = 1
  BY <1>16
<1> HIDE DEF e, refused
<1>9. CASE op \in Comparisons
  <2>1. e = EmitCompare(op, WireOf(l), lt, WireOf(r), rt)
    BY <1>9, <1>17 DEF BinaryOperations, Comparisons, Shifts
  <2>2. op \notin Shifts /\ op # "/" /\ op # "&&"
    BY <1>9 DEF Comparisons, Shifts
  <2>3. v = Compare(l, r, op)
    BY <1>9 DEF v, Apply, Comparisons
  <2>4. e = WireOf(v)
    BY <1>4, <2>1, <2>2, <2>3, CompareEmitted DEF lt, rt
  <2> QED
    BY <1>7, <2>2, <2>4
<1>10. CASE op \in Logicals
  <2>1. l.width = 1 /\ r.width = 1
    BY <1>1, <1>10, <1>18
  <2>2. op # "/" /\ (op = "&&" \/ op = "||")
    BY <1>10 DEF Logicals
  <2>3. e = WireOf(v)
    <3>1. CASE op = "&&"
      <4>1. e = BitI("&", WireOf(l), WireOf(r))
        BY <1>17, <3>1 DEF BinaryOperations, Comparisons, Shifts
      <4>2. v = Truth(l.raw # 0 /\ r.raw # 0)
        BY <3>1 DEF v, Apply, Comparisons
      <4> QED
        BY <2>1, <4>1, <4>2, LogicalsEmitted
    <3>2. CASE op = "||"
      <4>1. e = BitI("|", WireOf(l), WireOf(r))
        BY <1>17, <3>2 DEF BinaryOperations, Comparisons, Shifts
      <4>2. v = Truth(l.raw # 0 \/ r.raw # 0)
        BY <3>2 DEF v, Apply, Comparisons
      <4> QED
        BY <2>1, <4>1, <4>2, LogicalsEmitted
    <3> QED
      BY <2>2, <3>1, <3>2
  <2> QED
    BY <1>7, <2>2, <2>3
<1>11. CASE op \in Shifts
  <2>1. op # "/" /\ (op = "<<" \/ op = ">>")
    BY <1>11 DEF Shifts
  <2>2. e = EmitShift(op, WireOf(l), lt, WireOf(r), rt)
    BY <1>11, <1>17, <2>1 DEF BinaryOperations, Comparisons
  <2>3. res = lt
    BY <1>11, <2>1 DEF res, WidthRule, Comparisons, Logicals, Bitwises
  <2>4. IsWord(e, res.width)
    BY <1>1, <1>11, <2>2, <2>3, ShiftIsWord DEF lt, rt
  <2>5. ASSUME GapOf(op, l, r) = "" PROVE e = WireOf(v)
    <3>1. ~(r.raw >= 2^UintWidth)
      BY <1>11, <2>5 DEF GapOf
    <3>2. r.raw \in Nat /\ 2^UintWidth \in Nat
      BY HeldFields, PowerOfTwo, WidthsAssumption
    <3>3. r.raw < 2^UintWidth
      BY <3>1, <3>2
    <3> QED
      BY <1>11, <2>2, <3>3, ShiftEmitted DEF lt, rt, v
  <2> QED
    BY <1>7, <2>1, <2>4, <2>5
<1>12. CASE op = "/"
  <2>1. e = EmitDivRem("/", WireOf(l), lt, WireOf(r), rt, res)
    BY <1>12, <1>17 DEF BinaryOperations, Comparisons, Shifts
  <2>2. l.isSigned = r.isSigned
    BY <1>4, <1>12 DEF Shifts
  <2>3. res = IF l.isSigned THEN Type(l.width + 1, TRUE) ELSE Type(l.width, FALSE)
    BY <1>1, <1>12 DEF res, WidthRule, Comparisons, Logicals, Bitwises, Shifts
  <2>4. /\ res.isSigned = l.isSigned /\ res.width \in Nat \ {0}
        /\ l.isSigned => l.width < res.width
    <3>1. CASE l.isSigned
      <4>1. res = Type(l.width + 1, TRUE)
        BY <2>3, <3>1
      <4>2. res.isSigned = TRUE /\ res.width = l.width + 1
        BY <4>1 DEF Type
      <4>3. l.isSigned = TRUE
        BY <1>2, <3>1
      <4>4. l.width + 1 \in Nat \ {0} /\ l.width < l.width + 1
        BY <1>2
      <4> QED
        BY <4>2, <4>3, <4>4
    <3>2. CASE ~l.isSigned
      <4>1. res = Type(l.width, FALSE)
        BY <2>3, <3>2
      <4>2. res.isSigned = FALSE /\ res.width = l.width
        BY <4>1 DEF Type
      <4> QED
        BY <1>2, <3>2, <4>2
    <3> QED
      BY <1>2, <3>1, <3>2
  <2>5. IsWord(e, res.width)
    <3>1. "/" \in {"/", "%"}
      OBVIOUS
    <3> QED
      BY <2>1, <2>2, <2>4, <3>1, DivRemIsWord DEF lt, rt
  <2>6. ASSUME GapOf(op, l, r) = "" PROVE ~(l.isSigned /\ r.raw = 0) /\ e = WireOf(v)
    <3>1. ~(l.isSigned /\ r.raw = 0)
      BY <1>12, <2>6 DEF GapOf, Shifts
    <3>2. v = Divide(l, r)
      BY <1>12 DEF v, Apply, Comparisons
    <3>3. res = WidthRule("/", lt, rt)
      BY <1>12 DEF res
    <3> QED
      BY <1>3, <2>1, <2>2, <3>1, <3>2, <3>3, DivideEmitted DEF lt, rt
  <2> QED
    BY <1>7, <2>5, <2>6
<1>13. CASE op = "%"
  <2>1. e = EmitDivRem("%", WireOf(l), lt, WireOf(r), rt, res)
    BY <1>13, <1>17 DEF BinaryOperations, Comparisons, Shifts
  <2>2. l.isSigned = r.isSigned
    BY <1>4, <1>13 DEF Shifts
  <2>3. Narrower(lt, rt) = MinW(l, r) /\ MinW(l, r) \in 1 .. HostWidth
    BY WiderType DEF lt, rt
  <2>4. res = Type(MinW(l, r), l.isSigned)
    BY <1>1, <1>13, <2>3 DEF res, WidthRule, Comparisons, Logicals, Bitwises, Shifts
  <2>5. res.isSigned = l.isSigned /\ res.width \in Nat \ {0}
    BY <2>3, <2>4, WidthsAssumption DEF Type
  <2>6. IsWord(e, res.width)
    <3>1. "%" \in {"/", "%"} /\ "%" # "/"
      OBVIOUS
    <3> QED
      BY <2>1, <2>2, <2>5, <3>1, DivRemIsWord DEF lt, rt
  <2>7. ASSUME GapOf(op, l, r) = "" PROVE e = WireOf(v)
    <3>1. l.isSigned \/ ~(Widest({l.raw, r.raw}) >= 2^(HostWidth - 1))
      BY <1>13, <2>7 DEF GapOf, Shifts
    <3>2. /\ Widest({l.raw, r.raw}) \in {l.raw, r.raw} /\ l.raw <= Widest({l.raw, r.raw})
          /\ r.raw <= Widest({l.raw, r.raw}) /\ l.raw \in Nat /\ r.raw \in Nat
      BY HeldFields, WidestOfTwo
    <3>3. 2^(HostWidth - 1) \in Nat
      BY <1>2, HostPowers
    <3> DEFINE big == Widest({l.raw, r.raw})
               T == 2^(HostWidth - 1)
    <3>4. l.isSigned \/ (l.raw < T /\ r.raw < T)
      <4>1. /\ l.isSigned \/ ~(big >= T)
            /\ big \in {l.raw, r.raw} /\ l.raw <= big /\ r.raw <= big
            /\ l.raw \in Nat /\ r.raw \in Nat /\ T \in Nat
        BY <3>1, <3>2, <3>3
      <4> HIDE DEF big, T
      <4> QED
        BY <4>1
    <3>5. v = Remainder(l, r)
      BY <1>13 DEF v, Apply, Comparisons
    <3>6. res = WidthRule("%", lt, rt)
      BY <1>13 DEF res
    <3> QED
      BY <2>1, <2>2, <3>4, <3>5, <3>6, RemainderEmitted DEF lt, rt
  <2> QED
    BY <1>7, <1>13, <2>6, <2>7
<1>14. CASE op \in {"+", "-", "*"} \cup Bitwises
  <2>1. op # "/" /\ op \notin Shifts /\ op \notin Comparisons /\ op # "&&" /\ op # "||" /\ op # "%"
    BY <1>14 DEF Bitwises, Shifts, Comparisons
  <2>2. e = EmitGrowing(op, WireOf(l), lt, WireOf(r), rt, res)
    BY <1>17, <2>1 DEF BinaryOperations
  <2>3. l.isSigned = r.isSigned
    BY <1>4, <2>1
  <2>4. e = WireOf(v)
    BY <1>3, <1>14, <2>2, <2>3, GrowingEmitted DEF lt, rt, res, v
  <2> QED
    BY <1>7, <2>1, <2>4
<1> QED
  BY <1>9, <1>10, <1>11, <1>12, <1>13, <1>14 DEF BinaryOps

-----------------------------------------------------------------------------
(***************************************************************************)
(* The invariant: until the stages are known to differ, the checker has    *)
(* the type of the interpreter's value, which the host's integer holds,    *)
(* and the wire its bits, unless the walk refused the expression; and what *)
(* there is on the wire is a word, except after an operator on literals    *)
(* alone, which has not its rule's type.                                   *)
(***************************************************************************)
Staged(v, t, w) == Held(v) /\ t = TypeOfBits(v) /\ (w = NoWire \/ w = WireOf(v))

Emitted(w) == w = NoWire \/ IsWord(w, w.width)

IInv ==
  /\ gap # "literals" => Emitted(wire)
  /\ gap = "" => Staged(acc, type, wire)

LEMMA HostIsNatural == HostWidth \in Nat /\ HostWidth <= HostWidth
<1>1. HostWidth \in Nat
  BY WidthsAssumption
<1> QED
  BY <1>1

\* A type a program can write is one of the host's.
LEMMA WrittenTypes ==
  ASSUME NEW to \in Written
  PROVE  /\ to.width \in 1 .. HostWidth
         /\ to.isSigned \in BOOLEAN
         /\ to = Type(to.width, to.isSigned)
<1> DEFINE W == 1 .. TypeWidth
<1>1. to \in [width : W, isSigned : BOOLEAN]
  BY DEF Written
<1> HIDE DEF W
<1>2. to.width \in W /\ to.isSigned \in BOOLEAN /\ to = Type(to.width, to.isSigned)
  BY <1>1 DEF Type
<1>3. to.width \in 1 .. TypeWidth
  BY <1>2 DEF W
<1>4. to.width \in 1 .. HostWidth
  BY <1>3, TypeWidthAssumption, WidthsAssumption
<1> QED
  BY <1>2, <1>4

LEMMA ValuesHeld ==
  ASSUME NEW n \in Nat, n <= HostWidth, NEW v \in BitsOf(1 .. n)
  PROVE  Held(v)
<1>1. PICK w \in 1 .. n : v \in [raw : 0 .. 2^w - 1, width : {w}, isSigned : BOOLEAN]
  BY DEF BitsOf
<1>2. w \in Nat \ {0} /\ w <= HostWidth /\ HostWidth \in Nat
  BY WidthsAssumption
<1> DEFINE S == 0 .. 2^w - 1
<1>3. v.raw \in S /\ v.width = w /\ v.isSigned \in BOOLEAN
  <2>1. v \in [raw : S, width : {w}, isSigned : BOOLEAN]
    BY <1>1
  <2> HIDE DEF S
  <2> QED
    BY <2>1
<1>4. Kept(w) = w
  BY <1>2 DEF Kept, Smaller
<1> QED
  BY <1>2, <1>3, <1>4 DEF Held, Proper

\* A step that keeps the stages together.
LEMMA StagedWord ==
  ASSUME NEW v, NEW t, NEW w, Staged(v, t, w)
  PROVE  Emitted(w)
<1>1. IsWord(WireOf(v), v.width) /\ WireOf(v).width = v.width
  BY WireOfHeld DEF Staged
<1> QED
  BY <1>1 DEF Staged, Emitted

LEMMA InitStaged == Init => IInv
<1>1. ASSUME Leaf PROVE IInv
  <2>1. TypeWidth \in Nat /\ TypeWidth <= HostWidth
    BY TypeWidthAssumption, WidthsAssumption
  <2>2. Held(acc)
    BY <1>1, <2>1, ValuesHeld DEF Leaf
  <2>3. Staged(acc, type, wire)
    BY <1>1, <2>2 DEF Leaf, Staged
  <2> QED
    BY <2>3, StagedWord DEF IInv
<1>2. ASSUME NEW op, NEW l, NEW r, LiteralBinary(op, l, r) PROVE IInv
  BY <1>2 DEF LiteralBinary, IInv
<1>3. ASSUME NEW op, NEW v, LiteralUnary(op, v) PROVE IInv
  BY <1>3 DEF LiteralUnary, IInv
<1>4. ASSUME NEW v, LiteralCast(v) PROVE IInv
  BY <1>4 DEF LiteralCast, IInv, Emitted
<1> QED
  BY <1>1, <1>2, <1>3, <1>4 DEF Init

LEMMA BinaryStaged ==
  ASSUME IInv, gap = "", NEW op \in BinaryOps, NEW b \in Values,
         BinaryLeft(op, b) \/ BinaryRight(op, b)
  PROVE  IInv'
<1>2. Held(b)
  BY HostIsNatural, ValuesHeld DEF Values
<1>3. Held(acc) /\ type = TypeOfBits(acc) /\ (wire = NoWire \/ wire = WireOf(acc))
  BY DEF IInv, Staged
<1>4. ASSUME NEW l, NEW r, Held(l), Held(r), Legal(op, TypeOfBits(l), TypeOfBits(r)),
             acc' = Apply(op, l, r), type' = WidthRule(op, TypeOfBits(l), TypeOfBits(r)),
             \/ wire' = EmitBinary(op, WireOf(l), TypeOfBits(l), WireOf(r), TypeOfBits(r))
             \/ wire' = NoWire,
             gap' = GapOf(op, l, r)
      PROVE  IInv'
  <2> DEFINE e == EmitBinary(op, WireOf(l), TypeOfBits(l), WireOf(r), TypeOfBits(r))
             w == WidthRule(op, TypeOfBits(l), TypeOfBits(r)).width
  <2>1. e = NoWire \/ IsWord(e, w)
    BY <1>4, BinaryEmitted
  <2>2. gap' = "" => Held(acc') /\ type' = TypeOfBits(acc') /\ (e = NoWire \/ e = WireOf(acc'))
    BY <1>4, BinaryEmitted
  <2>3. wire' = e \/ wire' = NoWire
    BY <1>4
  <2> HIDE DEF e, w
  <2>4. IsWord(e, w) => e.width = w
    BY WordFields
  <2>5. Emitted(wire')
    BY <2>1, <2>3, <2>4 DEF Emitted
  <2>6. gap' = "" => Staged(acc, type, wire)'
    BY <2>2, <2>3 DEF Staged
  <2> QED
    BY <2>5, <2>6 DEF IInv, Emitted
<1>5. ASSUME NEW x, NEW lt, NEW rt
      PROVE  EmitBinary(op, NoWire, lt, x, rt) = NoWire /\ EmitBinary(op, x, lt, NoWire, rt) = NoWire
  BY Zenon DEF EmitBinary, EmitBinaryAs
<1>6. CASE BinaryLeft(op, b)
  <2>1. \/ wire' = EmitBinary(op, WireOf(acc), TypeOfBits(acc), WireOf(b), TypeOfBits(b))
        \/ wire' = NoWire
    BY <1>3, <1>5, <1>6 DEF BinaryLeft
  <2> QED
    BY <1>2, <1>3, <1>4, <1>6, <2>1 DEF BinaryLeft
<1>7. CASE BinaryRight(op, b)
  <2>1. \/ wire' = EmitBinary(op, WireOf(b), TypeOfBits(b), WireOf(acc), TypeOfBits(acc))
        \/ wire' = NoWire
    BY <1>3, <1>5, <1>7 DEF BinaryRight
  <2> QED
    BY <1>2, <1>3, <1>4, <1>7, <2>1 DEF BinaryRight
<1> QED
  BY <1>6, <1>7

LEMMA UnaryStaged ==
  ASSUME IInv, gap = "", NEW op \in UnaryOps, UnaryStep(op)
  PROVE  IInv'
<1>1. Held(acc) /\ type = TypeOfBits(acc) /\ (wire = NoWire \/ wire = WireOf(acc))
  BY DEF IInv, Staged
<1> DEFINE e == EmitUnary(op, WireOf(acc), type)
<1>2. wire' = NoWire \/ wire' = e
  <2>1. EmitUnary(op, NoWire, type) = NoWire
    BY Zenon DEF EmitUnary, EmitUnaryAs
  <2> QED
    BY <1>1, <2>1 DEF UnaryStep
<1>3. CASE WideNot(op, type)
  <2>1. IsWord(e, 1)
    BY <1>1, <1>3, WideNotEmitted
  <2> HIDE DEF e
  <2>2. e.width = 1
    BY <2>1, WordFields
  <2>3. Emitted(wire')
    BY <1>2, <2>1, <2>2 DEF Emitted
  <2>4. gap' = "not"
    BY <1>3 DEF UnaryStep, UnaryGapOf
  <2> QED
    BY <2>3, <2>4 DEF IInv, Emitted
<1>5. CASE ~WideNot(op, type) /\ UnaryRule(op, type).width > HostWidth
  <2>1. IsWord(e, e.width)
    BY <1>1, <1>5, WideMinusEmitted
  <2>2. gap' = "host"
    BY <1>5 DEF UnaryStep, UnaryGapOf
  <2> HIDE DEF e
  <2>3. Emitted(wire')
    BY <1>2, <2>1 DEF Emitted
  <2> QED
    BY <2>2, <2>3 DEF IInv, Emitted
<1>4. CASE ~WideNot(op, type) /\ ~(UnaryRule(op, type).width > HostWidth)
  <2>4. UnaryRule(op, type).width <= HostWidth
    BY <1>1, <1>4, HostOrWider
  <2>1. Held(acc') /\ TypeOfBits(acc') = type' /\ e = WireOf(acc')
    BY <1>1, <1>4, <2>4, UnaryEmitted DEF UnaryStep
  <2> HIDE DEF e
  <2>2. Staged(acc', type', wire')
    BY <1>2, <2>1 DEF Staged
  <2>3. Emitted(wire')
    BY <2>2, StagedWord
  <2> QED
    BY <2>2, <2>3 DEF IInv, Emitted, Staged
<1> QED
  BY <1>3, <1>4, <1>5

LEMMA CastStaged ==
  ASSUME IInv, gap = "", NEW to \in Written, CastStep(to)
  PROVE  IInv'
<1>1. Held(acc) /\ type = TypeOfBits(acc) /\ (wire = NoWire \/ wire = WireOf(acc))
  BY DEF IInv, Staged
<1>2. to.width \in 1 .. HostWidth /\ to.isSigned \in BOOLEAN /\ to = Type(to.width, to.isSigned)
  BY WrittenTypes
<1>3. type.isSigned = acc.isSigned
  BY <1>1 DEF TypeOfBits, Type
<1>4. wire' = NoWire \/ wire' = CoerceWire(WireOf(acc), acc.isSigned, to.width)
  BY <1>1, <1>3 DEF CastStep, EmitCast
<1>5. Staged(acc', type', wire')
  BY <1>1, <1>2, <1>4, CastIsCoercion DEF CastStep, Staged
<1>6. Emitted(wire')
  BY <1>5, StagedWord
<1> QED
  BY <1>5, <1>6 DEF IInv, Emitted, Staged

\* One of the two orders of a conditional's branches.
LEMMA TernaryTaken ==
  ASSUME NEW c, Held(c), c.width = 1, NEW t, NEW f, Held(t), Held(f), t.isSigned = f.isSigned,
         type' = TernaryRule(TypeOfBits(t), TypeOfBits(f)),
         acc' = Select(c, t, f, type'),
         \/ wire' = EmitTernary(WireOf(c), WireOf(t), TypeOfBits(t), WireOf(f), TypeOfBits(f))
         \/ wire' = NoWire
  PROVE  IInv'
<1> DEFINE e == EmitTernary(WireOf(c), WireOf(t), TypeOfBits(t), WireOf(f), TypeOfBits(f))
<1>1. Held(acc') /\ TypeOfBits(acc') = type' /\ e = WireOf(acc')
  BY TernaryEmitted
<1>2. wire' = e \/ wire' = NoWire
  OBVIOUS
<1> HIDE DEF e
<1>3. Staged(acc', type', wire')
  BY <1>1, <1>2 DEF Staged
<1>4. Emitted(wire')
  BY <1>3, StagedWord
<1> QED
  BY <1>3, <1>4 DEF IInv, Emitted, Staged

LEMMA TernaryStaged ==
  ASSUME IInv, gap = "", NEW b \in Values, NEW c \in {Truth(TRUE), Truth(FALSE)},
         NEW first \in BOOLEAN, TernaryStep(b, c, first)
  PROVE  IInv'
<1>2. Held(b)
  BY HostIsNatural, ValuesHeld DEF Values
<1>3. Held(acc) /\ type = TypeOfBits(acc) /\ (wire = NoWire \/ wire = WireOf(acc))
  BY DEF IInv, Staged
<1>4. Held(c) /\ c.width = 1
  BY TruthWire DEF TypeOfBits, Type
<1>5. b.isSigned = acc.isSigned
  BY <1>3 DEF TernaryStep, TypeOfBits, Type
<1>6. ASSUME NEW x, NEW y, NEW tt, NEW ft
      PROVE  EmitTernary(x, NoWire, tt, y, ft) = NoWire /\ EmitTernary(x, y, tt, NoWire, ft) = NoWire
  BY Zenon DEF EmitTernary
<1>7. CASE first
  <2>1. /\ type' = TernaryRule(TypeOfBits(acc), TypeOfBits(b))
        /\ acc' = Select(c, acc, b, type')
        /\ wire' = EmitTernary(WireOf(c), wire, type, WireOf(b), TypeOfBits(b))
    BY <1>3, <1>7 DEF TernaryStep
  <2>2. \/ wire' = EmitTernary(WireOf(c), WireOf(acc), TypeOfBits(acc), WireOf(b), TypeOfBits(b))
        \/ wire' = NoWire
    BY <1>3, <1>6, <2>1
  <2> QED
    BY <1>2, <1>3, <1>4, <1>5, <2>1, <2>2, TernaryTaken
<1>8. CASE ~first
  <2>1. /\ type' = TernaryRule(TypeOfBits(b), TypeOfBits(acc))
        /\ acc' = Select(c, b, acc, type')
        /\ wire' = EmitTernary(WireOf(c), WireOf(b), TypeOfBits(b), wire, type)
    BY <1>3, <1>8 DEF TernaryStep
  <2>2. \/ wire' = EmitTernary(WireOf(c), WireOf(b), TypeOfBits(b), WireOf(acc), TypeOfBits(acc))
        \/ wire' = NoWire
    BY <1>3, <1>6, <2>1
  <2> QED
    BY <1>2, <1>3, <1>4, <1>5, <2>1, <2>2, TernaryTaken
<1> QED
  BY <1>7, <1>8

LEMMA NextStaged == IInv /\ [Next]_vars => IInv'
<1> SUFFICES ASSUME IInv, [Next]_vars PROVE IInv'
  OBVIOUS
<1>1. CASE UNCHANGED vars
  BY <1>1 DEF vars, IInv, Emitted, Staged
<1>2. CASE Next
  <2>1. gap = ""
    BY <1>2 DEF Next
  <2>2. CASE \E b \in Values, op \in BinaryOps : BinaryLeft(op, b) \/ BinaryRight(op, b)
    BY <2>1, <2>2, BinaryStaged
  <2>3. CASE \E op \in UnaryOps : UnaryStep(op)
    BY <2>1, <2>3, UnaryStaged
  <2>4. CASE \E to \in Written : CastStep(to)
    BY <2>1, <2>4, CastStaged
  <2>5. CASE \E b \in Values, c \in {Truth(TRUE), Truth(FALSE)}, first \in BOOLEAN :
               TernaryStep(b, c, first)
    BY <2>1, <2>5, TernaryStaged
  <2> QED
    BY <1>2, <2>2, <2>3, <2>4, <2>5 DEF Next
<1> QED
  BY <1>1, <1>2

\* The stages stay together on an expression the checker accepts, up to the
\* first operator named in `gap`, whatever its depth and whatever the widths
\* of the host and of the types.
THEOREM StagesAgree == Spec => []IInv
<1>1. Init => IInv
  BY InitStaged
<1>2. IInv /\ [Next]_vars => IInv'
  BY NextStaged
<1> QED
  BY <1>1, <1>2, PTL DEF Spec

\* Up to the first operator named in `gap`, the checker's type is the type of
\* the interpreter's value (infer and widthRule, type_check.cpp).
THEOREM StaticTypeHolds == Spec => []StaticTypeAgrees
<1>1. IInv => StaticTypeAgrees
  BY DEF IInv, Staged, StaticTypeAgrees
<1> QED
  BY <1>1, StagesAgree, PTL

\* Up to the same operators, what MLIRGen emits for an expression it does not
\* refuse computes the interpreter's bits, for every operand and every width
\* (mlirgen.cpp against bits.cpp).
THEOREM EmittedIsEvaluated == Spec => []WireAgrees
<1>1. IInv => WireAgrees
  <2>1. TypeOfBits(acc).width = acc.width
    BY DEF TypeOfBits, Type
  <2> QED
    BY <2>1 DEF IInv, Staged, WireAgrees, WireOf
<1> QED
  BY <1>1, StagesAgree, PTL

\* No operand reaches an operation that has no result for it, an operator on
\* literals alone excepted: the guards of emitDivRem and emitShift are enough,
\* and a quotient has the bit its overflow needs (mlirgen.cpp).
THEOREM GuardsAreEnough == Spec => []GuardsHold
<1>1. NoWire # Undefined
  <2>1. \A i, j : [raw |-> i, width |-> 0] = [raw |-> j, width |-> 0] => i = j
    OBVIOUS
  <2>2. -2 # -1
    OBVIOUS
  <2> QED
    BY <2>1, <2>2 DEF NoWire, Undefined
<1>2. ASSUME IsWord(wire, wire.width) PROVE IsDefined(wire)
  BY <1>2, WordFields
<1>3. IInv => GuardsHold
  BY <1>1, <1>2 DEF IInv, GuardsHold, Emitted, IsDefined
<1> QED
  BY <1>3, StagesAgree, PTL

\* The circuit adjusts the width of every such wire as the operations it
\* replaces do (hwgen.cpp against mlirgen.cpp).
THEOREM AdjustmentsAgree == Spec => []AdjustAgrees
<1>1. IInv => AdjustAgrees
  <2> SUFFICES ASSUME IInv, gap # "literals", wire # NoWire, NEW to \in 1 .. HostWidth, NEW s \in BOOLEAN
               PROVE  Adjust(wire, s, to) = CoerceWire(wire, s, to)
    BY DEF AdjustAgrees
  <2>1. to \in Nat \ {0}
    BY HostIsNatural
  <2>2. IsWord(wire, wire.width)
    BY DEF IInv, Emitted
  <2> QED
    BY <2>1, <2>2, Adjusted
<1> QED
  BY <1>1, StagesAgree, PTL

-----------------------------------------------------------------------------
(***************************************************************************)
(* The numbers LANGUAGE.md speaks of, and what is left of one in a type.   *)
(***************************************************************************)
LEMMA NumberOfHeld ==
  ASSUME NEW v, Held(v)
  PROVE  /\ Number(v) = NumberIn(WireOf(v), v.isSigned)
         /\ Number(v) \in Int
         /\ Fits(Number(v), v.width, v.isSigned)
         /\ Number(v) % 2^v.width = v.raw
         /\ ~v.isSigned => Number(v) = v.raw
<1> DEFINE w == v.width
           r == v.raw
           M == 2^w
           H == 2^(w - 1)
<1>1. /\ w \in 1 .. HostWidth /\ r \in 0 .. M - 1 /\ v.isSigned \in BOOLEAN
      /\ WireOf(v).raw = r /\ WireOf(v).width = w /\ IsWord(WireOf(v), w)
  BY HeldFields, WireOfHeld
<1>2. H \in Nat \ {0} /\ M = 2 * H
  BY <1>1, HostPowers
<1>3. Number(v) = IF v.isSigned /\ r >= H THEN r - M ELSE r
  BY DEF Number
<1>4. Number(v) = NumberIn(WireOf(v), v.isSigned)
  BY <1>1, <1>3 DEF NumberIn, SignedOf
<1>5. NumberIn(WireOf(v), v.isSigned) % 2^w = WireOf(v).raw
  BY <1>1, NumberReading
<1>6. Number(v) % M = r
  BY <1>1, <1>4, <1>5
<1>7. Fits(Number(v), w, v.isSigned) <=>
        IF v.isSigned THEN Number(v) \in -H .. H - 1 ELSE Number(v) \in 0 .. M - 1
  BY DEF Fits
<1> HIDE DEF M, H
<1>8. Number(v) \in Int /\ (~v.isSigned => Number(v) = r)
  BY <1>1, <1>2, <1>3
<1>9. Fits(Number(v), w, v.isSigned)
  BY <1>1, <1>2, <1>3, <1>7
<1> QED
  BY <1>4, <1>6, <1>8, <1>9 DEF M

\* A type's reduction keeps the numbers of the type.
LEMMA WrapKeeps ==
  ASSUME NEW w \in Nat \ {0}, NEW s \in BOOLEAN, NEW n \in Int, Fits(n, w, s)
  PROVE  Wrap(n, Type(w, s)) = n
<1> DEFINE M == 2^w
           H == 2^(w - 1)
           r == n % M
<1>1. H \in Nat \ {0} /\ M = 2 * H /\ M \in Nat \ {0}
  BY PowerOfTwo, PowerDoubles
<1>2. Wrap(n, Type(w, s)) = IF s /\ r >= H THEN r - M ELSE r
  BY DEF Wrap, Number, Type
<1>3. IF s THEN n \in -H .. H - 1 ELSE n \in 0 .. M - 1
  BY DEF Fits
<1> HIDE DEF M, H
<1>4. CASE 0 <= n
  <2>1. n \in 0 .. M - 1 /\ 0 \in Int
    BY <1>1, <1>3, <1>4
  <2>2. (M * 0 + n) % M = n
    BY <1>1, <2>1, Wraps
  <2>3. r = n
    BY <1>1, <2>1, <2>2
  <2> HIDE DEF r
  <2> QED
    BY <1>1, <1>2, <1>3, <2>1, <2>3
<1>5. CASE ~(0 <= n)
  <2>1. s /\ n \in -H .. -1 /\ n + M \in 0 .. M - 1 /\ -1 \in Int /\ M * (-1) + (n + M) = n
    BY <1>1, <1>3, <1>5
  <2> DEFINE k == n + M
             q == -1
  <2>2. k \in 0 .. M - 1 /\ q \in Int /\ M * q + k = n
    BY <2>1
  <2> HIDE DEF k, q
  <2>3. (M * q + k) % M = k
    BY <1>1, <2>2, Wraps
  <2>4. r = n + M
    BY <2>2, <2>3 DEF k
  <2> HIDE DEF r
  <2> QED
    BY <1>1, <1>2, <2>1, <2>4
<1> QED
  BY <1>4, <1>5

LEMMA WrapAgrees ==
  ASSUME NEW x \in Int, NEW y \in Int, NEW t, x % 2^t.width = y % 2^t.width
  PROVE  Wrap(x, t) = Wrap(y, t)
BY DEF Wrap

LEMMA NumberOfMake ==
  ASSUME NEW n \in Int, NEW w \in 1 .. HostWidth, NEW s \in BOOLEAN
  PROVE  /\ Number(Make(n, w, s)) = Wrap(n, Type(w, s))
         /\ Fits(n, w, s) => Number(Make(n, w, s)) = n
<1>1. w \in 0 .. HostWidth /\ w \in Nat \ {0}
  BY WidthsAssumption
<1>2. Make(n, w, s) = [raw |-> n % 2^w, width |-> w, isSigned |-> s]
  BY WidthsAssumption DEF Make, Smaller
<1>3. Number(Make(n, w, s)) = Wrap(n, Type(w, s))
  BY <1>2 DEF Wrap, Type
<1> QED
  BY <1>1, <1>3, WrapKeeps

\* value() is the number, unless the host's top bit takes it for a sign.
LEMMA ValueIsNumber ==
  ASSUME NEW v, Held(v)
  PROVE  /\ v.isSigned \/ v.raw < 2^(HostWidth - 1) => Value(v) = Number(v)
         /\ v.isSigned \/ v.width < HostWidth => Value(v) = Number(v)
         /\ \A to \in 1 .. HostWidth : Value(v) % 2^to = Number(v) % 2^to
<1>1. /\ Number(v) = NumberIn(WireOf(v), v.isSigned)
      /\ ~v.isSigned => Number(v) = v.raw
  BY NumberOfHeld
<1>2. v.isSigned \in BOOLEAN /\ v.width \in Nat \ {0} /\ v.raw \in 0 .. 2^v.width - 1 /\ v.raw \in Nat
  BY HeldFields
<1>3. v.isSigned \/ v.raw < 2^(HostWidth - 1) => Value(v) = Number(v)
  BY <1>1, <1>2, ValueReading DEF NumberIn
<1>4. ASSUME v.width < HostWidth PROVE v.raw < 2^(HostWidth - 1)
  <2>1. v.width \in Nat /\ HostWidth - 1 \in Nat /\ v.width <= HostWidth - 1
    BY <1>2, <1>4, WidthsAssumption
  <2> DEFINE m == HostWidth - 1
             k == v.width
  <2>2. m \in Nat /\ k \in Nat /\ k <= m
    BY <2>1
  <2> HIDE DEF m, k
  <2>3. 2^k <= 2^m
    BY <2>2, PowersGrow
  <2>4. 2^k \in Nat /\ 2^m \in Nat
    BY <2>2, PowerOfTwo
  <2> QED
    BY <1>2, <2>3, <2>4 DEF m, k
<1>5. \A to \in 1 .. HostWidth : Value(v) % 2^to = Number(v) % 2^to
  BY <1>1, ValueReading
<1> QED
  BY <1>2, <1>3, <1>4, <1>5

-----------------------------------------------------------------------------
(***************************************************************************)
(* Sums, differences, negation and products: the result is wide enough.    *)
(***************************************************************************)
LEMMA FitsBelow ==
  ASSUME NEW w \in Nat \ {0}, NEW s \in BOOLEAN, NEW n
  PROVE  /\ 2^(w - 1) \in Nat \ {0} /\ 2^w = 2 * 2^(w - 1) /\ 2^w \in Nat \ {0}
         /\ 2^(w + 1) = 2 * 2^w
         /\ Fits(n, w, s) <=> IF s THEN n \in -(2^(w - 1)) .. 2^(w - 1) - 1
                                   ELSE n \in 0 .. 2^w - 1
         /\ Fits(n, w + 1, s) <=> IF s THEN n \in -(2^w) .. 2^w - 1
                                       ELSE n \in 0 .. 2^(w + 1) - 1
<1>1. w - 1 \in Nat /\ w \in Nat /\ w + 1 \in Nat \ {0} /\ (w + 1) - 1 = w
  OBVIOUS
<1>2. 2^(w - 1) \in Nat \ {0}
  BY <1>1, PowerOfTwo
<1>3. 2^w = 2 * 2^(w - 1)
  BY PowerDoubles
<1>4. 2^(w + 1) = 2 * 2^((w + 1) - 1)
  BY <1>1, PowerDoubles
<1>5. 2^w \in Nat \ {0}
  BY <1>1, PowerOfTwo
<1> QED
  BY <1>1, <1>2, <1>3, <1>4, <1>5 DEF Fits

LEMMA SumsFit ==
  ASSUME NEW w \in Nat \ {0}, NEW s \in BOOLEAN, NEW x \in Int, NEW y \in Int,
         Fits(x, w, s), Fits(y, w, s)
  PROVE  Fits(x + y, w + 1, s) /\ x - y \in -(2^w) .. 2^w - 1
<1> DEFINE H == 2^(w - 1)
           M == 2^w
           N == 2^(w + 1)
<1>1. H \in Nat \ {0} /\ M = 2 * H /\ N = 2 * M
  BY FitsBelow
<1>2. IF s THEN x \in -H .. H - 1 ELSE x \in 0 .. M - 1
  BY FitsBelow
<1>3. IF s THEN y \in -H .. H - 1 ELSE y \in 0 .. M - 1
  BY FitsBelow
<1>4. Fits(x + y, w + 1, s) <=> IF s THEN x + y \in -M .. M - 1 ELSE x + y \in 0 .. N - 1
  BY FitsBelow
<1>5. x - y \in -M .. M - 1
  <2> HIDE DEF H, M, N
  <2> QED
    BY <1>1, <1>2, <1>3
<1> HIDE DEF H, M, N
<1>6. Fits(x + y, w + 1, s)
  BY <1>1, <1>2, <1>3, <1>4
<1> QED
  BY <1>5, <1>6 DEF M

LEMMA NegationFits ==
  ASSUME NEW w \in Nat \ {0}, NEW s \in BOOLEAN, NEW x \in Int, Fits(x, w, s)
  PROVE  -x \in -(2^w) .. 2^w - 1
<1> DEFINE H == 2^(w - 1)
           M == 2^w
<1>1. H \in Nat \ {0} /\ M = 2 * H
  BY FitsBelow
<1>2. IF s THEN x \in -H .. H - 1 ELSE x \in 0 .. M - 1
  BY FitsBelow
<1> HIDE DEF H, M
<1>3. -x \in -M .. M - 1
  BY <1>1, <1>2
<1> QED
  BY <1>3 DEF M

\* A signed result of one bit more.
LEMMA SignedNumber ==
  ASSUME NEW w \in Nat \ {0}, w + 1 <= HostWidth, NEW n \in -(2^w) .. 2^w - 1
  PROVE  Number(Make(n, w + 1, TRUE)) = n
<1> DEFINE u == w + 1
           s == TRUE
           M == 2^w
<1>1. u \in 1 .. HostWidth /\ M \in Nat /\ u - 1 = w
  BY WidthsAssumption, FitsBelow
<1>2. Fits(n, u, s)
  BY <1>1 DEF Fits
<1>3. n \in Int /\ s \in BOOLEAN
  <2> DEFINE k == n
  <2>1. k \in -M .. M - 1
    OBVIOUS
  <2> HIDE DEF M
  <2> QED
    BY <1>1, <2>1
<1> HIDE DEF u, s
<1>4. Number(Make(n, u, s)) = n
  BY <1>1, <1>2, <1>3, NumberOfMake
<1> QED
  BY <1>4 DEF u, s

LEMMA ProductBelow ==
  ASSUME NEW m \in Nat, NEW n \in Nat, NEW x \in 0 .. m, NEW y \in 0 .. n
  PROVE  x * y \in Nat /\ x * y <= m * n
<1>1. x \in Nat /\ y \in Nat /\ m - x \in Nat /\ n - y \in Nat
  OBVIOUS
<1>2. x * y \in Nat /\ x * n \in Nat /\ m * n \in Nat
  BY <1>1
<1>3. x * (n - y) \in Nat /\ (m - x) * n \in Nat
  BY <1>1
<1>4. x * (n - y) = x * n - x * y /\ (m - x) * n = m * n - x * n
  BY <1>1
<1> QED
  BY <1>2, <1>3, <1>4

LEMMA ProductFits ==
  ASSUME NEW v \in Nat \ {0}, NEW w \in Nat \ {0}, NEW s \in BOOLEAN,
         NEW x \in Int, NEW y \in Int, Fits(x, v, s), Fits(y, w, s)
  PROVE  Fits(x * y, v + w, s)
<1> DEFINE H == 2^(v - 1)
           K == 2^(w - 1)
           M == 2^v
           N == 2^w
           P == 2^(v + w)
           Q == 2^((v + w) - 1)
           G == H * K
<1>1. H \in Nat \ {0} /\ M = 2 * H /\ (IF s THEN x \in -H .. H - 1 ELSE x \in 0 .. M - 1)
  BY FitsBelow
<1>2. K \in Nat \ {0} /\ N = 2 * K /\ (IF s THEN y \in -K .. K - 1 ELSE y \in 0 .. N - 1)
  BY FitsBelow
<1>3. P = M * N
  BY PowersMultiply
<1>4. v + w \in Nat \ {0}
  OBVIOUS
<1>5. P = 2 * Q /\ (Fits(x * y, v + w, s) <=> IF s THEN x * y \in -Q .. Q - 1 ELSE x * y \in 0 .. P - 1)
      /\ Q \in Nat \ {0}
  BY <1>4, FitsBelow
<1> HIDE DEF H, K, M, N, P, Q
<1>6. G \in Nat /\ P = 4 * G /\ Q = 2 * G /\ M \in Nat /\ N \in Nat
  <2>1. G \in Nat
    BY <1>1, <1>2
  <2>2. M * N = 4 * G
    <3>1. \A a, b \in Nat : (2 * a) * (2 * b) = 4 * (a * b)
      OBVIOUS
    <3> QED
      BY <1>1, <1>2, <3>1
  <2> HIDE DEF G
  <2> QED
    BY <1>1, <1>2, <1>3, <1>5, <2>1, <2>2
<1>7. CASE ~s
  <2>1. x * y \in Nat /\ x * y <= (M - 1) * (N - 1)
    <3> DEFINE m == M - 1
               n == N - 1
    <3>1. m \in Nat /\ n \in Nat /\ x \in 0 .. m /\ y \in 0 .. n
      BY <1>1, <1>2, <1>7
    <3> HIDE DEF m, n
    <3>2. x * y \in Nat /\ x * y <= m * n
      BY <3>1, ProductBelow
    <3> QED
      BY <3>2 DEF m, n
  <2>2. (M - 1) * (N - 1) = ((M * N - M) - N) + 1
    BY <1>6
  <2>3. M * N \in Nat /\ M # 0 /\ N # 0
    BY <1>1, <1>2
  <2>4. x * y < P
    BY <1>3, <1>6, <2>1, <2>2, <2>3
  <2> QED
    BY <1>5, <1>6, <1>7, <2>1, <2>4
<1>8. CASE s
  <2> DEFINE a == IF x < 0 THEN -x ELSE x
             b == IF y < 0 THEN -y ELSE y
  <2>1. a \in 0 .. H /\ b \in 0 .. K /\ H \in Nat /\ K \in Nat
    BY <1>1, <1>2, <1>8
  <2>2. x \in {a, -a} /\ y \in {b, -b}
    OBVIOUS
  <2> HIDE DEF a, b
  <2>3. a * b \in Nat /\ a * b <= G
    BY <2>1, ProductBelow
  <2>4. x * y \in {a * b, -(a * b)}
    <3>1. a \in Nat /\ b \in Nat
      BY <2>1
    <3>2. a * (-b) = -(a * b) /\ (-a) * b = -(a * b) /\ (-a) * (-b) = a * b
      BY <3>1
    <3> QED
      BY <2>2, <3>2
  <2> DEFINE p == a * b
             q == x * y
  <2>5. p \in Nat /\ p <= G /\ q \in {p, -p}
    BY <2>3, <2>4
  <2>6. Fits(q, v + w, s) <=> q \in -Q .. Q - 1
    BY <1>5, <1>8
  <2> HIDE DEF p, q, G
  <2>7. q \in -Q .. Q - 1
    BY <1>5, <1>6, <2>5
  <2> QED
    BY <2>6, <2>7 DEF q
<1> QED
  BY <1>7, <1>8

-----------------------------------------------------------------------------
(***************************************************************************)
(* Quotients and remainders.                                               *)
(***************************************************************************)
LEMMA Truncated ==
  ASSUME NEW x \in Int, NEW y \in Int, y # 0
  PROVE  LET a == IF x < 0 THEN -x ELSE x
             b == IF y < 0 THEN -y ELSE y
         IN  /\ a \in Nat /\ b \in Nat \ {0} /\ a \div b \in 0 .. a /\ a % b \in 0 .. a
             /\ a % b \in 0 .. b - 1
             /\ TruncDiv(x, y) = IF (x < 0) # (y < 0) THEN -(a \div b) ELSE a \div b
             /\ TruncRem(x, y) = IF x < 0 THEN -(a % b) ELSE a % b
<1> DEFINE a == IF x < 0 THEN -x ELSE x
           b == IF y < 0 THEN -y ELSE y
           q == a \div b
           r == a % b
           p == b * q
           d == TruncDiv(x, y)
<1>1. a \in Nat /\ b \in Nat \ {0} /\ x = (IF x < 0 THEN -a ELSE a) /\ y = (IF y < 0 THEN -b ELSE b)
  OBVIOUS
<1>2. d = IF (x < 0) # (y < 0) THEN -q ELSE q
  BY DEF TruncDiv
<1>3. TruncRem(x, y) = x - y * d
  BY DEF TruncRem
<1> HIDE DEF a, b, d
<1>4. a = p + r /\ q \in Int /\ r \in 0 .. b - 1
  <2>1. a \in Int
    BY <1>1
  <2> QED
    BY <1>1, <2>1, Quotient
<1>5. q \in Nat
  BY <1>1
<1> HIDE DEF q, r
<1>6. p \in Nat /\ q <= p
  <2>1. b \in Nat /\ b - 1 \in Nat
    BY <1>1
  <2>2. (b - 1) * q \in Nat /\ (b - 1) * q = b * q - q /\ b * q \in Nat
    BY <1>5, <2>1
  <2> QED
    BY <1>5, <2>2
<1>7. y * d = IF x < 0 THEN -p ELSE p
  <2>1. b \in Int /\ q \in Int
    BY <1>1, <1>4
  <2>2. b * (-q) = -(b * q) /\ (-b) * q = -(b * q) /\ (-b) * (-q) = b * q
    BY <2>1
  <2>3. d \in {q, -q} /\ y \in {b, -b}
    BY <1>1, <1>2
  <2>4. CASE x < 0 /\ y < 0
    <3>1. y = -b /\ d = q
      BY <1>1, <1>2, <2>4
    <3> QED
      BY <2>2, <2>4, <3>1
  <2>5. CASE x < 0 /\ ~(y < 0)
    <3>1. y = b /\ d = -q
      BY <1>1, <1>2, <2>5
    <3> QED
      BY <2>2, <2>5, <3>1
  <2>6. CASE ~(x < 0) /\ y < 0
    <3>1. y = -b /\ d = -q
      BY <1>1, <1>2, <2>6
    <3> QED
      BY <2>2, <2>6, <3>1
  <2>7. CASE ~(x < 0) /\ ~(y < 0)
    <3>1. y = b /\ d = q
      BY <1>1, <1>2, <2>7
    <3> QED
      BY <2>7, <3>1
  <2> QED
    BY <2>4, <2>5, <2>6, <2>7
<1> HIDE DEF p
<1>8. TruncRem(x, y) = IF x < 0 THEN -r ELSE r
  BY <1>1, <1>3, <1>4, <1>6, <1>7
<1>9. q \in 0 .. a /\ r \in 0 .. a
  BY <1>1, <1>4, <1>5, <1>6
<1> QED
  BY <1>1, <1>2, <1>4, <1>8, <1>9 DEF a, b, q, r, d

LEMMA QuotientFits ==
  ASSUME NEW x \in Int, NEW y \in Int, y # 0, NEW w \in Nat \ {0},
         x \in -(2^(w - 1)) .. 2^(w - 1) - 1
  PROVE  TruncDiv(x, y) \in -(2^w) .. 2^w - 1
<1> DEFINE a == IF x < 0 THEN -x ELSE x
           b == IF y < 0 THEN -y ELSE y
           q == a \div b
           d == TruncDiv(x, y)
           H == 2^(w - 1)
           M == 2^w
<1>1. q \in 0 .. a /\ d \in {q, -q} /\ a \in Nat
  BY Truncated
<1>2. H \in Nat \ {0} /\ M = 2 * H /\ x \in -H .. H - 1
  <2>1. w - 1 \in Nat
    OBVIOUS
  <2>2. H \in Nat \ {0}
    BY <2>1, PowerOfTwo
  <2>3. M = 2 * H
    BY PowerDoubles
  <2> QED
    BY <2>2, <2>3
<1>4. a \in 0 .. H
  <2> HIDE DEF H
  <2> QED
    BY <1>2
<1> HIDE DEF a, q, d, H, M
<1>5. d \in -M .. M - 1
  BY <1>1, <1>2, <1>4
<1> QED
  BY <1>5 DEF d, M

LEMMA RemainderFits ==
  ASSUME NEW x \in Int, NEW y \in Int, y # 0, NEW v \in Nat \ {0}, NEW w \in Nat \ {0},
         NEW s \in BOOLEAN, Fits(x, v, s), Fits(y, w, s)
  PROVE  TruncRem(x, y) \in Int /\ Fits(TruncRem(x, y), v, s) /\ Fits(TruncRem(x, y), w, s)
<1> DEFINE a == IF x < 0 THEN -x ELSE x
           b == IF y < 0 THEN -y ELSE y
           r == a % b
           d == TruncRem(x, y)
           H == 2^(v - 1)
           M == 2^v
           K == 2^(w - 1)
           N == 2^w
<1>1. a \in Nat /\ b \in Nat \ {0} /\ r \in 0 .. a /\ r \in 0 .. b - 1 /\ d = IF x < 0 THEN -r ELSE r
  BY Truncated
<1>2. H \in Nat \ {0} /\ M = 2 * H /\ (IF s THEN x \in -H .. H - 1 ELSE x \in 0 .. M - 1)
  BY FitsBelow
<1>3. K \in Nat \ {0} /\ N = 2 * K /\ (IF s THEN y \in -K .. K - 1 ELSE y \in 0 .. N - 1)
  BY FitsBelow
<1>4. Fits(d, v, s) <=> IF s THEN d \in -H .. H - 1 ELSE d \in 0 .. M - 1
  BY FitsBelow
<1>5. Fits(d, w, s) <=> IF s THEN d \in -K .. K - 1 ELSE d \in 0 .. N - 1
  BY FitsBelow
<1>6. d \in Int
  BY <1>1
<1> HIDE DEF H, M, K, N, r, d
<1>7. (x < 0 => d \in x .. 0) /\ (~(x < 0) => d \in 0 .. x)
  BY <1>1
<1>8. (y < 0 => d \in y + 1 .. -y - 1) /\ (~(y < 0) => d \in 1 - y .. y - 1)
  BY <1>1
<1> HIDE DEF a, b
<1>9. Fits(d, v, s)
  BY <1>2, <1>4, <1>6, <1>7
<1>10. Fits(d, w, s)
  BY <1>2, <1>3, <1>5, <1>6, <1>7, <1>8
<1> QED
  BY <1>6, <1>9, <1>10 DEF d

-----------------------------------------------------------------------------
(***************************************************************************)
(* The operations of bits.cpp on the numbers of their operands.            *)
(***************************************************************************)
LEMMA SumsOfNumbers ==
  ASSUME NEW l, NEW r, Held(l), Held(r), l.isSigned = r.isSigned, MaxW(l, r) + 1 <= HostWidth
  PROVE  /\ Number(Add(l, r)) = Number(l) + Number(r)
         /\ Number(Sub(l, r)) = Number(l) - Number(r)
<1> DEFINE w == MaxW(l, r)
           u == w + 1
           s == l.isSigned
           x == Number(l)
           y == Number(r)
           add == x + y
           sub == x - y
<1>1. w \in Nat \ {0} /\ l.width <= w /\ r.width <= w /\ w < HostWidth /\ u \in 1 .. HostWidth
  BY WiderType, WidthsAssumption
<1>2. x \in Int /\ Fits(x, l.width, s)
  BY NumberOfHeld
<1>3. y \in Int /\ Fits(y, r.width, s)
  BY NumberOfHeld
<1>4. s \in BOOLEAN /\ l.width \in Nat \ {0} /\ l.width < HostWidth
  BY <1>1, HeldFields, WidthsAssumption
<1>5. r.width \in Nat \ {0} /\ r.width < HostWidth
  BY <1>1, HeldFields, WidthsAssumption
<1>6. Value(l) = x
  BY <1>4, ValueIsNumber
<1>7. Value(r) = y
  BY <1>5, ValueIsNumber
<1> HIDE DEF w, x, y, s
<1>8. Fits(x, w, s)
  BY <1>1, <1>2, <1>4, WiderFits
<1>9. Fits(y, w, s)
  BY <1>1, <1>3, <1>4, <1>5, WiderFits
<1>10. Fits(add, u, s) /\ add \in Int /\ sub \in -(2^w) .. 2^w - 1
  BY <1>1, <1>2, <1>3, <1>4, <1>8, <1>9, SumsFit
<1>11. Add(l, r) = Make(add, u, s)
  BY <1>4, <1>6, <1>7 DEF Add, EitherSigned, w, s
<1>12. Sub(l, r) = Make(sub, w + 1, TRUE)
  BY <1>6, <1>7 DEF Sub, w
<1> HIDE DEF add, sub
<1>13. Number(Add(l, r)) = add
  <2> HIDE DEF u
  <2> QED
    BY <1>1, <1>4, <1>10, <1>11, NumberOfMake
<1>14. Number(Sub(l, r)) = sub
  <2>1. w + 1 <= HostWidth
    BY DEF w
  <2> QED
    BY <1>1, <1>10, <1>12, <2>1, SignedNumber
<1> QED
  BY <1>13, <1>14 DEF add, sub, x, y

LEMMA ProductsOfNumbers ==
  ASSUME NEW l, NEW r, Held(l), Held(r), l.isSigned = r.isSigned, l.width + r.width <= HostWidth
  PROVE  Number(Mul(l, r)) = Number(l) * Number(r)
<1> DEFINE u == l.width + r.width
           s == l.isSigned
           x == Number(l)
           y == Number(r)
           n == x * y
<1>1. s \in BOOLEAN /\ l.width \in Nat \ {0}
  BY HeldFields
<1>2. r.width \in Nat \ {0}
  BY HeldFields
<1>3. l.width < HostWidth /\ r.width < HostWidth /\ u \in 1 .. HostWidth
  BY <1>1, <1>2, WidthsAssumption
<1>4. x \in Int /\ Fits(x, l.width, s) /\ Value(l) = x
  BY <1>3, NumberOfHeld, ValueIsNumber
<1>5. y \in Int /\ Fits(y, r.width, s) /\ Value(r) = y
  BY <1>3, NumberOfHeld, ValueIsNumber
<1>6. Mul(l, r) = Make(n, u, s)
  BY <1>1, <1>4, <1>5 DEF Mul, EitherSigned
<1> HIDE DEF x, y, s
<1>7. Fits(n, u, s) /\ n \in Int
  BY <1>1, <1>2, <1>4, <1>5, ProductFits
<1> HIDE DEF n, u
<1>8. Number(Mul(l, r)) = n
  BY <1>1, <1>3, <1>6, <1>7, NumberOfMake
<1> QED
  BY <1>8 DEF n, x, y

LEMMA NegationOfNumber ==
  ASSUME NEW v, Held(v), v.width + 1 <= HostWidth
  PROVE  Number(Neg(v)) = -Number(v)
<1> DEFINE w == v.width
           s == v.isSigned
           x == Number(v)
           n == -x
<1>1. s \in BOOLEAN /\ w \in Nat \ {0} /\ w < HostWidth
  BY HeldFields, WidthsAssumption
<1>2. x \in Int /\ Fits(x, w, s) /\ Value(v) = x
  BY <1>1, NumberOfHeld, ValueIsNumber
<1>3. Neg(v) = Make(n, w + 1, TRUE)
  BY <1>2 DEF Neg
<1>4. w + 1 <= HostWidth
  OBVIOUS
<1> HIDE DEF x, w, s
<1>5. n \in -(2^w) .. 2^w - 1
  BY <1>1, <1>2, NegationFits
<1> HIDE DEF n
<1>6. Number(Neg(v)) = n
  BY <1>1, <1>3, <1>4, <1>5, SignedNumber
<1> QED
  BY <1>6 DEF n, x

LEMMA ZeroFits ==
  ASSUME NEW w \in 1 .. HostWidth, NEW s \in BOOLEAN
  PROVE  Number(Make(0, w, s)) = 0
<1> DEFINE n == 0
           M == 2^w
           H == 2^(w - 1)
<1>1. w \in Nat \ {0}
  BY WidthsAssumption
<1>2. H \in Nat \ {0} /\ M = 2 * H /\ (Fits(n, w, s) <=> IF s THEN n \in -H .. H - 1 ELSE n \in 0 .. M - 1)
  BY <1>1, FitsBelow
<1> HIDE DEF H, M
<1>3. Fits(n, w, s) /\ n \in Int
  BY <1>2
<1> HIDE DEF n
<1>4. Number(Make(n, w, s)) = n
  BY <1>3, NumberOfMake
<1> QED
  BY <1>4 DEF n

LEMMA QuotientsOfNumbers ==
  ASSUME NEW l, NEW r, Held(l), Held(r), l.isSigned = r.isSigned, ~(l.isSigned /\ r.raw = 0),
         l.isSigned => l.width + 1 <= HostWidth
  PROVE  Number(Divide(l, r)) = IF Number(r) = 0 THEN 0 ELSE TruncDiv(Number(l), Number(r))
<1> DEFINE w == l.width
           s == l.isSigned
           x == Number(l)
           y == Number(r)
           no == FALSE
<1>1. s \in BOOLEAN /\ w \in Nat \ {0} /\ w \in 1 .. HostWidth /\ l.raw \in 0 .. 2^w - 1 /\ l.raw \in Nat
  BY HeldFields
<1>2. x \in Int /\ Fits(x, w, s) /\ (~s => x = l.raw) /\ (s => Value(l) = x)
  BY NumberOfHeld, ValueIsNumber
<1>3. y \in Int /\ (~s => y = r.raw) /\ (s => Value(r) = y) /\ r.raw \in Nat /\ y % 2^r.width = r.raw
  BY NumberOfHeld, ValueIsNumber, HeldFields
<1>4. y = 0 <=> r.raw = 0
  <2>1. CASE s
    <3>1. r.raw # 0 => Value(r) # 0
      BY ProperValue DEF Held
    <3> QED
      BY <1>3, <2>1, <3>1
  <2>2. CASE ~s
    BY <1>3, <2>2
  <2> QED
    BY <1>1, <2>1, <2>2
<1> HIDE DEF w, s, x, y
<1>5. CASE s
  <2> DEFINE n == TruncDiv(x, y)
  <2>1. r.raw # 0 /\ y # 0 /\ w + 1 <= HostWidth
    BY <1>4, <1>5 DEF s, w
  <2>2. Divide(l, r) = Make(n, w + 1, TRUE)
    BY <1>2, <1>3, <1>5, <2>1 DEF Divide, EitherSigned, s, w
  <2>3. n \in -(2^w) .. 2^w - 1
    <3>1. x \in -(2^(w - 1)) .. 2^(w - 1) - 1
      BY <1>2, <1>5, Zenon DEF Fits
    <3> QED
      BY <1>1, <1>2, <1>3, <2>1, <3>1, QuotientFits
  <2> HIDE DEF n
  <2>4. Number(Divide(l, r)) = n
    BY <1>1, <2>1, <2>2, <2>3, SignedNumber
  <2> QED
    BY <2>1, <2>4 DEF n, x, y
<1>6. CASE ~s
  <2>1. r.isSigned = s /\ EitherSigned(l, r) = s
    <3>1. l.isSigned \in BOOLEAN
      BY HeldFields
    <3> QED
      BY <3>1 DEF EitherSigned, s
  <2>2. CASE r.raw = 0
    <3>1. Divide(l, r) = Make(0, w, s)
      BY <2>2 DEF Divide, w, s
    <3>2. Number(Divide(l, r)) = 0
      BY <1>1, <3>1, ZeroFits
    <3> QED
      BY <1>4, <2>2, <3>2 DEF y
  <2>3. CASE r.raw # 0
    <3> DEFINE n == l.raw \div r.raw
    <3>1. Divide(l, r) = Make(n, w, no)
      BY <1>6, <2>1, <2>3 DEF Divide, w
    <3>2. n \in 0 .. l.raw /\ TruncDiv(x, y) = n /\ y # 0
      <4> DEFINE a == IF x < 0 THEN -x ELSE x
                 b == IF y < 0 THEN -y ELSE y
      <4>1. y # 0 /\ ~(x < 0) /\ ~(y < 0)
        BY <1>1, <1>2, <1>3, <1>4, <1>6, <2>3
      <4>2. a = l.raw /\ b = r.raw
        BY <1>2, <1>3, <1>6, <4>1
      <4>3. a \div b \in 0 .. a /\ TruncDiv(x, y) = IF (x < 0) # (y < 0) THEN -(a \div b) ELSE a \div b
        BY <1>2, <1>3, <4>1, Truncated
      <4>4. (x < 0) = (y < 0)
        BY <4>1
      <4> HIDE DEF a, b
      <4> QED
        BY <4>1, <4>2, <4>3, <4>4
    <3>3. n \in Int /\ Fits(n, w, no) /\ no \in BOOLEAN
      <4> DEFINE M == 2^w
      <4>1. Fits(n, w, no) <=> n \in 0 .. M - 1
        BY DEF Fits
      <4>2. M \in Nat /\ l.raw \in 0 .. M - 1
        BY <1>1, PowerOfTwo
      <4> HIDE DEF n, M
      <4>3. n \in 0 .. M - 1 /\ n \in Int
        BY <3>2, <4>2
      <4>4. Fits(n, w, no)
        BY <4>1, <4>3, Zenon
      <4> QED
        BY <4>3, <4>4
    <3> HIDE DEF n, no
    <3>4. Number(Divide(l, r)) = n
      BY <1>1, <3>1, <3>3, NumberOfMake
    <3> QED
      BY <3>2, <3>4 DEF x, y
  <2> QED
    BY <2>2, <2>3
<1> QED
  BY <1>1, <1>5, <1>6

LEMMA RemaindersOfNumbers ==
  ASSUME NEW l, NEW r, Held(l), Held(r), l.isSigned = r.isSigned,
         l.isSigned \/ (l.raw < 2^(HostWidth - 1) /\ r.raw < 2^(HostWidth - 1))
  PROVE  Number(Remainder(l, r)) = IF Number(r) = 0 THEN 0 ELSE TruncRem(Number(l), Number(r))
<1> DEFINE w == MinW(l, r)
           s == l.isSigned
           x == Number(l)
           y == Number(r)
           n == TruncRem(x, y)
<1>1. s \in BOOLEAN /\ l.width \in Nat \ {0}
  BY HeldFields
<1>2. r.width \in Nat \ {0} /\ r.raw \in Nat
  BY HeldFields
<1>3. w \in 1 .. HostWidth /\ w \in {l.width, r.width}
  BY <1>1, <1>2, WiderType DEF MinW, Smaller
<1>4. x \in Int /\ Fits(x, l.width, s) /\ Value(l) = x
  BY NumberOfHeld, ValueIsNumber
<1>5. y \in Int /\ Fits(y, r.width, s) /\ Value(r) = y /\ (~s => y = r.raw)
  BY NumberOfHeld, ValueIsNumber
<1>6. y = 0 <=> r.raw = 0
  <2>1. r.raw # 0 => Value(r) # 0
    BY ProperValue DEF Held
  <2>2. r.raw = 0 => y = 0
    <3>1. r.raw = 0 => Number(r) = 0
      <4>1. 2^(r.width - 1) \in Nat \ {0}
        BY <1>2, FitsBelow
      <4> QED
        BY <4>1 DEF Number
    <3> QED
      BY <3>1
  <2> QED
    BY <1>5, <2>1, <2>2
<1>7. Remainder(l, r) = Make(IF r.raw = 0 THEN 0 ELSE n, w, s)
  BY <1>1, <1>4, <1>5 DEF Remainder, EitherSigned
<1> HIDE DEF w, s, x, y
<1>8. CASE r.raw = 0
  <2>1. Remainder(l, r) = Make(0, w, s)
    BY <1>7, <1>8
  <2>2. Number(Remainder(l, r)) = 0
    BY <1>1, <1>3, <2>1, ZeroFits
  <2> QED
    BY <1>6, <1>8, <2>2 DEF y
<1>9. CASE r.raw # 0
  <2>1. y # 0 /\ Remainder(l, r) = Make(n, w, s)
    BY <1>6, <1>7, <1>9
  <2>2. n \in Int /\ Fits(n, l.width, s) /\ Fits(n, r.width, s)
    BY <1>1, <1>2, <1>4, <1>5, <2>1, RemainderFits
  <2>3. Fits(n, w, s)
    BY <1>3, <2>2
  <2> HIDE DEF n
  <2>4. Number(Remainder(l, r)) = n
    BY <1>1, <1>3, <2>1, <2>2, <2>3, NumberOfMake
  <2> QED
    BY <2>1, <2>4 DEF n, x, y
<1> QED
  BY <1>8, <1>9

-----------------------------------------------------------------------------
(***************************************************************************)
(* Shifts.                                                                 *)
(***************************************************************************)
LEMMA WholeAmount ==
  ASSUME NEW r, Held(r), Number(r) >= 0, r.raw < 2^UintWidth
  PROVE  Amount(r) = r.raw /\ Number(r) = r.raw /\ r.raw \in Nat
<1> DEFINE U == 2^UintWidth
           k == r.raw
<1>1. k \in Nat /\ Number(r) = k
  <2> DEFINE M == 2^r.width
             wraps == r.isSigned /\ k >= 2^(r.width - 1)
  <2>1. k \in Nat /\ k \in 0 .. M - 1 /\ M \in Nat
    BY HeldFields, PowerOfTwo
  <2>2. Number(r) = IF wraps THEN k - M ELSE k
    BY DEF Number
  <2> HIDE DEF M, wraps, k
  <2> QED
    BY <2>1, <2>2
<1>2. U \in Nat \ {0}
  BY WidthsAssumption, PowerOfTwo
<1>3. k < U
  OBVIOUS
<1>4. Amount(r) = k % U
  BY DEF Amount
<1> HIDE DEF U, k
<1>5. k % U = k
  BY <1>1, <1>2, <1>3
<1> QED
  BY <1>1, <1>4, <1>5 DEF k

LEMMA DividedBetween ==
  ASSUME NEW x \in Int, NEW p \in Nat \ {0}
  PROVE  /\ x \div p \in Int
         /\ 0 <= x => x \div p \in 0 .. x
         /\ x < 0 => x \div p \in x .. -1
<1> DEFINE q == x \div p
           r == x % p
           b == p * q
<1>1. x = b + r /\ q \in Int /\ r \in 0 .. p - 1
  BY Quotient
<1> HIDE DEF q, r
<1>2. CASE 0 <= x
  <2>1. q \in Nat
    <3>1. SUFFICES ASSUME q <= -1 PROVE FALSE
      BY <1>1
    <3>2. -1 - q \in Nat /\ p * (-1 - q) \in Nat /\ p * (-1 - q) = -p - p * q
      BY <1>1, <3>1
    <3> QED
      BY <1>1, <1>2, <3>2
  <2>2. (p - 1) * q \in Nat /\ (p - 1) * q = p * q - q /\ p * q \in Nat
    BY <2>1
  <2> QED
    BY <1>1, <1>2, <2>1, <2>2 DEF q
<1>3. CASE x < 0
  <2>1. q <= -1
    <3>1. SUFFICES ASSUME q \in Nat PROVE FALSE
      BY <1>1
    <3>2. p * q \in Nat
      BY <3>1
    <3> QED
      BY <1>1, <1>3, <3>2
  <2>2. -1 - q \in Nat /\ p - 1 \in Nat
    BY <1>1, <2>1
  <2>3. (p - 1) * (-1 - q) \in Nat
    BY <2>2
  <2>4. (p - 1) * (-1 - q) = (1 - p) + (q - p * q) /\ p * q \in Int
    BY <1>1
  <2>5. x <= q
    BY <1>1, <2>3, <2>4
  <2> QED
    BY <1>1, <1>3, <2>1, <2>5 DEF q
<1> QED
  BY <1>1, <1>2, <1>3 DEF q

\* Whatever lies between a number of a type and zero, or minus one, is one.
LEMMA BetweenFits ==
  ASSUME NEW w \in Nat \ {0}, NEW s \in BOOLEAN, NEW x \in Int, Fits(x, w, s), NEW n \in Int,
         0 <= x => n \in 0 .. x,
         x < 0 => n \in x .. -1
  PROVE  Fits(n, w, s)
<1> DEFINE H == 2^(w - 1)
           M == 2^w
<1>1. H \in Nat \ {0} /\ M = 2 * H /\ (Fits(x, w, s) <=> IF s THEN x \in -H .. H - 1 ELSE x \in 0 .. M - 1)
  BY FitsBelow
<1>2. Fits(n, w, s) <=> IF s THEN n \in -H .. H - 1 ELSE n \in 0 .. M - 1
  BY FitsBelow
<1> HIDE DEF H, M
<1> QED
  BY <1>1, <1>2

LEMMA ShiftsOfNumbers ==
  ASSUME NEW l, NEW r, Held(l), Held(r), Number(r) >= 0, r.raw < 2^UintWidth
  PROVE  LET x == Number(l)
             y == Number(r)
             t == TypeOfBits(l)
         IN  /\ Number(Shl(l, r)) = IF y >= l.width THEN 0 ELSE Wrap(x * 2^y, t)
             /\ Number(Shr(l, r)) = IF y < l.width THEN x \div 2^y ELSE IF x < 0 THEN -1 ELSE 0
<1> DEFINE w == l.width
           s == l.isSigned
           x == Number(l)
           k == r.raw
           P == 2^k
           M == 2^w
           t == TypeOfBits(l)
<1>1. w \in 1 .. HostWidth /\ w \in Nat \ {0} /\ s \in BOOLEAN /\ l.raw \in Nat
  BY HeldFields
<1>2. x \in Int /\ Fits(x, w, s) /\ (~s => x = l.raw) /\ (s => Value(l) = x) /\ x % M = l.raw
  BY NumberOfHeld, ValueIsNumber
<1>3. k \in Nat /\ Amount(r) = k /\ Number(r) = k
  BY WholeAmount
<1>4. P \in Nat \ {0} /\ M \in Nat \ {0}
  BY <1>1, <1>3, PowerOfTwo
<1>5. t = Type(w, s)
  BY DEF TypeOfBits
<1>6. Shl(l, r) = Make(IF k >= w THEN 0 ELSE l.raw * P, w, s)
  BY <1>3 DEF Shl
<1>7. Shr(l, r) = Make(IF k >= w THEN (IF x < 0 THEN -1 ELSE 0) ELSE x \div P, w, s)
  <2>1. CASE s
    BY <1>2, <1>3, <2>1 DEF Shr
  <2>2. CASE ~s
    <3>1. ~(x < 0)
      BY <1>1, <1>2, <2>2
    <3> QED
      BY <1>2, <1>3, <2>2, <3>1 DEF Shr
  <2> QED
    BY <1>1, <2>1, <2>2
<1> HIDE DEF w, s, x, k, t
<1>8. Number(Shl(l, r)) = IF k >= w THEN 0 ELSE Wrap(x * P, t)
  <2>1. CASE k >= w
    <3>1. Shl(l, r) = Make(0, w, s)
      BY <1>6, <2>1
    <3> QED
      BY <1>1, <2>1, <3>1, ZeroFits
  <2>2. CASE ~(k >= w)
    <3> DEFINE n == l.raw * P
               m == x * P
               q == (x \div M) * P
    <3>1. x = M * (x \div M) + l.raw /\ x \div M \in Int
      BY <1>2, <1>4, Quotient
    <3>2. n \in Int /\ m \in Int /\ q \in Int
      BY <1>1, <1>2, <1>4, <3>1
    <3>3. m = M * q + n
      <4>1. \A a \in Int : (M * a + l.raw) * P = M * (a * P) + l.raw * P
        <5> HIDE DEF P, M
        <5> QED
          BY <1>1, <1>4
      <4> DEFINE a == x \div M
      <4>2. a \in Int /\ x = M * a + l.raw /\ q = a * P
        BY <3>1
      <4> HIDE DEF a, P, M, q
      <4> QED
        BY <4>1, <4>2
    <3>4. Shl(l, r) = Make(n, w, s)
      BY <1>6, <2>2
    <3> HIDE DEF n, m, q
    <3>5. m % M = n % M
      BY <1>4, <3>2, <3>3, SameResidue
    <3>6. t.width = w
      BY <1>5 DEF Type
    <3>7. Wrap(m, t) = Wrap(n, t)
      BY <3>2, <3>5, <3>6, WrapAgrees
    <3>8. Number(Shl(l, r)) = Wrap(n, t)
      BY <1>1, <1>5, <3>2, <3>4, NumberOfMake
    <3> QED
      BY <2>2, <3>7, <3>8 DEF m
  <2> QED
    BY <2>1, <2>2
<1>9. Number(Shr(l, r)) = IF k < w THEN x \div P ELSE IF x < 0 THEN -1 ELSE 0
  <2> DEFINE n == IF k < w THEN x \div P ELSE IF x < 0 THEN -1 ELSE 0
  <2>1. n \in Int /\ (0 <= x => n \in 0 .. x) /\ (x < 0 => n \in x .. -1)
    <3>1. x \div P \in Int /\ (0 <= x => x \div P \in 0 .. x) /\ (x < 0 => x \div P \in x .. -1)
      BY <1>2, <1>4, DividedBetween
    <3> DEFINE d == x \div P
    <3> HIDE DEF d
    <3>2. n = IF k < w THEN d ELSE IF x < 0 THEN -1 ELSE 0
      BY DEF d
    <3>3. d \in Int /\ (0 <= x => d \in 0 .. x) /\ (x < 0 => d \in x .. -1)
      BY <3>1 DEF d
    <3> HIDE DEF n
    <3> QED
      BY <1>2, <3>2, <3>3
  <2>2. Shr(l, r) = Make(n, w, s)
    BY <1>1, <1>3, <1>7
  <2> HIDE DEF n
  <2>3. Fits(n, w, s)
    BY <1>1, <1>2, <2>1, BetweenFits
  <2>4. Number(Shr(l, r)) = n
    BY <1>1, <2>1, <2>2, <2>3, NumberOfMake
  <2> QED
    BY <2>4 DEF n
<1> QED
  BY <1>3, <1>8, <1>9 DEF w, x, k, t

-----------------------------------------------------------------------------
(***************************************************************************)
(* Comparisons, the unary operators, casts and the conditional.            *)
(***************************************************************************)
LEMMA BitNumber ==
  ASSUME NEW n \in {0, 1}
  PROVE  Number(Make(n, 1, FALSE)) = n
<1> DEFINE w == 1
           s == FALSE
<1>1. w \in 1 .. HostWidth /\ w \in Nat \ {0} /\ w - 1 = 0 /\ s \in BOOLEAN /\ n \in Int
  BY WidthsAssumption
<1>2. 2^w = 2
  <2>1. 2^w = 2 * 2^(w - 1)
    BY <1>1, PowerDoubles
  <2> HIDE DEF w
  <2> QED
    BY <1>1, <2>1, PowerZero
<1>3. Fits(n, w, s)
  BY <1>2 DEF Fits
<1> HIDE DEF w, s
<1>4. Number(Make(n, w, s)) = n
  BY <1>1, <1>3, NumberOfMake
<1> QED
  BY <1>4 DEF w, s

LEMMA TruthNumber ==
  ASSUME NEW p
  PROVE  Number(Truth(p)) = IF p THEN 1 ELSE 0
<1> DEFINE n == IF p THEN 1 ELSE 0
<1>1. n \in {0, 1}
  OBVIOUS
<1>2. Truth(p) = Make(n, 1, FALSE)
  BY DEF Truth
<1> HIDE DEF n
<1>3. Number(Truth(p)) = n
  BY <1>1, <1>2, BitNumber
<1> QED
  BY <1>3 DEF n

LEMMA ComparedNumbers ==
  ASSUME NEW op, NEW l, NEW r, Held(l), Held(r), l.isSigned = r.isSigned
  PROVE  Number(Compare(l, r, op)) = IF Holds(op, Number(l), Number(r)) THEN 1 ELSE 0
<1> DEFINE x == IF l.isSigned THEN Value(l) ELSE l.raw
           y == IF l.isSigned THEN Value(r) ELSE r.raw
           n == Flag(Holds(op, x, y))
<1>1. l.isSigned \in BOOLEAN
  BY HeldFields
<1>2. x = Number(l)
  BY <1>1, NumberOfHeld, ValueIsNumber
<1>3. y = Number(r)
  BY <1>1, NumberOfHeld, ValueIsNumber
<1>4. Compare(l, r, op) = Make(n, 1, FALSE)
  BY Zenon DEF Compare, Holds
<1>5. n \in {0, 1}
  BY DEF Flag
<1> HIDE DEF n
<1>6. Number(Compare(l, r, op)) = n
  BY <1>4, <1>5, BitNumber
<1> HIDE DEF x, y
<1> QED
  BY <1>2, <1>3, <1>6, Zenon DEF n, Flag

LEMMA ZeroNumber ==
  ASSUME NEW v, Held(v)
  PROVE  v.raw = 0 <=> Number(v) = 0
<1> DEFINE M == 2^v.width
           H == 2^(v.width - 1)
           r == v.raw
<1>1. v.width \in Nat \ {0} /\ r \in 0 .. M - 1 /\ r \in Nat /\ v.isSigned \in BOOLEAN
  BY HeldFields
<1>2. H \in Nat \ {0} /\ M = 2 * H
  BY <1>1, FitsBelow
<1>3. Number(v) = IF v.isSigned /\ r >= H THEN r - M ELSE r
  BY DEF Number
<1> HIDE DEF M, H, r
<1>4. r = 0 <=> Number(v) = 0
  BY <1>1, <1>2, <1>3
<1> QED
  BY <1>4 DEF r

LEMMA ComplementOfNumber ==
  ASSUME NEW v, Held(v)
  PROVE  Number(BitNot(v)) = Wrap(-1 - Number(v), TypeOfBits(v))
<1> DEFINE w == v.width
           s == v.isSigned
           x == Number(v)
           r == v.raw
           M == 2^w
           q == x \div M
           n == -1 - r
           m == -1 - x
           t == TypeOfBits(v)
<1>1. w \in 1 .. HostWidth /\ w \in Nat \ {0} /\ s \in BOOLEAN /\ r \in Nat
  BY HeldFields
<1>2. x \in Int /\ x % M = r
  BY NumberOfHeld
<1>3. M \in Nat \ {0}
  BY <1>1, PowerOfTwo
<1>4. t = Type(w, s) /\ t.width = w
  BY DEF TypeOfBits, Type
<1>5. x = M * q + r /\ q \in Int
  BY <1>2, <1>3, Quotient
<1>6. BitNot(v) = Make(n, w, s)
  BY DEF BitNot
<1> HIDE DEF w, s, x, r, M, q, t
<1>7. n \in Int /\ m \in Int /\ n = M * q + m
  BY <1>1, <1>2, <1>3, <1>5
<1> HIDE DEF n, m
<1>8. n % M = m % M
  BY <1>3, <1>5, <1>7, SameResidue
<1>9. Wrap(n, t) = Wrap(m, t)
  BY <1>4, <1>7, <1>8, WrapAgrees DEF M
<1>10. Number(BitNot(v)) = Wrap(n, t)
  BY <1>1, <1>4, <1>6, <1>7, NumberOfMake
<1> QED
  BY <1>9, <1>10 DEF m, x, t

LEMMA CastOfNumber ==
  ASSUME NEW v, Held(v), NEW to, to.width \in 1 .. HostWidth, to.isSigned \in BOOLEAN,
         to = Type(to.width, to.isSigned)
  PROVE  Number(CastTo(v, to)) = Wrap(Number(v), to)
<1> DEFINE w == to.width
           s == to.isSigned
           n == Value(v)
           m == Number(v)
<1>1. n \in Int
  BY HeldFields
<1>2. m \in Int /\ n % 2^w = m % 2^w
  BY NumberOfHeld, ValueIsNumber
<1>3. CastTo(v, to) = Make(n, w, s)
  BY DEF CastTo
<1> HIDE DEF n, m
<1>4. Number(CastTo(v, to)) = Wrap(n, to)
  BY <1>1, <1>3, NumberOfMake
<1>5. Wrap(n, to) = Wrap(m, to)
  BY <1>1, <1>2, WrapAgrees
<1> QED
  BY <1>4, <1>5 DEF m

LEMMA SelectedNumber ==
  ASSUME NEW c, NEW t, NEW f, Held(t), Held(f), t.isSigned = f.isSigned
  PROVE  Number(Select(c, t, f, TernaryRule(TypeOfBits(t), TypeOfBits(f))))
         = IF c.raw # 0 THEN Number(t) ELSE Number(f)
<1> DEFINE rule == TernaryRule(TypeOfBits(t), TypeOfBits(f))
           w == MaxW(t, f)
           arm == IF c.raw # 0 THEN t ELSE f
           s == t.isSigned
           n == Number(arm)
<1>1. w \in 1 .. HostWidth /\ Wider(TypeOfBits(t), TypeOfBits(f)) = w /\ t.width <= w /\ f.width <= w
  BY WiderType
<1>2. rule = Type(w, s) /\ rule.width = w /\ rule.isSigned = s
  BY <1>1 DEF TernaryRule, TypeOfBits, Type
<1>3. s \in BOOLEAN
  BY HeldFields
<1>4. Held(arm) /\ arm.isSigned = s /\ arm.width <= w
  BY <1>1
<1>5. Select(c, t, f, rule) = CastTo(arm, rule)
  BY DEF Select
<1>6. n = IF c.raw # 0 THEN Number(t) ELSE Number(f)
  OBVIOUS
<1> HIDE DEF rule, w, arm, s
<1>7. n \in Int /\ Fits(n, arm.width, s) /\ arm.width \in Nat \ {0}
  BY <1>4, NumberOfHeld, HeldFields
<1>8. w \in Nat \ {0}
  BY <1>1, WidthsAssumption
<1>9. Fits(n, w, s)
  <2> HIDE DEF n
  <2> QED
    BY <1>3, <1>4, <1>7, <1>8, WiderFits
<1>10. rule = Type(rule.width, rule.isSigned)
  BY <1>2
<1>11. Number(CastTo(arm, rule)) = Wrap(n, rule)
  BY <1>1, <1>2, <1>3, <1>4, <1>10, CastOfNumber
<1> HIDE DEF n
<1>12. Wrap(n, rule) = n
  BY <1>2, <1>3, <1>7, <1>8, <1>9, WrapKeeps
<1> QED
  BY <1>5, <1>6, <1>11, <1>12 DEF rule

-----------------------------------------------------------------------------
(***************************************************************************)
(* The bitwise operators: the number the bits determine is the one that    *)
(* has them.                                                               *)
(***************************************************************************)
LEMMA BuiltBelow ==
  ASSUME NEW bit, NEW k \in Nat, \A i \in 0 .. k - 1 : bit[i] \in {0, 1},
         NEW f, Builds(f, bit, k)
  PROVE  \A n \in 0 .. k : f[n] \in 0 .. 2^n - 1
<1> DEFINE T == {m \in 0 .. k : f[m] \notin 0 .. 2^m - 1}
<1>1. CASE T = {}
  BY <1>1
<1>2. CASE T # {}
  <2>1. PICK m \in T : \A y \in T : m <= y
    <3>1. T \subseteq Nat
      OBVIOUS
    <3> HIDE DEF T
    <3> QED
      BY <1>2, <3>1, LeastNumber
  <2>2. f[0] \in 0 .. 2^0 - 1
    <3>1. f[0] = 0
      BY DEF Builds
    <3> QED
      BY <3>1, PowerZero
  <2>3. m # 0 /\ m \in 0 .. k
    BY <2>1, <2>2
  <2>4. f[m] = f[m - 1] + bit[m - 1] * 2^(m - 1)
    BY <2>3 DEF Builds
  <2>5. m - 1 \in 0 .. k /\ m - 1 \in 0 .. k - 1 /\ m - 1 \notin T /\ m - 1 \in Nat /\ m \in Nat \ {0}
    BY <2>1, <2>3
  <2>6. 2^m = 2 * 2^(m - 1)
    BY <2>5, PowerDoubles
  <2>7. 2^(m - 1) \in Nat
    BY <2>5, PowerOfTwo
  <2>8. f[m - 1] \in 0 .. 2^(m - 1) - 1 /\ bit[m - 1] \in {0, 1}
    BY <2>5
  <2> DEFINE H == 2^(m - 1)
             M == 2^m
             g == f[m - 1]
             b == bit[m - 1]
  <2>9. H \in Nat /\ M = 2 * H /\ g \in 0 .. H - 1 /\ b \in {0, 1} /\ f[m] = g + b * H
    BY <2>4, <2>6, <2>7, <2>8
  <2> HIDE DEF H, M, g, b
  <2>10. f[m] \in 0 .. M - 1
    <3>1. CASE b = 0
      BY <2>9, <3>1
    <3>2. CASE b = 1
      BY <2>9, <3>2
    <3> QED
      BY <2>9, <3>1, <3>2
  <2> QED
    BY <2>1, <2>10 DEF M
<1> QED
  BY <1>1, <1>2

LEMMA BitOfWord ==
  ASSUME NEW bit, \A i \in 0 .. HostWidth - 1 : bit[i] \in {0, 1}, NEW i \in 0 .. HostWidth - 1
  PROVE  Bit(FromBits(bit), i) = bit[i]
<1>1. HostWidth \in Nat /\ HostWidth \in i + 1 .. HostWidth /\ i \in Nat /\ i + 1 \in Nat
      /\ i + 1 \in 0 .. HostWidth /\ i \in 0 .. HostWidth /\ i < i + 1 /\ (i + 1) - 1 = i
  BY WidthsAssumption
<1>2. \A j \in 0 .. HostWidth - 1 : bit[j] \in Nat
  OBVIOUS
<1>3. PICK f : Builds(f, bit, HostWidth) /\ FromBits(bit) = f[HostWidth]
  BY BuiltWord
<1>4. f[HostWidth] % 2^(i + 1) = f[i + 1] % 2^(i + 1)
  BY <1>1, <1>2, <1>3, BuiltLow
<1>5. f[i] \in 0 .. 2^i - 1
  BY <1>1, <1>3, BuiltBelow
<1>6. f[i + 1] = f[i] + bit[i] * 2^i
  BY <1>1, <1>3 DEF Builds
<1>7. f[HostWidth] \in Int /\ f[i + 1] \in Int
  BY <1>1, <1>2, <1>3, BuiltIsNatural
<1>8. Bit(f[HostWidth] % 2^(i + 1), i) = Bit(f[HostWidth], i)
  BY <1>1, <1>7, BitKept
<1>9. Bit(f[i + 1] % 2^(i + 1), i) = Bit(f[i + 1], i)
  BY <1>1, <1>7, BitKept
<1> DEFINE H == 2^i
           g == f[i]
           b == bit[i]
<1>10. H \in Nat \ {0}
  BY <1>1, PowerOfTwo
<1>11. g \in 0 .. H - 1 /\ b \in {0, 1} /\ f[i + 1] = g + b * H
  BY <1>5, <1>6
<1>12. Bit(f[i + 1], i) = (f[i + 1] \div H) % 2
  BY DEF Bit
<1> HIDE DEF H, g, b
<1>13. f[i + 1] = H * b + g /\ b \in Int
  BY <1>10, <1>11
<1>14. f[i + 1] \div H = b
  BY <1>10, <1>11, <1>13, QuotientIs
<1>15. b % 2 = b
  BY <1>11
<1> QED
  BY <1>3, <1>4, <1>8, <1>9, <1>12, <1>14, <1>15 DEF b

\* Two numbers with the same low bits.
LEMMA SameBitsSameResidue ==
  ASSUME NEW x \in Int, NEW y \in Int, NEW w \in 0 .. HostWidth,
         \A i \in 0 .. w - 1 : Bit(x, i) = Bit(y, i)
  PROVE  x % 2^w = y % 2^w
<1> DEFINE p == BitsOfNumber(x)
           q == BitsOfNumber(y)
<1>1. \A i \in 0 .. HostWidth - 1 : p[i] = Bit(x, i) /\ q[i] = Bit(y, i)
  BY DEF BitsOfNumber
<1>2. \A i \in 0 .. w - 1 : i \in 0 .. HostWidth - 1
  BY WidthsAssumption
<1>3. FromBits(p) % 2^w = x % 2^w
  BY Recomposed
<1>4. FromBits(q) % 2^w = y % 2^w
  BY Recomposed
<1> HIDE DEF p, q
<1>5. \A i \in 0 .. HostWidth - 1 : p[i] \in Nat /\ q[i] \in Nat
  <2> TAKE i \in 0 .. HostWidth - 1
  <2>1. i \in Nat
    BY WidthsAssumption
  <2>2. Bit(x, i) \in {0, 1}
    BY <2>1, BitIs
  <2>3. Bit(y, i) \in {0, 1}
    BY <2>1, BitIs
  <2> QED
    BY <1>1, <2>2, <2>3
<1>6. \A i \in 0 .. w - 1 : p[i] = q[i]
  BY <1>1, <1>2
<1>7. FromBits(p) % 2^w = FromBits(q) % 2^w
  BY <1>5, <1>6, SameLowBits
<1> QED
  BY <1>3, <1>4, <1>7

LEMMA SameResidueSameBit ==
  ASSUME NEW x \in Int, NEW y \in Int, NEW w \in Nat, x % 2^w = y % 2^w,
         NEW i \in Nat, i < w
  PROVE  Bit(x, i) = Bit(y, i)
<1>1. Bit(x % 2^w, i) = Bit(x, i)
  BY BitKept
<1>2. Bit(y % 2^w, i) = Bit(y, i)
  BY BitKept
<1> QED
  BY <1>1, <1>2

\* A bit of the result, from the bits of the operands.
LEMMA JoinedBits ==
  ASSUME NEW op \in Bitwises, NEW p \in {0, 1}, NEW q \in {0, 1}, NEW r \in BOOLEAN
  PROVE  (r <=> CASE op = "&" -> p = 1 /\ q = 1 [] op = "|" -> p = 1 \/ q = 1
                  [] op = "^" -> (p = 1) # (q = 1))
         <=> (r <=> <<p, q>> \in OnesOf(op))
<1> DEFINE c == CASE op = "&" -> p = 1 /\ q = 1 [] op = "|" -> p = 1 \/ q = 1
                  [] op = "^" -> (p = 1) # (q = 1)
<1> SUFFICES (r <=> c) <=> (r <=> <<p, q>> \in OnesOf(op))
  OBVIOUS
<1>1. CASE op = "&"
  <2>1. c <=> p = 1 /\ q = 1
    BY <1>1, Zenon
  <2>2. OnesOf(op) = {<<1, 1>>}
    BY <1>1, Zenon DEF OnesOf
  <2>3. <<p, q>> \in OnesOf(op) <=> p = 1 /\ q = 1
    BY <2>2
  <2> HIDE DEF c
  <2> QED
    BY <2>1, <2>3, Zenon
<1>2. CASE op = "|"
  <2>1. c <=> p = 1 \/ q = 1
    BY <1>2
  <2>2. OnesOf(op) = {<<0, 1>>, <<1, 0>>, <<1, 1>>}
    BY <1>2 DEF OnesOf
  <2>3. <<p, q>> \in OnesOf(op) <=> p = 1 \/ q = 1
    BY <2>2
  <2> HIDE DEF c
  <2> QED
    BY <2>1, <2>3, Zenon
<1>3. CASE op = "^"
  <2>1. c <=> (p = 1) # (q = 1)
    BY <1>3
  <2>2. OnesOf(op) = {<<0, 1>>, <<1, 0>>}
    BY <1>3 DEF OnesOf
  <2>3. <<p, q>> \in OnesOf(op) <=> (p = 1) # (q = 1)
    BY <2>2
  <2> HIDE DEF c
  <2> QED
    BY <2>1, <2>3, Zenon
<1> HIDE DEF c
<1> QED
  BY <1>1, <1>2, <1>3 DEF Bitwises

LEMMA BitwiseNumberBits ==
  ASSUME NEW op \in Bitwises, NEW l, NEW r, Held(l), Held(r), NEW v,
         v = Bitwise2(l, r, OnesOf(op)), Held(v), v.width = MaxW(l, r),
         NEW i \in 0 .. MaxW(l, r) - 1
  PROVE  Bit(Number(v), i) = 1 <=> <<Bit(Number(l), i), Bit(Number(r), i)>> \in OnesOf(op)
<1> DEFINE w == MaxW(l, r)
           ones == OnesOf(op)
           x == Value(l) % 2^HostWidth
           y == Value(r) % 2^HostWidth
           bit == BitsOfPair(x, y, ones)
           word == FromBits(bit)
<1>1. w \in 1 .. HostWidth
  BY WiderType
<1>2. w \in Nat /\ i \in Nat /\ i < w /\ i \in 0 .. HostWidth - 1 /\ HostWidth \in Nat
      /\ i < HostWidth /\ HostWidth \in 1 .. HostWidth
  <2>1. i \in 0 .. w - 1
    OBVIOUS
  <2> HIDE DEF w
  <2> QED
    BY <1>1, <2>1, WidthsAssumption
<1>3. v = Make(word, w, EitherSigned(l, r))
  BY DEF Bitwise2, BitsOfPair
<1>4. word \in Int
  BY PairIsNatural
<1>5. v.raw = word % 2^w
  <2> HIDE DEF word, w
  <2>1. w \in 0 .. HostWidth
    BY <1>1
  <2> QED
    BY <1>3, <1>4, <2>1, MakeFields
<1>6. Number(v) \in Int /\ Number(v) % 2^w = v.raw
  BY NumberOfHeld
<1>7. Bit(Number(v), i) = Bit(word, i)
  <2> DEFINE n == Number(v)
  <2>1. n \in Int /\ n % 2^w = word % 2^w
    BY <1>5, <1>6
  <2> HIDE DEF word, w, n
  <2>2. Bit(n, i) = Bit(word, i)
    BY <1>2, <1>4, <2>1, SameResidueSameBit
  <2> QED
    BY <2>2 DEF n
<1>8. Bit(word, i) = bit[i]
  <2>1. \A j \in 0 .. HostWidth - 1 : bit[j] \in {0, 1}
    BY DEF BitsOfPair, Flag
  <2> HIDE DEF bit
  <2> QED
    BY <1>2, <2>1, BitOfWord
<1>9. bit[i] = Flag(<<Bit(x, i), Bit(y, i)>> \in ones)
  BY <1>2 DEF BitsOfPair
<1>10. ASSUME NEW u, Held(u)
       PROVE  Bit(Value(u) % 2^HostWidth, i) = Bit(Number(u), i)
  <2>1. Value(u) \in Int
    BY <1>10, HeldFields
  <2>2. Number(u) \in Int
    BY <1>10, NumberOfHeld
  <2>3. Bit(Value(u) % 2^HostWidth, i) = Bit(Value(u), i)
    BY <1>2, <2>1, BitKept
  <2>4. Value(u) % 2^HostWidth = Number(u) % 2^HostWidth
    BY <1>2, <1>10, ValueIsNumber
  <2>5. Bit(Value(u), i) = Bit(Number(u), i)
    BY <1>2, <2>1, <2>2, <2>4, SameResidueSameBit
  <2> QED
    BY <2>3, <2>5
<1>11. Bit(x, i) = Bit(Number(l), i)
  BY <1>10
<1>12. Bit(y, i) = Bit(Number(r), i)
  BY <1>10
<1> HIDE DEF x, y, bit, word, ones
<1>13. Bit(Number(v), i) = Flag(<<Bit(Number(l), i), Bit(Number(r), i)>> \in ones)
  BY <1>7, <1>8, <1>9, <1>11, <1>12
<1> DEFINE joined == <<Bit(Number(l), i), Bit(Number(r), i)>> \in ones
<1>14. Flag(joined) = 1 <=> joined
  BY DEF Flag
<1>15. Bit(Number(v), i) = 1 <=> joined
  BY <1>13, <1>14
<1> QED
  BY <1>15 DEF ones

LEMMA BitwiseOfNumbers ==
  ASSUME NEW op \in Bitwises, NEW l, NEW r, Held(l), Held(r), l.isSigned = r.isSigned, NEW v,
         v = Bitwise2(l, r, OnesOf(op)), Held(v), v.width = MaxW(l, r), v.isSigned = l.isSigned
  PROVE  Number(v) = BitwiseExact(op, Number(l), Number(r), Type(MaxW(l, r), l.isSigned))
<1> DEFINE w == MaxW(l, r)
           s == l.isSigned
           t == Type(w, s)
           x == Number(l)
           y == Number(r)
           k == Number(v)
           M == 2^w
           H == 2^(w - 1)
           R == -H .. M - 1
           Joins(n, i) ==
             LET p == (x \div 2^i) % 2 = 1
                 q == (y \div 2^i) % 2 = 1
                 b == (n \div 2^i) % 2 = 1
             IN  b <=> CASE op = "&" -> p /\ q [] op = "|" -> p \/ q [] op = "^" -> p # q
           Joined(n) == n = Wrap(n, t) /\ \A i \in 0 .. w - 1 : Joins(n, i)
<1>1. w \in 1 .. HostWidth /\ w \in Nat \ {0} /\ w \in 0 .. HostWidth
  <2>1. w \in 1 .. HostWidth
    BY WiderType
  <2> HIDE DEF w
  <2> QED
    BY <2>1, WidthsAssumption
<1>2. s \in BOOLEAN
  BY HeldFields
<1>3. t.width = w /\ t.isSigned = s
  BY DEF Type
<1>4. BitwiseExact(op, x, y, t) = CHOOSE n \in R : Joined(n)
  BY <1>3 DEF BitwiseExact
<1>5. k \in Int /\ Fits(k, w, s)
  BY NumberOfHeld
<1>6. x \in Int /\ y \in Int
  BY NumberOfHeld
<1>7. M \in Nat \ {0} /\ H \in Nat \ {0} /\ M = 2 * H
      /\ (Fits(k, w, s) <=> IF s THEN k \in -H .. H - 1 ELSE k \in 0 .. M - 1)
  <2> HIDE DEF w, s, k
  <2> QED
    BY <1>1, <1>2, FitsBelow
<1>8. ASSUME NEW n \in Int, NEW i \in 0 .. w - 1
      PROVE  Joins(n, i) <=> (Bit(n, i) = 1 <=> <<Bit(x, i), Bit(y, i)>> \in OnesOf(op))
  <2> DEFINE p == Bit(x, i)
             q == Bit(y, i)
             b == Bit(n, i) = 1
             c == CASE op = "&" -> p = 1 /\ q = 1 [] op = "|" -> p = 1 \/ q = 1
                    [] op = "^" -> (p = 1) # (q = 1)
  <2>1. i \in Nat
    BY <1>1
  <2>2. p \in {0, 1}
    BY <1>6, <2>1, BitIs
  <2>3. q \in {0, 1}
    BY <1>6, <2>1, BitIs
  <2>4. Joins(n, i) <=> (b <=> c)
    BY Zenon DEF Bit
  <2>5. b \in BOOLEAN
    OBVIOUS
  <2> SUFFICES Joins(n, i) <=> (b <=> <<p, q>> \in OnesOf(op))
    OBVIOUS
  <2> HIDE DEF p, q, b, Joins
  <2>6. (b <=> c) <=> (b <=> <<p, q>> \in OnesOf(op))
    BY <2>2, <2>3, <2>5, JoinedBits
  <2> HIDE DEF c
  <2> QED
    BY <2>4, <2>6, Zenon
<1>9. k \in R
  <2> HIDE DEF M, H, w, s, k
  <2> QED
    BY <1>2, <1>5, <1>7
<1>10. Joined(k)
  <2>1. \A i \in 0 .. w - 1 : Bit(k, i) = 1 <=> <<Bit(x, i), Bit(y, i)>> \in OnesOf(op)
    BY BitwiseNumberBits
  <2>2. Wrap(k, t) = k
    <3> HIDE DEF k, w, s
    <3> QED
      BY <1>1, <1>2, <1>5, WrapKeeps
  <2> HIDE DEF Joins, k
  <2> QED
    BY <1>5, <1>8, <2>1, <2>2, Zenon
<1>11. ASSUME NEW n \in R, Joined(n) PROVE n = k
  <2>1. n \in Int
    <3> HIDE DEF M, H
    <3> QED
      BY <1>7
  <2>2. ASSUME NEW i \in 0 .. w - 1 PROVE Bit(n, i) = Bit(k, i)
    <3>1. Joins(n, i) /\ Joins(k, i)
      BY <1>10, <1>11
    <3> HIDE DEF Joins, k, x, y, w
    <3>2. i \in Nat
      BY <1>1
    <3>3. Bit(n, i) \in {0, 1}
      BY <2>1, <3>2, BitIs
    <3>4. Bit(k, i) \in {0, 1}
      BY <1>5, <3>2, BitIs
    <3>5. Bit(n, i) = 1 <=> <<Bit(x, i), Bit(y, i)>> \in OnesOf(op)
      BY <1>8, <2>1, <3>1, Zenon
    <3>6. Bit(k, i) = 1 <=> <<Bit(x, i), Bit(y, i)>> \in OnesOf(op)
      BY <1>5, <1>8, <3>1, Zenon
    <3>7. Bit(n, i) = 1 <=> Bit(k, i) = 1
      BY <3>5, <3>6, Zenon
    <3> QED
      BY <3>3, <3>4, <3>7
  <2>3. n = Wrap(n, t) /\ k = Wrap(k, t)
    BY <1>10, <1>11
  <2> HIDE DEF k, w, t, s
  <2>4. n % 2^w = k % 2^w
    BY <1>1, <1>5, <2>1, <2>2, SameBitsSameResidue
  <2>5. Wrap(n, t) = Wrap(k, t)
    BY <1>3, <1>5, <2>1, <2>4, WrapAgrees
  <2> QED
    BY <2>3, <2>5
<1> HIDE DEF Joined, R, k
<1>12. (CHOOSE n \in R : Joined(n)) = k
  BY <1>9, <1>10, <1>11, Zenon
<1> QED
  BY <1>4, <1>12 DEF k

-----------------------------------------------------------------------------
(***************************************************************************)
(* The operators of the language on the numbers of their operands.         *)
(***************************************************************************)
LEMMA ComparisonIsExact ==
  ASSUME NEW op \in Comparisons, NEW x, NEW y, NEW lt, NEW rt
  PROVE  ExactOf(op, x, y, lt, rt) = IF Holds(op, x, y) THEN 1 ELSE 0
<1>1. CASE op = "<"
  <2>1. ExactOf(op, x, y, lt, rt) = IF x < y THEN 1 ELSE 0
    BY <1>1 DEF ExactOf, Bitwises
  <2>2. Holds(op, x, y) <=> x < y
    BY <1>1 DEF Holds
  <2> QED
    BY <2>1, <2>2
<1>2. CASE op = "<="
  <2>1. ExactOf(op, x, y, lt, rt) = IF x <= y THEN 1 ELSE 0
    BY <1>2 DEF ExactOf, Bitwises
  <2>2. Holds(op, x, y) <=> x <= y
    BY <1>2 DEF Holds
  <2> QED
    BY <2>1, <2>2
<1>3. CASE op = ">"
  <2>1. ExactOf(op, x, y, lt, rt) = IF x > y THEN 1 ELSE 0
    BY <1>3 DEF ExactOf, Bitwises
  <2>2. Holds(op, x, y) <=> x > y
    BY <1>3 DEF Holds
  <2> QED
    BY <2>1, <2>2
<1>4. CASE op = ">="
  <2>1. ExactOf(op, x, y, lt, rt) = IF x >= y THEN 1 ELSE 0
    BY <1>4 DEF ExactOf, Bitwises
  <2>2. Holds(op, x, y) <=> x >= y
    BY <1>4 DEF Holds
  <2> QED
    BY <2>1, <2>2
<1>5. CASE op = "=="
  <2>1. ExactOf(op, x, y, lt, rt) = IF x = y THEN 1 ELSE 0
    BY <1>5 DEF ExactOf, Bitwises
  <2>2. Holds(op, x, y) <=> x = y
    BY <1>5 DEF Holds
  <2> QED
    BY <2>1, <2>2
<1>6. CASE op = "!="
  <2>1. ExactOf(op, x, y, lt, rt) = IF x # y THEN 1 ELSE 0
    BY <1>6 DEF ExactOf, Bitwises
  <2>2. Holds(op, x, y) <=> x # y
    BY <1>6 DEF Holds
  <2> QED
    BY <2>1, <2>2
<1> QED
  BY <1>1, <1>2, <1>3, <1>4, <1>5, <1>6 DEF Comparisons

NoGap(op, l, r) == GapOf(op, l, r) = ""

\* No operator the checker and the tables accept loses a bit the language
\* keeps, until a stage is known to differ (bits.cpp against LANGUAGE.md).
LEMMA BinaryIsExact ==
  ASSUME NEW op \in BinaryOps, NEW l, NEW r, Held(l), Held(r),
         Legal(op, TypeOfBits(l), TypeOfBits(r)), NoGap(op, l, r),
         Takes(op, TypeOfBits(l), TypeOfBits(r), Number(r))
  PROVE  Number(Apply(op, l, r))
         = ExactOf(op, Number(l), Number(r), TypeOfBits(l), TypeOfBits(r))
<1> DEFINE lt == TypeOfBits(l)
           rt == TypeOfBits(r)
           x == Number(l)
           y == Number(r)
           v == Apply(op, l, r)
           e == ExactOf(op, x, y, lt, rt)
<1>1. /\ lt.width = l.width /\ rt.width = r.width
      /\ lt.isSigned = l.isSigned /\ rt.isSigned = r.isSigned
  BY DEF TypeOfBits, Type
<1>2. Typed(op, lt, rt) /\ WidthRule(op, lt, rt).width <= HostWidth
  BY DEF Legal
<1>3. op \notin Shifts => l.isSigned = r.isSigned
  BY <1>1, <1>2 DEF Typed
<1>4. Wider(lt, rt) = MaxW(l, r)
  BY WiderType
<1>5. Held(v) /\ TypeOfBits(v) = WidthRule(op, lt, rt)
  BY BinaryEmitted DEF NoGap
<1> HIDE DEF lt, rt, x, y
<1>6. SUFFICES Number(v) = e
  BY DEF lt, rt, x, y
<1>7. CASE op = "+"
  <2>1. WidthRule(op, lt, rt).width = MaxW(l, r) + 1
    BY <1>4, <1>7 DEF WidthRule, Comparisons, Logicals, Bitwises, Shifts, Type
  <2>2. v = Add(l, r) /\ e = x + y
    BY <1>7 DEF Apply, Comparisons, ExactOf, Bitwises
  <2>3. l.isSigned = r.isSigned /\ MaxW(l, r) + 1 <= HostWidth
    BY <1>2, <1>3, <1>7, <2>1 DEF Shifts
  <2> HIDE DEF v, e
  <2>4. Number(Add(l, r)) = x + y
    BY <2>3, SumsOfNumbers DEF x, y
  <2> QED
    BY <2>2, <2>4
<1>8. CASE op = "-"
  <2>1. WidthRule(op, lt, rt).width = MaxW(l, r) + 1
    BY <1>4, <1>8 DEF WidthRule, Comparisons, Logicals, Bitwises, Shifts, Type
  <2>2. v = Sub(l, r) /\ e = x - y
    BY <1>8 DEF Apply, Comparisons, ExactOf, Bitwises
  <2>3. l.isSigned = r.isSigned /\ MaxW(l, r) + 1 <= HostWidth
    BY <1>2, <1>3, <1>8, <2>1 DEF Shifts
  <2> HIDE DEF v, e
  <2>4. Number(Sub(l, r)) = x - y
    BY <2>3, SumsOfNumbers DEF x, y
  <2> QED
    BY <2>2, <2>4
<1>9. CASE op = "*"
  <2>1. WidthRule(op, lt, rt).width = l.width + r.width
    BY <1>1, <1>9 DEF WidthRule, Comparisons, Logicals, Bitwises, Shifts, Type
  <2>2. v = Mul(l, r) /\ e = x * y
    BY <1>9 DEF Apply, Comparisons, ExactOf, Bitwises
  <2>3. l.isSigned = r.isSigned /\ l.width + r.width <= HostWidth
    BY <1>2, <1>3, <1>9, <2>1 DEF Shifts
  <2> HIDE DEF v, e
  <2>4. Number(Mul(l, r)) = x * y
    BY <2>3, ProductsOfNumbers DEF x, y
  <2> QED
    BY <2>2, <2>4
<1>10. CASE op = "/"
  <2>1. l.isSigned => WidthRule(op, lt, rt).width = l.width + 1
    BY <1>1, <1>10 DEF WidthRule, Comparisons, Logicals, Bitwises, Shifts, Type
  <2>2. v = Divide(l, r) /\ e = IF y = 0 THEN 0 ELSE TruncDiv(x, y)
    BY <1>10 DEF Apply, Comparisons, ExactOf, Bitwises
  <2>3. l.isSigned = r.isSigned /\ (l.isSigned => l.width + 1 <= HostWidth)
    BY <1>2, <1>3, <1>10, <2>1 DEF Shifts
  <2>4. ~(l.isSigned /\ r.raw = 0)
    BY <1>10 DEF NoGap, GapOf, Shifts
  <2> HIDE DEF v, e
  <2>5. Number(Divide(l, r)) = IF y = 0 THEN 0 ELSE TruncDiv(x, y)
    BY <2>3, <2>4, QuotientsOfNumbers DEF x, y
  <2> QED
    BY <2>2, <2>5
<1>11. CASE op = "%"
  <2>1. v = Remainder(l, r) /\ e = IF y = 0 THEN 0 ELSE TruncRem(x, y)
    BY <1>11 DEF Apply, Comparisons, ExactOf, Bitwises
  <2>2. l.isSigned = r.isSigned
    BY <1>3, <1>11 DEF Shifts
  <2> DEFINE big == Widest({l.raw, r.raw})
             T == 2^(HostWidth - 1)
  <2>3. l.isSigned \/ (l.raw < T /\ r.raw < T)
    <3>1. l.isSigned \/ ~(big >= T)
      BY <1>11 DEF NoGap, GapOf, Shifts
    <3>2. l.raw \in Nat /\ r.raw \in Nat
      BY HeldFields
    <3>3. big \in {l.raw, r.raw} /\ l.raw <= big /\ r.raw <= big
      BY <3>2, WidestOfTwo
    <3>4. T \in Nat
      <4>1. HostWidth - 1 \in Nat
        BY WidthsAssumption
      <4> QED
        BY <4>1, PowerOfTwo
    <3>5. /\ l.isSigned \/ ~(big >= T)
          /\ big \in {l.raw, r.raw} /\ l.raw <= big /\ r.raw <= big
          /\ l.raw \in Nat /\ r.raw \in Nat /\ T \in Nat
      BY <3>1, <3>2, <3>3, <3>4
    <3> HIDE DEF big, T
    <3> QED
      BY <3>5
  <2> HIDE DEF v, e
  <2>4. Number(Remainder(l, r)) = IF y = 0 THEN 0 ELSE TruncRem(x, y)
    BY <2>2, <2>3, RemaindersOfNumbers DEF x, y
  <2> QED
    BY <2>1, <2>4
<1>12. CASE op \in Shifts
  <2>1. r.raw < 2^UintWidth
    <3> DEFINE P == 2^UintWidth
    <3>1. ~(r.raw >= P)
      BY <1>12 DEF NoGap, GapOf
    <3>2. r.raw \in Nat
      BY HeldFields
    <3>3. P \in Nat
      BY PowerOfTwo, WidthsAssumption
    <3> HIDE DEF P
    <3>4. r.raw < P
      BY <3>1, <3>2, <3>3
    <3> QED
      BY <3>4 DEF P
  <2>2. Number(r) >= 0
    BY <1>12 DEF Takes
  <2>3. WidthRule(op, lt, rt) = lt
    BY <1>12 DEF WidthRule, Comparisons, Logicals, Bitwises, Shifts
  <2>4. /\ Number(Shl(l, r)) = IF y >= l.width THEN 0 ELSE Wrap(x * 2^y, lt)
        /\ Number(Shr(l, r)) = IF y < l.width THEN x \div 2^y ELSE IF x < 0 THEN -1 ELSE 0
    BY <2>1, <2>2, ShiftsOfNumbers DEF x, y, lt
  <2>5. CASE op = "<<"
    <3>1. v = Shl(l, r)
      BY <2>5 DEF Apply, Comparisons
    <3>2. e = IF y >= l.width THEN 0 ELSE Wrap(x * 2^y, lt)
      BY <1>1, <2>3, <2>5 DEF ExactOf, Bitwises
    <3> QED
      BY <2>4, <3>1, <3>2
  <2>6. CASE op = ">>"
    <3>1. v = Shr(l, r)
      BY <2>6 DEF Apply, Comparisons
    <3>2. e = IF y < l.width THEN x \div 2^y ELSE IF x < 0 THEN -1 ELSE 0
      BY <1>1, <2>6 DEF ExactOf, Bitwises
    <3> QED
      BY <2>4, <3>1, <3>2
  <2> QED
    BY <1>12, <2>5, <2>6 DEF Shifts
<1>13. CASE op \in Bitwises
  <2>1. WidthRule(op, lt, rt) = Type(MaxW(l, r), l.isSigned)
    BY <1>1, <1>4, <1>13 DEF WidthRule, Comparisons, Logicals, Bitwises, Shifts
  <2>2. e = BitwiseExact(op, x, y, WidthRule(op, lt, rt))
    BY <1>13 DEF ExactOf, Bitwises
  <2>3. v = Bitwise2(l, r, OnesOf(op))
    BY <1>13, BitwiseApplied
  <2>4. l.isSigned = r.isSigned
    BY <1>3, <1>13 DEF Shifts, Bitwises
  <2> HIDE DEF v, e
  <2>5. v.width = MaxW(l, r) /\ v.isSigned = l.isSigned
    BY <1>5, <2>1 DEF TypeOfBits, Type
  <2>6. Number(v) = BitwiseExact(op, x, y, Type(MaxW(l, r), l.isSigned))
    BY <1>5, <1>13, <2>3, <2>4, <2>5, BitwiseOfNumbers DEF x, y
  <2> QED
    BY <2>1, <2>2, <2>6
<1>14. CASE op \in Comparisons
  <2>1. v = Compare(l, r, op)
    BY <1>14 DEF Apply, Comparisons
  <2>2. l.isSigned = r.isSigned
    BY <1>3, <1>14 DEF Shifts, Comparisons
  <2>3. Number(Compare(l, r, op)) = IF Holds(op, x, y) THEN 1 ELSE 0
    BY <2>2, ComparedNumbers DEF x, y
  <2>4. e = IF Holds(op, x, y) THEN 1 ELSE 0
    BY <1>14, ComparisonIsExact
  <2> HIDE DEF v, e
  <2> QED
    BY <2>1, <2>3, <2>4
<1>15. CASE op \in Logicals
  <2>1. l.raw = 0 <=> x = 0
    BY ZeroNumber DEF x
  <2>2. r.raw = 0 <=> y = 0
    BY ZeroNumber DEF y
  <2>3. CASE op = "&&"
    <3>1. v = Truth(l.raw # 0 /\ r.raw # 0)
      BY <2>3 DEF Apply, Comparisons
    <3>2. e = IF x # 0 /\ y # 0 THEN 1 ELSE 0
      BY <2>3 DEF ExactOf, Bitwises
    <3> HIDE DEF v, e
    <3> DEFINE p == l.raw # 0 /\ r.raw # 0
    <3>3. Number(Truth(p)) = IF p THEN 1 ELSE 0
      BY TruthNumber
    <3> QED
      BY <2>1, <2>2, <3>1, <3>2, <3>3
  <2>4. CASE op = "||"
    <3>1. v = Truth(l.raw # 0 \/ r.raw # 0)
      BY <2>4 DEF Apply, Comparisons
    <3>2. e = IF x # 0 \/ y # 0 THEN 1 ELSE 0
      BY <2>4 DEF ExactOf, Bitwises
    <3> HIDE DEF v, e
    <3> DEFINE p == l.raw # 0 \/ r.raw # 0
    <3>3. Number(Truth(p)) = IF p THEN 1 ELSE 0
      BY TruthNumber
    <3> QED
      BY <2>1, <2>2, <3>1, <3>2, <3>3
  <2> QED
    BY <1>15, <2>3, <2>4 DEF Logicals
<1> QED
  BY <1>7, <1>8, <1>9, <1>10, <1>11, <1>12, <1>13, <1>14, <1>15 DEF BinaryOps

LEMMA UnaryIsExact ==
  ASSUME NEW op \in UnaryOps, NEW v, Held(v), UnaryRule(op, TypeOfBits(v)).width <= HostWidth
  PROVE  Number(ApplyUnary(op, v)) = ExactUnary(op, Number(v), TypeOfBits(v))
<1> DEFINE t == TypeOfBits(v)
           x == Number(v)
<1>1. t.width = v.width
  BY DEF TypeOfBits, Type
<1> HIDE DEF t, x
<1>2. SUFFICES Number(ApplyUnary(op, v)) = ExactUnary(op, x, t)
  BY DEF t, x
<1>3. CASE op = "-"
  <2>1. v.width + 1 <= HostWidth
    BY <1>1, <1>3 DEF UnaryRule, Type, t
  <2>2. Number(Neg(v)) = -x
    BY <2>1, NegationOfNumber DEF x
  <2>3. ApplyUnary(op, v) = Neg(v) /\ ExactUnary(op, x, t) = -x
    BY <1>3 DEF ApplyUnary, ExactUnary
  <2> QED
    BY <2>2, <2>3
<1>4. CASE op = "+"
  <2>1. ApplyUnary(op, v) = v /\ ExactUnary(op, x, t) = x
    BY <1>4 DEF ApplyUnary, ExactUnary
  <2> QED
    BY <2>1 DEF x
<1>5. CASE op = "~"
  <2>1. Number(BitNot(v)) = Wrap(-1 - x, t)
    BY ComplementOfNumber DEF x, t
  <2>2. ApplyUnary(op, v) = BitNot(v) /\ ExactUnary(op, x, t) = Wrap(-1 - x, t)
    BY <1>5 DEF ApplyUnary, ExactUnary
  <2> QED
    BY <2>1, <2>2
<1>6. CASE op = "!"
  <2> DEFINE p == v.raw = 0
  <2>1. Number(Truth(p)) = IF p THEN 1 ELSE 0
    BY TruthNumber
  <2>2. p <=> x = 0
    BY ZeroNumber DEF x
  <2>3. ApplyUnary(op, v) = Truth(p) /\ ExactUnary(op, x, t) = IF x = 0 THEN 1 ELSE 0
    BY <1>6 DEF ApplyUnary, ExactUnary
  <2> HIDE DEF p
  <2> QED
    BY <2>1, <2>2, <2>3
<1> QED
  BY <1>3, <1>4, <1>5, <1>6 DEF UnaryOps

-----------------------------------------------------------------------------
(***************************************************************************)
(* The invariant with the number: `Exact` alone is not inductive, for the  *)
(* number of a result follows from the numbers of its operands only where  *)
(* the checker's type, which bounds them, is the value's.                  *)
(***************************************************************************)
EInv == IInv /\ Exact

LEMMA BinaryExact ==
  ASSUME IInv, Exact, gap = "", NEW op \in BinaryOps, NEW b \in Values,
         BinaryLeft(op, b) \/ BinaryRight(op, b)
  PROVE  Exact'
<1>1. Held(b)
  BY HostIsNatural, ValuesHeld DEF Values
<1>2. Held(acc) /\ type = TypeOfBits(acc) /\ exact \subseteq {Number(acc)}
  BY DEF IInv, Staged, Exact
<1>3. ASSUME NEW l, NEW r, Held(l), Held(r), Legal(op, TypeOfBits(l), TypeOfBits(r)),
             acc' = Apply(op, l, r), gap' = GapOf(op, l, r),
             NEW xs, NEW ys, xs \subseteq {Number(l)}, ys \subseteq {Number(r)},
             exact' = ExactNumbers(op, xs, ys, TypeOfBits(l), TypeOfBits(r))
      PROVE  Exact'
  <2> SUFFICES ASSUME gap' = "", NEW e \in exact' PROVE e = Number(acc')
    BY DEF Exact, Number
  <2>1. NoGap(op, l, r)
    BY <1>3 DEF NoGap
  <2>2. /\ Takes(op, TypeOfBits(l), TypeOfBits(r), Number(r))
        /\ e = ExactOf(op, Number(l), Number(r), TypeOfBits(l), TypeOfBits(r))
    <3>1. PICK y \in {n \in ys : Takes(op, TypeOfBits(l), TypeOfBits(r), n)}, x \in xs :
            e = ExactOf(op, x, y, TypeOfBits(l), TypeOfBits(r))
      BY <1>3, Zenon DEF ExactNumbers
    <3>2. x = Number(l) /\ y = Number(r) /\ Takes(op, TypeOfBits(l), TypeOfBits(r), y)
      BY <1>3, <3>1, Zenon
    <3> QED
      BY <3>1, <3>2, Zenon
  <2> QED
    BY <1>3, <2>1, <2>2, BinaryIsExact
<1>4. CASE BinaryLeft(op, b)
  <2>1. exact' = ExactNumbers(op, exact, {Number(b)}, TypeOfBits(acc), TypeOfBits(b))
    BY <1>2, <1>4 DEF BinaryLeft
  <2> QED
    BY <1>1, <1>2, <1>3, <1>4, <2>1 DEF BinaryLeft
<1>5. CASE BinaryRight(op, b)
  <2>1. exact' = ExactNumbers(op, {Number(b)}, exact, TypeOfBits(b), TypeOfBits(acc))
    BY <1>2, <1>5 DEF BinaryRight
  <2> QED
    BY <1>1, <1>2, <1>3, <1>5, <2>1 DEF BinaryRight
<1> QED
  BY <1>4, <1>5

LEMMA UnaryExact ==
  ASSUME IInv, Exact, gap = "", NEW op \in UnaryOps, UnaryStep(op)
  PROVE  Exact'
<1>1. Held(acc) /\ type = TypeOfBits(acc) /\ exact \subseteq {Number(acc)}
  BY DEF IInv, Staged, Exact
<1> SUFFICES ASSUME gap' = "" PROVE exact' \subseteq {Number(acc')}
  BY DEF Exact, Number
<1>4. ~(UnaryRule(op, TypeOfBits(acc)).width > HostWidth)
  BY <1>1 DEF UnaryStep, UnaryGapOf
<1>5. UnaryRule(op, TypeOfBits(acc)).width <= HostWidth
  BY <1>1, <1>4, HostOrWider
<1>2. /\ acc' = ApplyUnary(op, acc)
      /\ exact' \subseteq {ExactUnary(op, Number(acc), TypeOfBits(acc))}
  BY <1>1 DEF UnaryStep
<1>3. exact' \subseteq {Number(acc')}
  BY <1>1, <1>2, <1>5, UnaryIsExact
<1> QED
  BY <1>3

LEMMA CastExact ==
  ASSUME IInv, Exact, gap = "", NEW to \in Written, CastStep(to)
  PROVE  Exact'
<1>1. Held(acc) /\ exact \subseteq {Number(acc)}
  BY DEF IInv, Staged, Exact
<1>2. to.width \in 1 .. HostWidth /\ to.isSigned \in BOOLEAN /\ to = Type(to.width, to.isSigned)
  BY WrittenTypes
<1>3. acc' = CastTo(acc, to) /\ exact' \subseteq {Wrap(Number(acc), to)}
  BY <1>1 DEF CastStep
<1>4. exact' \subseteq {Number(acc')}
  BY <1>1, <1>2, <1>3, CastOfNumber
<1> QED
  BY <1>4 DEF Exact, Number

\* The condition's bit, as the program and as the step tell it.
LEMMA ConditionBit ==
  ASSUME NEW c \in {Truth(TRUE), Truth(FALSE)}
  PROVE  (c.raw = 1 <=> c.raw # 0)
<1>1. \A n \in {0, 1} : Make(n, 1, FALSE).raw = n
  <2> DEFINE one == Smaller(1, HostWidth)
  <2>1. one = 1
    BY WidthsAssumption DEF Smaller
  <2>2. \A n \in {0, 1} : n % 2^1 = n
    <3>1. 2^1 = 2
      <4>1. 1 \in Nat \ {0} /\ 1 - 1 = 0
        OBVIOUS
      <4>2. 2^1 = 2 * 2^(1 - 1)
        BY <4>1, PowerDoubles
      <4> QED
        BY <4>1, <4>2, PowerZero
    <3>2. \A n \in {0, 1} : n % 2 = n
      OBVIOUS
    <3> QED
      BY <3>1, <3>2
  <2> HIDE DEF one
  <2> QED
    BY <2>1, <2>2 DEF Make, one
<1>2. Truth(TRUE).raw = 1 /\ Truth(FALSE).raw = 0
  BY <1>1 DEF Truth
<1>3. c.raw = 1 \/ c.raw = 0
  BY <1>2, Zenon
<1> QED
  BY <1>3

LEMMA TernaryExact ==
  ASSUME IInv, Exact, gap = "", NEW b \in Values, NEW c, c.raw = 1 <=> c.raw # 0,
         NEW first \in BOOLEAN, TernaryStep(b, c, first)
  PROVE  Exact'
<1>1. Held(b)
  BY HostIsNatural, ValuesHeld DEF Values
<1>2. Held(acc) /\ type = TypeOfBits(acc) /\ exact \subseteq {Number(acc)}
  BY DEF IInv, Staged, Exact
<1>3. b.isSigned = acc.isSigned
  BY <1>2 DEF TernaryStep, TypeOfBits, Type
<1>4. ASSUME NEW t, NEW f, Held(t), Held(f), t.isSigned = f.isSigned,
             acc' = Select(c, t, f, TernaryRule(TypeOfBits(t), TypeOfBits(f))),
             exact' \subseteq {IF c.raw # 0 THEN Number(t) ELSE Number(f)}
      PROVE  Exact'
  <2>1. Number(acc') = IF c.raw # 0 THEN Number(t) ELSE Number(f)
    BY <1>4, SelectedNumber
  <2>2. exact' \subseteq {Number(acc')}
    BY <1>4, <2>1, Zenon
  <2> QED
    BY <2>2 DEF Exact, Number
<1>5. CASE first
  <2>1. /\ acc' = Select(c, acc, b, TernaryRule(TypeOfBits(acc), TypeOfBits(b)))
        /\ exact' \subseteq {IF c.raw # 0 THEN Number(acc) ELSE Number(b)}
    BY <1>2, <1>5 DEF TernaryStep
  <2> QED
    BY <1>1, <1>2, <1>3, <1>4, <2>1
<1>6. CASE ~first
  <2>1. /\ acc' = Select(c, b, acc, TernaryRule(TypeOfBits(b), TypeOfBits(acc)))
        /\ exact' \subseteq {IF c.raw # 0 THEN Number(b) ELSE Number(acc)}
    BY <1>2, <1>6 DEF TernaryStep
  <2> QED
    BY <1>1, <1>2, <1>3, <1>4, <2>1
<1> QED
  BY <1>5, <1>6

LEMMA NextExact == EInv /\ [Next]_vars => EInv'
<1> SUFFICES ASSUME IInv, Exact, [Next]_vars PROVE IInv' /\ Exact'
  BY DEF EInv
<1>1. IInv'
  BY NextStaged
<1>2. CASE UNCHANGED vars
  BY <1>1, <1>2 DEF vars, Exact, Number
<1>3. CASE Next
  <2>1. gap = ""
    BY <1>3 DEF Next
  <2>2. CASE \E b \in Values, op \in BinaryOps : BinaryLeft(op, b) \/ BinaryRight(op, b)
    BY <1>1, <2>1, <2>2, BinaryExact
  <2>3. CASE \E op \in UnaryOps : UnaryStep(op)
    BY <1>1, <2>1, <2>3, UnaryExact
  <2>4. CASE \E to \in Written : CastStep(to)
    BY <1>1, <2>1, <2>4, CastExact
  <2>5. CASE \E b \in Values, c \in {Truth(TRUE), Truth(FALSE)}, first \in BOOLEAN :
               TernaryStep(b, c, first)
    BY <1>1, <2>1, <2>5, ConditionBit, TernaryExact
  <2> QED
    BY <1>3, <2>2, <2>3, <2>4, <2>5 DEF Next
<1> QED
  BY <1>2, <1>3

\* Up to the first operator named in `gap`, the interpreter holds the number
\* LANGUAGE.md's tables give, where they give one, whatever the expression's
\* depth and the widths of the types and of the host: sums, products,
\* quotients and remainders are wide enough to be exact, and casts and shifts
\* lose the bits they are meant to (bits.cpp).
THEOREM ExpressionsAreExact == Spec => []Exact
<1>1. Init => EInv
  BY InitStaged DEF Init, Leaf, LiteralBinary, LiteralUnary, LiteralCast, Exact, EInv
<1>2. EInv /\ [Next]_vars => EInv'
  BY NextExact
<1>3. EInv => Exact
  BY DEF EInv
<1> QED
  BY <1>1, <1>2, <1>3, PTL DEF Spec

-----------------------------------------------------------------------------
(***************************************************************************)
(* The type checker: trees in post-order, whose nodes have their operands  *)
(* in front of them.                                                       *)
(***************************************************************************)
NodeKinds == {"IntLit", "NameRef", "Index", "Cast", "Unary", "Binary", "Ternary", "Read"}
CheckedOps == {"none"} \cup UnaryOps \cup BinaryOps
CheckedTypes == [width : Nat \ {0}, isSigned : BOOLEAN]

TypingNodes ==
  [kind : NodeKinds, op : CheckedOps, kids : Seq(Nat), value : Nat,
   typeKnown : BOOLEAN, type : CheckedTypes, isPoly : BOOLEAN, constValue : Nat]

Arity(kind) ==
  CASE kind \in {"Index", "Cast", "Unary", "Read"} -> 1
    [] kind = "Binary" -> 2
    [] kind = "Ternary" -> 3
    [] OTHER -> 0

KidsOf(x) == {x.kids[i] : i \in DOMAIN x.kids}

Tree(t) ==
  /\ t \in Seq(TypingNodes)
  /\ \A n \in DOMAIN t : t[n].kids \in Seq(1 .. n - 1) /\ Len(t[n].kids) = Arity(t[n].kind)

Computed(x) == x.kind \in {"Unary", "Binary", "Ternary"}

LEMMA NodeFacts ==
  ASSUME NEW t, Tree(t), NEW n \in DOMAIN t
  PROVE  /\ n \in Nat \ {0} /\ n \in 1 .. n /\ 1 .. n - 1 \subseteq DOMAIN t
         /\ t[n] \in TypingNodes
         /\ t[n].kids \in Seq(1 .. n - 1)
         /\ DOMAIN t[n].kids = 1 .. Arity(t[n].kind)
         /\ KidsOf(t[n]) \subseteq 1 .. n - 1
         /\ Operands(t[n]) \subseteq KidsOf(t[n])
<1>1. DOMAIN t = 1 .. Len(t) /\ Len(t) \in Nat /\ t[n] \in TypingNodes
  BY DEF Tree
<1>2. t[n].kids \in Seq(1 .. n - 1) /\ Len(t[n].kids) = Arity(t[n].kind)
  BY DEF Tree
<1>3. DOMAIN t[n].kids = 1 .. Arity(t[n].kind)
  BY <1>2
<1>4. KidsOf(t[n]) \subseteq 1 .. n - 1
  <2> DEFINE s == t[n].kids
             r == 1 .. n - 1
  <2>1. s \in Seq(r)
    BY <1>2
  <2>2. KidsOf(t[n]) = {s[i] : i \in DOMAIN s}
    BY Zenon DEF KidsOf
  <2> HIDE DEF s, r
  <2>3. {s[i] : i \in DOMAIN s} \subseteq r
    BY <2>1
  <2> QED
    BY <2>2, <2>3 DEF r
<1>5. Operands(t[n]) \subseteq KidsOf(t[n])
  <2>1. CASE t[n].kind = "Ternary"
    <3>1. DOMAIN t[n].kids = 1 .. 3
      BY <1>3, <2>1 DEF Arity
    <3> QED
      BY <2>1, <3>1 DEF Operands, KidsOf
  <2>2. CASE t[n].kind # "Ternary"
    BY <2>2 DEF Operands, KidsOf
  <2> QED
    BY <2>1, <2>2
<1> QED
  BY <1>1, <1>2, <1>3, <1>4, <1>5

\* What is true of a node when it is true of its operands, is true of all.
LEMMA LeastNode ==
  ASSUME NEW t, Tree(t), NEW S, S \subseteq DOMAIN t, S # {}
  PROVE  \E n \in S : \A k \in 1 .. n - 1 : k \notin S
<1>1. S \subseteq Nat
  BY DEF Tree
<1>2. PICK n \in S : \A y \in S : n <= y
  BY <1>1, LeastNumber
<1>3. \A k \in 1 .. n - 1 : k \notin S
  BY <1>1, <1>2
<1> QED
  BY <1>3

-----------------------------------------------------------------------------
(***************************************************************************)
(* The constants of a tree, and those that only casts use.  What the two   *)
(* recursive definitions ask for exists: the largest set that is closed    *)
(* under them.                                                             *)
(***************************************************************************)
ConstantAt(t, n, S) ==
  \/ t[n].kind = "IntLit"
  \/ Computed(t[n]) /\ \A k \in Operands(t[n]) : k \in S

UntypedIn(t) ==
  LET Is[n \in DOMAIN t] ==
        \/ t[n].kind = "IntLit"
        \/ /\ t[n].kind \in {"Unary", "Binary", "Ternary"}
           /\ \A k \in Operands(t[n]) : Is[k]
  IN  {n \in DOMAIN t : Is[n]}

LEMMA UntypedHere == Untyped = UntypedIn(nodes)
  BY DEF Untyped, UntypedIn, All

LEMMA UntypedAre ==
  ASSUME NEW t, Tree(t)
  PROVE  /\ UntypedIn(t) \subseteq DOMAIN t
         /\ \A n \in DOMAIN t : n \in UntypedIn(t) <=> ConstantAt(t, n, UntypedIn(t))
<1> DEFINE Fix(Is) == Is = [n \in DOMAIN t |->
                              \/ t[n].kind = "IntLit"
                              \/ /\ t[n].kind \in {"Unary", "Binary", "Ternary"}
                                 /\ \A k \in Operands(t[n]) : Is[k]]
           Closed(S) == \A n \in S : ConstantAt(t, n, S)
           all == {n \in DOMAIN t : \E S \in SUBSET DOMAIN t : n \in S /\ Closed(S)}
           is == [n \in DOMAIN t |-> n \in all]
<1>1. \A n \in DOMAIN t : Operands(t[n]) \subseteq DOMAIN t
  BY NodeFacts
<1>2. \A n \in all : ConstantAt(t, n, all)
  <2>1. TAKE n \in all
  <2>2. PICK S \in SUBSET DOMAIN t : n \in S /\ Closed(S)
    OBVIOUS
  <2>3. S \subseteq all
    BY <2>2
  <2> QED
    BY <2>2, <2>3 DEF ConstantAt
<1>3. \A n \in DOMAIN t : ConstantAt(t, n, all) => n \in all
  <2>1. TAKE n \in DOMAIN t
  <2>2. HAVE ConstantAt(t, n, all)
  <2>3. Closed(all \cup {n})
    <3>1. TAKE m \in all \cup {n}
    <3>2. ConstantAt(t, m, all)
      BY <1>2, <2>2
    <3> QED
      BY <3>2 DEF ConstantAt
  <2>4. all \cup {n} \in SUBSET DOMAIN t
    OBVIOUS
  <2> QED
    BY <2>3, <2>4
<1>4. \A n \in DOMAIN t : is[n] <=> ConstantAt(t, n, all)
  BY <1>2, <1>3
<1>5. Fix(is)
  <2>1. ASSUME NEW n \in DOMAIN t
        PROVE  is[n] = (\/ t[n].kind = "IntLit"
                        \/ /\ t[n].kind \in {"Unary", "Binary", "Ternary"}
                           /\ \A k \in Operands(t[n]) : is[k])
    <3>1. \A k \in Operands(t[n]) : is[k] <=> k \in all
      BY <1>1
    <3>2. is[n] \in BOOLEAN
      OBVIOUS
    <3> HIDE DEF is, all
    <3> QED
      BY <1>4, <3>1, <3>2 DEF ConstantAt, Computed
  <2> HIDE DEF all
  <2> QED
    BY <2>1
<1> DEFINE F == CHOOSE Is : Fix(Is)
<1>6. Fix(F)
  BY <1>5
<1>7. UntypedIn(t) = {n \in DOMAIN t : F[n]}
  BY DEF UntypedIn
<1>8. ASSUME NEW n \in DOMAIN t
      PROVE  F[n] <=> ConstantAt(t, n, {m \in DOMAIN t : F[m]})
  <2>1. F[n] = (\/ t[n].kind = "IntLit"
                \/ /\ t[n].kind \in {"Unary", "Binary", "Ternary"}
                   /\ \A k \in Operands(t[n]) : F[k])
    BY <1>6
  <2>2. \A k \in Operands(t[n]) : k \in {m \in DOMAIN t : F[m]} <=> F[k]
    BY <1>1
  <2> HIDE DEF F
  <2> QED
    BY <2>1, <2>2 DEF ConstantAt, Computed
<1> HIDE DEF F
<1> QED
  BY <1>7, <1>8

\* A tree that grows, and whose nodes get types, has the constants it had.
Keeps(t, u) ==
  /\ DOMAIN t \subseteq DOMAIN u
  /\ \A n \in DOMAIN t : u[n].kind = t[n].kind /\ u[n].kids = t[n].kids

LEMMA SameOperands ==
  ASSUME NEW x, NEW y, x.kind = y.kind, x.kids = y.kids
  PROVE  Operands(x) = Operands(y) /\ (Computed(x) <=> Computed(y)) /\ KidsOf(x) = KidsOf(y)
  BY DEF Operands, Computed, KidsOf

LEMMA UntypedKept ==
  ASSUME NEW t, NEW u, Tree(t), Tree(u), Keeps(t, u)
  PROVE  \A n \in DOMAIN t : n \in UntypedIn(u) <=> n \in UntypedIn(t)
<1> DEFINE S == {n \in DOMAIN t : ~(n \in UntypedIn(u) <=> n \in UntypedIn(t))}
<1>1. CASE S = {}
  BY <1>1
<1>2. CASE S # {}
  <2>1. PICK n \in S : \A k \in 1 .. n - 1 : k \notin S
    BY <1>2, LeastNode
  <2>2. Operands(u[n]) = Operands(t[n]) /\ (Computed(u[n]) <=> Computed(t[n]))
    BY <2>1, SameOperands DEF Keeps
  <2>3. \A k \in Operands(t[n]) : k \in DOMAIN t /\ k \in 1 .. n - 1
    BY <2>1, NodeFacts
  <2>4. \A k \in Operands(t[n]) : k \in UntypedIn(u) <=> k \in UntypedIn(t)
    BY <2>1, <2>3
  <2>5. n \in DOMAIN t /\ n \in DOMAIN u /\ u[n].kind = t[n].kind
    BY <2>1 DEF Keeps
  <2>6. ConstantAt(u, n, UntypedIn(u)) <=> ConstantAt(t, n, UntypedIn(t))
    BY <2>2, <2>4, <2>5 DEF ConstantAt
  <2> QED
    BY <2>1, <2>5, <2>6, UntypedAre
<1> QED
  BY <1>1, <1>2

-----------------------------------------------------------------------------
(***************************************************************************)
(* The constants made of sums and products, what they mean and what they   *)
(* are at run time.  A recursive function exists because it can be given   *)
(* one more node; what it is of a node depends on the nodes before.        *)
(***************************************************************************)
SumAt(t, n, S) ==
  \/ t[n].kind = "IntLit"
  \/ t[n].kind \in {"Unary", "Binary"} /\ t[n].op \in Sums /\ \A k \in Operands(t[n]) : k \in S

SumsIn(t) ==
  LET Is[n \in DOMAIN t] == \/ t[n].kind = "IntLit"
                            \/ /\ t[n].kind \in {"Unary", "Binary"}
                               /\ t[n].op \in Sums
                               /\ \A k \in Operands(t[n]) : Is[k]
  IN  {n \in DOMAIN t : Is[n]}

LEMMA SumsHere ==
  Constants(Sums) = {n \in SumsIn(nodes) :
                       nodes[n].typeKnown /\ ~\E p \in UntypedIn(nodes) : n \in Operands(nodes[p])}
<1> DEFINE F == CHOOSE Is : Is = [n \in All |->
                                    \/ nodes[n].kind = "IntLit"
                                    \/ /\ nodes[n].kind \in {"Unary", "Binary"}
                                       /\ nodes[n].op \in Sums
                                       /\ \A k \in Operands(nodes[n]) : Is[k]]
<1>1. SumsIn(nodes) = {n \in All : F[n]}
  BY DEF SumsIn, All
<1>2. Constants(Sums) = {n \in All : nodes[n].typeKnown /\ F[n]
                                     /\ ~\E p \in Untyped : n \in Operands(nodes[p])}
  BY DEF Constants
<1> HIDE DEF F
<1> QED
  BY <1>1, <1>2, UntypedHere

LEMMA SumsAre ==
  ASSUME NEW t, Tree(t)
  PROVE  /\ SumsIn(t) \subseteq DOMAIN t
         /\ \A n \in DOMAIN t : n \in SumsIn(t) <=> SumAt(t, n, SumsIn(t))
<1> DEFINE Fix(Is) == Is = [n \in DOMAIN t |->
                              \/ t[n].kind = "IntLit"
                              \/ /\ t[n].kind \in {"Unary", "Binary"}
                                 /\ t[n].op \in Sums
                                 /\ \A k \in Operands(t[n]) : Is[k]]
           Closed(S) == \A n \in S : SumAt(t, n, S)
           all == {n \in DOMAIN t : \E S \in SUBSET DOMAIN t : n \in S /\ Closed(S)}
           is == [n \in DOMAIN t |-> n \in all]
<1>1. \A n \in DOMAIN t : Operands(t[n]) \subseteq DOMAIN t
  BY NodeFacts
<1>2. \A n \in all : SumAt(t, n, all)
  <2>1. TAKE n \in all
  <2>2. PICK S \in SUBSET DOMAIN t : n \in S /\ Closed(S)
    OBVIOUS
  <2>3. S \subseteq all
    BY <2>2
  <2> QED
    BY <2>2, <2>3 DEF SumAt
<1>3. \A n \in DOMAIN t : SumAt(t, n, all) => n \in all
  <2>1. TAKE n \in DOMAIN t
  <2>2. HAVE SumAt(t, n, all)
  <2>3. Closed(all \cup {n})
    <3>1. TAKE m \in all \cup {n}
    <3>2. SumAt(t, m, all)
      BY <1>2, <2>2
    <3> QED
      BY <3>2 DEF SumAt
  <2>4. all \cup {n} \in SUBSET DOMAIN t
    OBVIOUS
  <2> QED
    BY <2>3, <2>4
<1>4. \A n \in DOMAIN t : is[n] <=> SumAt(t, n, all)
  BY <1>2, <1>3
<1>5. Fix(is)
  <2>1. ASSUME NEW n \in DOMAIN t
        PROVE  is[n] = (\/ t[n].kind = "IntLit"
                        \/ /\ t[n].kind \in {"Unary", "Binary"}
                           /\ t[n].op \in Sums
                           /\ \A k \in Operands(t[n]) : is[k])
    <3>1. \A k \in Operands(t[n]) : is[k] <=> k \in all
      BY <1>1
    <3>2. is[n] \in BOOLEAN
      OBVIOUS
    <3> HIDE DEF is, all
    <3> QED
      BY <1>4, <3>1, <3>2 DEF SumAt
  <2> HIDE DEF all
  <2> QED
    BY <2>1
<1> DEFINE F == CHOOSE Is : Fix(Is)
<1>6. Fix(F)
  BY <1>5
<1>7. SumsIn(t) = {n \in DOMAIN t : F[n]}
  BY DEF SumsIn
<1>8. ASSUME NEW n \in DOMAIN t
      PROVE  F[n] <=> SumAt(t, n, {m \in DOMAIN t : F[m]})
  <2>1. F[n] = (\/ t[n].kind = "IntLit"
                \/ /\ t[n].kind \in {"Unary", "Binary"}
                   /\ t[n].op \in Sums
                   /\ \A k \in Operands(t[n]) : F[k])
    BY <1>6
  <2>2. \A k \in Operands(t[n]) : k \in {m \in DOMAIN t : F[m]} <=> F[k]
    BY <1>1
  <2> HIDE DEF F
  <2> QED
    BY <2>1, <2>2 DEF SumAt
<1> HIDE DEF F
<1> QED
  BY <1>7, <1>8

LEMMA SumsUntyped ==
  ASSUME NEW t, Tree(t)
  PROVE  SumsIn(t) \subseteq UntypedIn(t)
<1> DEFINE S == SumsIn(t) \ UntypedIn(t)
<1>1. S \subseteq DOMAIN t
  BY SumsAre
<1>2. CASE S = {}
  BY <1>2
<1>3. CASE S # {}
  <2>1. PICK n \in S : \A k \in 1 .. n - 1 : k \notin S
    <3> HIDE DEF S
    <3> QED
      BY <1>1, <1>3, LeastNode
  <2>2. n \in DOMAIN t /\ SumAt(t, n, SumsIn(t))
    BY <1>1, <2>1, SumsAre
  <2>3. \A k \in Operands(t[n]) : k \in 1 .. n - 1
    BY <2>2, NodeFacts
  <2>4. ConstantAt(t, n, UntypedIn(t))
    BY <2>1, <2>2, <2>3 DEF SumAt, ConstantAt, Computed
  <2> QED
    BY <2>1, <2>2, <2>4, UntypedAre
<1> QED
  BY <1>2, <1>3

-----------------------------------------------------------------------------
MeantOf(x, G) ==
  LET l == G[x.kids[1]]
      r == G[x.kids[2]]
  IN  CASE x.kind = "IntLit" -> x.value
        [] x.kind = "Unary" -> IF x.op = "-" THEN -l ELSE l
        [] x.kind = "Binary" /\ x.op = "+" -> l + r
        [] x.kind = "Binary" /\ x.op = "-" -> l - r
        [] x.kind = "Binary" /\ x.op = "*" -> l * r
        [] x.kind = "Binary" /\ x.op = "<" -> IF l < r THEN 1 ELSE 0
        [] OTHER -> 0

RunOf(x, G) ==
  LET l == G[x.kids[1]]
      r == G[x.kids[2]]
  IN  CASE x.kind = "IntLit" -> Make(x.value, x.type.width, x.type.isSigned)
        [] x.kind = "Unary" -> ApplyUnary(x.op, l)
        [] x.kind = "Binary" -> Apply(x.op, l, r)
        [] OTHER -> Make(0, 1, FALSE)

MeantTo(t, n) == CHOOSE At : At = [m \in 1 .. n |-> MeantOf(t[m], At)]
RunTo(t, n) == CHOOSE At : At = [m \in 1 .. n |-> RunOf(t[m], At)]

MeantIn(t) == [n \in DOMAIN t |-> MeantTo(t, n)[n]]
RunIn(t) == [n \in DOMAIN t |-> RunTo(t, n)[n]]

LEMMA MeantHere == \A n \in DOMAIN nodes : Meant(n) = MeantIn(nodes)[n]
<1> TAKE n \in DOMAIN nodes
<1>1. Meant(n) = MeantTo(nodes, n)[n]
  BY DEF Meant, MeantTo, MeantOf, Kid
<1> QED
  BY <1>1 DEF MeantIn

LEMMA RunHere == \A n \in DOMAIN nodes : RunTime(n) = Value(RunIn(nodes)[n])
<1> TAKE n \in DOMAIN nodes
<1>1. RunTime(n) = Value(RunTo(nodes, n)[n])
  BY DEF RunTime, RunTo, RunOf, Kid
<1> QED
  BY <1>1 DEF RunIn

LEMMA KidsAgree ==
  ASSUME NEW t, Tree(t), NEW n \in DOMAIN t
  PROVE  /\ t[n].kind = "Unary" => t[n].kids[1] \in KidsOf(t[n])
         /\ t[n].kind = "Binary" => t[n].kids[1] \in KidsOf(t[n]) /\ t[n].kids[2] \in KidsOf(t[n])
<1>1. DOMAIN t[n].kids = 1 .. Arity(t[n].kind)
  BY NodeFacts
<1>2. t[n].kind = "Unary" => 1 \in DOMAIN t[n].kids
  BY <1>1 DEF Arity
<1>3. t[n].kind = "Binary" => 1 \in DOMAIN t[n].kids /\ 2 \in DOMAIN t[n].kids
  BY <1>1 DEF Arity
<1> QED
  BY <1>2, <1>3 DEF KidsOf

LEMMA OfAgrees ==
  ASSUME NEW t, Tree(t), NEW n \in DOMAIN t, NEW G, NEW H, \A k \in KidsOf(t[n]) : G[k] = H[k]
  PROVE  MeantOf(t[n], G) = MeantOf(t[n], H) /\ RunOf(t[n], G) = RunOf(t[n], H)
<1>1. CASE t[n].kind = "Unary"
  <2>1. G[t[n].kids[1]] = H[t[n].kids[1]]
    BY <1>1, KidsAgree
  <2> QED
    BY <1>1, <2>1 DEF MeantOf, RunOf
<1>2. CASE t[n].kind = "Binary"
  <2>1. G[t[n].kids[1]] = H[t[n].kids[1]] /\ G[t[n].kids[2]] = H[t[n].kids[2]]
    BY <1>2, KidsAgree
  <2> QED
    BY <1>2, <2>1 DEF MeantOf, RunOf
<1>3. CASE t[n].kind \notin {"Unary", "Binary"}
  BY <1>3 DEF MeantOf, RunOf
<1> QED
  BY <1>1, <1>2, <1>3

LEMMA MeantExists ==
  ASSUME NEW t, Tree(t), NEW n \in 0 .. Len(t)
  PROVE  \E G : G = [m \in 1 .. n |-> MeantOf(t[m], G)]
<1> DEFINE Solved(j) == \E G : G = [m \in 1 .. j |-> MeantOf(t[m], G)]
           S == {j \in 0 .. Len(t) : ~Solved(j)}
<1>1. Len(t) \in Nat /\ DOMAIN t = 1 .. Len(t)
  BY DEF Tree
<1>2. CASE S = {}
  BY <1>2
<1>3. CASE S # {}
  <2>1. PICK j \in S : \A y \in S : j <= y
    <3>1. S \subseteq Nat
      BY <1>1
    <3> HIDE DEF S
    <3> QED
      BY <1>3, <3>1, LeastNumber
  <2>2. j \in 0 .. Len(t) /\ ~Solved(j)
    BY <2>1
  <2>3. CASE j = 0
    <3> DEFINE G == [m \in {} |-> 0]
    <3>1. 1 .. j = {}
      BY <2>3
    <3>2. G = [m \in {} |-> MeantOf(t[m], G)]
      OBVIOUS
    <3>3. G = [m \in 1 .. j |-> MeantOf(t[m], G)]
      BY <3>1, <3>2
    <3> QED
      BY <2>2, <3>3
  <2>4. CASE j # 0
    <3>1. j \in 1 .. Len(t) /\ j - 1 \in 0 .. Len(t)
      BY <1>1, <2>2, <2>4
    <3>2. j - 1 \notin S
      BY <1>1, <2>1, <3>1
    <3>3. PICK G : G = [m \in 1 .. j - 1 |-> MeantOf(t[m], G)]
      BY <3>1, <3>2
    <3> DEFINE H == [m \in 1 .. j |-> MeantOf(t[m], G)]
    <3>4. ASSUME NEW m \in 1 .. j
          PROVE  MeantOf(t[m], G) = MeantOf(t[m], H)
      <4>1. m \in DOMAIN t
        BY <1>1, <3>1
      <4>2. ASSUME NEW k \in KidsOf(t[m])
            PROVE  G[k] = H[k]
        <5>1. k \in 1 .. m - 1
          BY <4>1, <4>2, NodeFacts
        <5>2. k \in 1 .. j - 1 /\ k \in 1 .. j
          BY <1>1, <3>1, <5>1
        <5> QED
          BY <3>3, <5>2
      <4> HIDE DEF H
      <4> QED
        BY <4>1, <4>2, OfAgrees
    <3>5. H = [m \in 1 .. j |-> MeantOf(t[m], H)]
      <4>1. H = [m \in 1 .. j |-> MeantOf(t[m], G)]
        OBVIOUS
      <4> HIDE DEF H
      <4> QED
        BY <3>4, <4>1
    <3>6. Solved(j)
      <4> HIDE DEF H
      <4> QED
        BY <3>5
    <3> QED
      BY <2>2, <3>6
  <2> QED
    BY <2>3, <2>4
<1> QED
  BY <1>2, <1>3

LEMMA MeantStep ==
  ASSUME NEW t, Tree(t)
  PROVE  \A n \in DOMAIN t : MeantIn(t)[n] = MeantOf(t[n], MeantIn(t))
<1> DEFINE F(n) == MeantTo(t, n)
           Good(m) == \A n \in m .. Len(t) : F(n)[m] = F(m)[m]
<1>1. Len(t) \in Nat /\ DOMAIN t = 1 .. Len(t)
  BY DEF Tree
<1>2. ASSUME NEW n \in DOMAIN t
      PROVE  F(n) = [m \in 1 .. n |-> MeantOf(t[m], F(n))]
  <2>1. n \in 0 .. Len(t)
    BY <1>1
  <2>2. \E G : G = [m \in 1 .. n |-> MeantOf(t[m], G)]
    BY <2>1, MeantExists
  <2> QED
    BY <2>2 DEF MeantTo
<1>3. ASSUME NEW n \in DOMAIN t, NEW m \in 1 .. n
      PROVE  F(n)[m] = MeantOf(t[m], F(n))
  <2>1. F(n) = [i \in 1 .. n |-> MeantOf(t[i], F(n))]
    BY <1>2
  <2> HIDE DEF F
  <2> QED
    BY <2>1
<1> HIDE DEF F
<1>4. \A m \in DOMAIN t : Good(m)
  <2> DEFINE S == {m \in DOMAIN t : ~Good(m)}
  <2>1. CASE S = {}
    BY <2>1
  <2>2. CASE S # {}
    <3>1. PICK m \in S : \A k \in 1 .. m - 1 : k \notin S
      <4>1. S \subseteq DOMAIN t
        OBVIOUS
      <4> HIDE DEF S
      <4> QED
        BY <2>2, <4>1, LeastNode
    <3>2. m \in DOMAIN t /\ m \in Nat \ {0} /\ m \in 1 .. m
      BY NodeFacts
    <3>3. ASSUME NEW n \in m .. Len(t)
          PROVE  F(n)[m] = F(m)[m]
      <4>1. n \in DOMAIN t /\ m \in 1 .. n
        BY <1>1, <3>2
      <4>2. F(n)[m] = MeantOf(t[m], F(n)) /\ F(m)[m] = MeantOf(t[m], F(m))
        BY <1>3, <3>2, <4>1
      <4>3. ASSUME NEW k \in KidsOf(t[m])
            PROVE  F(n)[k] = F(m)[k]
        <5>1. k \in 1 .. m - 1
          BY <3>2, NodeFacts
        <5>2. k \in DOMAIN t /\ n \in k .. Len(t) /\ m \in k .. Len(t)
          BY <1>1, <3>2, <4>1, <5>1
        <5>3. Good(k)
          BY <3>1, <5>1, <5>2
        <5> QED
          BY <5>2, <5>3
      <4>4. MeantOf(t[m], F(n)) = MeantOf(t[m], F(m))
        BY <3>2, <4>3, OfAgrees
      <4> QED
        BY <4>2, <4>4
    <3> QED
      BY <3>1, <3>3
  <2> QED
    BY <2>1, <2>2
<1>5. \A n \in DOMAIN t : MeantIn(t)[n] = F(n)[n]
  BY DEF MeantIn, F
<1>6. ASSUME NEW n \in DOMAIN t
      PROVE  MeantIn(t)[n] = MeantOf(t[n], MeantIn(t))
  <2>1. n \in 1 .. n /\ n \in Nat
    BY NodeFacts
  <2>2. F(n)[n] = MeantOf(t[n], F(n))
    BY <1>3, <2>1
  <2>3. ASSUME NEW k \in KidsOf(t[n])
        PROVE  F(n)[k] = MeantIn(t)[k]
    <3>1. k \in 1 .. n - 1
      BY NodeFacts
    <3>2. k \in DOMAIN t /\ n \in k .. Len(t)
      BY <1>1, <2>1, <3>1
    <3> QED
      BY <1>4, <1>5, <3>2
  <2>4. MeantOf(t[n], F(n)) = MeantOf(t[n], MeantIn(t))
    BY <2>3, OfAgrees
  <2> QED
    BY <1>5, <2>2, <2>4
<1> QED
  BY <1>6

LEMMA RunExists ==
  ASSUME NEW t, Tree(t), NEW n \in 0 .. Len(t)
  PROVE  \E G : G = [m \in 1 .. n |-> RunOf(t[m], G)]
<1> DEFINE Solved(j) == \E G : G = [m \in 1 .. j |-> RunOf(t[m], G)]
           S == {j \in 0 .. Len(t) : ~Solved(j)}
<1>1. Len(t) \in Nat /\ DOMAIN t = 1 .. Len(t)
  BY DEF Tree
<1>2. CASE S = {}
  BY <1>2
<1>3. CASE S # {}
  <2>1. PICK j \in S : \A y \in S : j <= y
    <3>1. S \subseteq Nat
      BY <1>1
    <3> HIDE DEF S
    <3> QED
      BY <1>3, <3>1, LeastNumber
  <2>2. j \in 0 .. Len(t) /\ ~Solved(j)
    BY <2>1
  <2>3. CASE j = 0
    <3> DEFINE G == [m \in {} |-> 0]
    <3>1. 1 .. j = {}
      BY <2>3
    <3>2. G = [m \in {} |-> RunOf(t[m], G)]
      OBVIOUS
    <3>3. G = [m \in 1 .. j |-> RunOf(t[m], G)]
      BY <3>1, <3>2
    <3> QED
      BY <2>2, <3>3
  <2>4. CASE j # 0
    <3>1. j \in 1 .. Len(t) /\ j - 1 \in 0 .. Len(t)
      BY <1>1, <2>2, <2>4
    <3>2. j - 1 \notin S
      BY <1>1, <2>1, <3>1
    <3>3. PICK G : G = [m \in 1 .. j - 1 |-> RunOf(t[m], G)]
      BY <3>1, <3>2
    <3> DEFINE H == [m \in 1 .. j |-> RunOf(t[m], G)]
    <3>4. ASSUME NEW m \in 1 .. j
          PROVE  RunOf(t[m], G) = RunOf(t[m], H)
      <4>1. m \in DOMAIN t
        BY <1>1, <3>1
      <4>2. ASSUME NEW k \in KidsOf(t[m])
            PROVE  G[k] = H[k]
        <5>1. k \in 1 .. m - 1
          BY <4>1, <4>2, NodeFacts
        <5>2. k \in 1 .. j - 1 /\ k \in 1 .. j
          BY <1>1, <3>1, <5>1
        <5> QED
          BY <3>3, <5>2
      <4> HIDE DEF H
      <4> QED
        BY <4>1, <4>2, OfAgrees
    <3>5. H = [m \in 1 .. j |-> RunOf(t[m], H)]
      <4>1. H = [m \in 1 .. j |-> RunOf(t[m], G)]
        OBVIOUS
      <4> HIDE DEF H
      <4> QED
        BY <3>4, <4>1
    <3>6. Solved(j)
      <4> HIDE DEF H
      <4> QED
        BY <3>5
    <3> QED
      BY <2>2, <3>6
  <2> QED
    BY <2>3, <2>4
<1> QED
  BY <1>2, <1>3

LEMMA RunStep ==
  ASSUME NEW t, Tree(t)
  PROVE  \A n \in DOMAIN t : RunIn(t)[n] = RunOf(t[n], RunIn(t))
<1> DEFINE F(n) == RunTo(t, n)
           Good(m) == \A n \in m .. Len(t) : F(n)[m] = F(m)[m]
<1>1. Len(t) \in Nat /\ DOMAIN t = 1 .. Len(t)
  BY DEF Tree
<1>2. ASSUME NEW n \in DOMAIN t
      PROVE  F(n) = [m \in 1 .. n |-> RunOf(t[m], F(n))]
  <2>1. n \in 0 .. Len(t)
    BY <1>1
  <2>2. \E G : G = [m \in 1 .. n |-> RunOf(t[m], G)]
    BY <2>1, RunExists
  <2> QED
    BY <2>2 DEF RunTo
<1>3. ASSUME NEW n \in DOMAIN t, NEW m \in 1 .. n
      PROVE  F(n)[m] = RunOf(t[m], F(n))
  <2>1. F(n) = [i \in 1 .. n |-> RunOf(t[i], F(n))]
    BY <1>2
  <2> HIDE DEF F
  <2> QED
    BY <2>1
<1> HIDE DEF F
<1>4. \A m \in DOMAIN t : Good(m)
  <2> DEFINE S == {m \in DOMAIN t : ~Good(m)}
  <2>1. CASE S = {}
    BY <2>1
  <2>2. CASE S # {}
    <3>1. PICK m \in S : \A k \in 1 .. m - 1 : k \notin S
      <4>1. S \subseteq DOMAIN t
        OBVIOUS
      <4> HIDE DEF S
      <4> QED
        BY <2>2, <4>1, LeastNode
    <3>2. m \in DOMAIN t /\ m \in Nat \ {0} /\ m \in 1 .. m
      BY NodeFacts
    <3>3. ASSUME NEW n \in m .. Len(t)
          PROVE  F(n)[m] = F(m)[m]
      <4>1. n \in DOMAIN t /\ m \in 1 .. n
        BY <1>1, <3>2
      <4>2. F(n)[m] = RunOf(t[m], F(n)) /\ F(m)[m] = RunOf(t[m], F(m))
        BY <1>3, <3>2, <4>1
      <4>3. ASSUME NEW k \in KidsOf(t[m])
            PROVE  F(n)[k] = F(m)[k]
        <5>1. k \in 1 .. m - 1
          BY <3>2, NodeFacts
        <5>2. k \in DOMAIN t /\ n \in k .. Len(t) /\ m \in k .. Len(t)
          BY <1>1, <3>2, <4>1, <5>1
        <5>3. Good(k)
          BY <3>1, <5>1, <5>2
        <5> QED
          BY <5>2, <5>3
      <4>4. RunOf(t[m], F(n)) = RunOf(t[m], F(m))
        BY <3>2, <4>3, OfAgrees
      <4> QED
        BY <4>2, <4>4
    <3> QED
      BY <3>1, <3>3
  <2> QED
    BY <2>1, <2>2
<1>5. \A n \in DOMAIN t : RunIn(t)[n] = F(n)[n]
  BY DEF RunIn, F
<1>6. ASSUME NEW n \in DOMAIN t
      PROVE  RunIn(t)[n] = RunOf(t[n], RunIn(t))
  <2>1. n \in 1 .. n /\ n \in Nat
    BY NodeFacts
  <2>2. F(n)[n] = RunOf(t[n], F(n))
    BY <1>3, <2>1
  <2>3. ASSUME NEW k \in KidsOf(t[n])
        PROVE  F(n)[k] = RunIn(t)[k]
    <3>1. k \in 1 .. n - 1
      BY NodeFacts
    <3>2. k \in DOMAIN t /\ n \in k .. Len(t)
      BY <1>1, <2>1, <3>1
    <3> QED
      BY <1>4, <1>5, <3>2
  <2>4. RunOf(t[n], F(n)) = RunOf(t[n], RunIn(t))
    BY <2>3, OfAgrees
  <2> QED
    BY <1>5, <2>2, <2>4
<1> QED
  BY <1>6

-----------------------------------------------------------------------------
(* What nodes mean does not depend on their types, and is natural of sums. *)
Alike(t, u) == Keeps(t, u) /\ \A n \in DOMAIN t : u[n].op = t[n].op /\ u[n].value = t[n].value

LEMMA MeantAlike ==
  ASSUME NEW x, NEW y, NEW G, x.kind = y.kind, x.op = y.op, x.kids = y.kids, x.value = y.value
  PROVE  MeantOf(x, G) = MeantOf(y, G)
  BY DEF MeantOf

LEMMA SumsKept ==
  ASSUME NEW t, NEW u, Tree(t), Tree(u), Alike(t, u)
  PROVE  \A n \in DOMAIN t : /\ n \in SumsIn(u) <=> n \in SumsIn(t)
                             /\ MeantIn(u)[n] = MeantIn(t)[n]
<1> DEFINE Same(n) == (n \in SumsIn(u) <=> n \in SumsIn(t)) /\ MeantIn(u)[n] = MeantIn(t)[n]
           S == {n \in DOMAIN t : ~Same(n)}
<1>1. CASE S = {}
  BY <1>1
<1>2. CASE S # {}
  <2>1. PICK n \in S : \A k \in 1 .. n - 1 : k \notin S
    <3>1. S \subseteq DOMAIN t
      OBVIOUS
    <3> HIDE DEF S
    <3> QED
      BY <1>2, <3>1, LeastNode
  <2>2. n \in DOMAIN t /\ n \in DOMAIN u
    BY DEF Alike, Keeps
  <2>3. u[n].kind = t[n].kind /\ u[n].kids = t[n].kids /\ u[n].op = t[n].op /\ u[n].value = t[n].value
    BY <2>2 DEF Alike, Keeps
  <2>4. Operands(u[n]) = Operands(t[n]) /\ KidsOf(u[n]) = KidsOf(t[n])
    BY <2>3, SameOperands
  <2>5. \A k \in KidsOf(t[n]) : Same(k)
    <3>1. TAKE k \in KidsOf(t[n])
    <3>2. k \in DOMAIN t /\ k \in 1 .. n - 1
      BY <2>2, NodeFacts
    <3> QED
      BY <2>1, <3>2
  <2>6. Operands(t[n]) \subseteq KidsOf(t[n])
    BY <2>2, NodeFacts
  <2>7. SumAt(u, n, SumsIn(u)) <=> SumAt(t, n, SumsIn(t))
    BY <2>3, <2>4, <2>5, <2>6 DEF SumAt
  <2>8. n \in SumsIn(u) <=> n \in SumsIn(t)
    BY <2>2, <2>7, SumsAre
  <2>9. MeantOf(t[n], MeantIn(u)) = MeantOf(t[n], MeantIn(t))
    BY <2>2, <2>5, OfAgrees
  <2>10. MeantOf(u[n], MeantIn(u)) = MeantOf(t[n], MeantIn(u))
    BY <2>3, MeantAlike
  <2>11. MeantIn(u)[n] = MeantIn(t)[n]
    BY <2>2, <2>9, <2>10, MeantStep
  <2> QED
    BY <2>1, <2>8, <2>11
<1> QED
  BY <1>1, <1>2

\* A sum node by its kind.
SumIs(t, n, m, a, b) ==
  /\ n \in DOMAIN t /\ t[n].kind \in {"IntLit", "Unary", "Binary"}
  /\ t[n].kind = "IntLit" => m[n] = t[n].value /\ Operands(t[n]) = {}
  /\ t[n].kind = "Unary" => /\ t[n].op \in Sums /\ m[n] = m[a]
                            /\ a \in SumsIn(t) /\ Operands(t[n]) = {a}
  /\ t[n].kind = "Binary" => /\ t[n].op \in Sums
                             /\ t[n].op = "+" => m[n] = m[a] + m[b]
                             /\ t[n].op = "*" => m[n] = m[a] * m[b]
                             /\ a \in SumsIn(t) /\ b \in SumsIn(t)
                             /\ Operands(t[n]) = {a, b}

LEMMA SumNode ==
  ASSUME NEW t, Tree(t), NEW n \in SumsIn(t)
  PROVE  SumIs(t, n, MeantIn(t), t[n].kids[1], t[n].kids[2])
<1> DEFINE m == MeantIn(t)
           a == t[n].kids[1]
           b == t[n].kids[2]
<1>1. n \in DOMAIN t /\ SumAt(t, n, SumsIn(t))
  BY SumsAre
<1>2. m[n] = MeantOf(t[n], m)
  BY <1>1, MeantStep
<1>3. DOMAIN t[n].kids = 1 .. Arity(t[n].kind)
  BY <1>1, NodeFacts
<1> HIDE DEF m
<1>4. CASE t[n].kind = "IntLit"
  BY <1>1, <1>2, <1>4 DEF MeantOf, Operands, SumIs, m
<1>5. CASE t[n].kind = "Unary"
  <2>1. DOMAIN t[n].kids = {1}
    BY <1>3, <1>5 DEF Arity
  <2>2. Operands(t[n]) = {a}
    BY <1>5, <2>1 DEF Operands
  <2>3. t[n].op \in Sums /\ a \in SumsIn(t)
    BY <1>1, <1>5, <2>2 DEF SumAt
  <2>4. m[n] = m[a]
    BY <1>2, <1>5, <2>3 DEF MeantOf, Sums
  <2> QED
    BY <1>1, <1>5, <2>2, <2>3, <2>4 DEF SumIs, m
<1>6. CASE t[n].kind = "Binary"
  <2>1. DOMAIN t[n].kids = {1, 2}
    BY <1>3, <1>6 DEF Arity
  <2>2. Operands(t[n]) = {a, b}
    BY <1>6, <2>1 DEF Operands
  <2>3. t[n].op \in Sums /\ a \in SumsIn(t) /\ b \in SumsIn(t)
    BY <1>1, <1>6, <2>2 DEF SumAt
  <2>4. t[n].op = "+" => m[n] = m[a] + m[b]
    BY <1>2, <1>6 DEF MeantOf
  <2>5. t[n].op = "*" => m[n] = m[a] * m[b]
    BY <1>2, <1>6 DEF MeantOf
  <2> QED
    BY <1>1, <1>6, <2>2, <2>3, <2>4, <2>5 DEF SumIs, m
<1>7. t[n].kind \in {"IntLit", "Unary", "Binary"}
  BY <1>1 DEF SumAt
<1> QED
  BY <1>1, <1>4, <1>5, <1>6, <1>7 DEF SumIs, m

LEMMA SumsNatural ==
  ASSUME NEW t, Tree(t)
  PROVE  \A n \in SumsIn(t) : MeantIn(t)[n] \in Nat
<1> DEFINE m == MeantIn(t)
           S == {n \in SumsIn(t) : m[n] \notin Nat}
<1>1. CASE S = {}
  BY <1>1
<1>2. CASE S # {}
  <2>1. PICK n \in S : \A k \in 1 .. n - 1 : k \notin S
    <3>1. S \subseteq DOMAIN t
      BY SumsAre
    <3> HIDE DEF S
    <3> QED
      BY <1>2, <3>1, LeastNode
  <2> DEFINE a == t[n].kids[1]
             b == t[n].kids[2]
  <2>2. n \in SumsIn(t) /\ m[n] \notin Nat
    OBVIOUS
  <2>3. n \in DOMAIN t /\ t[n].value \in Nat
    BY <2>2, SumsAre, NodeFacts DEF TypingNodes
  <2>4. \A k \in Operands(t[n]) : k \in SumsIn(t) => m[k] \in Nat
    BY <2>1, <2>3, NodeFacts
  <2> HIDE DEF m
  <2>5. SumIs(t, n, m, a, b)
    BY <2>2, SumNode DEF m
  <2>6. CASE t[n].kind = "IntLit"
    BY <2>2, <2>3, <2>5, <2>6 DEF SumIs
  <2>7. CASE t[n].kind = "Unary"
    BY <2>2, <2>4, <2>5, <2>7 DEF SumIs
  <2>8. CASE t[n].kind = "Binary"
    <3>1. m[a] \in Nat /\ m[b] \in Nat
      BY <2>4, <2>5, <2>8 DEF SumIs
    <3>2. m[a] + m[b] \in Nat /\ m[a] * m[b] \in Nat
      <4> DEFINE x == m[a]
                 y == m[b]
      <4> HIDE DEF x, y
      <4>1. x \in Nat /\ y \in Nat
        BY <3>1 DEF x, y
      <4>2. x + y \in Nat /\ x * y \in Nat
        BY <4>1
      <4> QED
        BY <4>2 DEF x, y
    <3>3. m[n] = m[a] + m[b] \/ m[n] = m[a] * m[b]
      BY <2>5, <2>8 DEF SumIs, Sums
    <3> QED
      BY <2>2, <3>2, <3>3
  <2> QED
    BY <2>5, <2>6, <2>7, <2>8 DEF SumIs
<1> QED
  BY <1>1, <1>2

-----------------------------------------------------------------------------
(* A number that fits the type it is computed in, or a wider one.          *)
Limit(w, s) == 2^(w - IF s THEN 1 ELSE 0)

LEMMA Limits ==
  ASSUME NEW w \in Nat \ {0}, NEW s \in BOOLEAN
  PROVE  /\ Limit(w, s) \in Nat \ {0} /\ w - (IF s THEN 1 ELSE 0) \in Nat
         /\ s => Limit(w, s) = 2^(w - 1)
         /\ ~s => Limit(w, s) = 2^w
         /\ Limit(w, s) <= 2^w
<1>1. w - 1 \in Nat /\ w \in Nat /\ w - 1 <= w /\ w - 0 = w
  OBVIOUS
<1>2. 2^(w - 1) \in Nat \ {0}
  BY <1>1, PowerOfTwo
<1>3. 2^w \in Nat \ {0}
  BY <1>1, PowerOfTwo
<1>4. 2^w = 2 * 2^(w - 1)
  BY PowerDoubles
<1>5. 2^(w - 1) <= 2^w
  BY <1>2, <1>3, <1>4
<1>6. CASE s
  BY <1>1, <1>2, <1>3, <1>5, <1>6 DEF Limit
<1>7. CASE ~s
  BY <1>1, <1>3, <1>7 DEF Limit
<1> QED
  BY <1>6, <1>7

LEMMA FitsIsLimit ==
  \A x, ty : FitsIn(x, ty) <=> x < Limit(ty.width, ty.isSigned)
  BY DEF FitsIn, Limit

LEMMA LimitsGrow ==
  ASSUME NEW v \in Nat \ {0}, NEW w \in Nat \ {0}, NEW s \in BOOLEAN, v <= w
  PROVE  Limit(v, s) <= Limit(w, s)
<1> DEFINE c == IF s THEN 1 ELSE 0
           i == v - c
           j == w - c
<1>1. i \in Nat /\ j \in Nat /\ i <= j
  OBVIOUS
<1>2. Limit(v, s) = 2^i /\ Limit(w, s) = 2^j
  BY DEF Limit
<1> HIDE DEF i, j
<1> QED
  BY <1>1, <1>2, PowersGrow

LEMMA NaturalMade ==
  ASSUME NEW x \in Nat, NEW w \in Nat \ {0}, NEW s \in BOOLEAN,
         x < 2^(HostWidth - 1), x < Limit(w, s)
  PROVE  Value(Make(x, w, s)) = x
<1> DEFINE k == Smaller(w, HostWidth)
           K == 2^k
           T == 2^(HostWidth - 1)
           W == 2^HostWidth
           H == 2^(w - 1)
           M == 2^w
<1>1. HostWidth \in Nat \ {0} /\ k \in {w, HostWidth}
  BY WidthsAssumption DEF Smaller
<1>2. /\ Limit(w, s) \in Nat \ {0} /\ Limit(w, s) <= M
      /\ s => Limit(w, s) = H
  BY Limits
<1>3. T \in Nat
  <2>1. HostWidth - 1 \in Nat
    BY <1>1
  <2> QED
    BY <2>1, PowerOfTwo
<1>4. W = 2 * T
  BY <1>1, PowerDoubles
<1>5. M \in Nat \ {0} /\ W \in Nat \ {0}
  <2>1. w \in Nat /\ HostWidth \in Nat
    BY <1>1
  <2> QED
    BY <2>1, PowerOfTwo
<1>6. x < M /\ x < W
  <2> HIDE DEF M, W, T
  <2> QED
    BY <1>2, <1>3, <1>4, <1>5 DEF T
<1>7. K \in {M, W}
  BY <1>1
<1>8. x % K = x
  <2> HIDE DEF K, M, W
  <2>1. x < K /\ K \in Nat \ {0}
    BY <1>5, <1>6, <1>7
  <2> QED
    BY <2>1
<1>9. Make(x, w, s).raw = x /\ Make(x, w, s).width = w /\ Make(x, w, s).isSigned = s
  BY <1>8 DEF Make
<1>10. Value(Make(x, w, s)) = IF s /\ x >= H THEN x - M ELSE IF x >= T THEN x - W ELSE x
  BY <1>9 DEF Value, AsHostSigned
<1>11. ~(s /\ x >= H)
  <2>1. s => x < H
    BY <1>2
  <2>2. s => H \in Nat
    BY <1>2
  <2> HIDE DEF H
  <2> QED
    BY <2>1, <2>2
<1>12. ~(x >= T)
  <2>1. x < T
    OBVIOUS
  <2> HIDE DEF T
  <2> QED
    BY <1>3, <2>1
<1> HIDE DEF T, H, M, W
<1> QED
  BY <1>10, <1>11, <1>12

\* A value that runs as a natural number of a type: its number when that fits.
RunsAs(v, x, ty) ==
  /\ Proper(v) /\ v.isSigned = ty.isSigned /\ v.width >= ty.width
  /\ x < 2^(HostWidth - 1) /\ FitsIn(x, ty) => Value(v) = x

LEMMA AddRuns ==
  ASSUME NEW a, NEW b, NEW x \in Nat, NEW y \in Nat, NEW ty \in CheckedTypes,
         RunsAs(a, x, ty), RunsAs(b, y, ty)
  PROVE  RunsAs(Add(a, b), x + y, ty)
<1> DEFINE T == 2^(HostWidth - 1)
           w == MaxW(a, b) + 1
           s == ty.isSigned
           v == Add(a, b)
           L == Limit(ty.width, s)
<1>1. /\ Proper(a) /\ Proper(b) /\ a.isSigned = s /\ b.isSigned = s
      /\ a.width >= ty.width /\ b.width >= ty.width /\ ty.width \in Nat \ {0} /\ s \in BOOLEAN
  BY DEF RunsAs, CheckedTypes
<1>2. a.width \in Nat \ {0} /\ b.width \in Nat \ {0}
  BY <1>1 DEF Proper
<1>3. w \in Nat \ {0} /\ w >= ty.width
  BY <1>1, <1>2 DEF MaxW, Larger
<1>4. Value(a) \in Int /\ Value(b) \in Int
  BY <1>1, ProperValue
<1>5. EitherSigned(a, b) = s
  BY <1>1 DEF EitherSigned
<1>6. v = Make(Value(a) + Value(b), w, s)
  BY <1>5 DEF Add
<1> HIDE DEF v, w
<1>7. Value(a) + Value(b) \in Int
  BY <1>4
<1>8. Proper(v) /\ v.width = w /\ v.isSigned = s
  BY <1>1, <1>3, <1>6, <1>7, MakeProper DEF Make
<1>9. T \in Nat /\ L \in Nat /\ Limit(w, s) \in Nat /\ L <= Limit(w, s)
  <2>1. HostWidth - 1 \in Nat
    BY WidthsAssumption
  <2>2. T \in Nat
    BY <2>1, PowerOfTwo
  <2>3. L \in Nat
    BY <1>1, Limits
  <2>4. Limit(w, s) \in Nat
    BY <1>1, <1>3, Limits
  <2>5. L <= Limit(w, s)
    BY <1>1, <1>3, LimitsGrow
  <2> QED
    BY <2>2, <2>3, <2>4, <2>5
<1>10. /\ FitsIn(x, ty) <=> x < L
       /\ FitsIn(y, ty) <=> y < L
       /\ FitsIn(x + y, ty) <=> x + y < L
  BY FitsIsLimit
<1>11. /\ x < T /\ FitsIn(x, ty) => Value(a) = x
       /\ y < T /\ FitsIn(y, ty) => Value(b) = y
  BY DEF RunsAs
<1> HIDE DEF T, L, s
<1>12. ASSUME x + y < T, x + y < L
       PROVE  Value(v) = x + y
  <2>1. x < T /\ x < L /\ y < T /\ y < L
    BY <1>9, <1>12
  <2>2. Value(a) = x /\ Value(b) = y
    BY <1>10, <1>11, <2>1
  <2>3. v = Make(x + y, w, s)
    BY <1>6, <2>2
  <2>4. x + y < Limit(w, s) /\ x + y \in Nat
    BY <1>9, <1>12
  <2>5. x + y < 2^(HostWidth - 1)
    BY <1>12 DEF T
  <2>6. Value(Make(x + y, w, s)) = x + y
    BY <1>1, <1>3, <2>4, <2>5, NaturalMade
  <2> QED
    BY <2>3, <2>6
<1>13. v.width >= ty.width
  BY <1>3, <1>8
<1> QED
  BY <1>8, <1>10, <1>12, <1>13 DEF RunsAs, T, v, s

LEMMA MulRuns ==
  ASSUME NEW a, NEW b, NEW x \in Nat, NEW y \in Nat, NEW ty \in CheckedTypes,
         RunsAs(a, x, ty), RunsAs(b, y, ty)
  PROVE  RunsAs(Mul(a, b), x * y, ty)
<1> DEFINE T == 2^(HostWidth - 1)
           w == a.width + b.width
           s == ty.isSigned
           v == Mul(a, b)
           L == Limit(ty.width, s)
<1>1. /\ Proper(a) /\ Proper(b) /\ a.isSigned = s /\ b.isSigned = s
      /\ a.width >= ty.width /\ b.width >= ty.width /\ ty.width \in Nat \ {0} /\ s \in BOOLEAN
  BY DEF RunsAs, CheckedTypes
<1>2. a.width \in Nat \ {0} /\ b.width \in Nat \ {0}
  BY <1>1 DEF Proper
<1>3. w \in Nat \ {0} /\ w >= ty.width
  BY <1>1, <1>2
<1>4. Value(a) \in Int /\ Value(b) \in Int
  BY <1>1, ProperValue
<1>5. EitherSigned(a, b) = s
  BY <1>1 DEF EitherSigned
<1>6. v = Make(Value(a) * Value(b), w, s)
  BY <1>5 DEF Mul
<1> HIDE DEF v, w
<1>7. Value(a) * Value(b) \in Int
  BY <1>4
<1>8. Proper(v) /\ v.width = w /\ v.isSigned = s
  BY <1>1, <1>3, <1>6, <1>7, MakeProper DEF Make
<1>9. T \in Nat \ {0} /\ L \in Nat \ {0} /\ Limit(w, s) \in Nat /\ L <= Limit(w, s)
  <2>1. HostWidth - 1 \in Nat
    BY WidthsAssumption
  <2>2. T \in Nat \ {0}
    BY <2>1, PowerOfTwo
  <2>3. L \in Nat \ {0}
    BY <1>1, Limits
  <2>4. Limit(w, s) \in Nat
    BY <1>1, <1>3, Limits
  <2>5. L <= Limit(w, s)
    BY <1>1, <1>3, LimitsGrow
  <2> QED
    BY <2>2, <2>3, <2>4, <2>5
<1>10. /\ FitsIn(x, ty) <=> x < L
       /\ FitsIn(y, ty) <=> y < L
       /\ FitsIn(x * y, ty) <=> x * y < L
  BY FitsIsLimit
<1>11. /\ x < T /\ FitsIn(x, ty) => Value(a) = x
       /\ y < T /\ FitsIn(y, ty) => Value(b) = y
  BY DEF RunsAs
<1> HIDE DEF T, L, s
<1>12. ASSUME x * y < T, x * y < L
       PROVE  Value(v) = x * y
  <2> DEFINE p == Value(a)
             q == Value(b)
  <2>1. p \in Int /\ q \in Int /\ v = Make(p * q, w, s)
    BY <1>4, <1>6
  <2>2. p * q = x * y
    <3>1. CASE x = 0
      <4>1. p = 0
        BY <1>9, <1>10, <1>11, <3>1
      <4> HIDE DEF p, q
      <4> QED
        BY <2>1, <3>1, <4>1
    <3>2. CASE y = 0
      <4>1. q = 0
        BY <1>9, <1>10, <1>11, <3>2
      <4> HIDE DEF p, q
      <4> QED
        BY <2>1, <3>2, <4>1
    <3>3. CASE x # 0 /\ y # 0
      <4>1. x <= x * y /\ y <= x * y /\ x * y \in Nat
        BY <3>3
      <4>2. x < T /\ x < L /\ y < T /\ y < L
        BY <1>9, <1>12, <4>1
      <4>3. p = x /\ q = y
        BY <1>10, <1>11, <4>2
      <4> QED
        BY <4>3
    <3> QED
      BY <3>1, <3>2, <3>3
  <2> HIDE DEF p, q
  <2> DEFINE z == x * y
  <2>3. z \in Nat /\ z < T /\ z < L
    BY <1>12
  <2> HIDE DEF z
  <2>4. z < Limit(w, s)
    BY <1>9, <2>3
  <2>5. z < 2^(HostWidth - 1)
    BY <2>3 DEF T
  <2>6. Value(Make(z, w, s)) = z
    BY <1>1, <1>3, <2>3, <2>4, <2>5, NaturalMade
  <2> QED
    BY <2>1, <2>2, <2>6 DEF z
<1>13. v.width >= ty.width
  BY <1>3, <1>8
<1> QED
  BY <1>8, <1>10, <1>12, <1>13 DEF RunsAs, T, v, s

\* What a constant is at run time, when all its nodes have one type.
OneType(t) ==
  \A n \in SumsIn(t) : ~t[n].isPoly =>
    \A k \in Operands(t[n]) : ~t[k].isPoly /\ t[k].type = t[n].type

UnaryNodes(t) == \A n \in DOMAIN t : t[n].kind = "Unary" => t[n].op \in UnaryOps

LEMMA SumsRun ==
  ASSUME NEW t, Tree(t), OneType(t), UnaryNodes(t)
  PROVE  \A n \in SumsIn(t) : ~t[n].isPoly => RunsAs(RunIn(t)[n], MeantIn(t)[n], t[n].type)
<1> DEFINE m == MeantIn(t)
           v == RunIn(t)
           Good(n) == ~t[n].isPoly => RunsAs(v[n], m[n], t[n].type)
           S == {n \in SumsIn(t) : ~Good(n)}
<1>1. CASE S = {}
  BY <1>1
<1>2. CASE S # {}
  <2>1. PICK n \in S : \A k \in 1 .. n - 1 : k \notin S
    <3>1. S \subseteq DOMAIN t
      BY SumsAre
    <3> HIDE DEF S
    <3> QED
      BY <1>2, <3>1, LeastNode
  <2> DEFINE a == t[n].kids[1]
             b == t[n].kids[2]
             ty == t[n].type
  <2>2. n \in SumsIn(t) /\ ~Good(n) /\ ~t[n].isPoly
    OBVIOUS
  <2>3. n \in DOMAIN t /\ t[n].value \in Nat /\ ty \in CheckedTypes
    BY <2>2, SumsAre, NodeFacts DEF TypingNodes
  <2>4. \A k \in Operands(t[n]) : k \in SumsIn(t) => Good(k)
    BY <2>1, <2>3, NodeFacts
  <2>5. SumIs(t, n, m, a, b)
    BY <2>2, SumNode
  <2>6. v[n] = RunOf(t[n], v)
    BY <2>3, MeantStep, RunStep
  <2> HIDE DEF m, v
  <2>7. \A k \in Operands(t[n]) : k \in SumsIn(t) => RunsAs(v[k], m[k], ty)
    <3>1. TAKE k \in Operands(t[n])
    <3>2. HAVE k \in SumsIn(t)
    <3>3. ~t[k].isPoly /\ t[k].type = ty
      BY <2>2, <3>1 DEF OneType
    <3> QED
      BY <2>4, <3>2, <3>3
  <2>8. \A k \in SumsIn(t) : m[k] \in Nat
    BY SumsNatural DEF m
  <2>9. CASE t[n].kind = "IntLit"
    <3> DEFINE w == ty.width
               s == ty.isSigned
               z == t[n].value
    <3>1. m[n] = z /\ v[n] = Make(z, w, s)
      BY <2>5, <2>6, <2>9 DEF SumIs, RunOf
    <3>2. w \in Nat \ {0} /\ s \in BOOLEAN /\ z \in Nat
      BY <2>3 DEF CheckedTypes
    <3> HIDE DEF w, s, z
    <3>3. Proper(v[n]) /\ v[n].width = w /\ v[n].isSigned = s
      <4>1. Proper(Make(z, w, s))
        BY <3>2, MakeProper
      <4>2. Make(z, w, s).width = w /\ Make(z, w, s).isSigned = s
        BY DEF Make
      <4> QED
        BY <3>1, <4>1, <4>2
    <3>4. z < 2^(HostWidth - 1) /\ z < Limit(w, s) => Value(v[n]) = z
      BY <3>1, <3>2, NaturalMade
    <3>5. FitsIn(z, ty) <=> z < Limit(w, s)
      BY FitsIsLimit DEF w, s
    <3>6. v[n].width >= w
      BY <3>2, <3>3
    <3>7. RunsAs(v[n], m[n], ty)
      BY <3>1, <3>3, <3>4, <3>5, <3>6 DEF RunsAs, w, s
    <3> QED
      BY <2>2, <3>7
  <2>10. CASE t[n].kind = "Unary"
    <3>1. m[n] = m[a] /\ a \in SumsIn(t) /\ a \in Operands(t[n]) /\ t[n].op \in Sums
      BY <2>5, <2>10 DEF SumIs
    <3>2. t[n].op = "+"
      BY <2>3, <2>10, <3>1 DEF UnaryNodes, UnaryOps, Sums
    <3>3. v[n] = v[a]
      BY <2>6, <2>10, <3>2 DEF RunOf, ApplyUnary
    <3>4. RunsAs(v[n], m[n], ty)
      BY <2>7, <3>1, <3>3
    <3> QED
      BY <2>2, <3>4
  <2>11. CASE t[n].kind = "Binary"
    <3>1. /\ a \in SumsIn(t) /\ a \in Operands(t[n]) /\ b \in SumsIn(t) /\ b \in Operands(t[n])
          /\ t[n].op \in {"+", "*"}
          /\ t[n].op = "+" => m[n] = m[a] + m[b]
          /\ t[n].op = "*" => m[n] = m[a] * m[b]
      BY <2>5, <2>11 DEF SumIs, Sums
    <3>2. v[n] = Apply(t[n].op, v[a], v[b])
      BY <2>6, <2>11 DEF RunOf
    <3>3. RunsAs(v[a], m[a], ty) /\ RunsAs(v[b], m[b], ty) /\ m[a] \in Nat /\ m[b] \in Nat
      BY <2>7, <2>8, <3>1
    <3>4. CASE t[n].op = "+"
      <4>1. v[n] = Add(v[a], v[b])
        <5>1. \A x, y : Apply("+", x, y) = Add(x, y)
          BY DEF Apply, Comparisons
        <5> QED
          BY <3>2, <3>4, <5>1
      <4>2. RunsAs(Add(v[a], v[b]), m[a] + m[b], ty)
        BY <2>3, <3>3, AddRuns
      <4> QED
        BY <2>2, <3>1, <3>4, <4>1, <4>2
    <3>5. CASE t[n].op = "*"
      <4>1. v[n] = Mul(v[a], v[b])
        <5>1. \A x, y : Apply("*", x, y) = Mul(x, y)
          BY DEF Apply, Comparisons
        <5> QED
          BY <3>2, <3>5, <5>1
      <4>2. RunsAs(Mul(v[a], v[b]), m[a] * m[b], ty)
        BY <2>3, <3>3, MulRuns
      <4> QED
        BY <2>2, <3>1, <3>5, <4>1, <4>2
    <3> QED
      BY <3>1, <3>4, <3>5
  <2> QED
    BY <2>5, <2>9, <2>10, <2>11 DEF SumIs
<1> QED
  BY <1>1, <1>2

-----------------------------------------------------------------------------
(***************************************************************************)
(* Pinning.  Likewise, of the sets of nodes that pinPoly may reach the     *)
(* smallest ones are what the recursive definition asks for.               *)
(***************************************************************************)
Downward(t, C) == \A c \in C : t[c].isPoly => \A k \in Operands(t[c]) : t[k].isPoly => k \in C

LEMMA PolyUnderIs ==
  ASSUME NEW t, Tree(t), NEW n \in DOMAIN t
  PROVE  \E Under :
           /\ PolyUnder(t, n) = Under[n]
           /\ \A m \in 1 .. n : Under[m] = IF t[m].isPoly
                                           THEN {m} \cup UNION {Under[k] : k \in Operands(t[m])}
                                           ELSE {}
<1> DEFINE Fix(Under) == Under = [m \in 1 .. n |->
                                    IF t[m].isPoly
                                    THEN {m} \cup UNION {Under[k] : k \in Operands(t[m])} ELSE {}]
           below(m) == {x \in DOMAIN t :
                          \A C \in SUBSET DOMAIN t : m \in C /\ Downward(t, C) => x \in C}
           under == [m \in 1 .. n |-> IF t[m].isPoly THEN below(m) ELSE {}]
<1>1. 1 .. n \subseteq DOMAIN t /\ n \in 1 .. n
  BY NodeFacts
<1>2. \A m \in 1 .. n : Operands(t[m]) \subseteq 1 .. n
  <2>1. TAKE m \in 1 .. n
  <2>2. m \in DOMAIN t /\ n \in Nat
    BY <1>1, NodeFacts
  <2>3. Operands(t[m]) \subseteq 1 .. m - 1
    BY <2>2, NodeFacts
  <2> QED
    BY <2>2, <2>3
<1>3. ASSUME NEW m \in 1 .. n, t[m].isPoly
      PROVE  below(m) = {m} \cup UNION {under[k] : k \in Operands(t[m])}
  <2> DEFINE new == {m} \cup UNION {under[k] : k \in Operands(t[m])}
  <2>1. m \in below(m)
    BY <1>1
  <2>2. ASSUME NEW k \in Operands(t[m]), t[k].isPoly
        PROVE  below(k) \subseteq below(m)
    <3>1. ASSUME NEW C \in SUBSET DOMAIN t, m \in C, Downward(t, C)
          PROVE  k \in C
      BY <1>3, <2>2, <3>1 DEF Downward
    <3> QED
      BY <3>1
  <2>3. \A k \in Operands(t[m]) : under[k] = IF t[k].isPoly THEN below(k) ELSE {}
    BY <1>2
  <2>4. new \subseteq below(m)
    <3> HIDE DEF below, under
    <3> QED
      BY <2>1, <2>2, <2>3
  <2>5. new \in SUBSET DOMAIN t /\ m \in new
    <3>1. below(m) \subseteq DOMAIN t
      OBVIOUS
    <3> QED
      BY <2>4, <3>1
  <2>6. Downward(t, new)
    <3> SUFFICES ASSUME NEW c \in new, t[c].isPoly, NEW j \in Operands(t[c]), t[j].isPoly
                 PROVE  j \in new
      BY DEF Downward
    <3>1. CASE c = m
      <4>1. j \in below(j)
        BY <1>2, <1>1, <3>1
      <4>2. under[j] = below(j)
        BY <2>3, <3>1
      <4> HIDE DEF below, under
      <4> QED
        BY <3>1, <4>1, <4>2
    <3>2. CASE c # m
      <4>1. PICK k \in Operands(t[m]) : c \in under[k]
        BY <3>2
      <4>2. t[k].isPoly /\ c \in below(k)
        <5> HIDE DEF below, under
        <5> QED
          BY <2>3, <4>1
      <4>3. c \in DOMAIN t
        BY <4>2
      <4>4. j \in DOMAIN t
        BY <4>3, NodeFacts
      <4>5. ASSUME NEW C \in SUBSET DOMAIN t, k \in C, Downward(t, C)
            PROVE  j \in C
        <5>1. c \in C
          BY <4>2, <4>5
        <5> QED
          BY <4>5, <5>1 DEF Downward
      <4>6. j \in below(k)
        BY <4>4, <4>5
      <4> HIDE DEF below, under
      <4> QED
        BY <2>3, <4>1, <4>2, <4>6
    <3> QED
      BY <3>1, <3>2
  <2>7. below(m) \subseteq new
    <3> HIDE DEF new
    <3> QED
      BY <2>5, <2>6
  <2> QED
    BY <2>4, <2>7
<1>4. Fix(under)
  <2> HIDE DEF below
  <2> QED
    BY <1>3
<1> DEFINE F == CHOOSE Under : Fix(Under)
<1>5. Fix(F)
  <2> HIDE DEF under
  <2> QED
    BY <1>4
<1>6. PolyUnder(t, n) = F[n]
  BY DEF PolyUnder
<1>7. \A m \in 1 .. n : F[m] = IF t[m].isPoly
                               THEN {m} \cup UNION {F[k] : k \in Operands(t[m])} ELSE {}
  <2> HIDE DEF F
  <2> QED
    BY <1>5
<1> HIDE DEF F
<1> QED
  BY <1>6, <1>7

\* What is reached from a node, through the nodes without a type.
LEMMA Reached ==
  ASSUME NEW t, Tree(t), NEW n \in DOMAIN t
  PROVE  /\ n \in PolyUnder(t, n) <=> t[n].isPoly
         /\ \A x \in PolyUnder(t, n) :
              /\ x \in DOMAIN t /\ t[x].isPoly
              /\ \A k \in Operands(t[x]) : t[k].isPoly => k \in PolyUnder(t, n)
              /\ x = n \/ \E p \in PolyUnder(t, n) : x \in Operands(t[p])
<1>1. PICK U : /\ PolyUnder(t, n) = U[n]
               /\ \A m \in 1 .. n : U[m] = IF t[m].isPoly
                                           THEN {m} \cup UNION {U[k] : k \in Operands(t[m])}
                                           ELSE {}
  BY PolyUnderIs
<1>2. n \in 1 .. n /\ 1 .. n \subseteq DOMAIN t /\ n \in Nat
  BY NodeFacts
<1> DEFINE Good(m) == \A x \in U[m] :
                         /\ x \in DOMAIN t /\ t[x].isPoly
                         /\ \A k \in Operands(t[x]) : t[k].isPoly => k \in U[m]
                         /\ x = m \/ \E p \in U[m] : x \in Operands(t[p])
<1>3. ASSUME NEW m \in 1 .. n, \A k \in Operands(t[m]) : Good(k)
      PROVE  Good(m)
  <2>1. \A k \in Operands(t[m]) : k \in 1 .. n
    <3>1. m \in DOMAIN t
      BY <1>2
    <3>2. Operands(t[m]) \subseteq 1 .. m - 1
      BY <3>1, NodeFacts
    <3> QED
      BY <1>2, <3>2
  <2>2. \A k \in Operands(t[m]) : t[k].isPoly => k \in U[k]
    BY <1>1, <2>1
  <2>3. CASE ~t[m].isPoly
    BY <1>1, <2>3
  <2>4. CASE t[m].isPoly
    <3>1. U[m] = {m} \cup UNION {U[k] : k \in Operands(t[m])}
      BY <1>1, <2>4
    <3>2. ASSUME NEW x \in U[m]
          PROVE  /\ x \in DOMAIN t /\ t[x].isPoly
                 /\ \A k \in Operands(t[x]) : t[k].isPoly => k \in U[m]
                 /\ x = m \/ \E p \in U[m] : x \in Operands(t[p])
      <4>1. CASE x = m
        BY <1>2, <2>2, <2>4, <3>1, <4>1
      <4>2. CASE x # m
        <5>1. PICK k \in Operands(t[m]) : x \in U[k]
          BY <3>1, <3>2, <4>2
        <5>2. /\ x \in DOMAIN t /\ t[x].isPoly
              /\ \A j \in Operands(t[x]) : t[j].isPoly => j \in U[k]
              /\ x = k \/ \E p \in U[k] : x \in Operands(t[p])
          BY <1>3, <5>1
        <5>3. U[k] \subseteq U[m] /\ m \in U[m]
          BY <3>1, <5>1
        <5> QED
          BY <5>1, <5>2, <5>3
      <4> QED
        BY <4>1, <4>2
    <3> QED
      BY <3>2
  <2> QED
    BY <2>3, <2>4
<1>4. \A m \in 1 .. n : Good(m)
  <2> DEFINE S == {m \in 1 .. n : ~Good(m)}
  <2>1. CASE S = {}
    BY <2>1
  <2>2. CASE S # {}
    <3>1. S \subseteq DOMAIN t
      BY <1>2
    <3>2. PICK m \in S : \A k \in 1 .. m - 1 : k \notin S
      <4> HIDE DEF S
      <4> QED
        BY <2>2, <3>1, LeastNode
    <3>3. m \in 1 .. n /\ m \in DOMAIN t
      BY <1>2, <3>2
    <3>4. \A k \in Operands(t[m]) : k \in 1 .. m - 1 /\ k \in 1 .. n
      <4>1. Operands(t[m]) \subseteq 1 .. m - 1
        BY <3>3, NodeFacts
      <4> QED
        BY <1>2, <3>3, <4>1
    <3>5. \A k \in Operands(t[m]) : Good(k)
      <4> HIDE DEF Good
      <4> QED
        BY <3>2, <3>4
    <3>6. Good(m)
      <4> HIDE DEF Good
      <4> QED
        BY <1>3, <3>3, <3>5
    <3> QED
      BY <3>2, <3>6
  <2> HIDE DEF Good
  <2> QED
    BY <2>1, <2>2
<1>5. Good(n)
  <2> HIDE DEF Good
  <2> QED
    BY <1>2, <1>4
<1>6. t[n].isPoly => n \in U[n]
  <2>1. U[n] = IF t[n].isPoly THEN {n} \cup UNION {U[k] : k \in Operands(t[n])} ELSE {}
    BY <1>1, <1>2
  <2> QED
    BY <2>1
<1> QED
  BY <1>1, <1>5, <1>6

\* What pinning some nodes makes of a tree.
PinnedTo(t, u, roots, ty) ==
  /\ Tree(u) /\ DOMAIN u = DOMAIN t
  /\ \A n \in DOMAIN t :
       /\ u[n].kind = t[n].kind /\ u[n].op = t[n].op /\ u[n].kids = t[n].kids
       /\ u[n].value = t[n].value /\ u[n].typeKnown = t[n].typeKnown
       /\ ~t[n].isPoly \/ u[n].isPoly => u[n] = t[n]
       /\ n \in roots => ~u[n].isPoly
       /\ t[n].isPoly /\ ~u[n].isPoly =>
            /\ u[n].type = ty
            /\ \A k \in Operands(t[n]) : ~u[k].isPoly
            /\ n \in roots \/ \E p \in DOMAIN t : /\ t[p].isPoly /\ ~u[p].isPoly
                                                  /\ n \in Operands(t[p])

LEMMA Pinning ==
  ASSUME NEW t, Tree(t), NEW roots, roots \subseteq DOMAIN t, NEW ty \in CheckedTypes
  PROVE  PinnedTo(t, PinPoly(t, roots, ty), roots, ty)
<1> DEFINE reached == UNION {PolyUnder(t, n) : n \in roots}
           u == PinPoly(t, roots, ty)
<1>1. DOMAIN t = 1 .. Len(t) /\ Len(t) \in Nat
  BY DEF Tree
<1>2. u = [m \in DOMAIN t |-> IF m \in reached THEN Pin(t[m], ty) ELSE t[m]]
  BY DEF PinPoly
<1>3. \A m \in DOMAIN t : t[m] \in TypingNodes
  BY NodeFacts
<1>4. ASSUME NEW x \in TypingNodes
      PROVE  /\ Pin(x, ty) \in TypingNodes /\ Pin(x, ty).kind = x.kind /\ Pin(x, ty).op = x.op
             /\ Pin(x, ty).kids = x.kids /\ Pin(x, ty).value = x.value
             /\ Pin(x, ty).typeKnown = x.typeKnown
             /\ ~Pin(x, ty).isPoly /\ Pin(x, ty).type = ty
  BY DEF Pin, TypingNodes
<1>5. \A x \in reached : x \in DOMAIN t /\ t[x].isPoly
  BY Reached
<1>6. \A x \in reached : \A k \in Operands(t[x]) : t[k].isPoly => k \in reached
  BY Reached
<1>7. \A x \in reached : x \in roots \/ \E p \in reached : x \in Operands(t[p])
  BY Reached
<1>8. \A x \in roots : t[x].isPoly => x \in reached
  BY Reached
<1>9. DOMAIN u = DOMAIN t
  BY <1>2
<1>10. \A m \in DOMAIN t : /\ m \in reached => u[m] = Pin(t[m], ty)
                           /\ m \notin reached => u[m] = t[m]
  BY <1>2
<1>11. \A m \in DOMAIN t : /\ u[m] \in TypingNodes
                           /\ u[m].kind = t[m].kind /\ u[m].op = t[m].op /\ u[m].kids = t[m].kids
                           /\ u[m].value = t[m].value /\ u[m].typeKnown = t[m].typeKnown
  <2> HIDE DEF reached, u
  <2> QED
    BY <1>3, <1>4, <1>10
<1>12. \A m \in DOMAIN t : m \in reached <=> t[m].isPoly /\ ~u[m].isPoly
  <2> HIDE DEF reached, u
  <2> QED
    BY <1>3, <1>4, <1>5, <1>10
<1>13. Tree(u)
  <2>1. u \in Seq(TypingNodes)
    <3>1. u \in [1 .. Len(t) -> TypingNodes]
      <4> HIDE DEF reached
      <4> QED
        BY <1>1, <1>2, <1>11
    <3> HIDE DEF u
    <3> QED
      BY <1>1, <3>1
  <2> HIDE DEF u
  <2> QED
    BY <1>9, <1>11, <2>1 DEF Tree
<1>14. ASSUME NEW n \in DOMAIN t
       PROVE  /\ ~t[n].isPoly \/ u[n].isPoly => u[n] = t[n]
              /\ n \in roots => ~u[n].isPoly
  <2> HIDE DEF reached, u
  <2>1. n \in roots => ~u[n].isPoly
    BY <1>8, <1>10, <1>12
  <2> QED
    BY <1>10, <1>12, <2>1
<1>15. ASSUME NEW n \in DOMAIN t, t[n].isPoly, ~u[n].isPoly
       PROVE  /\ u[n].type = ty
              /\ \A k \in Operands(t[n]) : ~u[k].isPoly
              /\ n \in roots \/ \E p \in DOMAIN t : /\ t[p].isPoly /\ ~u[p].isPoly
                                                    /\ n \in Operands(t[p])
  <2>1. Operands(t[n]) \subseteq DOMAIN t
    BY NodeFacts
  <2> HIDE DEF reached, u
  <2>2. n \in reached
    BY <1>12, <1>15
  <2>3. u[n].type = ty
    BY <1>3, <1>4, <1>10, <2>2
  <2>4. \A k \in Operands(t[n]) : ~u[k].isPoly
    BY <1>6, <1>10, <1>12, <2>1, <2>2
  <2>5. n \in roots \/ \E p \in DOMAIN t : /\ t[p].isPoly /\ ~u[p].isPoly /\ n \in Operands(t[p])
    BY <1>5, <1>7, <1>12, <2>2
  <2> QED
    BY <2>3, <2>4, <2>5
<1> HIDE DEF u, reached
<1> QED
  BY <1>9, <1>11, <1>13, <1>14, <1>15 DEF PinnedTo, u

-----------------------------------------------------------------------------
(***************************************************************************)
(* A tree that has been checked up to the expressions that wait for an     *)
(* operator: what waits is an operand of nothing yet; what has no type is  *)
(* a constant, and waits too, or is a part of one, or a cast's operand;    *)
(* and a node that is no constant has the type the rules give it, with     *)
(* operands whose types are final.                                         *)
(***************************************************************************)
InList(q) == {q[i] : i \in DOMAIN q}

Waiting(t, q) ==
  /\ q \in Seq(DOMAIN t)
  /\ \A i, j \in DOMAIN q : q[i] = q[j] => i = j
  /\ \A p \in DOMAIN t : \A k \in KidsOf(t[p]) : k \notin InList(q)

TypedNode(t, x) ==
  LET T(i) == t[x.kids[i]].type
  IN  /\ x.kind = "Unary" => x.type = UnaryRule(x.op, T(1)) /\ x.op \in UnaryOps
      /\ x.kind = "Binary" => /\ x.type = WidthRule(x.op, T(1), T(2)) /\ Typed(x.op, T(1), T(2))
                              /\ x.op \in BinaryOps /\ ~(x.type.width > HostWidth)
      /\ x.kind = "Ternary" => /\ x.type = TernaryRule(T(2), T(3))
                               /\ T(1) = U1 /\ T(2).isSigned = T(3).isSigned
      /\ Computed(x) => \A k \in KidsOf(x) : ~t[k].isPoly

Settled(t) ==
  \A n \in DOMAIN t : /\ t[n].isPoly => n \in UntypedIn(t)
                      /\ n \notin UntypedIn(t) => TypedNode(t, t[n])

UsedIn(t, n) ==
  \E p \in DOMAIN t : \/ t[p].isPoly /\ n \in Operands(t[p])
                      \/ t[p].kind = "Cast" /\ n \in KidsOf(t[p])

Hanging(t, q) == \A n \in DOMAIN t : t[n].isPoly => n \in InList(q) \/ UsedIn(t, n)

Checked(t, q) == Tree(t) /\ Waiting(t, q) /\ Settled(t) /\ Hanging(t, q)

\* A node keeps the type it has while its operands keep theirs.
LEMMA TypedStill ==
  ASSUME NEW t, NEW u, NEW x, x \in TypingNodes, Len(x.kids) = Arity(x.kind),
         \A k \in KidsOf(x) : ~t[k].isPoly => u[k] = t[k],
         TypedNode(t, x)
  PROVE  TypedNode(u, x)
<1>1. CASE ~Computed(x)
  BY <1>1 DEF Computed, TypedNode
<1>2. CASE Computed(x)
  <2>1. \A k \in KidsOf(x) : u[k] = t[k] /\ ~t[k].isPoly
    BY <1>2 DEF TypedNode
  <2>2. DOMAIN x.kids = 1 .. Arity(x.kind)
    BY DEF TypingNodes
  <2>3. \A i \in 1 .. Arity(x.kind) : x.kids[i] \in KidsOf(x)
    BY <2>2 DEF KidsOf
  <2>4. /\ x.kind = "Unary" => 1 \in 1 .. Arity(x.kind)
        /\ x.kind = "Binary" => {1, 2} \subseteq 1 .. Arity(x.kind)
        /\ x.kind = "Ternary" => {1, 2, 3} \subseteq 1 .. Arity(x.kind)
    BY DEF Arity
  <2>5. \A i \in 1 .. Arity(x.kind) : u[x.kids[i]] = t[x.kids[i]]
    BY <2>1, <2>3
  <2> QED
    BY <2>1, <2>4, <2>5 DEF TypedNode
<1> QED
  BY <1>1, <1>2

LEMMA PinnedChecked ==
  ASSUME NEW t, NEW u, NEW q, NEW roots, NEW ty, Checked(t, q), PinnedTo(t, u, roots, ty)
  PROVE  Checked(u, q)
<1>1. Tree(t) /\ Tree(u) /\ DOMAIN u = DOMAIN t /\ Keeps(t, u)
  BY DEF Checked, PinnedTo, Keeps
<1>2. \A n \in DOMAIN t : /\ u[n].kind = t[n].kind
                          /\ KidsOf(u[n]) = KidsOf(t[n]) /\ Operands(u[n]) = Operands(t[n])
                          /\ ~t[n].isPoly \/ u[n].isPoly => u[n] = t[n]
  BY SameOperands DEF PinnedTo
<1>3. \A n \in DOMAIN t : n \in UntypedIn(u) <=> n \in UntypedIn(t)
  BY <1>1, UntypedKept
<1>4. Waiting(u, q)
  BY <1>1, <1>2 DEF Checked, Waiting
<1>5. ASSUME NEW n \in DOMAIN u
      PROVE  /\ u[n].isPoly => n \in UntypedIn(u)
             /\ n \notin UntypedIn(u) => TypedNode(u, u[n])
  <2>1. u[n].isPoly => n \in UntypedIn(u)
    <3>1. u[n].isPoly => t[n].isPoly
      BY <1>1, <1>2
    <3> QED
      BY <1>1, <1>3, <3>1 DEF Checked, Settled
  <2>2. ASSUME n \notin UntypedIn(u)
        PROVE  TypedNode(u, u[n])
    <3>1. n \in DOMAIN t /\ n \notin UntypedIn(t)
      BY <1>1, <1>3, <2>2
    <3>2. ~t[n].isPoly /\ TypedNode(t, t[n])
      BY <3>1 DEF Checked, Settled
    <3>3. u[n] = t[n]
      BY <1>2, <3>1, <3>2
    <3>4. /\ t[n] \in TypingNodes /\ Len(t[n].kids) = Arity(t[n].kind)
          /\ KidsOf(t[n]) \subseteq DOMAIN t
      BY <1>1, <3>1, NodeFacts DEF Tree
    <3>5. \A k \in KidsOf(t[n]) : ~t[k].isPoly => u[k] = t[k]
      BY <1>2, <3>4
    <3>6. TypedNode(u, t[n])
      BY <3>2, <3>4, <3>5, TypedStill
    <3> QED
      BY <3>3, <3>6
  <2> QED
    BY <2>1, <2>2
<1>6. ASSUME NEW n \in DOMAIN u, u[n].isPoly
      PROVE  n \in InList(q) \/ UsedIn(u, n)
  <2>1. n \in DOMAIN t /\ t[n].isPoly
    BY <1>1, <1>2, <1>6
  <2>2. n \in InList(q) \/ UsedIn(t, n)
    BY <2>1 DEF Checked, Hanging
  <2>3. ASSUME NEW p \in DOMAIN t, t[p].isPoly, n \in Operands(t[p])
        PROVE  u[p].isPoly
    BY <1>6, <2>3 DEF PinnedTo
  <2>4. UsedIn(t, n) => UsedIn(u, n)
    BY <1>1, <1>2, <2>3 DEF UsedIn
  <2> QED
    BY <2>2, <2>4
<1> QED
  BY <1>1, <1>4, <1>5, <1>6 DEF Checked, Settled, Hanging

-----------------------------------------------------------------------------
(* A node that is made.                                                    *)
LEMMA NodeMade ==
  ASSUME NEW u, Tree(u), NEW x \in TypingNodes, x.kids \in Seq(DOMAIN u),
         Len(x.kids) = Arity(x.kind)
  PROVE  /\ Tree(Append(u, x)) /\ Keeps(u, Append(u, x))
         /\ DOMAIN Append(u, x) = DOMAIN u \cup {Len(u) + 1} /\ Len(u) + 1 \notin DOMAIN u
         /\ Append(u, x)[Len(u) + 1] = x
         /\ \A n \in DOMAIN u : Append(u, x)[n] = u[n]
<1> DEFINE v == Append(u, x)
           new == Len(u) + 1
<1>1. u \in Seq(TypingNodes) /\ Len(u) \in Nat /\ DOMAIN u = 1 .. Len(u)
  BY DEF Tree
<1>2. v \in Seq(TypingNodes) /\ DOMAIN v = 1 .. new /\ v[new] = x
      /\ \A n \in 1 .. Len(u) : v[n] = u[n]
  BY <1>1
<1>3. 1 .. new = 1 .. Len(u) \cup {new} /\ new \notin 1 .. Len(u) /\ new - 1 = Len(u)
  BY <1>1
<1> HIDE DEF v, new
<1>4. \A n \in DOMAIN v : v[n].kids \in Seq(1 .. n - 1) /\ Len(v[n].kids) = Arity(v[n].kind)
  BY <1>1, <1>2, <1>3 DEF Tree
<1>5. Tree(v)
  BY <1>2, <1>4 DEF Tree
<1> QED
  BY <1>1, <1>2, <1>3, <1>5 DEF v, new, Keeps

\* What is left of what waited, and the new node.
Requeued(q, popped, new) == Append(SubSeq(q, 1, Len(q) - popped), new)

PoppedOf(q, popped) == {q[i] : i \in Len(q) - popped + 1 .. Len(q)}

LEMMA QueueMade ==
  ASSUME NEW D, NEW q \in Seq(D), NEW popped \in 0 .. Len(q), NEW new, new \notin D,
         \A i, j \in DOMAIN q : q[i] = q[j] => i = j
  PROVE  /\ Requeued(q, popped, new) \in Seq(D \cup {new})
         /\ \A i, j \in DOMAIN Requeued(q, popped, new) :
              Requeued(q, popped, new)[i] = Requeued(q, popped, new)[j] => i = j
         /\ \A n : n \in InList(Requeued(q, popped, new))
                   <=> n = new \/ (n \in InList(q) /\ n \notin PoppedOf(q, popped))
<1> DEFINE m == Len(q) - popped
           s == SubSeq(q, 1, m)
           r == Requeued(q, popped, new)
<1>1. m \in Nat /\ m <= Len(q) /\ Len(q) \in Nat /\ DOMAIN q = 1 .. Len(q)
      /\ m + 1 = Len(q) - popped + 1
  OBVIOUS
<1>2. s \in Seq(D) /\ Len(s) = m /\ \A i \in 1 .. m : s[i] = q[i]
  <2> HIDE DEF m
  <2>1. \A i \in 1 .. m : q[i] \in D
    BY <1>1
  <2>2. SubSeq(q, 1, m) = [i \in 1 .. m |-> q[i]]
    BY <1>1, <2>1
  <2>3. [i \in 1 .. m |-> q[i]] \in Seq(D) /\ Len([i \in 1 .. m |-> q[i]]) = m
    BY <1>1, <2>1
  <2> QED
    BY <2>2, <2>3
<1>3. r = Append(s, new)
  BY DEF Requeued
<1> HIDE DEF m, s, r
<1>4. r \in Seq(D \cup {new}) /\ DOMAIN r = 1 .. m + 1 /\ r[m + 1] = new
      /\ \A i \in 1 .. m : r[i] = q[i]
  BY <1>1, <1>2, <1>3
<1>5. \A i \in 1 .. m : r[i] \in D /\ i \in DOMAIN q
  BY <1>1, <1>4
<1>6. ASSUME NEW i \in DOMAIN r, NEW j \in DOMAIN r, r[i] = r[j]
      PROVE  i = j
  BY <1>1, <1>4, <1>5, <1>6
<1>7. ASSUME NEW n
      PROVE  n \in InList(r) <=> n = new \/ (n \in InList(q) /\ n \notin PoppedOf(q, popped))
  <2>1. n \in InList(r) <=> n = new \/ \E i \in 1 .. m : q[i] = n
    BY <1>1, <1>4 DEF InList
  <2>2. ASSUME NEW i \in 1 .. m
        PROVE  q[i] \notin PoppedOf(q, popped) /\ q[i] \in InList(q)
    <3>1. i \in DOMAIN q
      BY <1>5
    <3>2. ASSUME NEW j \in Len(q) - popped + 1 .. Len(q)
          PROVE  q[j] # q[i]
      <4>1. j \in DOMAIN q /\ j # i
        BY <1>1, <2>2, <3>2
      <4> QED
        BY <3>1, <4>1
    <3> QED
      BY <3>1, <3>2 DEF PoppedOf, InList
  <2>3. ASSUME n \in InList(q), n \notin PoppedOf(q, popped)
        PROVE  \E i \in 1 .. m : q[i] = n
    <3>1. PICK i \in DOMAIN q : q[i] = n
      BY <2>3 DEF InList
    <3>2. i \notin Len(q) - popped + 1 .. Len(q)
      BY <2>3, <3>1 DEF PoppedOf
    <3> QED
      BY <1>1, <3>1, <3>2
  <2> QED
    BY <2>1, <2>2, <2>3
<1> QED
  BY <1>4, <1>6, <1>7 DEF r

\* A node may be made of what is popped.
Fitting(u, q, x, popped) ==
  /\ x \in TypingNodes /\ popped \in 0 .. Len(q)
  /\ x.kids \in Seq(DOMAIN u) /\ Len(x.kids) = Arity(x.kind)
  /\ KidsOf(x) \subseteq PoppedOf(q, popped)
  /\ x.isPoly => x.kind = "IntLit" \/ (Computed(x) /\ Operands(x) \subseteq UntypedIn(u))
  /\ ~x.isPoly => TypedNode(u, x)
  /\ \A k \in PoppedOf(q, popped) :
       u[k].isPoly => \/ x.isPoly /\ k \in Operands(x)
                      \/ x.kind = "Cast" /\ k \in KidsOf(x)

LEMMA MadeChecked ==
  ASSUME NEW u, NEW q, Checked(u, q), NEW x, NEW popped, Fitting(u, q, x, popped)
  PROVE  Checked(Append(u, x), Requeued(q, popped, Len(u) + 1))
<1> DEFINE v == Append(u, x)
           new == Len(u) + 1
           r == Requeued(q, popped, new)
<1>1. /\ Tree(v) /\ Keeps(u, v) /\ DOMAIN v = DOMAIN u \cup {new} /\ new \notin DOMAIN u
      /\ v[new] = x /\ \A n \in DOMAIN u : v[n] = u[n]
  BY NodeMade DEF Checked, Fitting
<1>2. /\ r \in Seq(DOMAIN v) /\ \A i, j \in DOMAIN r : r[i] = r[j] => i = j
      /\ \A n : n \in InList(r) <=> n = new \/ (n \in InList(q) /\ n \notin PoppedOf(q, popped))
  <2>1. q \in Seq(DOMAIN u) /\ popped \in 0 .. Len(q) /\ \A i, j \in DOMAIN q : q[i] = q[j] => i = j
    BY DEF Checked, Waiting, Fitting
  <2>2. new \notin DOMAIN u
    BY <1>1
  <2> HIDE DEF new
  <2>3. /\ Requeued(q, popped, new) \in Seq(DOMAIN u \cup {new})
        /\ \A i, j \in DOMAIN Requeued(q, popped, new) :
             Requeued(q, popped, new)[i] = Requeued(q, popped, new)[j] => i = j
        /\ \A n : n \in InList(Requeued(q, popped, new))
                  <=> n = new \/ (n \in InList(q) /\ n \notin PoppedOf(q, popped))
    BY <2>1, <2>2, QueueMade
  <2> HIDE DEF v
  <2> QED
    BY <1>1, <2>3
<1> HIDE DEF v, new, r
<1>3. Tree(u) /\ \A n \in DOMAIN u : n \in UntypedIn(v) <=> n \in UntypedIn(u)
  BY <1>1, UntypedKept DEF Checked
<1>4. \A n \in DOMAIN u : KidsOf(u[n]) \subseteq DOMAIN u
  BY <1>3, NodeFacts
<1>5. KidsOf(x) \subseteq DOMAIN u /\ Operands(x) \subseteq KidsOf(x)
  <2>1. KidsOf(v[new]) = KidsOf(x) /\ Operands(v[new]) = Operands(x)
    BY <1>1
  <2>2. new \in DOMAIN v
    BY <1>1
  <2>3. Operands(v[new]) \subseteq KidsOf(v[new])
    BY <1>1, <2>2, NodeFacts
  <2>4. KidsOf(x) \subseteq DOMAIN u
    BY DEF Fitting, KidsOf
  <2> QED
    BY <2>1, <2>3, <2>4
<1>6. Waiting(v, r)
  <2>1. ASSUME NEW p \in DOMAIN v, NEW k \in KidsOf(v[p])
        PROVE  k \notin InList(r)
    <3>1. CASE p = new
      BY <1>1, <1>2, <1>5, <2>1, <3>1 DEF Fitting
    <3>2. CASE p # new
      <4>1. p \in DOMAIN u /\ k \in KidsOf(u[p]) /\ k \in DOMAIN u
        BY <1>1, <1>4, <2>1, <3>2
      <4>2. k \notin InList(q)
        BY <4>1 DEF Checked, Waiting
      <4> QED
        BY <1>1, <1>2, <4>1, <4>2
    <3> QED
      BY <3>1, <3>2
  <2> QED
    BY <1>2, <2>1 DEF Waiting
<1>7. ASSUME NEW n \in DOMAIN v
      PROVE  /\ v[n].isPoly => n \in UntypedIn(v)
             /\ n \notin UntypedIn(v) => TypedNode(v, v[n])
  <2>1. CASE n = new
    <3>1. v[n] = x
      BY <1>1, <2>1
    <3>2. x.isPoly => ConstantAt(v, n, UntypedIn(v))
      BY <1>3, <1>5, <3>1 DEF Fitting, ConstantAt
    <3>3. x.isPoly => n \in UntypedIn(v)
      BY <1>1, <1>7, <3>2, UntypedAre
    <3>4. ~x.isPoly => TypedNode(v, x)
      <4>1. HAVE ~x.isPoly
      <4>2. TypedNode(u, x) /\ x \in TypingNodes /\ Len(x.kids) = Arity(x.kind)
        BY <4>1 DEF Fitting
      <4>3. \A k \in KidsOf(x) : ~u[k].isPoly => v[k] = u[k]
        BY <1>1, <1>5
      <4> QED
        BY <4>2, <4>3, TypedStill
    <3> QED
      BY <3>1, <3>3, <3>4
  <2>2. CASE n # new
    <3>1. n \in DOMAIN u /\ v[n] = u[n]
      BY <1>1, <1>7, <2>2
    <3>2. v[n].isPoly => n \in UntypedIn(v)
      BY <1>3, <3>1 DEF Checked, Settled
    <3>3. ASSUME n \notin UntypedIn(v)
          PROVE  TypedNode(v, v[n])
      <4>1. TypedNode(u, u[n])
        BY <1>3, <3>1, <3>3 DEF Checked, Settled
      <4>2. u[n] \in TypingNodes /\ Len(u[n].kids) = Arity(u[n].kind)
        BY <1>3, <3>1, NodeFacts DEF Tree
      <4>3. \A k \in KidsOf(u[n]) : ~u[k].isPoly => v[k] = u[k]
        BY <1>1, <1>4, <3>1
      <4>4. TypedNode(v, u[n])
        BY <4>1, <4>2, <4>3, TypedStill
      <4> QED
        BY <3>1, <4>4
    <3> QED
      BY <3>2, <3>3
  <2> QED
    BY <2>1, <2>2
<1>8. ASSUME NEW n \in DOMAIN v, v[n].isPoly
      PROVE  n \in InList(r) \/ UsedIn(v, n)
  <2>1. CASE n = new
    BY <1>2, <2>1
  <2>2. CASE n # new
    <3>1. n \in DOMAIN u /\ u[n].isPoly
      BY <1>1, <1>8, <2>2
    <3>2. UsedIn(u, n) => UsedIn(v, n)
      BY <1>1 DEF UsedIn
    <3>3. n \in InList(q) \/ UsedIn(u, n)
      BY <3>1 DEF Checked, Hanging
    <3>4. ASSUME n \in PoppedOf(q, popped)
          PROVE  UsedIn(v, n)
      <4>1. \/ x.isPoly /\ n \in Operands(x)
            \/ x.kind = "Cast" /\ n \in KidsOf(x)
        BY <3>1, <3>4 DEF Fitting
      <4>2. new \in DOMAIN v /\ v[new] = x
        BY <1>1
      <4> QED
        BY <4>1, <4>2 DEF UsedIn
    <3> QED
      BY <1>2, <3>2, <3>3, <3>4
  <2> QED
    BY <2>1, <2>2
<1> QED
  BY <1>1, <1>6, <1>7, <1>8 DEF Checked, Settled, Hanging, v, r, new

-----------------------------------------------------------------------------
(***************************************************************************)
(* What is known of the constants made of sums: one that has no type yet   *)
(* holds what it means, and so do its operands; one that was given a type  *)
(* gave it to all its nodes, and fits it when it is nobody's operand.      *)
(***************************************************************************)
Single(t) == \A p, c \in DOMAIN t : \A k \in KidsOf(t[p]) : k \in KidsOf(t[c]) => p = c

Folded(t) ==
  \A n \in SumsIn(t) : t[n].isPoly =>
    /\ t[n].constValue = MeantIn(t)[n] % 2^HostWidth
    /\ \A k \in Operands(t[n]) : t[k].isPoly

Topmost(t, n) == \A p \in UntypedIn(t) : n \notin Operands(t[p])

Fitted(t) ==
  \A n \in SumsIn(t) : ~t[n].isPoly /\ t[n].typeKnown /\ Topmost(t, n) =>
    FitsIn(MeantIn(t)[n] % 2^HostWidth, t[n].type)

Valued(t) == Single(t) /\ UnaryNodes(t) /\ Folded(t) /\ OneType(t) /\ Fitted(t)

Free(t, q) == \A n \in InList(q) : n \in UntypedIn(t) => t[n].isPoly

LEMMA PinnedAlike ==
  ASSUME NEW t, NEW u, NEW roots, NEW ty, PinnedTo(t, u, roots, ty)
  PROVE  Alike(t, u)
  BY DEF PinnedTo, Alike, Keeps

LEMMA PinnedValued ==
  ASSUME NEW t, NEW u, NEW q, NEW roots, NEW ty, Checked(t, q), Valued(t), roots \subseteq InList(q),
         PinnedTo(t, u, roots, ty),
         \A r \in roots : t[r].isPoly => FitsIn(t[r].constValue, ty)
  PROVE  Valued(u)
<1>1. Tree(t) /\ Tree(u) /\ DOMAIN u = DOMAIN t /\ Alike(t, u) /\ Keeps(t, u)
  <2>1. Alike(t, u)
    BY PinnedAlike
  <2> QED
    BY <2>1 DEF Checked, PinnedTo, Alike
<1>2. \A n \in DOMAIN t : /\ u[n].kind = t[n].kind /\ u[n].op = t[n].op
                          /\ u[n].typeKnown = t[n].typeKnown
                          /\ KidsOf(u[n]) = KidsOf(t[n]) /\ Operands(u[n]) = Operands(t[n])
                          /\ ~t[n].isPoly \/ u[n].isPoly => u[n] = t[n]
  BY SameOperands DEF PinnedTo
<1>3. \A n \in DOMAIN t : n \in UntypedIn(u) <=> n \in UntypedIn(t)
  BY <1>1, UntypedKept
<1>4. \A n \in DOMAIN t : (n \in SumsIn(u) <=> n \in SumsIn(t)) /\ MeantIn(u)[n] = MeantIn(t)[n]
  BY <1>1, SumsKept
<1>5. UntypedIn(t) \subseteq DOMAIN t /\ SumsIn(t) \subseteq DOMAIN t /\ SumsIn(u) \subseteq DOMAIN t
      /\ UntypedIn(u) \subseteq DOMAIN t
  BY <1>1, UntypedAre, SumsAre
<1>6. \A n \in DOMAIN t : KidsOf(t[n]) \subseteq DOMAIN t /\ Operands(t[n]) \subseteq KidsOf(t[n])
  BY <1>1, NodeFacts
<1>7. Single(u) /\ UnaryNodes(u)
  BY <1>1, <1>2 DEF Valued, Single, UnaryNodes
<1>8. ASSUME NEW n \in SumsIn(u), u[n].isPoly
      PROVE  /\ u[n].constValue = MeantIn(u)[n] % 2^HostWidth
             /\ \A k \in Operands(u[n]) : u[k].isPoly
  <2>1. n \in DOMAIN t /\ n \in SumsIn(t) /\ t[n].isPoly /\ u[n] = t[n]
    BY <1>2, <1>4, <1>5, <1>8
  <2>2. /\ t[n].constValue = MeantIn(t)[n] % 2^HostWidth
        /\ \A k \in Operands(t[n]) : t[k].isPoly
    BY <2>1 DEF Valued, Folded
  <2>3. ASSUME NEW k \in Operands(t[n]), ~u[k].isPoly
        PROVE  FALSE
    <3>1. k \in DOMAIN t /\ k \in KidsOf(t[n]) /\ t[k].isPoly
      BY <1>6, <2>1, <2>2, <2>3
    <3>2. k \notin roots
      BY <2>1, <3>1 DEF Checked, Waiting
    <3>3. PICK p \in DOMAIN t : t[p].isPoly /\ ~u[p].isPoly /\ k \in Operands(t[p])
      BY <2>3, <3>1, <3>2 DEF PinnedTo
    <3>4. p = n
      BY <1>6, <2>1, <3>1, <3>3 DEF Valued, Single
    <3> QED
      BY <1>8, <3>3, <3>4
  <2> QED
    BY <1>4, <2>1, <2>2, <2>3
<1>9. ASSUME NEW n \in SumsIn(u), ~u[n].isPoly, NEW k \in Operands(u[n])
      PROVE  ~u[k].isPoly /\ u[k].type = u[n].type
  <2>1. n \in DOMAIN t /\ n \in SumsIn(t) /\ k \in Operands(t[n]) /\ k \in DOMAIN t
    BY <1>2, <1>4, <1>5, <1>6, <1>9
  <2>2. CASE t[n].isPoly
    <3>1. t[k].isPoly
      BY <2>1, <2>2 DEF Valued, Folded
    <3>2. ~u[k].isPoly /\ u[n].type = ty
      BY <1>9, <2>1, <2>2 DEF PinnedTo
    <3>3. u[k].type = ty
      BY <2>1, <3>1, <3>2 DEF PinnedTo
    <3> QED
      BY <3>2, <3>3
  <2>3. CASE ~t[n].isPoly
    <3>1. u[n] = t[n] /\ ~t[k].isPoly /\ t[k].type = t[n].type
      BY <1>2, <2>1, <2>3 DEF Valued, OneType
    <3>2. u[k] = t[k]
      BY <1>2, <2>1, <3>1
    <3> QED
      BY <3>1, <3>2
  <2> QED
    BY <2>2, <2>3
<1>10. ASSUME NEW n \in SumsIn(u), ~u[n].isPoly, u[n].typeKnown, Topmost(u, n)
       PROVE  FitsIn(MeantIn(u)[n] % 2^HostWidth, u[n].type)
  <2>1. n \in DOMAIN t /\ n \in SumsIn(t) /\ MeantIn(u)[n] = MeantIn(t)[n] /\ t[n].typeKnown
    BY <1>2, <1>4, <1>5, <1>10
  <2>2. Topmost(t, n)
    BY <1>2, <1>3, <1>5, <1>10 DEF Topmost
  <2>3. CASE t[n].isPoly
    <3>1. ASSUME NEW p \in DOMAIN t, t[p].isPoly, n \in Operands(t[p])
          PROVE  FALSE
      <4>1. p \in UntypedIn(t)
        BY <3>1 DEF Checked, Settled
      <4> QED
        BY <2>2, <3>1, <4>1 DEF Topmost
    <3>2. u[n].type = ty /\ n \in roots
      BY <1>10, <2>1, <2>3, <3>1 DEF PinnedTo
    <3>3. FitsIn(t[n].constValue, ty)
      BY <2>3, <3>2
    <3>4. t[n].constValue = MeantIn(t)[n] % 2^HostWidth
      BY <2>1, <2>3 DEF Valued, Folded
    <3> QED
      BY <2>1, <3>2, <3>3, <3>4
  <2>4. CASE ~t[n].isPoly
    <3>1. u[n] = t[n]
      BY <1>2, <2>1, <2>4
    <3>2. FitsIn(MeantIn(t)[n] % 2^HostWidth, t[n].type)
      BY <2>1, <2>2, <2>4 DEF Valued, Fitted
    <3> QED
      BY <2>1, <3>1, <3>2
  <2> QED
    BY <2>3, <2>4
<1> QED
  BY <1>7, <1>8, <1>9, <1>10 DEF Valued, Folded, OneType, Fitted

\* What is folded into a node that is made.
Folding(u, x) ==
  LET V(i) == u[x.kids[i]].constValue
  IN  /\ x.kind = "Unary" => x.op \in UnaryOps
      /\ x.isPoly =>
           /\ \A k \in Operands(x) : u[k].isPoly
           /\ x.kind = "IntLit" => x.constValue = x.value % 2^HostWidth
           /\ x.kind = "Unary" => x.constValue = V(1) % 2^HostWidth
           /\ x.kind = "Binary" /\ x.op = "+" => x.constValue = (V(1) + V(2)) % 2^HostWidth
           /\ x.kind = "Binary" /\ x.op = "*" => x.constValue = (V(1) * V(2)) % 2^HostWidth
      /\ ~x.isPoly => \/ x.kind = "IntLit" /\ ~x.typeKnown
                      \/ x.kind # "IntLit" /\ ~Computed(x)
                      \/ Computed(x) /\ \E k \in Operands(x) : k \notin UntypedIn(u)

LEMMA PoppedWait ==
  ASSUME NEW t, NEW q, Checked(t, q), NEW popped \in 0 .. Len(q)
  PROVE  PoppedOf(q, popped) \subseteq InList(q)
<1>1. Len(q) \in Nat /\ DOMAIN q = 1 .. Len(q)
  BY DEF Checked, Waiting
<1>2. Len(q) - popped + 1 .. Len(q) \subseteq DOMAIN q
  BY <1>1
<1> QED
  BY <1>2 DEF PoppedOf, InList

LEMMA MadeValued ==
  ASSUME NEW u, NEW q, Checked(u, q), Valued(u), NEW x, NEW popped, Fitting(u, q, x, popped),
         Folding(u, x)
  PROVE  Valued(Append(u, x))
<1> DEFINE v == Append(u, x)
           new == Len(u) + 1
           M == 2^HostWidth
<1>1. /\ Tree(u) /\ Tree(v) /\ Keeps(u, v) /\ DOMAIN v = DOMAIN u \cup {new} /\ new \notin DOMAIN u
      /\ v[new] = x /\ \A n \in DOMAIN u : v[n] = u[n]
  BY NodeMade DEF Checked, Fitting
<1> HIDE DEF v, new
<1>2. \A n \in DOMAIN u : n \in UntypedIn(v) <=> n \in UntypedIn(u)
  BY <1>1, UntypedKept
<1>3. \A n \in DOMAIN u : (n \in SumsIn(v) <=> n \in SumsIn(u)) /\ MeantIn(v)[n] = MeantIn(u)[n]
  <2>1. Alike(u, v)
    BY <1>1 DEF Alike
  <2> QED
    BY <1>1, <2>1, SumsKept
<1>4. /\ UntypedIn(u) \subseteq DOMAIN u /\ SumsIn(u) \subseteq DOMAIN u
      /\ SumsIn(v) \subseteq DOMAIN u \cup {new}
  BY <1>1, UntypedAre, SumsAre
<1>5. \A n \in DOMAIN u : KidsOf(u[n]) \subseteq DOMAIN u /\ Operands(u[n]) \subseteq DOMAIN u
  BY <1>1, NodeFacts
<1>6. KidsOf(x) \subseteq DOMAIN u /\ KidsOf(x) \subseteq InList(q)
  <2>1. popped \in 0 .. Len(q) /\ KidsOf(x) \subseteq PoppedOf(q, popped)
    BY DEF Fitting
  <2>2. KidsOf(x) \subseteq InList(q)
    BY <2>1, PoppedWait
  <2> QED
    BY <2>2 DEF Checked, Waiting, InList
<1>7. Operands(x) \subseteq KidsOf(x)
  <2>1. Operands(v[new]) \subseteq KidsOf(v[new])
    BY <1>1, NodeFacts
  <2> QED
    BY <1>1, <2>1
<1>8. Single(v)
  <2>1. ASSUME NEW p \in DOMAIN v, NEW c \in DOMAIN v, NEW k \in KidsOf(v[p]), k \in KidsOf(v[c])
        PROVE  p = c
    <3>1. \A n \in DOMAIN u : \A j \in KidsOf(u[n]) : j \notin KidsOf(x)
      BY <1>6 DEF Checked, Waiting
    <3>2. CASE p = new
      BY <1>1, <2>1, <3>1, <3>2
    <3>3. CASE p # new
      <4>1. p \in DOMAIN u /\ k \in KidsOf(u[p]) /\ c # new
        BY <1>1, <2>1, <3>1, <3>3
      <4>2. c \in DOMAIN u /\ k \in KidsOf(u[c])
        BY <1>1, <2>1, <4>1
      <4> QED
        BY <4>1, <4>2 DEF Valued, Single
    <3> QED
      BY <3>2, <3>3
  <2> QED
    BY <2>1 DEF Single
<1>9. UnaryNodes(v)
  BY <1>1 DEF Valued, UnaryNodes, Folding
<1>10. ASSUME x.isPoly, new \in SumsIn(v)
       PROVE  /\ x.constValue = MeantIn(v)[new] % M
              /\ \A k \in Operands(x) : v[k].isPoly
  <2> DEFINE m == MeantIn(v)
             a == x.kids[1]
             b == x.kids[2]
  <2>1. \A k \in Operands(x) : k \in DOMAIN u /\ u[k].isPoly /\ v[k] = u[k]
    BY <1>1, <1>6, <1>7, <1>10 DEF Folding
  <2>2. SumIs(v, new, m, a, b)
    BY <1>1, <1>10, SumNode
  <2>3. \A k \in SumsIn(v) : m[k] \in Nat
    BY <1>1, SumsNatural
  <2>4. ASSUME NEW k \in Operands(x), k \in SumsIn(v)
        PROVE  u[k].constValue = m[k] % M
    <3>1. k \in SumsIn(u) /\ u[k].isPoly /\ MeantIn(v)[k] = MeantIn(u)[k]
      BY <1>3, <2>1, <2>4
    <3> QED
      BY <3>1 DEF Valued, Folded
  <2>5. M \in Nat \ {0}
    BY PowerOfTwo, WidthsAssumption
  <2> HIDE DEF m, M
  <2>6. CASE x.kind = "IntLit"
    <3>1. x.constValue = x.value % M /\ m[new] = x.value
      BY <1>1, <1>10, <2>2, <2>6 DEF Folding, SumIs, M
    <3> QED
      BY <2>1, <3>1 DEF m
  <2>7. CASE x.kind = "Unary"
    <3>1. a \in SumsIn(v) /\ a \in Operands(x) /\ m[new] = m[a]
      BY <1>1, <2>2, <2>7 DEF SumIs
    <3>2. x.constValue = (m[a] % M) % M
      BY <1>10, <2>4, <2>7, <3>1 DEF Folding, M
    <3>3. (m[a] % M) % M = m[a] % M
      <4> DEFINE y == m[a]
      <4>1. y \in Nat
        BY <2>3, <3>1
      <4> HIDE DEF y
      <4>2. y % M \in 0 .. M - 1
        BY <2>5, <4>1, Quotient
      <4>3. (y % M) % M = y % M
        BY <2>5, <4>2
      <4> QED
        BY <4>3 DEF y
    <3> QED
      BY <2>1, <3>1, <3>2, <3>3 DEF m
  <2>8. CASE x.kind = "Binary"
    <3>1. /\ a \in SumsIn(v) /\ a \in Operands(x) /\ b \in SumsIn(v) /\ b \in Operands(x)
          /\ x.op \in {"+", "*"}
          /\ x.op = "+" => m[new] = m[a] + m[b]
          /\ x.op = "*" => m[new] = m[a] * m[b]
      BY <1>1, <2>2, <2>8 DEF SumIs, Sums
    <3>2. u[a].constValue = m[a] % M /\ u[b].constValue = m[b] % M
      BY <2>4, <3>1
    <3>3. m[a] \in Int /\ m[b] \in Int
      BY <2>3, <3>1
    <3>4. x.op = "+" => x.constValue = ((m[a] % M) + (m[b] % M)) % M
      BY <1>10, <2>8, <3>2 DEF Folding, M
    <3>5. x.op = "*" => x.constValue = ((m[a] % M) * (m[b] % M)) % M
      BY <1>10, <2>8, <3>2 DEF Folding, M
    <3>6. ((m[a] % M) + (m[b] % M)) % M = (m[a] + m[b]) % M
      BY <2>5, <3>3, ResidueSum
    <3>7. ((m[a] % M) * (m[b] % M)) % M = (m[a] * m[b]) % M
      BY <2>5, <3>3, ResidueProduct
    <3>8. x.constValue = m[new] % M
      BY <3>1, <3>4, <3>5, <3>6, <3>7
    <3> QED
      BY <2>1, <3>8 DEF m
  <2> QED
    BY <1>1, <2>2, <2>6, <2>7, <2>8 DEF SumIs
<1>11. ASSUME ~x.isPoly, new \in SumsIn(v)
       PROVE  x.kind = "IntLit" /\ ~x.typeKnown /\ Operands(x) = {}
  <2>1. SumAt(v, new, SumsIn(v))
    BY <1>1, <1>11, SumsAre
  <2>2. \A k \in Operands(x) : k \in SumsIn(v) => k \in UntypedIn(u)
    <3>1. SumsIn(u) \subseteq UntypedIn(u)
      BY <1>1, SumsUntyped
    <3> QED
      BY <1>3, <1>6, <1>7, <3>1
  <2>3. x.kind = "IntLit"
    BY <1>1, <1>11, <2>1, <2>2 DEF SumAt, Folding, Computed
  <2>4. ~x.typeKnown
    BY <1>11, <2>3 DEF Folding, Computed
  <2> QED
    BY <2>3, <2>4 DEF Operands
<1>12. ASSUME NEW n \in SumsIn(v), v[n].isPoly
       PROVE  /\ v[n].constValue = MeantIn(v)[n] % M
              /\ \A k \in Operands(v[n]) : v[k].isPoly
  <2>1. CASE n = new
    BY <1>1, <1>10, <1>12, <2>1
  <2>2. CASE n # new
    <3>1. n \in SumsIn(u) /\ n \in DOMAIN u /\ v[n] = u[n] /\ MeantIn(v)[n] = MeantIn(u)[n]
      BY <1>1, <1>3, <1>4, <2>2
    <3>2. u[n].constValue = MeantIn(u)[n] % M /\ \A k \in Operands(u[n]) : u[k].isPoly
      BY <1>12, <3>1 DEF Valued, Folded
    <3>3. \A k \in Operands(u[n]) : v[k] = u[k]
      BY <1>1, <1>5, <3>1
    <3> QED
      BY <3>1, <3>2, <3>3
  <2> QED
    BY <2>1, <2>2
<1>13. ASSUME NEW n \in SumsIn(v), ~v[n].isPoly
       PROVE  /\ \A k \in Operands(v[n]) : ~v[k].isPoly /\ v[k].type = v[n].type
              /\ v[n].typeKnown /\ Topmost(v, n) => FitsIn(MeantIn(v)[n] % M, v[n].type)
  <2>1. CASE n = new
    BY <1>1, <1>11, <1>13, <2>1
  <2>2. CASE n # new
    <3>1. n \in SumsIn(u) /\ n \in DOMAIN u /\ v[n] = u[n] /\ MeantIn(v)[n] = MeantIn(u)[n]
      BY <1>1, <1>3, <1>4, <2>2
    <3>2. \A k \in Operands(u[n]) : ~u[k].isPoly /\ u[k].type = u[n].type
      BY <1>13, <3>1 DEF Valued, OneType
    <3>3. \A k \in Operands(u[n]) : v[k] = u[k]
      BY <1>1, <1>5, <3>1
    <3>4. ASSUME v[n].typeKnown, Topmost(v, n)
          PROVE  FitsIn(MeantIn(v)[n] % M, v[n].type)
      <4>1. Topmost(u, n)
        BY <1>1, <1>2, <1>4, <3>4 DEF Topmost
      <4> QED
        BY <1>13, <3>1, <3>4, <4>1 DEF Valued, Fitted
    <3> QED
      BY <3>1, <3>2, <3>3, <3>4
  <2> QED
    BY <2>1, <2>2
<1> QED
  BY <1>8, <1>9, <1>12, <1>13 DEF Valued, Folded, OneType, Fitted, v

\* What does not wait any more was popped; what waits has not changed.
Stays(u, popped) ==
  /\ Keeps(nodes, u)
  /\ \A n \in InList(pending) : n \notin PoppedOf(pending, popped) => u[n] = nodes[n]

LEMMA MadeFree ==
  ASSUME Checked(nodes, pending), Free(nodes, pending),
         NEW u, Checked(u, pending), NEW x, NEW popped, Fitting(u, pending, x, popped),
         Stays(u, popped), Folding(u, x), ~x.isPoly => x.kind # "IntLit"
  PROVE  Free(Append(u, x), Requeued(pending, popped, Len(u) + 1))
<1> DEFINE v == Append(u, x)
           new == Len(u) + 1
           r == Requeued(pending, popped, new)
<1>1. /\ Tree(u) /\ Tree(v) /\ Keeps(u, v) /\ DOMAIN v = DOMAIN u \cup {new} /\ new \notin DOMAIN u
      /\ v[new] = x /\ \A n \in DOMAIN u : v[n] = u[n]
  BY NodeMade DEF Checked, Fitting
<1>2. \A n : n \in InList(r) <=> n = new \/ (n \in InList(pending) /\ n \notin PoppedOf(pending, popped))
  <2>1. /\ pending \in Seq(DOMAIN u) /\ popped \in 0 .. Len(pending)
        /\ \A i, j \in DOMAIN pending : pending[i] = pending[j] => i = j
    BY DEF Checked, Waiting, Fitting
  <2>2. new \notin DOMAIN u
    BY <1>1
  <2> HIDE DEF new
  <2> QED
    BY <2>1, <2>2, QueueMade
<1> HIDE DEF v, new, r
<1>3. \A n \in DOMAIN u : n \in UntypedIn(v) <=> n \in UntypedIn(u)
  BY <1>1, UntypedKept
<1>4. \A n \in DOMAIN nodes : n \in UntypedIn(u) <=> n \in UntypedIn(nodes)
  BY <1>1, UntypedKept DEF Stays, Checked
<1>5. InList(pending) \subseteq DOMAIN nodes /\ InList(pending) \subseteq DOMAIN u
  BY DEF Checked, Waiting, InList
<1>6. KidsOf(x) \subseteq DOMAIN u
  BY DEF Fitting, KidsOf
<1>7. ASSUME NEW n \in InList(r), n \in UntypedIn(v)
      PROVE  v[n].isPoly
  <2>1. CASE n = new
    <3>1. ConstantAt(v, new, UntypedIn(v))
      BY <1>1, <1>7, <2>1, UntypedAre
    <3>2. Operands(x) \subseteq DOMAIN u
      <4>1. Operands(v[new]) \subseteq KidsOf(v[new])
        BY <1>1, NodeFacts
      <4> QED
        BY <1>1, <1>6, <4>1
    <3>3. x.kind = "IntLit" \/ \A k \in Operands(x) : k \in UntypedIn(u)
      BY <1>1, <1>3, <3>1, <3>2 DEF ConstantAt
    <3>4. x.kind = "IntLit" \/ Computed(x)
      BY <1>1, <3>1 DEF ConstantAt
    <3> QED
      BY <1>1, <2>1, <3>3, <3>4 DEF Folding, Computed
  <2>2. CASE n # new
    <3>1. n \in InList(pending) /\ n \notin PoppedOf(pending, popped)
      BY <1>2, <1>7, <2>2
    <3>2. v[n] = u[n] /\ u[n] = nodes[n] /\ n \in UntypedIn(nodes)
      BY <1>1, <1>3, <1>4, <1>5, <1>7, <3>1 DEF Stays
    <3> QED
      BY <3>1, <3>2 DEF Free
  <2> QED
    BY <2>1, <2>2
<1> QED
  BY <1>7 DEF Free, v, r, new

-----------------------------------------------------------------------------
(***************************************************************************)
(* The inductive invariant.  Nothing is said once something is reported.   *)
(***************************************************************************)
FloatingIn(t) ==
  LET Is[n \in DOMAIN t] ==
        /\ n \in UntypedIn(t)
        /\ \E p \in DOMAIN t : /\ \E i \in DOMAIN t[p].kids : t[p].kids[i] = n
                               /\ t[p].kind = "Cast" \/ (n \in Operands(t[p]) /\ Is[p])
  IN  {n \in DOMAIN t : Is[n]}

CheckInv ==
  /\ context = "open" /\ ~errors =>
       Checked(nodes, pending) /\ Valued(nodes) /\ Free(nodes, pending)
  /\ Accepted => /\ Tree(nodes) /\ Settled(nodes) /\ Valued(nodes)
                 /\ \A n \in DOMAIN nodes : nodes[n].isPoly => n \in FloatingIn(nodes)

\* Pinning one expression leaves the others that wait as they are.
LEMMA PinnedOthers ==
  ASSUME NEW t, NEW u, NEW q, NEW roots, NEW ty, Checked(t, q), PinnedTo(t, u, roots, ty),
         NEW c \in InList(q), c \notin roots
  PROVE  u[c] = t[c]
<1>1. c \in DOMAIN t
  BY DEF Checked, Waiting, InList
<1>2. \A p \in DOMAIN t : c \notin Operands(t[p])
  BY NodeFacts DEF Checked, Waiting
<1>3. t[c].isPoly => u[c].isPoly
  BY <1>1, <1>2 DEF PinnedTo
<1> QED
  BY <1>1, <1>3 DEF PinnedTo

\* What else a node that is made must have.
Making(u, x, popped) ==
  /\ Valued(u) /\ Folding(u, x) /\ Stays(u, popped)
  /\ ~x.isPoly => x.kind # "IntLit"

LEMMA LeftChecked ==
  ASSUME CheckInv, Room, NEW u, NEW x, NEW popped, NEW report,
         Checked(u, pending), Len(u) = Len(nodes),
         ~report => Fitting(u, pending, x, popped),
         ~report => Making(u, x, popped),
         Leave(u, popped, x, report)
  PROVE  CheckInv'
<1>1. /\ nodes' = Append(u, x) /\ pending' = Requeued(pending, popped, Len(u) + 1)
      /\ errors' = report /\ context' = "open"
  BY DEF Leave, Room, Requeued
<1>2. ~report => Checked(nodes', pending')
  BY <1>1, MadeChecked
<1>3. ASSUME ~report PROVE Valued(Append(u, x))
  <2>1. Valued(u) /\ Folding(u, x) /\ Fitting(u, pending, x, popped)
    BY <1>3 DEF Making
  <2> QED
    BY <2>1, MadeValued
<1>4. ASSUME ~report PROVE Free(Append(u, x), Requeued(pending, popped, Len(u) + 1))
  <2>1. /\ Folding(u, x) /\ Stays(u, popped) /\ Fitting(u, pending, x, popped)
        /\ ~x.isPoly => x.kind # "IntLit"
    BY <1>4 DEF Making
  <2>2. Checked(nodes, pending) /\ Free(nodes, pending)
    BY DEF CheckInv, Room
  <2> QED
    BY <2>1, <2>2, MadeFree
<1>5. ~report => Valued(nodes') /\ Free(nodes', pending')
  BY <1>1, <1>3, <1>4
<1> QED
  BY <1>1, <1>2, <1>5 DEF CheckInv, Accepted

\* What the actions have of the state they start in.
LEMMA OpenIs ==
  ASSUME CheckInv, context = "open", ~errors
  PROVE  Checked(nodes, pending) /\ Valued(nodes) /\ Free(nodes, pending)
  BY DEF CheckInv

LEMMA SameStays == \A popped : Stays(nodes, popped)
  BY DEF Stays, Keeps

LEMMA PinnedStays ==
  ASSUME Checked(nodes, pending), NEW u, NEW roots, NEW ty, PinnedTo(nodes, u, roots, ty),
         NEW popped, roots \subseteq PoppedOf(pending, popped)
  PROVE  Stays(u, popped)
<1>1. Keeps(nodes, u)
  BY DEF PinnedTo, Keeps
<1>2. \A n \in InList(pending) : n \notin PoppedOf(pending, popped) => u[n] = nodes[n]
  BY PinnedOthers
<1> QED
  BY <1>1, <1>2 DEF Stays

\* What waits and has a type is no constant.
LEMMA SomeTyped ==
  ASSUME Checked(nodes, pending), Free(nodes, pending), NEW u, Tree(u), Keeps(nodes, u),
         NEW a \in InList(pending), ~nodes[a].isPoly
  PROVE  a \notin UntypedIn(u)
<1>1. a \in DOMAIN nodes /\ a \notin UntypedIn(nodes) /\ Tree(nodes)
  BY DEF Free, Checked, Waiting, InList
<1> QED
  BY <1>1, UntypedKept

\* What the rules make of types is a type.
LEMMA RuleTypes ==
  ASSUME NEW l \in CheckedTypes, NEW r \in CheckedTypes
  PROVE  /\ \A op \in BinaryOps : WidthRule(op, l, r) \in CheckedTypes
         /\ \A op : UnaryRule(op, l) \in CheckedTypes
         /\ TernaryRule(l, r) \in CheckedTypes
<1>1. l.width \in Nat \ {0} /\ r.width \in Nat \ {0} /\ l.isSigned \in BOOLEAN
  BY DEF CheckedTypes
<1>2. Wider(l, r) \in Nat \ {0} /\ Narrower(l, r) \in Nat \ {0}
  BY <1>1, MaxWidth
<1>3. \A w \in Nat \ {0} : \A s \in BOOLEAN : Type(w, s) \in CheckedTypes
  BY DEF Type, CheckedTypes
<1>4. Wider(l, r) + 1 \in Nat \ {0} /\ l.width + r.width \in Nat \ {0} /\ l.width + 1 \in Nat \ {0}
  BY <1>1, <1>2
<1>5. ASSUME NEW op \in BinaryOps
      PROVE  WidthRule(op, l, r) \in CheckedTypes
  <2>1. WidthRule(op, l, r) \in
          {Type(Wider(l, r) + 1, l.isSigned), Type(Wider(l, r) + 1, TRUE),
           Type(l.width + r.width, l.isSigned), Type(l.width + 1, TRUE), Type(l.width, FALSE),
           Type(Narrower(l, r), l.isSigned), Type(Wider(l, r), l.isSigned), l, Type(1, FALSE)}
    BY Zenon DEF WidthRule, BinaryOps, Bitwises, Shifts, Comparisons, Logicals
  <2>2. 1 \in Nat \ {0} /\ TRUE \in BOOLEAN /\ FALSE \in BOOLEAN
    OBVIOUS
  <2> QED
    BY <1>1, <1>2, <1>3, <1>4, <2>1, <2>2
<1>6. \A op : UnaryRule(op, l) \in CheckedTypes
  BY <1>3, <1>4 DEF UnaryRule
<1>7. TernaryRule(l, r) \in CheckedTypes
  BY <1>1, <1>2, <1>3 DEF TernaryRule
<1> QED
  BY <1>5, <1>6, <1>7

LEMMA SomeTypes ==
  /\ DeclaredTypes \subseteq CheckedTypes
  /\ Default \in CheckedTypes /\ U1 \in CheckedTypes /\ U128 \in CheckedTypes
  BY TypeCheckAssumption, WidthsAssumption DEF CheckedTypes, Default, U1, U128, Type

\* The fields of a node that is made.
TypingFields(x, kind, op, kids, ty) ==
  /\ x \in TypingNodes /\ x.kind = kind /\ x.op = op /\ x.kids = kids
  /\ x.type = ty /\ x.isPoly = FALSE /\ x.typeKnown = TRUE

PolyFields(x, kind, op, kids, val) ==
  /\ x \in TypingNodes /\ x.kind = kind /\ x.op = op /\ x.kids = kids
  /\ x.isPoly = TRUE /\ x.constValue = val % 2^HostWidth
  /\ x.typeKnown = TRUE /\ x.type = Default /\ x.value = 0

LEMMA TypingMade ==
  \A kind \in NodeKinds, op \in CheckedOps, kids \in Seq(Nat), ty \in CheckedTypes :
    TypingFields(Typing(kind, op, kids, ty), kind, op, kids, ty)
  BY DEF Typing, TypingNodes, TypingFields

LEMMA PolyMade ==
  \A kind \in NodeKinds, op \in CheckedOps, kids \in Seq(Nat), val \in Nat :
    PolyFields(Poly(kind, op, kids, val), kind, op, kids, val)
<1> SUFFICES ASSUME NEW kind \in NodeKinds, NEW op \in CheckedOps,
                    NEW kids \in Seq(Nat), NEW val \in Nat
             PROVE  PolyFields(Poly(kind, op, kids, val), kind, op, kids, val)
  OBVIOUS
<1>1. val % 2^HostWidth \in Nat
  <2>1. 2^HostWidth \in Nat \ {0}
    BY PowerOfTwo, WidthsAssumption
  <2> QED
    BY <2>1
<1>2. Typing(kind, op, kids, Default) \in TypingNodes
  BY SomeTypes, TypingMade DEF TypingFields
<1> DEFINE m == val % 2^HostWidth
           x == Poly(kind, op, kids, val)
<1>3. m \in Nat
  BY <1>1
<1> HIDE DEF m
<1>4. x = [Typing(kind, op, kids, Default) EXCEPT !.isPoly = TRUE, !.constValue = m]
  BY DEF Poly, m
<1>5. /\ x \in TypingNodes /\ x.kind = kind /\ x.op = op /\ x.kids = kids
      /\ x.isPoly = TRUE /\ x.constValue = m
      /\ x.typeKnown = TRUE /\ x.type = Default /\ x.value = 0
  BY <1>2, <1>3, <1>4 DEF Typing, TypingNodes
<1> QED
  BY <1>5 DEF m, PolyFields

\* What waits longest is pushed first.
LEMMA Tops ==
  ASSUME Checked(nodes, pending)
  PROVE  /\ Len(pending) \in Nat /\ Len(nodes) \in Nat /\ DOMAIN nodes \subseteq Nat
         /\ PoppedOf(pending, 0) = {} /\ 0 \in 0 .. Len(pending)
         /\ \A k \in {1, 2, 3} : Len(pending) >= k =>
              k \in 0 .. Len(pending) /\ Top(k) \in DOMAIN nodes /\ Top(k) \in InList(pending)
         /\ Len(pending) >= 1 => PoppedOf(pending, 1) = {Top(1)}
         /\ Len(pending) >= 2 => PoppedOf(pending, 2) = {Top(1), Top(2)} /\ Top(1) # Top(2)
         /\ Len(pending) >= 3 => /\ PoppedOf(pending, 3) = {Top(1), Top(2), Top(3)}
                                 /\ Top(3) # Top(1) /\ Top(3) # Top(2)
<1> DEFINE m == Len(pending)
<1>1. pending \in Seq(DOMAIN nodes) /\ \A i, j \in DOMAIN pending : pending[i] = pending[j] => i = j
  BY DEF Checked, Waiting
<1>2. m \in Nat /\ DOMAIN pending = 1 .. m /\ \A i \in 1 .. m : pending[i] \in DOMAIN nodes
  BY <1>1
<1>3. Len(nodes) \in Nat /\ DOMAIN nodes \subseteq Nat
  BY DEF Checked, Tree
<1> HIDE DEF m
<1>4. \A i \in 1 .. m : pending[i] \in InList(pending)
  BY <1>2 DEF InList
<1>5. \A k \in 1 .. m : Top(k) = pending[m + 1 - k] /\ m + 1 - k \in 1 .. m
  BY <1>2 DEF Top, m
<1>6. PoppedOf(pending, 0) = {}
  BY <1>2 DEF PoppedOf, m
<1>7. ASSUME m >= 1 PROVE PoppedOf(pending, 1) = {Top(1)}
  <2>1. m - 1 + 1 .. m = {m} /\ m + 1 - 1 = m
    BY <1>2, <1>7
  <2> QED
    BY <2>1, <1>5, <1>7, <1>2 DEF PoppedOf, m
<1>8. ASSUME m >= 2 PROVE PoppedOf(pending, 2) = {Top(1), Top(2)} /\ Top(1) # Top(2)
  <2>1. m - 2 + 1 .. m = {m, m - 1} /\ m + 1 - 1 = m /\ m + 1 - 2 = m - 1
        /\ 1 \in 1 .. m /\ 2 \in 1 .. m /\ m # m - 1
    BY <1>2, <1>8
  <2>2. Top(1) = pending[m] /\ Top(2) = pending[m - 1] /\ m \in 1 .. m /\ m - 1 \in 1 .. m
    BY <1>5, <2>1, Zenon
  <2>3. PoppedOf(pending, 2) = {pending[i] : i \in {m, m - 1}}
    BY <2>1 DEF PoppedOf, m
  <2>4. Top(1) # Top(2)
    BY <1>1, <1>2, <2>1, <2>2
  <2> QED
    BY <2>2, <2>3, <2>4
<1>9. ASSUME m >= 3 PROVE /\ PoppedOf(pending, 3) = {Top(1), Top(2), Top(3)}
                          /\ Top(3) # Top(1) /\ Top(3) # Top(2)
  <2>1. m - 3 + 1 .. m = {m, m - 1, m - 2}
        /\ m + 1 - 1 = m /\ m + 1 - 2 = m - 1 /\ m + 1 - 3 = m - 2
        /\ 1 \in 1 .. m /\ 2 \in 1 .. m /\ 3 \in 1 .. m /\ m # m - 2 /\ m - 1 # m - 2
    BY <1>2, <1>9
  <2>2. Top(1) = pending[m] /\ Top(2) = pending[m - 1] /\ Top(3) = pending[m - 2]
        /\ m \in 1 .. m /\ m - 1 \in 1 .. m /\ m - 2 \in 1 .. m
    BY <1>5, <2>1, Zenon
  <2>3. PoppedOf(pending, 3) = {pending[i] : i \in {m, m - 1, m - 2}}
    BY <2>1 DEF PoppedOf, m
  <2>4. Top(3) # Top(1) /\ Top(3) # Top(2)
    BY <1>1, <1>2, <2>1, <2>2
  <2> QED
    BY <2>2, <2>3, <2>4
<1>10. ASSUME NEW k \in {1, 2, 3}, m >= k
       PROVE  k \in 0 .. m /\ Top(k) \in DOMAIN nodes /\ Top(k) \in InList(pending)
  <2>1. k \in 1 .. m
    BY <1>2, <1>10
  <2> QED
    BY <1>2, <1>4, <1>5, <2>1
<1> QED
  BY <1>2, <1>3, <1>6, <1>7, <1>8, <1>9, <1>10 DEF m

LEMMA PinnedTree ==
  ASSUME NEW t, NEW q, Checked(t, q), NEW roots, roots \subseteq DOMAIN t, NEW ty \in CheckedTypes
  PROVE  LET u == PinPoly(t, roots, ty)
         IN  /\ Checked(u, q) /\ Len(u) = Len(t) /\ DOMAIN u = DOMAIN t
             /\ PinnedTo(t, u, roots, ty)
<1> DEFINE u == PinPoly(t, roots, ty)
<1>1. PinnedTo(t, u, roots, ty)
  BY Pinning DEF Checked
<1>2. Checked(u, q)
  BY <1>1, PinnedChecked
<1>3. Tree(u) /\ Tree(t) /\ DOMAIN u = DOMAIN t
  BY <1>1 DEF PinnedTo, Checked
<1> HIDE DEF u
<1>4. Len(u) = Len(t)
  <2>1. u \in Seq(TypingNodes) /\ t \in Seq(TypingNodes)
    BY <1>3 DEF Tree
  <2> QED
    BY <1>3, <2>1
<1> QED
  BY <1>1, <1>2, <1>3, <1>4 DEF u

\* Two operands that have met have their types, and nothing else that waits
\* has changed.
MeetIs(u, a, b) ==
  /\ Checked(u, pending) /\ Len(u) = Len(nodes) /\ DOMAIN u = DOMAIN nodes
  /\ u[a].type = Against(a, b) /\ u[b].type = Against(b, a)
  /\ ~u[a].isPoly /\ ~u[b].isPoly
  /\ Keeps(nodes, u)
  /\ \A c \in InList(pending) : c \notin {a, b} => u[c] = nodes[c]

LEMMA TwoMeet ==
  ASSUME Checked(nodes, pending), NEW a \in DOMAIN nodes, NEW b \in DOMAIN nodes, ~BothPoly(a, b)
  PROVE  /\ MeetIs(Meet(a, b), a, b)
         /\ Against(a, b) \in CheckedTypes /\ Against(b, a) \in CheckedTypes
<1> DEFINE A == Against(a, b)
           B == Against(b, a)
           w == PinPoly(nodes, {a}, A)
           u == PinPoly(w, {b}, B)
<1>1. \A n \in DOMAIN nodes : nodes[n].type \in CheckedTypes
  BY NodeFacts DEF Checked, TypingNodes
<1>2. A \in CheckedTypes /\ B \in CheckedTypes
  BY <1>1 DEF Against
<1>3. /\ nodes[a].isPoly => A = nodes[b].type
      /\ ~nodes[a].isPoly => A = nodes[a].type
      /\ nodes[b].isPoly => B = nodes[a].type
      /\ ~nodes[b].isPoly => B = nodes[b].type
      /\ ~nodes[a].isPoly \/ ~nodes[b].isPoly
  BY DEF Against, BothPoly
<1> HIDE DEF A, B
<1>4. /\ Checked(w, pending) /\ Len(w) = Len(nodes) /\ DOMAIN w = DOMAIN nodes
      /\ PinnedTo(nodes, w, {a}, A)
  <2>1. {a} \subseteq DOMAIN nodes
    OBVIOUS
  <2> QED
    BY <1>2, <2>1, PinnedTree
<1> HIDE DEF w
<1>5. /\ Checked(u, pending) /\ Len(u) = Len(nodes) /\ DOMAIN u = DOMAIN nodes
      /\ PinnedTo(w, u, {b}, B)
  <2>1. {b} \subseteq DOMAIN w
    BY <1>4
  <2> QED
    BY <1>2, <1>4, <2>1, PinnedTree
<1> HIDE DEF u
<1>6. ~w[a].isPoly /\ w[a].type = A
  BY <1>3, <1>4 DEF PinnedTo
<1>7. u[a] = w[a]
  BY <1>4, <1>5, <1>6 DEF PinnedTo
<1>8. ~u[b].isPoly
  BY <1>4, <1>5 DEF PinnedTo
<1>9. u[b].type = B
  <2>1. CASE w[b].isPoly
    BY <1>4, <1>5, <1>8, <2>1 DEF PinnedTo
  <2>2. CASE ~w[b].isPoly
    <3>1. u[b] = w[b]
      BY <1>4, <1>5, <2>2 DEF PinnedTo
    <3>2. nodes[b].isPoly => w[b].type = A /\ A = B
      BY <1>3, <1>4, <2>2 DEF PinnedTo
    <3>3. ~nodes[b].isPoly => w[b] = nodes[b]
      BY <1>4 DEF PinnedTo
    <3> QED
      BY <1>3, <3>1, <3>2, <3>3
  <2> QED
    BY <2>1, <2>2
<1>10. ASSUME NEW c \in InList(pending), c \notin {a, b}
       PROVE  u[c] = nodes[c]
  <2>1. w[c] = nodes[c]
    BY <1>4, <1>10, PinnedOthers
  <2>2. u[c] = w[c]
    BY <1>4, <1>5, <1>10, PinnedOthers
  <2> QED
    BY <2>1, <2>2
<1>11. Meet(a, b) = u
  BY DEF Meet, u, w, A, B
<1>12. Keeps(nodes, u)
  BY <1>4, <1>5 DEF PinnedTo, Keeps
<1>13. MeetIs(u, a, b)
  BY <1>5, <1>6, <1>7, <1>8, <1>9, <1>10, <1>12 DEF MeetIs, A, B
<1> QED
  BY <1>2, <1>11, <1>13 DEF A, B

\* If both fit, what is known of sums is known still.
LEMMA MeetValued ==
  ASSUME Checked(nodes, pending), Valued(nodes), NEW a \in InList(pending),
         NEW b \in InList(pending), ~BothPoly(a, b), ~Unfit(a, b)
  PROVE  Valued(Meet(a, b))
<1> DEFINE A == Against(a, b)
           B == Against(b, a)
           w == PinPoly(nodes, {a}, A)
           u == PinPoly(w, {b}, B)
<1>1. a \in DOMAIN nodes /\ b \in DOMAIN nodes
  BY DEF Checked, Waiting, InList
<1>2. A \in CheckedTypes /\ B \in CheckedTypes
  BY <1>1, TwoMeet
<1>3. /\ nodes[a].isPoly => A = nodes[b].type /\ FitsIn(nodes[a].constValue, A)
      /\ nodes[b].isPoly => B = nodes[a].type /\ FitsIn(nodes[b].constValue, B)
  BY DEF Against, Unfit, Refused
<1> HIDE DEF A, B
<1>4. Checked(w, pending) /\ PinnedTo(nodes, w, {a}, A) /\ DOMAIN w = DOMAIN nodes
  <2>1. {a} \subseteq DOMAIN nodes
    BY <1>1
  <2> QED
    BY <1>2, <2>1, PinnedTree
<1> HIDE DEF w
<1>5. Valued(w)
  <2>1. {a} \subseteq InList(pending) /\ \A r \in {a} : nodes[r].isPoly => FitsIn(nodes[r].constValue, A)
    BY <1>3
  <2> QED
    BY <1>4, <2>1, PinnedValued
<1>6. PinnedTo(w, u, {b}, B)
  <2>1. {b} \subseteq DOMAIN w
    BY <1>1, <1>4
  <2> QED
    BY <1>2, <1>4, <2>1, PinnedTree
<1> HIDE DEF u
<1>7. w[b].isPoly => nodes[b].isPoly /\ w[b] = nodes[b]
  BY <1>1, <1>4 DEF PinnedTo
<1>8. {b} \subseteq InList(pending) /\ \A r \in {b} : w[r].isPoly => FitsIn(w[r].constValue, B)
  BY <1>3, <1>7
<1>9. Valued(u)
  BY <1>4, <1>5, <1>6, <1>8, PinnedValued
<1> QED
  BY <1>9 DEF Meet, u, w, A, B

-----------------------------------------------------------------------------
(* infer, case by case.                                                    *)

LEMMA KidsAre ==
  ASSUME NEW D, D \subseteq Nat, NEW a \in D, NEW b \in D, NEW c \in D
  PROVE  /\ <<a>> \in Seq(D) /\ <<a, b>> \in Seq(D) /\ <<a, b, c>> \in Seq(D)
         /\ <<a>> \in Seq(Nat) /\ <<a, b>> \in Seq(Nat) /\ <<a, b, c>> \in Seq(Nat)
         /\ Len(<<a>>) = 1 /\ Len(<<a, b>>) = 2 /\ Len(<<a, b, c>>) = 3
         /\ \A x : x.kids = <<a>> => KidsOf(x) = {a}
         /\ \A x : x.kids = <<a, b>> => KidsOf(x) = {a, b}
         /\ \A x : x.kids = <<a, b, c>> => KidsOf(x) = {a, b, c}
<1>1. /\ DOMAIN <<a>> = {1} /\ DOMAIN <<a, b>> = {1, 2} /\ DOMAIN <<a, b, c>> = {1, 2, 3}
  OBVIOUS
<1>2. \A x : x.kids = <<a>> => KidsOf(x) = {a}
  BY <1>1 DEF KidsOf
<1>3. \A x : x.kids = <<a, b>> => KidsOf(x) = {a, b}
  BY <1>1 DEF KidsOf
<1>4. \A x : x.kids = <<a, b, c>> => KidsOf(x) = {a, b, c}
  BY <1>1 DEF KidsOf
<1>5. a \in Nat /\ b \in Nat /\ c \in Nat
  OBVIOUS
<1>6. <<a>> \in Seq(D) /\ <<a>> \in Seq(Nat) /\ Len(<<a>>) = 1
  BY <1>5
<1>7. <<a, b>> \in Seq(D) /\ <<a, b>> \in Seq(Nat) /\ Len(<<a, b>>) = 2
  BY <1>5
<1>8. <<a, b, c>> \in Seq(D) /\ <<a, b, c>> \in Seq(Nat) /\ Len(<<a, b, c>>) = 3
  BY <1>5
<1> QED
  BY <1>2, <1>3, <1>4, <1>6, <1>7, <1>8

LEMMA IntLitChecked ==
  ASSUME CheckInv, NEW v \in Literals, IntLit(v)
  PROVE  CheckInv'
<1> DEFINE p == Poly("IntLit", "none", <<>>, v)
           x == [p EXCEPT !.value = v]
<1>1. Checked(nodes, pending) /\ Valued(nodes) /\ Room
  BY OpenIs DEF IntLit, Room
<1>2. /\ v \in Nat /\ <<>> \in Seq(Nat) /\ "IntLit" \in NodeKinds
      /\ "none" \in CheckedOps
  BY TypeCheckAssumption DEF NodeKinds, CheckedOps
<1>3. /\ p \in TypingNodes /\ p.kind = "IntLit" /\ p.kids = <<>> /\ p.isPoly = TRUE
      /\ p.constValue = v % 2^HostWidth
  <2>1. PolyFields(p, "IntLit", "none", <<>>, v)
    BY <1>2, PolyMade, Zenon
  <2> QED
    BY <2>1 DEF PolyFields
<1> HIDE DEF p
<1>4. /\ x \in TypingNodes /\ x.kind = "IntLit" /\ x.kids = <<>> /\ x.isPoly = TRUE
      /\ x.constValue = v % 2^HostWidth /\ x.value = v
  BY <1>2, <1>3 DEF TypingNodes
<1> HIDE DEF x
<1>5. KidsOf(x) = {} /\ Len(x.kids) = Arity(x.kind) /\ x.kids \in Seq(DOMAIN nodes)
  BY <1>4 DEF KidsOf, Arity
<1>6. Fitting(nodes, pending, x, 0)
  BY <1>1, <1>4, <1>5, Tops DEF Fitting
<1>7. Leave(nodes, 0, x, FALSE)
  BY DEF IntLit, x, p
<1>8. Operands(x) = {}
  BY <1>4 DEF Operands
<1>9. Folding(nodes, x)
  BY <1>4, <1>8 DEF Folding
<1>10. Making(nodes, x, 0)
  BY <1>1, <1>4, <1>9, SameStays DEF Making
<1> QED
  BY <1>1, <1>6, <1>7, <1>10, LeftChecked

LEMMA NameRefChecked ==
  ASSUME CheckInv, NEW ty \in DeclaredTypes, NameRef(ty)
  PROVE  CheckInv'
<1> DEFINE x == Typing("NameRef", "none", <<>>, ty)
<1>1. Checked(nodes, pending) /\ Valued(nodes) /\ Room
  BY OpenIs DEF NameRef, Room
<1>2. /\ ty \in CheckedTypes /\ <<>> \in Seq(Nat) /\ "NameRef" \in NodeKinds
      /\ "none" \in CheckedOps
  BY SomeTypes DEF NodeKinds, CheckedOps
<1>3. x \in TypingNodes /\ x.kind = "NameRef" /\ x.kids = <<>> /\ x.isPoly = FALSE
  <2>1. TypingFields(x, "NameRef", "none", <<>>, ty)
    BY <1>2, TypingMade, Zenon
  <2> QED
    BY <2>1 DEF TypingFields
<1>4. Leave(nodes, 0, x, FALSE)
  BY DEF NameRef
<1> HIDE DEF x
<1>5. KidsOf(x) = {} /\ Len(x.kids) = Arity(x.kind) /\ x.kids \in Seq(DOMAIN nodes)
  BY <1>3 DEF KidsOf, Arity
<1>6. TypedNode(nodes, x)
  BY <1>3 DEF TypedNode, Computed
<1>7. Fitting(nodes, pending, x, 0)
  BY <1>1, <1>3, <1>5, <1>6, Tops DEF Fitting
<1>8. Folding(nodes, x)
  BY <1>3 DEF Folding, Computed
<1>9. Making(nodes, x, 0)
  BY <1>1, <1>3, <1>8, SameStays DEF Making
<1> QED
  BY <1>1, <1>4, <1>7, <1>9, LeftChecked

LEMMA IndexChecked ==
  ASSUME CheckInv, NEW ty \in DeclaredTypes, Index(ty)
  PROVE  CheckInv'
<1> DEFINE a == Top(1)
           u == PinPoly(nodes, {a}, U128)
           x == Typing("Index", "none", <<a>>, ty)
<1>1. Checked(nodes, pending) /\ Valued(nodes) /\ Room /\ Len(pending) >= 1
  BY OpenIs DEF Index, Has, Room
<1>2. a \in DOMAIN nodes /\ PoppedOf(pending, 1) = {a} /\ 1 \in 0 .. Len(pending)
      /\ DOMAIN nodes \subseteq Nat /\ a \in InList(pending)
  BY <1>1, Tops
<1>3. Leave(u, 1, x, Refused(a, U128))
  BY DEF Index
<1> HIDE DEF a
<1>4. {a} \subseteq DOMAIN nodes /\ U128 \in CheckedTypes
  BY <1>2, SomeTypes
<1>5. Checked(u, pending) /\ Len(u) = Len(nodes) /\ DOMAIN u = DOMAIN nodes
      /\ PinnedTo(nodes, u, {a}, U128)
  BY <1>1, <1>4, PinnedTree
<1> HIDE DEF u
<1>6. ~u[a].isPoly
  BY <1>2, <1>5 DEF PinnedTo
<1>7. /\ ty \in CheckedTypes /\ "Index" \in NodeKinds
      /\ "none" \in CheckedOps
  BY SomeTypes DEF NodeKinds, CheckedOps
<1>8. <<a>> \in Seq(DOMAIN nodes) /\ <<a>> \in Seq(Nat) /\ Len(<<a>>) = 1
  BY <1>2, KidsAre
<1>9. x \in TypingNodes /\ x.kind = "Index" /\ x.kids = <<a>> /\ x.isPoly = FALSE
  <2>1. TypingFields(x, "Index", "none", <<a>>, ty)
    BY <1>7, <1>8, TypingMade, Zenon
  <2> QED
    BY <2>1 DEF TypingFields
<1> HIDE DEF x
<1>10. KidsOf(x) = {a} /\ Len(x.kids) = Arity(x.kind) /\ TypedNode(u, x)
  BY <1>2, <1>8, <1>9, KidsAre DEF Arity, TypedNode, Computed
<1>11. Fitting(u, pending, x, 1)
  BY <1>2, <1>5, <1>6, <1>8, <1>9, <1>10 DEF Fitting
<1>12. Stays(u, 1)
  <2>1. {a} \subseteq PoppedOf(pending, 1)
    BY <1>2
  <2> QED
    BY <1>1, <1>5, <2>1, PinnedStays
<1>13. ASSUME ~Refused(a, U128) PROVE Valued(u)
  <2>1. {a} \subseteq InList(pending)
        /\ \A r \in {a} : nodes[r].isPoly => FitsIn(nodes[r].constValue, U128)
    BY <1>2, <1>13 DEF Refused
  <2> QED
    BY <1>1, <1>5, <2>1, PinnedValued
<1>14. Folding(u, x)
  BY <1>9 DEF Folding, Computed
<1>15. ~Refused(a, U128) => Making(u, x, 1)
  BY <1>9, <1>12, <1>13, <1>14 DEF Making
<1> QED
  BY <1>1, <1>3, <1>5, <1>11, <1>15, LeftChecked

LEMMA CastChecked ==
  ASSUME CheckInv, NEW ty \in DeclaredTypes, Cast(ty)
  PROVE  CheckInv'
<1> DEFINE a == Top(1)
           x == Typing("Cast", "none", <<a>>, ty)
<1>1. Checked(nodes, pending) /\ Valued(nodes) /\ Room /\ Len(pending) >= 1
  BY OpenIs DEF Cast, Has, Room
<1>2. a \in DOMAIN nodes /\ PoppedOf(pending, 1) = {a} /\ 1 \in 0 .. Len(pending)
      /\ DOMAIN nodes \subseteq Nat
  BY <1>1, Tops
<1>3. Leave(nodes, 1, x, FALSE)
  BY DEF Cast
<1> HIDE DEF a
<1>7. /\ ty \in CheckedTypes /\ "Cast" \in NodeKinds
      /\ "none" \in CheckedOps
  BY SomeTypes DEF NodeKinds, CheckedOps
<1>8. <<a>> \in Seq(DOMAIN nodes) /\ <<a>> \in Seq(Nat) /\ Len(<<a>>) = 1
  BY <1>2, KidsAre
<1>9. x \in TypingNodes /\ x.kind = "Cast" /\ x.kids = <<a>> /\ x.isPoly = FALSE
  <2>1. TypingFields(x, "Cast", "none", <<a>>, ty)
    BY <1>7, <1>8, TypingMade, Zenon
  <2> QED
    BY <2>1 DEF TypingFields
<1> HIDE DEF x
<1>10. KidsOf(x) = {a} /\ Len(x.kids) = Arity(x.kind) /\ TypedNode(nodes, x)
  BY <1>2, <1>8, <1>9, KidsAre DEF Arity, TypedNode, Computed
<1>11. Fitting(nodes, pending, x, 1)
  BY <1>2, <1>8, <1>9, <1>10 DEF Fitting
<1>12. Folding(nodes, x)
  BY <1>9 DEF Folding, Computed
<1>13. Making(nodes, x, 1)
  BY <1>1, <1>9, <1>12, SameStays DEF Making
<1> QED
  BY <1>1, <1>3, <1>11, <1>13, LeftChecked

LEMMA UnaryChecked ==
  ASSUME CheckInv, NEW op \in UnaryOps, Unary(op)
  PROVE  CheckInv'
<1> DEFINE a == Top(1)
<1>1. /\ Checked(nodes, pending) /\ Valued(nodes) /\ Free(nodes, pending)
      /\ Room /\ Len(pending) >= 1
  BY OpenIs DEF Unary, Has, Room
<1>2. a \in DOMAIN nodes /\ PoppedOf(pending, 1) = {a} /\ 1 \in 0 .. Len(pending)
      /\ DOMAIN nodes \subseteq Nat /\ a \in InList(pending)
  BY <1>1, Tops
<1>3. Leave(nodes, 1, IF nodes[a].isPoly THEN Poly("Unary", op, <<a>>, nodes[a].constValue)
                      ELSE Typing("Unary", op, <<a>>, UnaryRule(op, nodes[a].type)), FALSE)
  BY DEF Unary
<1> HIDE DEF a
<1>4. nodes[a].type \in CheckedTypes /\ nodes[a].constValue \in Nat
  BY <1>1, <1>2, NodeFacts DEF Checked, TypingNodes
<1>5. "Unary" \in NodeKinds /\ op \in CheckedOps
  BY DEF NodeKinds, CheckedOps
<1>6. <<a>> \in Seq(DOMAIN nodes) /\ <<a>> \in Seq(Nat) /\ Len(<<a>>) = 1
  BY <1>2, KidsAre
<1>7. CASE nodes[a].isPoly
  <2> DEFINE x == Poly("Unary", op, <<a>>, nodes[a].constValue)
  <2>1. /\ x \in TypingNodes /\ x.kind = "Unary" /\ x.kids = <<a>> /\ x.isPoly = TRUE
        /\ x.op = op /\ x.constValue = nodes[a].constValue % 2^HostWidth
    <3>1. PolyFields(x, "Unary", op, <<a>>, nodes[a].constValue)
      BY <1>4, <1>5, <1>6, PolyMade, Zenon
    <3> QED
      BY <3>1 DEF PolyFields
  <2>2. Leave(nodes, 1, x, FALSE)
    BY <1>3, <1>7
  <2> HIDE DEF x
  <2>3. KidsOf(x) = {a} /\ Len(x.kids) = Arity(x.kind) /\ Computed(x)
    BY <1>2, <1>6, <2>1, KidsAre DEF Arity, Computed
  <2>4. Operands(x) = {a}
    BY <2>1, <2>3 DEF Operands, KidsOf
  <2>5. a \in UntypedIn(nodes)
    BY <1>1, <1>2, <1>7 DEF Checked, Settled
  <2>6. Fitting(nodes, pending, x, 1)
    BY <1>2, <1>6, <2>1, <2>3, <2>4, <2>5 DEF Fitting
  <2>7. x.kids[1] = a
    BY <2>1
  <2>8. Folding(nodes, x)
    BY <1>7, <2>1, <2>4, <2>7 DEF Folding
  <2>9. Making(nodes, x, 1)
    BY <1>1, <2>1, <2>8, SameStays DEF Making
  <2> QED
    BY <1>1, <2>2, <2>6, <2>9, LeftChecked
<1>8. CASE ~nodes[a].isPoly
  <2> DEFINE x == Typing("Unary", op, <<a>>, UnaryRule(op, nodes[a].type))
  <2>1. UnaryRule(op, nodes[a].type) \in CheckedTypes
    BY <1>4, RuleTypes
  <2>2. /\ x \in TypingNodes /\ x.kind = "Unary" /\ x.kids = <<a>> /\ x.isPoly = FALSE
        /\ x.op = op /\ x.type = UnaryRule(op, nodes[a].type)
    <3>1. TypingFields(x, "Unary", op, <<a>>, UnaryRule(op, nodes[a].type))
      BY <1>5, <1>6, <2>1, TypingMade, Zenon
    <3> QED
      BY <3>1 DEF TypingFields
  <2>3. Leave(nodes, 1, x, FALSE)
    BY <1>3, <1>8
  <2> HIDE DEF x
  <2>4. KidsOf(x) = {a} /\ Len(x.kids) = Arity(x.kind) /\ x.kids[1] = a
    BY <1>2, <1>6, <2>2, KidsAre DEF Arity
  <2>5. TypedNode(nodes, x)
    BY <1>8, <2>2, <2>4 DEF TypedNode
  <2>6. Fitting(nodes, pending, x, 1)
    BY <1>2, <1>6, <1>8, <2>2, <2>4, <2>5 DEF Fitting
  <2>7. a \notin UntypedIn(nodes)
    BY <1>1, <1>2, <1>8 DEF Free
  <2>8. Operands(x) = {a}
    BY <2>2, <2>4 DEF Operands, KidsOf
  <2>9. Folding(nodes, x)
    BY <2>2, <2>7, <2>8 DEF Folding, Computed
  <2>10. Making(nodes, x, 1)
    BY <1>1, <2>2, <2>9, SameStays DEF Making
  <2> QED
    BY <1>1, <2>3, <2>6, <2>10, LeftChecked
<1> QED
  BY <1>7, <1>8

LEMMA BinaryChecked ==
  ASSUME CheckInv, NEW op \in Ops, Binary(op)
  PROVE  CheckInv'
<1> DEFINE l == Top(2)
           r == Top(1)
<1>1. /\ Checked(nodes, pending) /\ Valued(nodes) /\ Free(nodes, pending)
      /\ Room /\ Len(pending) >= 2
  BY OpenIs DEF Binary, Has, Room
<1>2. /\ l \in DOMAIN nodes /\ r \in DOMAIN nodes /\ PoppedOf(pending, 2) = {l, r}
      /\ 2 \in 0 .. Len(pending) /\ DOMAIN nodes \subseteq Nat
      /\ l \in InList(pending) /\ r \in InList(pending)
  <2>1. 2 \in 0 .. Len(pending) /\ l \in DOMAIN nodes /\ l \in InList(pending)
    BY <1>1, Tops
  <2>2. Len(pending) >= 1 /\ PoppedOf(pending, 2) = {r, l} /\ DOMAIN nodes \subseteq Nat
    BY <1>1, Tops
  <2>3. r \in DOMAIN nodes /\ r \in InList(pending)
    BY <1>1, <2>2, Tops
  <2> QED
    BY <2>1, <2>2, <2>3
<1>3. /\ BothPoly(l, r) => Leave(nodes, 2, Poly("Binary", op, <<l, r>>,
                                                Fold(op, nodes[l], nodes[r])), FALSE)
      /\ ~BothPoly(l, r) => Leave(Meet(l, r), 2, Typing("Binary", op, <<l, r>>, Result(op, l, r)),
                                  \/ Unfit(l, r)
                                  \/ ~Typed(op, Against(l, r), Against(r, l))
                                  \/ Result(op, l, r).width > HostWidth)
  BY DEF Binary
<1> HIDE DEF l, r
<1>4. /\ nodes[l].type \in CheckedTypes /\ nodes[l].constValue \in Nat
      /\ nodes[r].type \in CheckedTypes /\ nodes[r].constValue \in Nat
  BY <1>1, <1>2, NodeFacts DEF Checked, TypingNodes
<1>5. "Binary" \in NodeKinds /\ op \in CheckedOps /\ op \in BinaryOps
  BY TypeCheckAssumption DEF NodeKinds, CheckedOps
<1>6. <<l, r>> \in Seq(DOMAIN nodes) /\ <<l, r>> \in Seq(Nat) /\ Len(<<l, r>>) = 2
      /\ \A x : x.kids = <<l, r>> => KidsOf(x) = {l, r}
  BY <1>2, KidsAre
<1>7. CASE BothPoly(l, r)
  <2> DEFINE x == Poly("Binary", op, <<l, r>>, Fold(op, nodes[l], nodes[r]))
  <2>1. Fold(op, nodes[l], nodes[r]) \in Nat
    <3> DEFINE v == nodes[l].constValue
               w == nodes[r].constValue
    <3>1. v \in Nat /\ w \in Nat
      BY <1>4
    <3>2. Fold(op, nodes[l], nodes[r]) \in {v + w, v * w, v}
      BY DEF Fold
    <3> HIDE DEF v, w
    <3>3. v + w \in Nat /\ v * w \in Nat
      BY <3>1
    <3> QED
      BY <3>1, <3>2, <3>3
  <2>2. /\ x \in TypingNodes /\ x.kind = "Binary" /\ x.kids = <<l, r>> /\ x.isPoly = TRUE
        /\ x.op = op /\ x.constValue = Fold(op, nodes[l], nodes[r]) % 2^HostWidth
    <3>1. PolyFields(x, "Binary", op, <<l, r>>, Fold(op, nodes[l], nodes[r]))
      BY <1>5, <1>6, <2>1, PolyMade, Zenon
    <3> QED
      BY <3>1 DEF PolyFields
  <2>3. Leave(nodes, 2, x, FALSE)
    BY <1>3, <1>7
  <2> HIDE DEF x
  <2>4. KidsOf(x) = {l, r} /\ Len(x.kids) = Arity(x.kind) /\ Computed(x)
    BY <1>6, <2>2 DEF Arity, Computed
  <2>5. Operands(x) = {l, r}
    BY <2>2, <2>4 DEF Operands, KidsOf
  <2>6. l \in UntypedIn(nodes) /\ r \in UntypedIn(nodes)
    BY <1>1, <1>2, <1>7 DEF Checked, Settled, BothPoly
  <2>7. Fitting(nodes, pending, x, 2)
    BY <1>2, <1>6, <2>2, <2>4, <2>5, <2>6 DEF Fitting
  <2>8. x.kids[1] = l /\ x.kids[2] = r
    BY <2>2
  <2>9. Folding(nodes, x)
    <3>1. /\ op = "+" => Fold(op, nodes[l], nodes[r]) = nodes[l].constValue + nodes[r].constValue
          /\ op = "*" => Fold(op, nodes[l], nodes[r]) = nodes[l].constValue * nodes[r].constValue
      BY DEF Fold
    <3>2. nodes[l].isPoly /\ nodes[r].isPoly
      BY <1>7 DEF BothPoly
    <3> QED
      BY <2>2, <2>5, <2>8, <3>1, <3>2 DEF Folding
  <2>10. Making(nodes, x, 2)
    BY <1>1, <2>2, <2>9, SameStays DEF Making
  <2> QED
    BY <1>1, <2>3, <2>7, <2>10, LeftChecked
<1>8. CASE ~BothPoly(l, r)
  <2> DEFINE u == Meet(l, r)
             x == Typing("Binary", op, <<l, r>>, Result(op, l, r))
             report == \/ Unfit(l, r)
                       \/ ~Typed(op, Against(l, r), Against(r, l))
                       \/ Result(op, l, r).width > HostWidth
  <2>1. MeetIs(u, l, r) /\ Against(l, r) \in CheckedTypes /\ Against(r, l) \in CheckedTypes
    BY <1>1, <1>2, <1>8, TwoMeet
  <2>2. Result(op, l, r) \in CheckedTypes
    BY <1>5, <2>1, RuleTypes DEF Result
  <2>3. /\ x \in TypingNodes /\ x.kind = "Binary" /\ x.kids = <<l, r>> /\ x.isPoly = FALSE
        /\ x.op = op /\ x.type = Result(op, l, r)
    <3>1. TypingFields(x, "Binary", op, <<l, r>>, Result(op, l, r))
      BY <1>5, <1>6, <2>2, TypingMade, Zenon
    <3> QED
      BY <3>1 DEF TypingFields
  <2>4. Leave(u, 2, x, report)
    BY <1>3, <1>8
  <2>5. ~report => /\ Typed(op, Against(l, r), Against(r, l)) /\ ~Unfit(l, r)
                   /\ ~(Result(op, l, r).width > HostWidth)
    OBVIOUS
  <2> HIDE DEF x, u, report
  <2>6. KidsOf(x) = {l, r} /\ Len(x.kids) = Arity(x.kind) /\ x.kids[1] = l /\ x.kids[2] = r
    BY <1>6, <2>3 DEF Arity
  <2>7. ~report => TypedNode(u, x)
    <3>1. u[l].type = Against(l, r) /\ u[r].type = Against(r, l) /\ ~u[l].isPoly /\ ~u[r].isPoly
      BY <2>1 DEF MeetIs
    <3> QED
      BY <1>5, <2>3, <2>5, <2>6, <3>1 DEF TypedNode, Result
  <2>8. ~report => Fitting(u, pending, x, 2)
    BY <1>2, <1>6, <2>1, <2>3, <2>6, <2>7 DEF Fitting, MeetIs
  <2>9. Checked(u, pending) /\ Len(u) = Len(nodes)
    BY <2>1 DEF MeetIs
  <2>10. ~report => Valued(u)
    BY <1>1, <1>2, <1>8, <2>5, MeetValued DEF u
  <2>11. Stays(u, 2)
    BY <1>2, <2>1 DEF MeetIs, Stays
  <2>12. Operands(x) = {l, r}
    BY <2>3, <2>6 DEF Operands, KidsOf
  <2>13. l \notin UntypedIn(u) \/ r \notin UntypedIn(u)
    <3>1. Tree(u) /\ Keeps(nodes, u)
      BY <2>1 DEF MeetIs, Checked
    <3>2. ~nodes[l].isPoly => l \notin UntypedIn(u)
      BY <1>1, <1>2, <3>1, SomeTyped
    <3>3. ~nodes[r].isPoly => r \notin UntypedIn(u)
      BY <1>1, <1>2, <3>1, SomeTyped
    <3> QED
      BY <1>8, <3>2, <3>3 DEF BothPoly
  <2>14. Folding(u, x)
    BY <2>3, <2>12, <2>13 DEF Folding, Computed
  <2>15. ~report => Making(u, x, 2)
    BY <2>3, <2>10, <2>11, <2>14 DEF Making
  <2> QED
    BY <1>1, <2>4, <2>8, <2>9, <2>15, LeftChecked
<1> QED
  BY <1>7, <1>8

LEMMA TernaryChecked ==
  ASSUME CheckInv, Ternary
  PROVE  CheckInv'
<1> DEFINE c == Top(3)
           a == Top(2)
           b == Top(1)
           kids == <<c, a, b>>
           T == Against(a, b)
           F == Against(b, a)
<1>1. /\ Checked(nodes, pending) /\ Valued(nodes) /\ Free(nodes, pending)
      /\ Room /\ Len(pending) >= 3
  BY OpenIs DEF Ternary, Has, Room
<1>2. /\ a \in DOMAIN nodes /\ b \in DOMAIN nodes /\ c \in DOMAIN nodes
      /\ PoppedOf(pending, 3) = {a, b, c} /\ c # a /\ c # b
      /\ {a, b, c} \subseteq InList(pending)
      /\ 3 \in 0 .. Len(pending) /\ DOMAIN nodes \subseteq Nat
  <2>1. 3 \in 0 .. Len(pending) /\ c \in DOMAIN nodes /\ c \in InList(pending)
    BY <1>1, Tops
  <2>2. PoppedOf(pending, 3) = {b, a, c} /\ DOMAIN nodes \subseteq Nat /\ c # a /\ c # b
    BY <1>1, Tops
  <2>3. Len(pending) \in Nat
    BY <1>1, Tops
  <2>4. Len(pending) >= 1 /\ Len(pending) >= 2
    BY <1>1, <2>3
  <2>5. a \in DOMAIN nodes /\ a \in InList(pending)
    BY <1>1, <2>4, Tops
  <2>6. b \in DOMAIN nodes /\ b \in InList(pending)
    BY <1>1, <2>4, Tops
  <2> QED
    BY <2>1, <2>2, <2>5, <2>6
<1>3. /\ BothPoly(a, b) => Leave(PinPoly(nodes, {c}, U1), 3,
                                 Poly("Ternary", "none", kids, nodes[b].constValue),
                                 Refused(c, U1))
      /\ ~BothPoly(a, b) => Leave(PinPoly(Meet(a, b), {c}, U1), 3,
                                  Typing("Ternary", "none", kids, TernaryRule(T, F)),
                                  Refused(c, U1) \/ Unfit(a, b) \/ T.isSigned # F.isSigned)
  BY DEF Ternary
<1>4. /\ kids \in Seq(DOMAIN nodes) /\ kids \in Seq(Nat) /\ Len(kids) = 3
      /\ \A x : x.kids = kids => KidsOf(x) = {c, a, b}
      /\ kids[1] = c /\ kids[2] = a /\ kids[3] = b
  <2> HIDE DEF a, b, c
  <2>1. /\ kids \in Seq(DOMAIN nodes) /\ kids \in Seq(Nat) /\ Len(kids) = 3
        /\ \A x : x.kids = kids => KidsOf(x) = {c, a, b}
    BY <1>2, KidsAre
  <2> QED
    BY <2>1
<1> HIDE DEF a, b, c, kids, T, F
<1>5. /\ "Ternary" \in NodeKinds /\ U1 \in CheckedTypes
      /\ "none" \in CheckedOps
  BY SomeTypes DEF NodeKinds, CheckedOps
<1>6. \A n \in DOMAIN nodes : nodes[n].type \in CheckedTypes /\ nodes[n].constValue \in Nat
  BY <1>1, NodeFacts DEF Checked, TypingNodes
<1>7. CASE BothPoly(a, b)
  <2> DEFINE u == PinPoly(nodes, {c}, U1)
             x == Poly("Ternary", "none", kids, nodes[b].constValue)
  <2>1. Leave(u, 3, x, Refused(c, U1))
    BY <1>3, <1>7
  <2>2. {c} \subseteq DOMAIN nodes /\ nodes[b].constValue \in Nat
    BY <1>2, <1>6
  <2>3. Checked(u, pending) /\ Len(u) = Len(nodes) /\ DOMAIN u = DOMAIN nodes
        /\ PinnedTo(nodes, u, {c}, U1)
    BY <1>1, <1>5, <2>2, PinnedTree
  <2>4. x \in TypingNodes /\ x.kind = "Ternary" /\ x.kids = kids /\ x.isPoly = TRUE
    BY <1>4, <1>5, <2>2, PolyMade DEF PolyFields
  <2> HIDE DEF u, x
  <2>5. ~u[c].isPoly
    BY <1>2, <2>3 DEF PinnedTo
  <2>6. u[a] = nodes[a] /\ u[b] = nodes[b]
    BY <1>1, <1>2, <2>3, PinnedOthers
  <2>7. a \in UntypedIn(u) /\ b \in UntypedIn(u)
    BY <1>2, <1>7, <2>3, <2>6 DEF Checked, Settled, BothPoly
  <2>8. KidsOf(x) = {c, a, b} /\ Len(x.kids) = Arity(x.kind) /\ Computed(x)
    BY <1>4, <2>4 DEF Arity, Computed
  <2>9. Operands(x) = {a, b}
    BY <1>4, <2>4 DEF Operands
  <2>10. Fitting(u, pending, x, 3)
    BY <1>2, <1>4, <2>3, <2>4, <2>5, <2>7, <2>8, <2>9 DEF Fitting
  <2>11. {c} \subseteq PoppedOf(pending, 3)
    BY <1>2
  <2>12. Stays(u, 3)
    BY <1>1, <2>3, <2>11, PinnedStays
  <2>13. ASSUME ~Refused(c, U1) PROVE Valued(u)
    <3>1. {c} \subseteq InList(pending)
          /\ \A r \in {c} : nodes[r].isPoly => FitsIn(nodes[r].constValue, U1)
      BY <1>2, <2>13 DEF Refused
    <3> QED
      BY <1>1, <2>3, <3>1, PinnedValued
  <2>14. Folding(u, x)
    <3>1. u[a].isPoly /\ u[b].isPoly
      BY <1>7, <2>6 DEF BothPoly
    <3> QED
      BY <2>4, <2>9, <3>1 DEF Folding
  <2>15. ~Refused(c, U1) => Making(u, x, 3)
    BY <2>4, <2>12, <2>13, <2>14 DEF Making
  <2> QED
    BY <1>1, <2>1, <2>3, <2>10, <2>15, LeftChecked
<1>8. CASE ~BothPoly(a, b)
  <2> DEFINE w == Meet(a, b)
             u == PinPoly(w, {c}, U1)
             x == Typing("Ternary", "none", kids, TernaryRule(T, F))
             report == Refused(c, U1) \/ Unfit(a, b) \/ T.isSigned # F.isSigned
  <2>1. Leave(u, 3, x, report)
    BY <1>3, <1>8
  <2>2. MeetIs(w, a, b) /\ T \in CheckedTypes /\ F \in CheckedTypes
    BY <1>1, <1>2, <1>8, TwoMeet DEF T, F
  <2>3. TernaryRule(T, F) \in CheckedTypes
    BY <2>2, RuleTypes
  <2>4. /\ x \in TypingNodes /\ x.kind = "Ternary" /\ x.kids = kids /\ x.isPoly = FALSE
        /\ x.type = TernaryRule(T, F)
    BY <1>4, <1>5, <2>3, TypingMade DEF TypingFields
  <2>5. ~report => ~Refused(c, U1) /\ ~Unfit(a, b) /\ T.isSigned = F.isSigned
    OBVIOUS
  <2> HIDE DEF x, report, w
  <2>6. Checked(w, pending) /\ Len(w) = Len(nodes) /\ DOMAIN w = DOMAIN nodes
        /\ {c} \subseteq DOMAIN w
    BY <1>2, <2>2 DEF MeetIs
  <2>7. Checked(u, pending) /\ Len(u) = Len(w) /\ DOMAIN u = DOMAIN w /\ PinnedTo(w, u, {c}, U1)
    BY <1>5, <2>6, PinnedTree
  <2> HIDE DEF u
  <2>8. ~w[a].isPoly /\ w[a].type = T /\ ~w[b].isPoly /\ w[b].type = F /\ w[c] = nodes[c]
    BY <1>2, <2>2 DEF MeetIs, T, F
  <2>9. ~u[a].isPoly /\ u[a].type = T /\ ~u[b].isPoly /\ u[b].type = F
    BY <1>2, <2>6, <2>7, <2>8 DEF PinnedTo
  <2>10. ~u[c].isPoly
    BY <2>6, <2>7 DEF PinnedTo
  <2>11. ASSUME ~report PROVE u[c].type = U1
    <3>1. CASE w[c].isPoly
      BY <2>6, <2>7, <2>10, <3>1 DEF PinnedTo
    <3>2. CASE ~w[c].isPoly
      <4>1. u[c] = nodes[c]
        BY <2>6, <2>7, <2>8, <3>2 DEF PinnedTo
      <4>2. Assignable(nodes[c].type, U1)
        BY <2>5, <2>8, <2>11, <3>2 DEF Refused
      <4> DEFINE k == nodes[c].type
      <4>3. k \in CheckedTypes
        BY <1>2, <1>6
      <4>4. Assignable(k, U1)
        BY <4>2
      <4> HIDE DEF k
      <4>5. k.width = 1 /\ k.isSigned = FALSE
        BY <4>3, <4>4 DEF Assignable, U1, Type, CheckedTypes
      <4>6. k = U1
        BY <4>3, <4>5 DEF U1, Type, CheckedTypes
      <4> QED
        BY <4>1, <4>6 DEF k
    <3> QED
      BY <3>1, <3>2
  <2>12. KidsOf(x) = {c, a, b} /\ Len(x.kids) = Arity(x.kind)
         /\ x.kids[1] = c /\ x.kids[2] = a /\ x.kids[3] = b
    BY <1>4, <2>4 DEF Arity
  <2>13. ~report => TypedNode(u, x)
    BY <2>4, <2>5, <2>9, <2>10, <2>11, <2>12 DEF TypedNode
  <2>14. ~report => Fitting(u, pending, x, 3)
    BY <1>2, <1>4, <2>4, <2>6, <2>7, <2>9, <2>10, <2>12, <2>13 DEF Fitting
  <2>15. Len(u) = Len(nodes)
    BY <2>6, <2>7
  <2>16. Keeps(nodes, u)
    BY <2>2, <2>6, <2>7 DEF MeetIs, PinnedTo, Keeps
  <2>17. Stays(u, 3)
    <3>1. ASSUME NEW n \in InList(pending), n \notin PoppedOf(pending, 3)
          PROVE  u[n] = nodes[n]
      <4>1. w[n] = nodes[n] /\ n \notin {c}
        BY <1>2, <2>2, <3>1 DEF MeetIs
      <4>2. u[n] = w[n]
        BY <2>6, <2>7, <4>1, PinnedOthers
      <4> QED
        BY <4>1, <4>2
    <3> QED
      BY <2>16, <3>1 DEF Stays
  <2>18. ASSUME ~report PROVE Valued(u)
    <3>1. Valued(w)
      BY <1>1, <1>2, <1>8, <2>5, <2>18, MeetValued DEF w
    <3>2. {c} \subseteq InList(pending)
          /\ \A r \in {c} : w[r].isPoly => FitsIn(w[r].constValue, U1)
      BY <1>2, <2>5, <2>8, <2>18 DEF Refused
    <3> QED
      BY <2>6, <2>7, <3>1, <3>2, PinnedValued
  <2>19. Operands(x) = {a, b}
    BY <2>4, <2>12 DEF Operands
  <2>20. a \notin UntypedIn(u) \/ b \notin UntypedIn(u)
    <3>1. Tree(u)
      BY <2>7 DEF Checked
    <3>2. ~nodes[a].isPoly => a \notin UntypedIn(u)
      BY <1>1, <1>2, <2>16, <3>1, SomeTyped
    <3>3. ~nodes[b].isPoly => b \notin UntypedIn(u)
      BY <1>1, <1>2, <2>16, <3>1, SomeTyped
    <3> QED
      BY <1>8, <3>2, <3>3 DEF BothPoly
  <2>21. Folding(u, x)
    BY <2>4, <2>19, <2>20 DEF Folding, Computed
  <2>22. ~report => Making(u, x, 3)
    BY <2>4, <2>17, <2>18, <2>21 DEF Making
  <2> QED
    BY <1>1, <2>1, <2>7, <2>14, <2>15, <2>22, LeftChecked
<1> QED
  BY <1>7, <1>8

-----------------------------------------------------------------------------
(* The constants that only casts use, when a statement has been checked.   *)

FloatsAt(t, n, S) ==
  /\ n \in UntypedIn(t)
  /\ \E p \in DOMAIN t : /\ n \in KidsOf(t[p])
                         /\ t[p].kind = "Cast" \/ (n \in Operands(t[p]) /\ p \in S)

LEMMA FloatingHere == Floating = FloatingIn(nodes)
  BY UntypedHere DEF Floating, FloatingIn, All, Kid

LEMMA FloatingAre ==
  ASSUME NEW t, Tree(t)
  PROVE  /\ FloatingIn(t) \subseteq DOMAIN t
         /\ \A n \in DOMAIN t : n \in FloatingIn(t) <=> FloatsAt(t, n, FloatingIn(t))
<1> DEFINE Fix(Is) == Is = [n \in DOMAIN t |->
                              /\ n \in UntypedIn(t)
                              /\ \E p \in DOMAIN t :
                                   /\ \E i \in DOMAIN t[p].kids : t[p].kids[i] = n
                                   /\ t[p].kind = "Cast" \/ (n \in Operands(t[p]) /\ Is[p])]
           Closed(S) == \A n \in S : FloatsAt(t, n, S)
           all == {n \in DOMAIN t : \E S \in SUBSET DOMAIN t : n \in S /\ Closed(S)}
           is == [n \in DOMAIN t |-> n \in all]
<1>1. \A p \in DOMAIN t : \A n :
        (\E i \in DOMAIN t[p].kids : t[p].kids[i] = n) <=> n \in KidsOf(t[p])
  BY DEF KidsOf
<1>2. \A n \in all : FloatsAt(t, n, all)
  <2>1. TAKE n \in all
  <2>2. PICK S \in SUBSET DOMAIN t : n \in S /\ Closed(S)
    OBVIOUS
  <2>3. S \subseteq all
    BY <2>2
  <2> QED
    BY <2>2, <2>3 DEF FloatsAt
<1>3. \A n \in DOMAIN t : FloatsAt(t, n, all) => n \in all
  <2>1. TAKE n \in DOMAIN t
  <2>2. HAVE FloatsAt(t, n, all)
  <2>3. Closed(all \cup {n})
    <3>1. TAKE m \in all \cup {n}
    <3>2. FloatsAt(t, m, all)
      BY <1>2, <2>2
    <3> QED
      BY <3>2 DEF FloatsAt
  <2>4. all \cup {n} \in SUBSET DOMAIN t
    OBVIOUS
  <2> QED
    BY <2>3, <2>4
<1>4. \A n \in DOMAIN t : is[n] <=> FloatsAt(t, n, all)
  BY <1>2, <1>3
<1>5. Fix(is)
  <2>1. ASSUME NEW n \in DOMAIN t
        PROVE  is[n] = (/\ n \in UntypedIn(t)
                        /\ \E p \in DOMAIN t :
                             /\ \E i \in DOMAIN t[p].kids : t[p].kids[i] = n
                             /\ t[p].kind = "Cast" \/ (n \in Operands(t[p]) /\ is[p]))
    <3>1. \A p \in DOMAIN t : is[p] <=> p \in all
      OBVIOUS
    <3>2. is[n] \in BOOLEAN
      OBVIOUS
    <3> HIDE DEF is, all
    <3>3. is[n] <=> FloatsAt(t, n, all)
      BY <1>4
    <3>4. FloatsAt(t, n, all) <=>
            /\ n \in UntypedIn(t)
            /\ \E p \in DOMAIN t :
                 /\ \E i \in DOMAIN t[p].kids : t[p].kids[i] = n
                 /\ t[p].kind = "Cast" \/ (n \in Operands(t[p]) /\ is[p])
      BY <1>1, <3>1, Zenon DEF FloatsAt
    <3> QED
      BY <3>2, <3>3, <3>4, Zenon
  <2> HIDE DEF all
  <2> QED
    BY <2>1
<1> DEFINE F == CHOOSE Is : Fix(Is)
<1>6. Fix(F)
  BY <1>5
<1>7. FloatingIn(t) = {n \in DOMAIN t : F[n]}
  BY DEF FloatingIn
<1>8. ASSUME NEW n \in DOMAIN t
      PROVE  F[n] <=> FloatsAt(t, n, {m \in DOMAIN t : F[m]})
  <2>1. F[n] = (/\ n \in UntypedIn(t)
                /\ \E p \in DOMAIN t :
                     /\ \E i \in DOMAIN t[p].kids : t[p].kids[i] = n
                     /\ t[p].kind = "Cast" \/ (n \in Operands(t[p]) /\ F[p]))
    BY <1>6
  <2> HIDE DEF F
  <2> QED
    BY <1>1, <2>1 DEF FloatsAt
<1> HIDE DEF F
<1> QED
  BY <1>7, <1>8

\* A node's users come after it: what only poly nodes and casts use floats.
LEMMA AllFloat ==
  ASSUME NEW t, Tree(t), Settled(t), \A n \in DOMAIN t : t[n].isPoly => UsedIn(t, n)
  PROVE  \A n \in DOMAIN t : t[n].isPoly => n \in FloatingIn(t)
<1> DEFINE S == {n \in DOMAIN t : t[n].isPoly /\ n \notin FloatingIn(t)}
           D == {Len(t) - n : n \in S}
<1>1. Len(t) \in Nat /\ DOMAIN t = 1 .. Len(t)
  BY DEF Tree
<1>2. CASE S = {}
  BY <1>2
<1>3. CASE S # {}
  <2>1. D \subseteq Nat /\ D # {}
    BY <1>1, <1>3
  <2>2. PICK d \in D : \A y \in D : d <= y
    <3> HIDE DEF D
    <3> QED
      BY <2>1, LeastNumber
  <2>3. PICK n \in S : d = Len(t) - n
    BY <2>2
  <2>4. \A p \in S : p <= n
    <3>1. TAKE p \in S
    <3>2. d <= Len(t) - p
      BY <2>2
    <3>3. p \in Nat /\ n \in Nat
      BY <1>1
    <3> QED
      BY <1>1, <2>3, <3>2, <3>3
  <2>5. n \in DOMAIN t /\ t[n].isPoly /\ n \notin FloatingIn(t) /\ n \in UntypedIn(t)
    BY DEF Settled
  <2>6. PICK p \in DOMAIN t : \/ t[p].isPoly /\ n \in Operands(t[p])
                              \/ t[p].kind = "Cast" /\ n \in KidsOf(t[p])
    BY <2>5 DEF UsedIn
  <2>7. CASE t[p].kind = "Cast" /\ n \in KidsOf(t[p])
    <3>1. FloatsAt(t, n, FloatingIn(t))
      BY <2>5, <2>6, <2>7 DEF FloatsAt
    <3> QED
      BY <2>5, <3>1, FloatingAre
  <2>8. CASE t[p].isPoly /\ n \in Operands(t[p])
    <3>1. n \in KidsOf(t[p]) /\ n \in 1 .. p - 1 /\ p \in Nat
      BY <2>6, <2>8, NodeFacts
    <3>2. p \notin S
      BY <2>4, <3>1
    <3>3. p \in FloatingIn(t)
      BY <2>6, <2>8, <3>2
    <3>4. FloatsAt(t, n, FloatingIn(t))
      BY <2>5, <2>6, <2>8, <3>1, <3>3 DEF FloatsAt
    <3> QED
      BY <2>5, <3>4, FloatingAre
  <2> QED
    BY <2>6, <2>7, <2>8
<1> QED
  BY <1>2, <1>3

-----------------------------------------------------------------------------
(* checkStmt, context by context.                                          *)

LEMMA AcceptedIs ==
  ASSUME context' = "statement" \/ context' = "size",
         context' = "statement" /\ ~errors' =>
           /\ Tree(nodes') /\ Settled(nodes') /\ Valued(nodes')
           /\ \A n \in DOMAIN nodes' : nodes'[n].isPoly => UsedIn(nodes', n)
  PROVE  CheckInv'
<1>1. ASSUME Accepted'
      PROVE  (/\ Tree(nodes) /\ Settled(nodes) /\ Valued(nodes)
              /\ \A n \in DOMAIN nodes : nodes[n].isPoly => n \in FloatingIn(nodes))'
  <2>1. Tree(nodes') /\ Settled(nodes') /\ Valued(nodes')
        /\ \A n \in DOMAIN nodes' : nodes'[n].isPoly => UsedIn(nodes', n)
    BY <1>1 DEF Accepted
  <2>2. \A n \in DOMAIN nodes' : nodes'[n].isPoly => n \in FloatingIn(nodes')
    BY <2>1, AllFloat
  <2> QED
    BY <2>1, <2>2
<1> QED
  BY <1>1 DEF CheckInv

LEMMA CheckAllChecked ==
  ASSUME CheckInv, NEW ty \in CheckedTypes, CheckAll(ty)
  PROVE  CheckInv'
<1> DEFINE roots == {pending[i] : i \in DOMAIN pending}
           u == PinPoly(nodes, roots, ty)
<1>1. /\ Checked(nodes, pending) /\ Valued(nodes) /\ nodes' = u /\ context' = "statement"
      /\ ~errors' => \A i \in DOMAIN pending : ~Refused(pending[i], ty)
  BY OpenIs DEF CheckAll
<1>2. roots = InList(pending)
  BY DEF InList
<1>3. roots \subseteq DOMAIN nodes
  BY <1>1 DEF Checked, Waiting
<1> HIDE DEF roots
<1>4. Checked(u, pending) /\ DOMAIN u = DOMAIN nodes /\ PinnedTo(nodes, u, roots, ty)
  BY <1>1, <1>3, PinnedTree
<1> HIDE DEF u
<1>5. ASSUME NEW n \in DOMAIN u, u[n].isPoly PROVE UsedIn(u, n)
  <2>1. n \notin InList(pending)
    BY <1>2, <1>4, <1>5 DEF PinnedTo
  <2> QED
    BY <1>4, <1>5, <2>1 DEF Checked, Hanging
<1>6. Tree(u) /\ Settled(u)
  BY <1>4 DEF Checked
<1>7. ASSUME ~errors' PROVE Valued(u)
  <2>1. roots \subseteq InList(pending)
        /\ \A r \in roots : nodes[r].isPoly => FitsIn(nodes[r].constValue, ty)
    BY <1>1, <1>2, <1>7 DEF Refused, InList
  <2> QED
    BY <1>1, <1>4, <2>1, PinnedValued
<1> QED
  BY <1>1, <1>5, <1>6, <1>7, AcceptedIs

LEMMA AssignElementChecked ==
  ASSUME CheckInv, NEW ty \in DeclaredTypes, NEW v \in Literals, AssignElement(ty, v)
  PROVE  CheckInv'
<1> DEFINE a == Top(1)
           u == PinPoly(nodes, {a}, ty)
           p == Typing("IntLit", "none", <<>>, Default)
           x == [p EXCEPT !.value = v, !.typeKnown = FALSE]
           w == Append(u, x)
<1>1. /\ Checked(nodes, pending) /\ Valued(nodes) /\ Len(pending) = 1
      /\ context' = "statement" /\ nodes' = w /\ errors' = Refused(a, ty)
  BY OpenIs DEF AssignElement
<1>2. a \in DOMAIN nodes /\ a \in InList(pending) /\ PoppedOf(pending, 1) = {a} /\ 1 \in 0 .. Len(pending)
  BY <1>1, Tops
<1> HIDE DEF a
<1>3. {a} \subseteq DOMAIN nodes /\ ty \in CheckedTypes
  BY <1>2, SomeTypes
<1>4. Checked(u, pending) /\ DOMAIN u = DOMAIN nodes /\ PinnedTo(nodes, u, {a}, ty)
  BY <1>1, <1>3, PinnedTree
<1> HIDE DEF u
<1>5. ~u[a].isPoly
  BY <1>2, <1>4 DEF PinnedTo
<1>6. /\ v \in Nat /\ <<>> \in Seq(Nat) /\ "IntLit" \in NodeKinds /\ Default \in CheckedTypes
      /\ "none" \in CheckedOps
  BY TypeCheckAssumption, SomeTypes DEF NodeKinds, CheckedOps
<1>7. p \in TypingNodes /\ p.kind = "IntLit" /\ p.kids = <<>> /\ p.isPoly = FALSE
  <2>1. TypingFields(p, "IntLit", "none", <<>>, Default)
    BY <1>6, TypingMade, Zenon
  <2> QED
    BY <2>1 DEF TypingFields
<1> HIDE DEF p
<1>8. /\ x \in TypingNodes /\ x.kind = "IntLit" /\ x.kids = <<>> /\ x.isPoly = FALSE
      /\ x.typeKnown = FALSE
  BY <1>6, <1>7 DEF TypingNodes
<1> HIDE DEF x
<1>9. KidsOf(x) = {} /\ Len(x.kids) = Arity(x.kind) /\ x.kids \in Seq(DOMAIN u)
  BY <1>8 DEF KidsOf, Arity
<1>10. TypedNode(u, x)
  BY <1>8 DEF TypedNode, Computed
<1>11. Fitting(u, pending, x, 1)
  BY <1>2, <1>5, <1>8, <1>9, <1>10 DEF Fitting
<1> DEFINE new == Len(u) + 1
           r == Requeued(pending, 1, new)
<1>12. Checked(w, r)
  BY <1>4, <1>11, MadeChecked
<1>13. Tree(u) /\ new \notin DOMAIN u /\ w[new] = x
  <2>1. Tree(u)
    BY <1>4 DEF Checked
  <2> QED
    BY <1>8, <1>9, <2>1, NodeMade
<1>14. ASSUME NEW n \in InList(r)
       PROVE  n = new
  <2>1. pending \in Seq(DOMAIN u) /\ \A i, j \in DOMAIN pending : pending[i] = pending[j] => i = j
    BY <1>4 DEF Checked, Waiting
  <2> HIDE DEF new
  <2>2. n = new \/ (n \in InList(pending) /\ n \notin PoppedOf(pending, 1))
    BY <1>2, <1>13, <2>1, QueueMade
  <2>3. InList(pending) = PoppedOf(pending, 1)
    <3>1. DOMAIN pending = {1} /\ Len(pending) - 1 + 1 .. Len(pending) = {1}
      BY <1>1, <2>1
    <3> QED
      BY <3>1 DEF InList, PoppedOf
  <2> QED
    BY <2>2, <2>3
<1> HIDE DEF w, new, r
<1>15. ASSUME NEW n \in DOMAIN w, w[n].isPoly PROVE UsedIn(w, n)
  <2>1. n # new
    BY <1>8, <1>13, <1>15
  <2>2. n \notin InList(r)
    BY <1>14, <2>1
  <2> QED
    BY <1>12, <1>15, <2>2 DEF Checked, Hanging
<1>16. Tree(w) /\ Settled(w)
  BY <1>12 DEF Checked
<1>17. ASSUME ~errors' PROVE Valued(w)
  <2>1. {a} \subseteq InList(pending)
        /\ \A j \in {a} : nodes[j].isPoly => FitsIn(nodes[j].constValue, ty)
    BY <1>1, <1>2, <1>17 DEF Refused
  <2>2. Valued(u)
    BY <1>1, <1>4, <2>1, PinnedValued
  <2>3. Folding(u, x)
    BY <1>8 DEF Folding
  <2>4. Valued(Append(u, x))
    BY <1>4, <1>11, <2>2, <2>3, MadeValued
  <2> QED
    BY <2>4 DEF w
<1> QED
  BY <1>1, <1>15, <1>16, <1>17, AcceptedIs

LEMMA ReadIntoChecked ==
  ASSUME CheckInv, NEW target \in DeclaredTypes, NEW stream \in DeclaredTypes, NEW report,
         ReadInto(target, stream, report)
  PROVE  CheckInv'
<1> DEFINE x == Typing("NameRef", "none", <<>>, target)
           y == Typing("Read", "none", <<1>>, stream)
           t == <<x, y>>
<1>1. nodes' = t /\ context' = "statement"
  BY DEF ReadInto
<1>2. /\ target \in CheckedTypes /\ stream \in CheckedTypes
      /\ <<>> \in Seq(Nat) /\ <<1>> \in Seq(Nat) /\ "NameRef" \in NodeKinds /\ "Read" \in NodeKinds
      /\ "none" \in CheckedOps
  BY SomeTypes DEF NodeKinds, CheckedOps
<1>3. x \in TypingNodes /\ x.kind = "NameRef" /\ x.kids = <<>> /\ x.isPoly = FALSE
  <2>1. TypingFields(x, "NameRef", "none", <<>>, target)
    BY <1>2, TypingMade, Zenon
  <2> QED
    BY <2>1 DEF TypingFields
<1>4. y \in TypingNodes /\ y.kind = "Read" /\ y.kids = <<1>> /\ y.isPoly = FALSE
  <2>1. TypingFields(y, "Read", "none", <<1>>, stream)
    BY <1>2, TypingMade, Zenon
  <2> QED
    BY <2>1 DEF TypingFields
<1> HIDE DEF x, y
<1>5. t \in Seq(TypingNodes) /\ DOMAIN t = {1, 2} /\ t[1] = x /\ t[2] = y
  BY <1>3, <1>4
<1> HIDE DEF t
<1>6. /\ x.kids \in Seq(1 .. 0) /\ Len(x.kids) = Arity(x.kind)
      /\ y.kids \in Seq(1 .. 1) /\ Len(y.kids) = Arity(y.kind)
  BY <1>3, <1>4 DEF Arity
<1>7. Tree(t)
  <2>1. \A n \in {1, 2} : t[n].kids \in Seq(1 .. n - 1) /\ Len(t[n].kids) = Arity(t[n].kind)
    BY <1>5, <1>6
  <2> QED
    BY <1>5, <2>1 DEF Tree
<1>8. \A n \in DOMAIN t : ~t[n].isPoly
  BY <1>3, <1>4, <1>5
<1>9. \A n \in DOMAIN t : TypedNode(t, t[n])
  BY <1>3, <1>4, <1>5 DEF TypedNode, Computed
<1>10. Settled(t)
  BY <1>8, <1>9 DEF Settled
<1>11. Valued(t)
  <2>1. KidsOf(x) = {} /\ KidsOf(y) = {1}
    BY <1>3, <1>4 DEF KidsOf
  <2>2. Single(t)
    BY <1>5, <2>1 DEF Single
  <2>3. SumsIn(t) = {}
    <3>1. \A n \in DOMAIN t : ~SumAt(t, n, SumsIn(t))
      BY <1>3, <1>4, <1>5 DEF SumAt
    <3> QED
      BY <1>7, <3>1, SumsAre
  <2>4. UnaryNodes(t)
    BY <1>3, <1>4, <1>5 DEF UnaryNodes
  <2> QED
    BY <2>2, <2>3, <2>4 DEF Valued, Folded, OneType, Fitted
<1> QED
  BY <1>1, <1>7, <1>8, <1>10, <1>11, AcceptedIs

LEMMA CheckInvInit ==
  ASSUME CheckInit
  PROVE  CheckInv
<1>1. Tree(<<>>)
  BY DEF Tree
<1>2. Checked(<<>>, <<>>)
  BY <1>1 DEF Checked, Waiting, Settled, Hanging
<1>3. Valued(<<>>)
  <2>1. SumsIn(<<>>) = {}
    BY <1>1, SumsAre
  <2> QED
    BY <2>1 DEF Valued, Single, UnaryNodes, Folded, OneType, Fitted
<1>4. Free(<<>>, <<>>)
  BY DEF Free, InList
<1> QED
  BY <1>2, <1>3, <1>4 DEF CheckInit, CheckInv, Accepted

LEMMA CheckInvStep ==
  ASSUME CheckInv, [CheckNext]_checkVars
  PROVE  CheckInv'
<1>1. ASSUME NEW v \in Literals, IntLit(v) PROVE CheckInv'
  BY <1>1, IntLitChecked
<1>2. ASSUME NEW ty \in DeclaredTypes, NameRef(ty) PROVE CheckInv'
  BY <1>2, NameRefChecked
<1>3. ASSUME NEW ty \in DeclaredTypes, Index(ty) PROVE CheckInv'
  BY <1>3, IndexChecked
<1>4. ASSUME NEW ty \in DeclaredTypes, Cast(ty) PROVE CheckInv'
  BY <1>4, CastChecked
<1>5. ASSUME NEW ty \in CheckedTypes, CheckAll(ty) PROVE CheckInv'
  BY <1>5, CheckAllChecked
<1>6. ASSUME NEW ty \in DeclaredTypes, Use(ty) \/ Header(ty) PROVE CheckInv'
  BY <1>5, <1>6, SomeTypes DEF Use, Header
<1>7. ASSUME NEW op \in UnaryOps, Unary(op) PROVE CheckInv'
  BY <1>7, UnaryChecked
<1>8. ASSUME NEW op \in Ops, Binary(op) PROVE CheckInv'
  BY <1>8, BinaryChecked
<1>9. ASSUME Ternary PROVE CheckInv'
  BY <1>9, TernaryChecked
<1>10. ASSUME Condition PROVE CheckInv'
  BY <1>5, <1>10, SomeTypes DEF Condition
<1>11. ASSUME ParamSize PROVE CheckInv'
  BY <1>11, AcceptedIs DEF ParamSize
<1>12. ASSUME NEW ty \in DeclaredTypes, NEW v \in Literals, AssignElement(ty, v) PROVE CheckInv'
  BY <1>12, AssignElementChecked
<1>13. ASSUME NEW target \in DeclaredTypes, NEW stream \in DeclaredTypes,
              DeclareRead(target, stream) \/ AssignRead(target, stream)
       PROVE  CheckInv'
  BY <1>13, ReadIntoChecked DEF DeclareRead, AssignRead
<1>14. ASSUME UNCHANGED checkVars PROVE CheckInv'
  BY <1>14 DEF checkVars, CheckInv, Accepted
<1> QED
  BY <1>1, <1>2, <1>3, <1>4, <1>6, <1>7, <1>8, <1>9, <1>10, <1>11, <1>12, <1>13, <1>14 DEF CheckNext

(* Up to the first report, the expressions that wait for an operator are    *)
(* typed but for constants, and the sums among these hold what they mean;   *)
(* in an accepted statement the constants that kept no type are the         *)
(* operands of casts and their parts, and every other sum fits the type it  *)
(* was given (infer, checkExpr, checkStmt).                                 *)
THEOREM CheckInvHolds == CheckSpec => []CheckInv
<1>1. CheckInit => CheckInv
  BY CheckInvInit
<1>2. CheckInv /\ [CheckNext]_checkVars => CheckInv'
  BY CheckInvStep
<1> QED
  BY <1>1, <1>2, PTL DEF CheckSpec

\* The checker's rules are the table's, but for `!`.
LEMMA TableRules ==
  ASSUME NEW l \in CheckedTypes, NEW r \in CheckedTypes
  PROVE  /\ \A op \in BinaryOps : WidthRule(op, l, r) = TableBinary(op, l, r)
         /\ \A op \in UnaryOps \ {"!"} : UnaryRule(op, l) = TableUnary(op, l)
         /\ TernaryRule(l, r) = Type(MaxOf(l, r), l.isSigned)
<1>1. l.width \in Nat /\ r.width \in Nat
  BY DEF CheckedTypes
<1>2. /\ Wider(l, r) \in {l.width, r.width} /\ l.width <= Wider(l, r) /\ r.width <= Wider(l, r)
  BY <1>1, WidestOfTwo DEF Wider
<1>3. MaxOf(l, r) = Wider(l, r)
  BY <1>1, <1>2 DEF MaxOf
<1>4. MinOf(l, r) = Narrower(l, r)
  BY <1>1, <1>2 DEF MinOf, Narrower
<1>5. ASSUME NEW op \in BinaryOps
      PROVE  WidthRule(op, l, r) = TableBinary(op, l, r)
  <2>1. CASE op \in {"+", "-", "*", "/", "%"}
    BY <1>3, <1>4, <2>1 DEF WidthRule, TableBinary
  <2>2. CASE op \in {"&", "|", "^", "<<", ">>"}
    BY <1>3, <2>2 DEF WidthRule, TableBinary, Bitwises, Shifts
  <2>3. CASE op \in {"<", "<=", ">", ">=", "==", "!=", "&&", "||"}
    BY <2>3 DEF WidthRule, TableBinary, Bitwises, Shifts, Comparisons, Logicals
  <2> QED
    BY <2>1, <2>2, <2>3 DEF BinaryOps, Bitwises, Shifts, Comparisons, Logicals
<1>6. \A op \in UnaryOps \ {"!"} : UnaryRule(op, l) = TableUnary(op, l)
  BY DEF UnaryOps, UnaryRule, TableUnary
<1> QED
  BY <1>3, <1>5, <1>6 DEF TernaryRule

(* In an accepted statement every operator on typed operands has the type   *)
(* LANGUAGE.md's table gives it for the types its operands ended up with,   *)
(* save a `!` of an operand that is no u1; those operands are ones the      *)
(* table allows, save for the operators whose operands are not looked at    *)
(* (`!`, the shifts, && and ||); and no binary operator is wider than the   *)
(* limit (infer, widthRule).                                                *)
THEOREM TypesFollowTheRules == CheckSpec => []RulesHold
<1>1. CheckInv => RulesHold
  <2> SUFFICES ASSUME CheckInv, Accepted, NEW n \in Operations
               PROVE  /\ nodes[n].type = TableType(n) \/ (nodes[n].op = "!" /\ ~OperandRule(n))
                      /\ OperandRule(n) \/ nodes[n].op \in Unchecked
                      /\ nodes[n].kind = "Binary" => nodes[n].type.width <= HostWidth
    BY DEF RulesHold
  <2> DEFINE x == nodes[n]
             T(i) == KidType(n, i)
  <2>1. n \in DOMAIN nodes /\ n \notin UntypedIn(nodes) /\ x.kind \in {"Unary", "Binary", "Ternary"}
    BY UntypedHere DEF All, Operations
  <2>2. TypedNode(nodes, x) /\ Tree(nodes)
    BY <2>1 DEF CheckInv, Settled
  <2>3. /\ x \in TypingNodes /\ \A i \in 1 .. Arity(x.kind) : T(i) \in CheckedTypes
    <3>1. x \in TypingNodes /\ DOMAIN x.kids = 1 .. Arity(x.kind) /\ KidsOf(x) \subseteq 1 .. n - 1
          /\ 1 .. n - 1 \subseteq DOMAIN nodes
      BY <2>1, <2>2, NodeFacts
    <3>2. \A i \in 1 .. Arity(x.kind) : Kid(n, i) \in DOMAIN nodes
      BY <3>1 DEF KidsOf, Kid
    <3>3. \A k \in DOMAIN nodes : nodes[k].type \in CheckedTypes
      BY <2>2, NodeFacts DEF TypingNodes
    <3> QED
      BY <3>1, <3>2, <3>3 DEF KidType
  <2>4. \A i : T(i) = nodes[x.kids[i]].type
    BY DEF KidType, Kid
  <2> HIDE DEF T
  <2>5. CASE x.kind = "Unary"
    <3>1. x.type = UnaryRule(x.op, T(1)) /\ x.op \in UnaryOps /\ T(1) \in CheckedTypes
      BY <2>2, <2>3, <2>4, <2>5 DEF TypedNode, Arity
    <3>2. TableType(n) = TableUnary(x.op, T(1)) /\ (OperandRule(n) <=> (x.op = "!" => T(1) = U1))
      BY <2>5 DEF TableType, OperandRule, T
    <3>3. CASE x.op = "!"
      BY <2>5, <3>1, <3>2, <3>3 DEF UnaryRule, TableUnary, U1, Unchecked
    <3>4. CASE x.op # "!"
      BY <2>5, <3>1, <3>2, <3>4, TableRules
    <3> QED
      BY <3>3, <3>4
  <2>6. CASE x.kind = "Binary"
    <3>1. /\ x.type = WidthRule(x.op, T(1), T(2)) /\ Typed(x.op, T(1), T(2))
          /\ x.op \in BinaryOps /\ ~(x.type.width > HostWidth)
          /\ T(1) \in CheckedTypes /\ T(2) \in CheckedTypes
      BY <2>2, <2>3, <2>4, <2>6 DEF TypedNode, Arity
    <3>2. x.type = TableBinary(x.op, T(1), T(2))
      BY <3>1, TableRules
    <3>3. TableType(n) = TableBinary(x.op, T(1), T(2))
      BY <2>6 DEF TableType, T
    <3>4. OperandRule(n) \/ x.op \in Unchecked
      <4>1. CASE x.op \in {"<<", ">>", "&&", "||"}
        BY <4>1 DEF Unchecked
      <4>2. CASE x.op \notin {"<<", ">>", "&&", "||"}
        BY <2>6, <3>1, <4>2 DEF OperandRule, T, Typed, Shifts
      <4> QED
        BY <4>1, <4>2
    <3>5. x.type.width \in Nat
      BY <2>3 DEF TypingNodes, CheckedTypes
    <3> QED
      BY <3>1, <3>2, <3>3, <3>4, <3>5, WidthsAssumption
  <2>7. CASE x.kind = "Ternary"
    <3>1. /\ x.type = TernaryRule(T(2), T(3)) /\ T(1) = U1 /\ T(2).isSigned = T(3).isSigned
          /\ T(2) \in CheckedTypes /\ T(3) \in CheckedTypes
      BY <2>2, <2>3, <2>4, <2>7 DEF TypedNode, Arity
    <3>2. TableType(n) = Type(MaxOf(T(2), T(3)), T(2).isSigned)
      BY <2>7 DEF TableType, T
    <3>3. OperandRule(n)
      BY <2>7, <3>1 DEF OperandRule, T
    <3> QED
      BY <2>7, <3>1, <3>2, <3>3, TableRules
  <2> QED
    BY <2>1, <2>5, <2>6, <2>7
<1> QED
  BY <1>1, CheckInvHolds, PTL

(* The context's type reaches every node of a constant in an accepted       *)
(* statement: none keeps the default one, the operands of casts excepted    *)
(* (pinPoly).                                                               *)
THEOREM ContextTypesReachConstants == CheckSpec => []TypesReachEveryNode
<1>1. CheckInv => TypesReachEveryNode
  BY FloatingHere DEF CheckInv, TypesReachEveryNode, All
<1> QED
  BY <1>1, CheckInvHolds, PTL

LEMMA SumsInExact ==
  ASSUME NEW t, Tree(t), Valued(t), NEW n \in SumsIn(t), ~t[n].isPoly, t[n].typeKnown,
         Topmost(t, n), MeantIn(t)[n] < 2^(HostWidth - 1)
  PROVE  Value(RunIn(t)[n]) = MeantIn(t)[n]
<1> DEFINE x == MeantIn(t)[n]
           T == 2^(HostWidth - 1)
           W == 2^HostWidth
<1>1. x \in Nat
  BY SumsNatural
<1>2. T \in Nat /\ W = 2 * T
  <2>1. HostWidth \in Nat \ {0} /\ HostWidth - 1 \in Nat
    BY WidthsAssumption
  <2> QED
    BY <2>1, PowerOfTwo, PowerDoubles
<1>3. FitsIn(x % W, t[n].type)
  BY DEF Valued, Fitted
<1>4. x < T
  OBVIOUS
<1>5. RunsAs(RunIn(t)[n], x, t[n].type)
  BY SumsRun DEF Valued
<1> HIDE DEF x, T, W
<1>6. x % W = x
  BY <1>1, <1>2, <1>4
<1> QED
  BY <1>3, <1>4, <1>5, <1>6 DEF RunsAs, x, T

(* A constant made of literals, sums and products that is accepted has its  *)
(* mathematical value at run time: what infer folds it to is its value, and *)
(* where it gets its type that value fits (fits).                           *)
THEOREM AcceptedSumsAreExact == CheckSpec => []SumsAreExact
<1>1. CheckInv => SumsAreExact
  <2> SUFFICES ASSUME CheckInv, Accepted, NEW n \in Constants(Sums) \ Floating,
                      Meant(n) < 2^(HostWidth - 1)
               PROVE  RunTime(n) = Meant(n)
    BY DEF SumsAreExact
  <2>1. Tree(nodes) /\ Valued(nodes)
        /\ \A m \in DOMAIN nodes : nodes[m].isPoly => m \in Floating
    BY FloatingHere DEF CheckInv
  <2>2. n \in SumsIn(nodes) /\ nodes[n].typeKnown /\ Topmost(nodes, n) /\ n \notin Floating
    BY SumsHere DEF Topmost
  <2>3. n \in DOMAIN nodes
    BY <2>1, <2>2, SumsAre
  <2>4. ~nodes[n].isPoly
    BY <2>1, <2>2, <2>3
  <2>5. Meant(n) = MeantIn(nodes)[n] /\ RunTime(n) = Value(RunIn(nodes)[n])
    BY <2>3, MeantHere, RunHere
  <2> QED
    BY <2>1, <2>2, <2>4, <2>5, SumsInExact
<1> QED
  BY <1>1, CheckInvHolds, PTL
=============================================================================
