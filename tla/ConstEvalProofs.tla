-------------------------- MODULE ConstEvalProofs --------------------------
(***************************************************************************)
(* sema/const_eval.cpp, of every program: the trip count evaluateFor folds *)
(* a header to is the number of times the written condition holds, and the *)
(* variable, updated modulo its width, is what the loop gives it; a        *)
(* constant is folded to what the declarations mean, whatever their order, *)
(* and what there is to report is reported, and nothing else.              *)
(***************************************************************************)
EXTENDS LoopHeader, ConstEval, BitsProofs, FiniteSets, FiniteSetTheorems

\* Division rounds down.
LEMMA Division ==
  ASSUME NEW d \in Nat, NEW a \in Nat \ {0}
  PROVE  /\ d \div a \in Nat
         /\ (d \div a) * a <= d
         /\ d < (d \div a) * a + a
<1>1. d \div a \in Int /\ d % a \in 0 .. a - 1 /\ d = a * (d \div a) + (d % a)
  <2>1. d \div a \in Int
    OBVIOUS
  <2>2. d % a \in 0 .. a - 1
    <3>1. d % a \in Int /\ 0 <= d % a /\ d % a < a
      OBVIOUS
    <3> QED
      BY <3>1
  <2>3. d = a * (d \div a) + (d % a)
    OBVIOUS
  <2> QED
    BY <2>1, <2>2, <2>3
<1>2. d \div a >= 0
  BY <1>1
<1> QED
  BY <1>1, <1>2

\* Multiples of a in order.
LEMMA Multiples ==
  ASSUME NEW m \in Nat, NEW n \in Nat, NEW a \in Nat \ {0}
  PROVE  /\ m * a \in Nat
         /\ m <= n => m * a <= n * a
         /\ m < n => m * a + a <= n * a
<1>1. m * a \in Nat
  OBVIOUS
<1>2. m <= n => m * a <= n * a
  <2> SUFFICES ASSUME m <= n PROVE m * a <= n * a
    OBVIOUS
  <2>1. n - m \in Nat /\ (n - m) * a \in Nat
    OBVIOUS
  <2>2. n * a = m * a + (n - m) * a
    OBVIOUS
  <2> QED
    BY <1>1, <2>1, <2>2
<1>3. m < n => m * a + a <= n * a
  <2> SUFFICES ASSUME m < n PROVE m * a + a <= n * a
    OBVIOUS
  <2>1. n - m - 1 \in Nat /\ (n - m - 1) * a \in Nat
    OBVIOUS
  <2>2. n * a = m * a + a + (n - m - 1) * a
    OBVIOUS
  <2> QED
    BY <1>1, <2>1, <2>2
<1> QED
  BY <1>1, <1>2, <1>3

\* The count of a strict condition, and of one that admits the limit itself.
LEMMA StrictCount ==
  ASSUME NEW d \in Nat \ {0}, NEW a \in Nat \ {0}, NEW n \in Nat
  PROVE  n < (d + a - 1) \div a <=> n * a < d
<1> DEFINE q == (d + a - 1) \div a
<1>1. d + a - 1 \in Nat
  OBVIOUS
<1>2. q \in Nat /\ q * a <= d + a - 1 /\ d + a - 1 < q * a + a
  BY <1>1, Division
<1> HIDE DEF q
<1>3. n * a \in Nat /\ q * a \in Nat
  BY <1>2, Multiples
<1>4. ASSUME n < q PROVE n * a < d
  <2>1. n * a + a <= q * a
    BY <1>2, <1>4, Multiples
  <2> QED
    BY <1>2, <1>3, <2>1
<1>5. ASSUME q <= n PROVE d <= n * a
  <2>1. q * a <= n * a
    BY <1>2, <1>5, Multiples
  <2> QED
    BY <1>2, <1>3, <2>1
<1>6. n < q <=> n * a < d
  BY <1>2, <1>3, <1>4, <1>5
<1> QED
  BY <1>6 DEF q

LEMMA InclusiveCount ==
  ASSUME NEW d \in Nat, NEW a \in Nat \ {0}, NEW n \in Nat
  PROVE  n < d \div a + 1 <=> n * a <= d
<1> DEFINE q == d \div a
<1>1. q \in Nat /\ q * a <= d /\ d < q * a + a
  BY Division
<1> HIDE DEF q
<1>2. n * a \in Nat /\ q * a \in Nat
  BY <1>1, Multiples
<1>3. ASSUME n <= q PROVE n * a <= d
  <2>1. n * a <= q * a
    BY <1>1, <1>3, Multiples
  <2> QED
    BY <1>1, <1>2, <2>1
<1>4. ASSUME q < n PROVE d < n * a
  <2>1. q * a + a <= n * a
    BY <1>1, <1>4, Multiples
  <2> QED
    BY <1>1, <1>2, <2>1
<1>5. n < q + 1 <=> n * a <= d
  BY <1>1, <1>2, <1>3, <1>4
<1> QED
  BY <1>5 DEF q

-----------------------------------------------------------------------------
(***************************************************************************)
(* What evaluateFor has established of a header it counts.                 *)
(***************************************************************************)
Sane(h) ==
  /\ {h.start, h.limit, h.step} \subseteq Int
  /\ h.relOp \in {"<", "<=", ">", ">="}
  /\ h.stepIsAdd \in BOOLEAN
Counted(h) == h.step # 0 /\ ~(Enters(h) /\ MovesAway(h))

LEMMA HeaderFacts ==
  /\ MaxTrips \in Nat
  /\ \A h \in Headers : /\ {h.start, h.limit, h.step} \subseteq Int
                        /\ h.relOp \in {"<", "<=", ">", ">="}
                        /\ h.stepIsAdd \in BOOLEAN
                        /\ h.type.isSigned \in BOOLEAN
                        /\ h.type.width \in 1 .. HostWidth - 1
<1>1. HostInts \subseteq Int
  BY DEF HostInts
<1> QED
  BY <1>1, HeadersAssumption

LEMMA EnteredDistance ==
  ASSUME NEW h, Sane(h), Counted(h), Enters(h)
  PROVE  /\ Distance(h) \in Nat /\ Stride(h) \in Nat \ {0}
         /\ h.relOp \in {"<", ">"} => Distance(h) # 0
<1>1. Stride(h) \in Nat \ {0}
  BY DEF Sane, Counted, Stride
<1>2. CASE h.stepIsAdd
  BY <1>1, <1>2 DEF Sane, Counted, Enters, MovesAway, Distance
<1>3. CASE ~h.stepIsAdd
  BY <1>1, <1>3 DEF Sane, Counted, Enters, MovesAway, Distance
<1> QED
  BY <1>2, <1>3

LEMMA CountNat ==
  ASSUME NEW h, Sane(h), Counted(h)
  PROVE  Count(h) \in Nat
<1>1. CASE Enters(h)
  <2> DEFINE d == Distance(h)
             a == Stride(h)
  <2>1. d \in Nat /\ a \in Nat \ {0}
    BY <1>1, EnteredDistance
  <2>2. Count(h) \in {(d + a - 1) \div a, d \div a + 1}
    BY <1>1 DEF Count, Steps
  <2> HIDE DEF d, a
  <2>3. d + a - 1 \in Nat
    BY <2>1
  <2>4. (d + a - 1) \div a \in Nat /\ d \div a \in Nat
    BY <2>1, <2>3, Division
  <2> QED
    BY <2>2, <2>4
<1>2. CASE ~Enters(h)
  BY <1>2 DEF Count, Steps
<1> QED
  BY <1>1, <1>2

-----------------------------------------------------------------------------
(***************************************************************************)
(* The inductive invariant: `at` is where k iterations lead, the variable  *)
(* is `at` at its width, and a header that was counted got past            *)
(* evaluateFor's reports.                                                  *)
(***************************************************************************)
Moved == k * header.step

IInv ==
  /\ header \in Headers
  /\ k \in Nat
  /\ at = IF header.stepIsAdd THEN header.start + Moved ELSE header.start - Moved
  /\ iv = Coerce(at)
  /\ verdict = "unseen" => k = 0
  /\ Accepted =>
       /\ tripCount = Count(header)
       /\ k <= tripCount
       /\ Counted(header)

LEMMA InitInvariant == Init => IInv
<1> SUFFICES ASSUME Init PROVE IInv
  OBVIOUS
<1>1. /\ header \in Headers /\ header.step \in Int /\ header.start \in Int
      /\ k = 0 /\ verdict = "unseen" /\ at = header.start
  BY HeaderFacts DEF Init
<1>2. Moved = 0
  BY <1>1 DEF Moved
<1>3. header.start + 0 = header.start /\ header.start - 0 = header.start
  BY <1>1
<1> QED
  BY <1>1, <1>2, <1>3 DEF IInv, Init, Accepted

\* An update, made on the residues, is made on the numbers.
LEMMA UpdateIsExact ==
  ASSUME header \in Headers, NEW n \in Int, iv = Coerce(n)
  PROVE  Updated = Coerce(IF header.stepIsAdd THEN n + header.step ELSE n - header.step)
<1> DEFINE w == header.type.width
           s == header.type.isSigned
           m == 2^w
           d == header.step
<1>1. w \in 0 .. HostWidth /\ w \in Nat /\ d \in Int /\ header.stepIsAdd \in BOOLEAN
  BY HeaderFacts, WidthsAssumption
<1>2. m \in Nat \ {0}
  BY <1>1, PowerOfTwo
<1>3. \A x \in Int : Coerce(x) = [raw |-> x % m, width |-> w, isSigned |-> s]
  BY <1>1, WidthsAssumption DEF Coerce, Make, Smaller
<1> HIDE DEF w, s, m
<1>4. iv.raw = n % m /\ Coerce(d).raw = d % m
  BY <1>1, <1>3
<1>5. n % m \in Int /\ d % m \in Int
  BY <1>1, <1>2
<1>6. /\ ((n % m) + (d % m)) % m = (n + d) % m
      /\ ((n % m) - (d % m)) % m = (n - d) % m
  BY <1>1, <1>2, ResidueSum
<1>7. CASE header.stepIsAdd
  <2>1. Updated = Coerce((n % m) + (d % m))
    BY <1>4, <1>7 DEF Updated
  <2>2. Coerce((n % m) + (d % m)) = Coerce(n + d)
    BY <1>1, <1>3, <1>5, <1>6
  <2> QED
    BY <1>7, <2>1, <2>2
<1>8. CASE ~header.stepIsAdd
  <2>1. Updated = Coerce((n % m) - (d % m))
    BY <1>4, <1>8 DEF Updated
  <2>2. Coerce((n % m) - (d % m)) = Coerce(n - d)
    BY <1>1, <1>3, <1>5, <1>6
  <2> QED
    BY <1>8, <2>1, <2>2
<1> QED
  BY <1>1, <1>7, <1>8

LEMMA NextInvariant == ASSUME IInv, [Next]_vars PROVE IInv'
<1>0. Sane(header)
  BY HeaderFacts DEF IInv, Sane
<1>1. CASE EvaluateFor
  <2>1. UNCHANGED <<header, k, at>> /\ k = 0 /\ verdict' # "unseen"
    BY <1>1 DEF EvaluateFor, IInv, Judgement, Verdicts
  <2>2. Accepted' => tripCount' = Count(header) /\ Counted(header)
    <3> SUFFICES ASSUME verdict' = "counted", ~Undefined(header)
                 PROVE  tripCount' = Count(header) /\ Counted(header)
      BY <2>1 DEF Accepted
    <3>1. Judgement(header) = "counted"
      BY <1>1 DEF EvaluateFor
    <3> QED
      BY <1>1, <3>1 DEF EvaluateFor, Judgement, Counted
  <2>3. Accepted' => 0 <= Count(header)
    BY <1>0, <2>2, CountNat
  <2>4. iv' = Coerce(at)'
    BY <1>1 DEF EvaluateFor, IInv, Coerce
  <2> QED
    BY <2>1, <2>2, <2>3, <2>4 DEF IInv, Moved
<1>2. CASE Iterate
  <2>1. /\ header' = header /\ verdict' = verdict /\ tripCount' = tripCount
        /\ k' = k + 1 /\ verdict = "counted" /\ k < tripCount
        /\ at' = IF header.stepIsAdd THEN at + header.step ELSE at - header.step
    BY <1>2 DEF Iterate
  <2>2. /\ header.step \in Int /\ header.start \in Int /\ k \in Nat
    BY HeaderFacts DEF IInv
  <2>3. /\ k * header.step \in Int /\ (k + 1) * header.step = k * header.step + header.step
    BY <2>2
  <2>4. at' = IF header.stepIsAdd THEN header.start + Moved' ELSE header.start - Moved'
    BY <2>1, <2>2, <2>3 DEF IInv, Moved
  <2>5. Accepted => tripCount = Count(header) /\ Count(header) \in Nat /\ Counted(header)
    BY <1>0, <2>1, CountNat DEF IInv
  <2>6. k' \in Nat /\ (Accepted => k' <= tripCount) /\ (Accepted' <=> Accepted)
    BY <2>1, <2>2, <2>5 DEF Accepted
  <2>7. at \in Int
    BY <2>2, <2>3, HeaderFacts DEF IInv, Moved
  <2>8. Updated = Coerce(at')
    BY <2>1, <2>7, UpdateIsExact DEF IInv
  <2>9. iv' = Coerce(at)'
    BY <1>2, <2>1, <2>8 DEF Iterate, Coerce
  <2> QED
    BY <2>1, <2>4, <2>5, <2>6, <2>9 DEF IInv
<1>3. CASE UNCHANGED vars
  BY <1>3 DEF vars, IInv, Moved, Coerce, Accepted
<1> QED
  BY <1>1, <1>2, <1>3 DEF Next

\* A counted header whose step is positive and moves toward its limit.
LEMMA CountIsExact ==
  ASSUME NEW h, Sane(h), Counted(h), h.step > 0, ~MovesAway(h),
         NEW n \in Nat, n <= Count(h),
         NEW x, x = IF h.stepIsAdd THEN h.start + n * h.step ELSE h.start - n * h.step
  PROVE  n < Count(h) <=> CASE h.relOp = "<"  -> x < h.limit
                            [] h.relOp = "<=" -> x <= h.limit
                            [] h.relOp = ">"  -> x > h.limit
                            [] h.relOp = ">=" -> x >= h.limit
<1> DEFINE holds == CASE h.relOp = "<"  -> x < h.limit
                      [] h.relOp = "<=" -> x <= h.limit
                      [] h.relOp = ">"  -> x > h.limit
                      [] h.relOp = ">=" -> x >= h.limit
           m     == n * h.step
<1>1. m \in Int /\ Stride(h) = h.step /\ h.step \in Nat \ {0}
  BY DEF Sane, Stride
<1>2. x = IF h.stepIsAdd THEN h.start + m ELSE h.start - m
  OBVIOUS
<1> HIDE DEF m
\* How far n iterations get, against how far the limit is.
<1>3. holds <=> IF h.relOp \in {"<", ">"} THEN m < Distance(h) ELSE m <= Distance(h)
  <2>1. CASE h.stepIsAdd
    <3>1. h.relOp \in {"<", "<="} /\ x = h.start + m /\ Distance(h) = h.limit - h.start
      BY <1>2, <2>1 DEF Sane, MovesAway, Distance
    <3>2. /\ h.start + m < h.limit <=> m < h.limit - h.start
          /\ h.start + m <= h.limit <=> m <= h.limit - h.start
      BY <1>1 DEF Sane
    <3>3. CASE h.relOp = "<"
      BY <3>1, <3>2, <3>3
    <3>4. CASE h.relOp = "<="
      BY <3>1, <3>2, <3>4
    <3> QED
      BY <3>1, <3>3, <3>4
  <2>2. CASE ~h.stepIsAdd
    <3>1. h.relOp \in {">", ">="} /\ x = h.start - m /\ Distance(h) = h.start - h.limit
      BY <1>2, <2>2 DEF Sane, MovesAway, Distance
    <3>2. /\ h.start - m > h.limit <=> m < h.start - h.limit
          /\ h.start - m >= h.limit <=> m <= h.start - h.limit
      BY <1>1 DEF Sane
    <3>3. CASE h.relOp = ">"
      BY <3>1, <3>2, <3>3
    <3>4. CASE h.relOp = ">="
      BY <3>1, <3>2, <3>4
    <3> QED
      BY <3>1, <3>3, <3>4
  <2> QED
    BY <2>1, <2>2
<1> HIDE DEF holds
<1>4. ASSUME Enters(h) PROVE n < Count(h) <=> holds
  <2> DEFINE d == Distance(h)
             a == Stride(h)
  <2>1. /\ d \in Nat /\ a \in Nat \ {0} /\ m = n * a
        /\ h.relOp \in {"<", ">"} => d # 0
    BY <1>1, <1>4, EnteredDistance DEF m
  <2>2. Count(h) = IF h.relOp \in {"<", ">"} THEN (d + a - 1) \div a ELSE d \div a + 1
    BY <1>4 DEF Count, Steps
  <2>3. holds <=> IF h.relOp \in {"<", ">"} THEN m < d ELSE m <= d
    BY <1>3
  <2> HIDE DEF d, a
  <2>4. CASE h.relOp \in {"<", ">"}
    <3>1. n < (d + a - 1) \div a <=> n * a < d
      BY <2>1, <2>4, StrictCount
    <3>2. Count(h) = (d + a - 1) \div a
      BY <2>2, <2>4
    <3>3. holds <=> n * a < d
      BY <2>1, <2>3, <2>4
    <3> QED
      BY <3>1, <3>2, <3>3
  <2>5. CASE h.relOp \notin {"<", ">"}
    <3>1. n < d \div a + 1 <=> n * a <= d
      BY <2>1, InclusiveCount
    <3>2. Count(h) = d \div a + 1
      BY <2>2, <2>5
    <3>3. holds <=> n * a <= d
      BY <2>1, <2>3, <2>5
    <3> QED
      BY <3>1, <3>2, <3>3
  <2> QED
    BY <2>4, <2>5
<1>5. ASSUME ~Enters(h) PROVE n < Count(h) <=> holds
  <2>1. Count(h) = 0 /\ n = 0
    BY <1>5 DEF Count, Steps
  <2>2. m = 0
    BY <1>1, <2>1 DEF m
  <2>3. ~(IF h.relOp \in {"<", ">"} THEN 0 < Distance(h) ELSE 0 <= Distance(h))
    BY <1>5 DEF Sane, MovesAway, Enters, Distance
  <2>4. ~holds
    BY <1>3, <2>2, <2>3
  <2> QED
    BY <2>1, <2>4
<1>6. n < Count(h) <=> holds
  BY <1>4, <1>5
<1> QED
  BY <1>6 DEF holds

THEOREM InvariantHolds == Spec => []IInv
<1>1. Init => IInv
  BY InitInvariant
<1>2. IInv /\ [Next]_vars => IInv'
  BY NextInvariant
<1> QED
  BY <1>1, <1>2, PTL DEF Spec

\* For loop variables of every size and whatever start and limit fold to: of a
\* header whose step is positive, and that evaluateFor counts within i128,
\* another iteration is counted exactly when the written condition would hold,
\* so nothing needs to test it.
THEOREM TripCountHolds == Spec => []PositiveTripCountIsExact
<1>1. IInv => PositiveTripCountIsExact
  <2> SUFFICES ASSUME IInv, header.step > 0, Accepted, ~MovesAway(header)
               PROVE  k < tripCount <=> Holds
    BY DEF PositiveTripCountIsExact, TripCountIsExact
  <2>1. /\ Sane(header) /\ Counted(header) /\ k \in Nat
        /\ tripCount = Count(header) /\ k <= Count(header)
        /\ at = IF header.stepIsAdd THEN header.start + k * header.step
                                    ELSE header.start - k * header.step
    BY HeaderFacts DEF IInv, Sane, Moved
  <2> QED
    BY <2>1, CountIsExact DEF Holds
<1> QED
  BY <1>1, InvariantHolds, PTL

-----------------------------------------------------------------------------
(***************************************************************************)
(* The loop variable.                                                      *)
(***************************************************************************)
LEMMA HeaderHosted ==
  ASSUME NEW h \in Headers
  PROVE  h.type.isSigned \in BOOLEAN /\ Hosted(h.type.width, h.type.isSigned)
BY HeaderFacts, WidthsAssumption DEF Hosted

\* What lies between two numbers of a type is one of its numbers.
LEMMA Between ==
  ASSUME NEW type, type.isSigned \in BOOLEAN, Hosted(type.width, type.isSigned),
         NEW m \in Int, NEW n \in Int, InRange(m, type), InRange(n, type),
         NEW x \in Int, m <= x, x <= n
  PROVE  InRange(x, type)
<1>1. 2^type.width \in Nat /\ 2^(type.width - 1) \in Nat
  BY HostedPowers
<1>2. CASE type.isSigned
  BY <1>1, <1>2 DEF InRange
<1>3. CASE ~type.isSigned
  BY <1>1, <1>3 DEF InRange
<1> QED
  BY <1>2, <1>3

\* For loop variables of every width: the variable is, modulo its width, the
\* number the written loop gives it, whatever start and limit fold to; and it
\* is that number in every iteration of a loop whose start and limit are
\* numbers of its type and whose step moves it toward the limit.
THEOREM VariableHolds == Spec => []VariableIsExact
<1>1. IInv => VariableIsExact
  <2> SUFFICES ASSUME IInv, header.step > 0, ~MovesAway(header), Accepted,
                      k < tripCount,
                      InRange(header.start, header.type), InRange(header.limit, header.type)
               PROVE  Value(iv) = at
    BY DEF VariableIsExact, Toward, IInv
  <2>1. /\ header \in Headers /\ Sane(header) /\ Counted(header) /\ k \in Nat
        /\ tripCount = Count(header) /\ k <= Count(header)
        /\ at = IF header.stepIsAdd THEN header.start + k * header.step
                                    ELSE header.start - k * header.step
    BY HeaderFacts DEF IInv, Sane, Moved
  <2>2. Holds
    BY <2>1, CountIsExact DEF Holds
  <2>3. /\ header.start \in Int /\ header.limit \in Int
        /\ InRange(header.start, header.type) /\ InRange(header.limit, header.type)
    BY <2>1, HeaderFacts
  <2>4. k * header.step \in Nat
    BY <2>1 DEF Sane
  <2>5. at \in Int /\ InRange(at, header.type)
    <3>1. CASE header.stepIsAdd
      <4>1. at = header.start + k * header.step /\ header.relOp \in {"<", "<="}
        BY <2>1, <3>1 DEF Sane, MovesAway
      <4>2. at < header.limit \/ at <= header.limit
        BY <2>2, <4>1 DEF Holds
      <4>3. at \in Int /\ header.start <= at /\ at <= header.limit
        BY <2>3, <2>4, <4>1, <4>2
      <4> QED
        BY <2>1, <2>3, <4>3, Between, HeaderHosted
    <3>2. CASE ~header.stepIsAdd
      <4>1. at = header.start - k * header.step /\ header.relOp \in {">", ">="}
        BY <2>1, <3>2 DEF Sane, MovesAway
      <4>2. at > header.limit \/ at >= header.limit
        BY <2>2, <4>1 DEF Holds
      <4>3. at \in Int /\ header.limit <= at /\ at <= header.start
        BY <2>3, <2>4, <4>1, <4>2
      <4> QED
        BY <2>1, <2>3, <4>3, Between, HeaderHosted
    <3> QED
      BY <3>1, <3>2
  <2>6. Fits(at, header.type.width, header.type.isSigned)
    BY <2>5 DEF InRange, Fits
  <2>7. Value(Make(at, header.type.width, header.type.isSigned)) = at
    BY <2>1, <2>5, <2>6, HeaderHosted, ValueOfMake
  <2> QED
    BY <2>7 DEF IInv, Coerce
<1> QED
  BY <1>1, InvariantHolds, PTL

-----------------------------------------------------------------------------
(***************************************************************************)
(* Which headers are reported.                                             *)
(***************************************************************************)
LEMMA TerminalInt ==
  ASSUME NEW h \in Headers, Counted(h)
  PROVE  Terminal(h) \in Int
<1>1. Sane(h)
  BY HeaderFacts DEF Sane
<1>2. Count(h) \in Nat /\ Stride(h) \in Int /\ h.start \in Int
  BY <1>1, CountNat DEF Sane, Stride
<1>3. Count(h) * Stride(h) \in Int
  BY <1>2
<1> QED
  BY <1>2, <1>3 DEF Terminal

\* evaluateFor's test of the terminal value accepts every number of the type.
LEMMA InRangeFits ==
  ASSUME NEW h \in Headers, Counted(h), InRange(Terminal(h), h.type)
  PROVE  TerminalFits(h)
<1> DEFINE t == Terminal(h)
           w == h.type.width
           s == h.type.isSigned
           v == Make(t, w, s)
<1>1. t \in Int /\ s \in BOOLEAN /\ Hosted(w, s) /\ Fits(t, w, s)
  BY TerminalInt, HeaderHosted DEF InRange, Fits
<1>2. Value(v) = t
  BY <1>1, ValueOfMake
<1>3. 2^w \in Nat \ {0} /\ w \in 0 .. HostWidth
  BY <1>1, HostedPowers
<1>4. v.raw = t % 2^w
  BY <1>1, <1>3, MakeFields
<1>5. v.raw < 2^w
  BY <1>1, <1>3, <1>4
<1> HIDE DEF v
<1>6. CASE s
  <2>1. t \in -(2^(w - 1)) .. 2^(w - 1) - 1
    BY <1>6 DEF InRange
  <2>2. FitsType(v, h.type)
    BY <1>2, <1>6, <2>1 DEF FitsType
  <2> QED
    BY <1>6, <2>1, <2>2 DEF TerminalFits, v
<1>7. CASE ~s
  <2>1. t \in 0 .. 2^w - 1
    BY <1>7 DEF InRange
  <2>2. t >= 0
    BY <1>3, <2>1
  <2>3. FitsType(v, h.type)
    BY <1>2, <1>5, <1>7, <2>2 DEF FitsType
  <2> QED
    BY <1>7, <2>2, <2>3 DEF TerminalFits, v
<1> QED
  BY <1>6, <1>7

\* For every header: one whose step is positive and moves it toward the limit,
\* whose variable's type has the number the loop ends with, and whose count
\* fits, is not reported, if evaluateFor can compute with it in i128.
THEOREM LegalHeadersHold == Spec => []LegalHeadersAreCounted
<1>1. Init => LegalHeadersAreCounted
  BY DEF Init, LegalHeadersAreCounted
<1>2. ASSUME IInv, LegalHeadersAreCounted, [Next]_vars
      PROVE  LegalHeadersAreCounted'
  <2>1. CASE EvaluateFor
    <3> SUFFICES ASSUME Toward(header), InRange(Terminal(header), header.type),
                        Count(header) <= MaxTrips, ~Undefined(header)
                 PROVE  verdict' = "counted"
      BY <2>1 DEF EvaluateFor, LegalHeadersAreCounted
    <3>1. /\ header \in Headers /\ header.step \in Int /\ header.step > 0
          /\ ~MovesAway(header)
      BY <1>2, HeaderFacts DEF IInv, Toward
    <3>2. header.step # 0 /\ Counted(header)
      BY <3>1 DEF Counted
    <3>3. TerminalFits(header)
      BY <3>1, <3>2, InRangeFits
    <3>4. Count(header) \in Nat /\ MaxTrips \in Nat
      BY <3>1, <3>2, CountNat, HeaderFacts DEF Sane
    <3>5. ~(Count(header) > MaxTrips)
      BY <3>4
    <3> QED
      BY <2>1, <3>1, <3>2, <3>3, <3>5 DEF EvaluateFor, Judgement
  <2>2. CASE Iterate
    BY <1>2, <2>2 DEF Iterate, LegalHeadersAreCounted
  <2>3. CASE UNCHANGED vars
    BY <1>2, <2>3 DEF vars, LegalHeadersAreCounted
  <2> QED
    BY <1>2, <2>1, <2>2, <2>3 DEF Next
<1> QED
  BY <1>1, <1>2, InvariantHolds, PTL DEF Spec

-----------------------------------------------------------------------------
(***************************************************************************)
(* Declarations as data: what a list of them defines, and what an          *)
(* expression comes to when the constants have the values of a map.        *)
(***************************************************************************)
ScalarsOf(d) == {d[i].sym : i \in {j \in DOMAIN d : d[j].kind = "const"}}
InitIn(d, s) == (CHOOSE x \in {d[i] : i \in DOMAIN d} : x.sym = s).exprs[1]

Look(d, x, m) == IF x \in ScalarsOf(d) THEN m[x] ELSE Nullopt

Chosen(e, c) == IF c.raw # 0 THEN e.args[2] ELSE e.args[3]

Mean(d, e, m) ==
  IF e.op \in {"lit", "index"} THEN EvalWith(e, <<>>)
  ELSE IF e.op = "?:"
  THEN IF ~Known(Look(d, e.args[1], m)) THEN Nullopt
       ELSE Look(d, Chosen(e, Look(d, e.args[1], m)), m)
  ELSE EvalWith(e, [i \in DOMAIN e.args |-> Look(d, e.args[i], m)])

Refolded(d, m) == [s \in ScalarsOf(d) |-> Mean(d, InitIn(d, s), m)]

\* The maps that are folded one after the other, starting from nothing.
IteratesTo(d, c, N) ==
  c = [n \in 0 .. N |-> IF n = 0 THEN [s \in ScalarsOf(d) |-> Nullopt] ELSE Refolded(d, c[n - 1])]

Iterates(d, c) == IteratesTo(d, c, Len(d))

LEMMA ScalarsAre == Scalars = ScalarsOf(decls)
  BY DEF Scalars, ScalarsOf

LEMMA InitIs == ASSUME NEW s PROVE InitOf(s) = InitIn(decls, s)
  BY DEF InitOf, InitIn, DeclOf

LEMMA ComesIs == ASSUME NEW e, NEW m PROVE Comes(e, m) = Mean(decls, e, m)
<1>1. CASE e.op \in {"lit", "index"}
  BY <1>1 DEF Comes, Through, Mean
<1>2. CASE e.op = "?:"
  BY <1>2, ScalarsAre DEF Comes, Through, Mean, Look, Chosen
<1>3. CASE e.op \notin {"lit", "index", "?:"}
  BY <1>3, ScalarsAre DEF Comes, Through, Mean, Look
<1> QED
  BY <1>1, <1>2, <1>3

LEMMA FoldedComes ==
  ASSUME NEW e, NEW m
  PROVE  Through(e, LAMBDA t : IF t \in Scalars /\ Known(m[t]) THEN AsFolded(t, m[t]) ELSE Nullopt)
           = Mean(decls, e, m)
<1>1. CASE e.op \in {"lit", "index"}
  BY <1>1 DEF Through, Mean
<1>0. \A t : (IF t \in Scalars /\ Known(m[t]) THEN AsFolded(t, m[t]) ELSE Nullopt) = Look(decls, t, m)
  BY ScalarsAre DEF Known, AsFolded, Look
<1>2. CASE e.op = "?:"
  BY <1>0, <1>2 DEF Through, Mean, Chosen
<1>3. CASE e.op \notin {"lit", "index", "?:"}
  BY <1>0, <1>3 DEF Through, Mean
<1> QED
  BY <1>1, <1>2, <1>3

\* What the declarations mean is what their iterates come to.
LEMMA MeaningIs ==
  ASSUME NEW c, Iterates(decls, c)
  PROVE  \E b : Iterates(decls, b) /\ Meaning(AsFolded) = b[Len(decls)]
<1> DEFINE none == [s \in Scalars |-> Nullopt]
           Body(b, n) == [s \in Scalars |->
                       Through(InitOf(s),
                        LAMBDA t : IF t \in Scalars /\ Known(b[n - 1][t])
                                   THEN AsFolded(t, b[n - 1][t]) ELSE Nullopt)]
           P(b) == b = [n \in 0 .. Len(decls) |-> IF n = 0 THEN none ELSE Body(b, n)]
           closed == CHOOSE b : P(b)
<1>1. Meaning(AsFolded) = closed[Len(decls)]
  BY DEF Meaning
<1>2. \A b, n : Body(b, n) = Refolded(decls, b[n - 1])
  BY FoldedComes, ScalarsAre, InitIs DEF Refolded
<1>3. none = [s \in ScalarsOf(decls) |-> Nullopt]
  BY ScalarsAre
<1> HIDE DEF none, Body
<1>4. \A b : P(b) <=> Iterates(decls, b)
  BY <1>2, <1>3 DEF Iterates, IteratesTo
<1> HIDE DEF P
<1>5. P(closed)
  BY <1>4
<1> QED
  BY <1>1, <1>4, <1>5
-----------------------------------------------------------------------------
(***************************************************************************)
(* The iterates: they exist, they only learn more, and the last of them    *)
(* learns nothing more.                                                    *)
(***************************************************************************)
LEMMA IteratesUpTo == ASSUME NEW d, NEW N \in Nat PROVE \E c : IteratesTo(d, c, N)
<1> DEFINE T == {m \in Nat : ~ \E c : IteratesTo(d, c, m)}
           none == [s \in ScalarsOf(d) |-> Nullopt]
<1>1. ASSUME NEW m \in Nat, ~ \E c : IteratesTo(d, c, m),
             \A y \in T : m <= y
      PROVE  FALSE
  <2>1. CASE m = 0
    <3> DEFINE f == [n \in 0 .. 0 |-> none]
    <3>1. f = [n \in 0 .. 0 |-> IF n = 0 THEN none ELSE Refolded(d, f[n - 1])]
      OBVIOUS
    <3>2. IteratesTo(d, f, 0)
      BY <3>1 DEF IteratesTo
    <3> QED
      BY <1>1, <2>1, <3>2
  <2>2. CASE m # 0
    <3>1. m - 1 \in Nat /\ ~(m <= m - 1)
      BY <2>2
    <3>2. PICK g : IteratesTo(d, g, m - 1)
      BY <1>1, <3>1
    <3>3. g = [n \in 0 .. m - 1 |-> IF n = 0 THEN none ELSE Refolded(d, g[n - 1])]
      BY <3>2 DEF IteratesTo
    <3> DEFINE f == [n \in 0 .. m |-> IF n = m THEN Refolded(d, g[m - 1]) ELSE g[n]]
    <3> HIDE DEF none
    <3>4. \A n \in 0 .. m - 1 : f[n] = g[n]
      BY <1>1
    <3>5. ASSUME NEW n \in 0 .. m PROVE f[n] = IF n = 0 THEN none ELSE Refolded(d, f[n - 1])
      <4>1. CASE n = m
        BY <2>2, <3>1, <3>4, <4>1
      <4>2. CASE n # m
        <5>1. n \in 0 .. m - 1 /\ (n # 0 => n - 1 \in 0 .. m - 1)
          BY <4>2
        <5>2. f[n] = IF n = 0 THEN none ELSE Refolded(d, g[n - 1])
          BY <3>3, <3>4, <5>1
        <5> QED
          BY <3>4, <5>1, <5>2
      <4> QED
        BY <4>1, <4>2
    <3>6. f = [n \in 0 .. m |-> f[n]]
      OBVIOUS
    <3> HIDE DEF f
    <3>7. f = [n \in 0 .. m |-> IF n = 0 THEN none ELSE Refolded(d, f[n - 1])]
      BY <3>5, <3>6
    <3>8. IteratesTo(d, f, m)
      BY <3>7 DEF IteratesTo, none
    <3> QED
      BY <1>1, <3>8
  <2> QED
    BY <2>1, <2>2
<1>2. T # {} => FALSE
  <2> SUFFICES ASSUME T # {} PROVE FALSE
    OBVIOUS
  <2>1. PICK m \in T : \A y \in T : m <= y
    BY LeastNumber
  <2> QED
    BY <1>1, <2>1
<1> QED
  BY <1>2

\* A map that knows more than m and the same of what m knows.
Learns(d, m, more) == \A t \in ScalarsOf(d) : Known(m[t]) => more[t] = m[t]

LEMMA MeanGrows ==
  ASSUME NEW d, NEW e, NEW m, NEW more, Learns(d, m, more), Known(Mean(d, e, m))
  PROVE  Mean(d, e, more) = Mean(d, e, m)
<1>0. \A x : Known(Look(d, x, m)) => Look(d, x, more) = Look(d, x, m)
  BY DEF Learns, Look, Known
<1>1. CASE e.op \in {"lit", "index"}
  BY <1>1 DEF Mean
<1>2. CASE e.op = "?:"
  BY <1>0, <1>2 DEF Mean, Known
<1>3. CASE e.op \notin {"lit", "index", "?:"}
  <2> DEFINE f == [i \in DOMAIN e.args |-> Look(d, e.args[i], m)]
             g == [i \in DOMAIN e.args |-> Look(d, e.args[i], more)]
  <2>1. Mean(d, e, m) = EvalWith(e, f) /\ Mean(d, e, more) = EvalWith(e, g)
    BY <1>3 DEF Mean
  <2>2. ~ \E i \in DOMAIN f : ~Known(f[i])
    <3> SUFFICES ASSUME \E i \in DOMAIN f : ~Known(f[i]) PROVE FALSE
      OBVIOUS
    <3>1. EvalWith(e, f) = Nullopt
      BY <1>3 DEF EvalWith
    <3> QED
      BY <2>1, <3>1 DEF Known
  <2>3. \A i \in DOMAIN e.args : Look(d, e.args[i], more) = Look(d, e.args[i], m)
    BY <1>0, <2>2
  <2>4. f = g
    BY <2>3
  <2> QED
    BY <2>1, <2>4
<1> QED
  BY <1>1, <1>2, <1>3

Iterating(d, c, N) ==
  /\ c[0] = [s \in ScalarsOf(d) |-> Nullopt]
  /\ \A n \in 1 .. N : c[n] = Refolded(d, c[n - 1])
  /\ \A n \in 0 .. N : c[n] = [s \in ScalarsOf(d) |-> c[n][s]]

LEMMA IterateIs ==
  ASSUME NEW d, NEW c, NEW N \in Nat, IteratesTo(d, c, N)
  PROVE  Iterating(d, c, N)
<1>1. \A n \in 0 .. N : c[n] = IF n = 0 THEN [s \in ScalarsOf(d) |-> Nullopt] ELSE Refolded(d, c[n - 1])
  BY DEF IteratesTo
<1>2. 0 \in 0 .. N /\ \A n \in 1 .. N : n \in 0 .. N /\ n # 0
  OBVIOUS
<1>3. c[0] = [s \in ScalarsOf(d) |-> Nullopt]
  BY <1>1, <1>2
<1>4. \A n \in 1 .. N : c[n] = Refolded(d, c[n - 1])
  BY <1>1, <1>2
<1>5. ASSUME NEW n \in 0 .. N PROVE c[n] = [s \in ScalarsOf(d) |-> c[n][s]]
  <2>1. CASE n = 0
    BY <1>3, <2>1
  <2>2. CASE n # 0
    <3>1. n \in 1 .. N
      BY <2>2
    <3>2. c[n] = Refolded(d, c[n - 1])
      BY <1>4, <3>1
    <3> QED
      BY <3>2 DEF Refolded
  <2> QED
    BY <2>1, <2>2
<1> QED
  BY <1>3, <1>4, <1>5 DEF Iterating

\* One more iteration only learns more.
LEMMA IterateLearns ==
  ASSUME NEW d, NEW c, NEW N \in Nat, IteratesTo(d, c, N), NEW n \in 0 .. N
  PROVE  Learns(d, c[n], Refolded(d, c[n]))
<1> DEFINE T == {m \in 0 .. N : ~Learns(d, c[m], Refolded(d, c[m]))}
<1>1. T # {} => FALSE
  <2> SUFFICES ASSUME T # {} PROVE FALSE
    OBVIOUS
  <2>0. T \subseteq Nat
    OBVIOUS
  <2>5. c[0] = [s \in ScalarsOf(d) |-> Nullopt] /\ \A x \in 1 .. N : c[x] = Refolded(d, c[x - 1])
    BY IterateIs DEF Iterating
  <2>1. PICK m \in T : \A y \in T : m <= y
    BY <2>0, LeastNumber
  <2>2. m \in 0 .. N /\ ~Learns(d, c[m], Refolded(d, c[m]))
    BY <2>1
  <2>3. CASE m = 0
    <3>1. Learns(d, c[m], Refolded(d, c[m]))
      BY <2>5, <2>3 DEF Learns, Known
    <3> QED
      BY <2>2, <3>1
  <2>4. CASE m # 0
    <3>1. m \in 1 .. N /\ m - 1 \in 0 .. N /\ ~(m <= m - 1)
      BY <2>2, <2>4
    <3>2. c[m] = Refolded(d, c[m - 1])
      BY <2>5, <3>1
    <3>3. Learns(d, c[m - 1], Refolded(d, c[m - 1]))
      BY <2>1, <3>1
    <3>4. Learns(d, c[m - 1], c[m])
      BY <3>2, <3>3
    <3>5. ASSUME NEW s \in ScalarsOf(d), Known(c[m][s]) PROVE Refolded(d, c[m])[s] = c[m][s]
      <4>1. c[m][s] = Mean(d, InitIn(d, s), c[m - 1]) /\ Refolded(d, c[m])[s] = Mean(d, InitIn(d, s), c[m])
        BY <3>2 DEF Refolded
      <4>2. Known(Mean(d, InitIn(d, s), c[m - 1]))
        BY <3>5, <4>1
      <4> QED
        BY <3>4, <4>1, <4>2, MeanGrows
    <3> QED
      BY <2>2, <3>5 DEF Learns
  <2> QED
    BY <2>3, <2>4
<1> QED
  BY <1>1

LEMMA IteratesGrow ==
  ASSUME NEW d, NEW c, NEW N \in Nat, IteratesTo(d, c, N), NEW n \in 0 .. N, NEW m \in n .. N
  PROVE  Learns(d, c[n], c[m])
<1> DEFINE T == {x \in n .. N : ~Learns(d, c[n], c[x])}
<1>1. T # {} => FALSE
  <2> SUFFICES ASSUME T # {} PROVE FALSE
    OBVIOUS
  <2>1. T \subseteq Nat
    OBVIOUS
  <2>2. PICK x \in T : \A y \in T : x <= y
    BY <2>1, LeastNumber
  <2>3. x \in n .. N /\ ~Learns(d, c[n], c[x])
    BY <2>2
  <2>4. CASE x = n
    BY <2>3, <2>4 DEF Learns
  <2>5. CASE x # n
    <3>1. x - 1 \in n .. N /\ x - 1 \in 0 .. N /\ x \in 1 .. N /\ ~(x <= x - 1)
      BY <2>3, <2>5
    <3>2. Learns(d, c[n], c[x - 1])
      BY <2>2, <3>1
    <3>3. Learns(d, c[x - 1], Refolded(d, c[x - 1]))
      BY <3>1, IterateLearns
    <3>4. \A y \in 1 .. N : c[y] = Refolded(d, c[y - 1])
      <4>1. Iterating(d, c, N)
        BY IterateIs
      <4> QED
        BY <4>1 DEF Iterating
    <3>5. c[x] = Refolded(d, c[x - 1])
      BY <3>1, <3>4
    <3>6. Learns(d, c[n], c[x])
      BY <3>2, <3>3, <3>5 DEF Learns
    <3> QED
      BY <2>3, <3>6
  <2> QED
    BY <2>4, <2>5
<1> QED
  BY <1>1

LEMMA ScalarsAreFew ==
  ASSUME NEW d, IsList(d)
  PROVE  IsFiniteSet(ScalarsOf(d)) /\ Cardinality(ScalarsOf(d)) <= Len(d)
<1> DEFINE I == {j \in DOMAIN d : d[j].kind = "const"}
           f == [i \in I |-> d[i].sym]
<1>1. Len(d) \in Nat /\ DOMAIN d = 1 .. Len(d)
  BY DEF IsList
<1>2. IsFiniteSet(1 .. Len(d)) /\ Cardinality(1 .. Len(d)) = Len(d)
  <2> DEFINE L == Len(d)
  <2>1. L \in Nat /\ 1 \in Int
    BY <1>1
  <2> HIDE DEF L
  <2>2. IsFiniteSet(1 .. L) /\ Cardinality(1 .. L) = IF 1 > L THEN 0 ELSE L - 1 + 1
    BY <2>1, FS_Interval
  <2>3. Cardinality(1 .. L) = L
    BY <2>1, <2>2
  <2> QED
    BY <2>2, <2>3 DEF L
<1>3. IsFiniteSet(I) /\ Cardinality(I) <= Len(d)
  BY <1>1, <1>2, FS_Subset
<1>4. f \in Surjection(I, ScalarsOf(d))
  BY DEF Surjection, ScalarsOf
<1>5. /\ IsFiniteSet(ScalarsOf(d)) /\ Cardinality(ScalarsOf(d)) <= Cardinality(I)
  BY <1>3, <1>4, FS_Surjection
<1>6. Cardinality(I) \in Nat /\ Cardinality(ScalarsOf(d)) \in Nat
  BY <1>3, <1>5, FS_CardinalityType
<1> QED
  BY <1>1, <1>3, <1>5, <1>6

\* The last of the iterates is what the declarations come to.
LEMMA LastIsFixed ==
  ASSUME NEW d, IsList(d), NEW c, Iterates(d, c)
  PROVE  c[Len(d)] = Refolded(d, c[Len(d)])
<1> DEFINE N == Len(d)
           S == ScalarsOf(d)
           Found(n) == {s \in S : Known(c[n][s])}
           Stuck(n) == c[n] = Refolded(d, c[n])
<1>1. N \in Nat
  BY DEF IsList
<1>2. IteratesTo(d, c, N)
  BY DEF Iterates
<1>3. IsFiniteSet(S) /\ Cardinality(S) <= N /\ Cardinality(S) \in Nat
  BY ScalarsAreFew, FS_CardinalityType
<1> HIDE DEF N, S
<1>4. /\ \A n \in 1 .. N : c[n] = Refolded(d, c[n - 1])
      /\ \A n \in 0 .. N : c[n] = [s \in ScalarsOf(d) |-> c[n][s]]
  <2>1. Iterating(d, c, N)
    BY <1>1, <1>2, IterateIs
  <2> QED
    BY <2>1, Zenon DEF Iterating
<1>5. \A n \in 0 .. N : IsFiniteSet(Found(n)) /\ Cardinality(Found(n)) \in Nat
  BY <1>3, FS_Subset, FS_CardinalityType
<1>6. \A n \in 0 .. N : ~Stuck(n) => \E s \in S : ~Known(c[n][s]) /\ Known(Refolded(d, c[n])[s])
  <2> SUFFICES ASSUME NEW n \in 0 .. N, ~Stuck(n),
                      \A s \in S : Known(c[n][s]) \/ ~Known(Refolded(d, c[n])[s])
               PROVE  FALSE
    OBVIOUS
  <2>1. Learns(d, c[n], Refolded(d, c[n]))
    BY <1>1, <1>2, IterateLearns
  <2>2. \A s \in ScalarsOf(d) : c[n][s] = Refolded(d, c[n])[s]
    BY <2>1 DEF Learns, Known, S
  <2>3. Refolded(d, c[n]) = [s \in ScalarsOf(d) |-> Refolded(d, c[n])[s]]
    BY DEF Refolded
  <2>4. Stuck(n)
    BY <1>4, <2>2, <2>3
  <2> QED
    BY <2>4
<1>7. CASE \E n \in 0 .. N : Stuck(n)
  <2>1. PICK n \in 0 .. N : Stuck(n)
    BY <1>7
  <2> DEFINE T == {x \in n .. N : ~(c[x] = c[n])}
  <2>2. T = {}
    <3> SUFFICES ASSUME T # {} PROVE FALSE
      OBVIOUS
    <3>1. T \subseteq Nat
      BY <1>1
    <3>2. PICK x \in T : \A y \in T : x <= y
      BY <3>1, LeastNumber
    <3>3. x \in n .. N /\ x # n
      BY <3>2
    <3>4. x - 1 \in n .. N /\ x \in 1 .. N /\ ~(x <= x - 1)
      BY <1>1, <3>3
    <3>5. c[x - 1] = c[n]
      BY <3>2, <3>4
    <3>6. c[x] = c[n]
      BY <1>4, <2>1, <3>4, <3>5
    <3> QED
      BY <3>2, <3>6
  <2>3. N \in n .. N
    BY <1>1
  <2>4. c[N] = c[n]
    BY <2>2, <2>3
  <2> QED
    BY <2>1, <2>4 DEF N
<1>8. CASE \A n \in 0 .. N : ~Stuck(n)
  <2> DEFINE T == {n \in 0 .. N : ~(n <= Cardinality(Found(n)))}
  <2>1. T = {}
    <3> SUFFICES ASSUME T # {} PROVE FALSE
      OBVIOUS
    <3>1. T \subseteq Nat
      BY <1>1
    <3>2. PICK n \in T : \A y \in T : n <= y
      BY <3>1, LeastNumber
    <3>3. n \in 0 .. N /\ ~(n <= Cardinality(Found(n)))
      BY <3>2
    <3>4. n # 0
      BY <1>5, <3>3
    <3>5. n - 1 \in 0 .. N /\ n \in 1 .. N /\ n - 1 \notin T
      <4>1. n - 1 \in 0 .. N /\ n \in 1 .. N /\ ~(n <= n - 1)
        BY <1>1, <3>3, <3>4
      <4> HIDE DEF T
      <4> QED
        BY <3>2, <4>1
    <3>6. n - 1 <= Cardinality(Found(n - 1))
      BY <3>5
    <3>7. PICK s \in S : ~Known(c[n - 1][s]) /\ Known(c[n][s])
      BY <1>4, <1>6, <1>8, <3>5
    <3>8. Learns(d, c[n - 1], c[n])
      <4>1. Learns(d, c[n - 1], Refolded(d, c[n - 1]))
        BY <1>1, <1>2, <3>5, IterateLearns
      <4> QED
        BY <1>4, <3>5, <4>1
    <3>9. Found(n - 1) \cup {s} \subseteq Found(n) /\ s \notin Found(n - 1)
      BY <3>7, <3>8 DEF Learns, S, Known
    <3> DEFINE A == Found(n - 1)
               B == Found(n)
    <3>10. IsFiniteSet(A) /\ Cardinality(A) \in Nat /\ IsFiniteSet(B) /\ Cardinality(B) \in Nat
      BY <1>5, <3>3, <3>5
    <3>11. ~(n <= Cardinality(B)) /\ n - 1 <= Cardinality(A) /\ A \cup {s} \subseteq B /\ s \notin A
      BY <3>3, <3>6, <3>9
    <3> HIDE DEF A, B
    <3>12. IsFiniteSet(A \cup {s}) /\ Cardinality(A \cup {s}) = Cardinality(A) + 1
      BY <3>10, <3>11, FS_AddElement
    <3>13. Cardinality(A \cup {s}) <= Cardinality(B)
      BY <3>10, <3>11, FS_Subset
    <3> QED
      BY <3>3, <3>10, <3>11, <3>12, <3>13
  <2>2. N \in 0 .. N
    BY <1>1
  <2>3. N <= Cardinality(Found(N))
    BY <2>1, <2>2
  <2>4. Found(N) \in SUBSET S
    OBVIOUS
  <2> DEFINE B == Found(N)
  <2>5. Cardinality(B) \in Nat
    BY <1>5, <2>2
  <2>6. B \in SUBSET S /\ N <= Cardinality(B)
    BY <2>3, <2>4
  <2> HIDE DEF B
  <2>7. Cardinality(B) <= Cardinality(S) /\ (Cardinality(S) = Cardinality(B) => S = B)
    BY <1>3, <2>6, FS_Subset
  <2>8. S = B
    BY <1>1, <1>3, <2>5, <2>6, <2>7
  <2>9. \A s \in S : Known(c[N][s])
    BY <2>8 DEF B
  <2> QED
    BY <1>6, <1>8, <2>2, <2>9
<1> QED
  BY <1>7, <1>8
-----------------------------------------------------------------------------
(***************************************************************************)
(* Lists.                                                                  *)
(***************************************************************************)
LEMMA ListFacts ==
  ASSUME NEW s, IsList(s)
  PROVE  Len(s) \in Nat /\ DOMAIN s = 1 .. Len(s) /\ (Len(s) = 0 => s = <<>>)
BY DEF IsList

LEMMA ListIs ==
  ASSUME NEW n \in Nat, NEW s, DOMAIN s = 1 .. n, s = [i \in 1 .. n |-> s[i]]
  PROVE  IsList(s) /\ Len(s) = n
<1> DEFINE S == {s[i] : i \in DOMAIN s}
<1>1. \A i \in 1 .. n : s[i] \in S
  OBVIOUS
<1> HIDE DEF S
<1>2. [i \in 1 .. n |-> s[i]] \in Seq(S)
  BY <1>1
<1>3. s \in Seq(S)
  BY <1>2
<1>4. Len(s) = n
  <2>1. Len(s) \in Nat /\ DOMAIN s = 1 .. Len(s)
    BY <1>3
  <2> QED
    BY <2>1
<1> QED
  BY <1>3, <1>4 DEF IsList, S

LEMMA ListAppend ==
  ASSUME NEW s, IsList(s), NEW x
  PROVE  /\ IsList(Append(s, x)) /\ Len(Append(s, x)) = Len(s) + 1
         /\ \A i \in 1 .. Len(s) : Append(s, x)[i] = s[i]
         /\ Append(s, x)[Len(s) + 1] = x
<1> DEFINE S == {s[i] : i \in DOMAIN s} \cup {x}
           t == Append(s, x)
<1>1. s \in Seq(S) /\ x \in S
  BY DEF IsList
<1> HIDE DEF S
<1>2. /\ t \in Seq(S) /\ Len(t) = Len(s) + 1 /\ Len(s) \in Nat
      /\ DOMAIN t = 1 .. Len(s) + 1
      /\ \A i \in 1 .. Len(s) : t[i] = s[i]
      /\ t[Len(s) + 1] = x
  BY <1>1
<1> HIDE DEF t
<1>3. t = [i \in 1 .. Len(s) + 1 |-> t[i]]
  <2>1. t = [i \in DOMAIN t |-> t[i]]
    BY <1>2
  <2> QED
    BY <1>2, <2>1
<1>4. IsList(t)
  BY <1>2, <1>3, ListIs
<1> QED
  BY <1>2, <1>4 DEF t

LEMMA ListFront ==
  ASSUME NEW s, IsList(s), s # <<>>
  PROVE  /\ IsList(SubSeq(s, 1, Len(s) - 1)) /\ Len(SubSeq(s, 1, Len(s) - 1)) = Len(s) - 1
         /\ \A i \in 1 .. Len(s) - 1 : SubSeq(s, 1, Len(s) - 1)[i] = s[i]
<1> DEFINE S == {s[i] : i \in DOMAIN s}
           t == SubSeq(s, 1, Len(s) - 1)
<1>1. s \in Seq(S)
  BY DEF IsList
<1> HIDE DEF S
<1>2. Len(s) \in Nat /\ Len(s) # 0
  BY <1>1
<1>3. t = [i \in 1 .. Len(s) - 1 |-> s[i]]
  BY <1>1, <1>2
<1>4. t = [i \in 1 .. Len(s) - 1 |-> t[i]] /\ DOMAIN t = 1 .. Len(s) - 1 /\ Len(s) - 1 \in Nat
  BY <1>2, <1>3
<1>5. \A i \in 1 .. Len(s) - 1 : t[i] = s[i]
  BY <1>3
<1> HIDE DEF t
<1>6. IsList(t) /\ Len(t) = Len(s) - 1
  BY <1>4, ListIs
<1> QED
  BY <1>5, <1>6 DEF t

-----------------------------------------------------------------------------
(***************************************************************************)
(* eval(): what it has gathered are the operands' values, and what it asks *)
(* for next is what the result depends on.                                 *)
(***************************************************************************)
Expression(e) == IsList(e.args) /\ (e.op = "?:" => Len(e.args) = 3)

Gathered(d, e, got, m) ==
  /\ IsList(got)
  /\ e.op \in {"lit", "index"} => got = <<>>
  /\ e.op = "?:" =>
       /\ Len(got) <= 2
       /\ Len(got) >= 1 => got[1] = Look(d, e.args[1], m)
       /\ Len(got) = 2 => Known(got[1]) /\ got[2] = Look(d, Chosen(e, got[1]), m)
  /\ e.op \notin {"lit", "index", "?:"} =>
       /\ Len(got) <= Len(e.args)
       /\ \A i \in 1 .. Len(got) : got[i] = Look(d, e.args[i], m)

\* The next operand is x.
Awaits(e, got, x) ==
  /\ e.op \notin {"lit", "index"}
  /\ e.op = "?:" => \/ Len(got) = 0 /\ x = e.args[1]
                    \/ Len(got) = 1 /\ Known(got[1]) /\ x = Chosen(e, got[1])
  /\ e.op # "?:" => Len(got) < Len(e.args) /\ x = e.args[Len(got) + 1]

LEMMA PendingIs ==
  ASSUME NEW d, NEW e, Expression(e), NEW got, NEW m, Gathered(d, e, got, m)
  PROVE  /\ Pending(e, got) # <<>> => Awaits(e, got, Pending(e, got)[1])
         /\ Pending(e, got) = <<>> =>
              \/ e.op \in {"lit", "index"}
              \/ e.op = "?:" /\ Len(got) = 1 /\ ~Known(got[1])
              \/ e.op = "?:" /\ Len(got) = 2
              \/ e.op \notin {"lit", "index", "?:"} /\ Len(got) = Len(e.args)
<1>1. Len(got) \in Nat /\ Len(e.args) \in Nat
  BY ListFacts DEF Gathered, Expression
<1>2. CASE e.op \in {"lit", "index"}
  BY <1>2 DEF Pending
<1>3. CASE e.op = "?:"
  <2>0. Len(got) <= 2 /\ Len(e.args) = 3
    BY <1>3 DEF Gathered, Expression
  <2>1. Len(got) = 0 \/ Len(got) = 1 \/ Len(got) = 2
    <3> DEFINE L == Len(got)
    <3>1. L \in Nat /\ L <= 2
      BY <1>1, <2>0
    <3> HIDE DEF L
    <3>2. L = 0 \/ L = 1 \/ L = 2
      BY <3>1
    <3> QED
      BY <3>2 DEF L
  <2>2. CASE Len(got) = 0
    <3>1. Pending(e, got) = <<e.args[Len(got) + 1]>>
      BY <1>3, <2>0, <2>2 DEF Pending
    <3> QED
      BY <1>3, <2>2, <3>1 DEF Awaits
  <2>3. CASE Len(got) = 1
    <3>1. Pending(e, got) = IF ~Known(got[1]) THEN <<>> ELSE <<Chosen(e, got[1])>>
      BY <1>3, <2>0, <2>3 DEF Pending, Chosen
    <3> QED
      BY <1>3, <2>3, <3>1 DEF Awaits
  <2>4. CASE Len(got) = 2
    BY <1>3, <2>0, <2>4 DEF Pending
  <2> QED
    BY <2>1, <2>2, <2>3, <2>4
<1>4. CASE e.op \notin {"lit", "index", "?:"}
  <2>1. Len(got) <= Len(e.args)
    BY <1>4 DEF Gathered
  <2>2. Pending(e, got) = IF Len(got) = Len(e.args) THEN <<>> ELSE <<e.args[Len(got) + 1]>>
    BY <1>4 DEF Pending
  <2> QED
    BY <1>1, <1>4, <2>1, <2>2 DEF Awaits
<1> QED
  BY <1>2, <1>3, <1>4

LEMMA GatheredDone ==
  ASSUME NEW d, NEW e, Expression(e), NEW got, NEW m, Gathered(d, e, got, m),
         Pending(e, got) = <<>>
  PROVE  EvalWith(e, got) = Mean(d, e, m)
<1>1. CASE e.op \in {"lit", "index"}
  BY <1>1 DEF EvalWith, Mean
<1>2. CASE e.op = "?:"
  <2>0. (Len(got) = 1 /\ ~Known(got[1])) \/ Len(got) = 2
    BY <1>2, PendingIs
  <2>1. /\ DOMAIN got = 1 .. Len(got) /\ got[1] = Look(d, e.args[1], m)
        /\ (Len(got) = 1 /\ ~Known(got[1])) \/ Len(got) = 2
    BY <1>2, <2>0, ListFacts DEF Gathered
  <2>2. CASE Len(got) = 1 /\ ~Known(got[1])
    <3>1. \E i \in DOMAIN got : ~Known(got[i])
      BY <2>1, <2>2
    <3>2. EvalWith(e, got) = Nullopt
      BY <1>2, <3>1 DEF EvalWith
    <3> QED
      BY <1>2, <2>1, <2>2, <3>2 DEF Mean
  <2>3. CASE Len(got) = 2
    <3>1. Known(got[1]) /\ got[2] = Look(d, Chosen(e, got[1]), m)
      BY <1>2, <2>3 DEF Gathered
    <3>2. Mean(d, e, m) = got[2]
      BY <1>2, <2>1, <3>1 DEF Mean
    <3>3. EvalWith(e, got) = IF \E i \in DOMAIN got : ~Known(got[i]) THEN Nullopt ELSE got[2]
      BY <1>2 DEF EvalWith
    <3>4. \A i \in DOMAIN got : i = 1 \/ i = 2
      BY <2>1, <2>3
    <3>5. (\E i \in DOMAIN got : ~Known(got[i])) => got[2] = Nullopt
      BY <3>1, <3>4 DEF Known
    <3> QED
      BY <3>2, <3>3, <3>5
  <2> QED
    BY <2>1, <2>2, <2>3
<1>3. CASE e.op \notin {"lit", "index", "?:"}
  <2> DEFINE f == [i \in DOMAIN e.args |-> Look(d, e.args[i], m)]
  <2>1. Len(got) = Len(e.args)
    BY <1>3, PendingIs
  <2>2. DOMAIN got = 1 .. Len(got) /\ DOMAIN e.args = 1 .. Len(got)
    BY <2>1, ListFacts DEF Gathered, Expression
  <2>3. \A i \in DOMAIN e.args : got[i] = Look(d, e.args[i], m)
    BY <1>3, <2>2 DEF Gathered
  <2>4. got = [i \in DOMAIN got |-> got[i]]
    BY DEF Gathered, IsList
  <2>5. got = f
    BY <2>2, <2>3, <2>4
  <2> QED
    BY <1>3, <2>5 DEF Mean
<1> QED
  BY <1>1, <1>2, <1>3

LEMMA GatheredMore ==
  ASSUME NEW d, NEW e, Expression(e), NEW got, NEW m, Gathered(d, e, got, m),
         NEW x, Awaits(e, got, x)
  PROVE  Gathered(d, e, Append(got, Look(d, x, m)), m)
<1> DEFINE v == Look(d, x, m)
           more == Append(got, v)
<1>1. IsList(got) /\ Len(got) \in Nat
  BY ListFacts DEF Gathered
<1>2. /\ IsList(more) /\ Len(more) = Len(got) + 1
      /\ \A i \in 1 .. Len(got) : more[i] = got[i]
      /\ more[Len(got) + 1] = v
  BY <1>1, ListAppend
<1> HIDE DEF more
<1>3. e.op \notin {"lit", "index"}
  BY DEF Awaits
<1>4. CASE e.op = "?:"
  <2>1. CASE Len(got) = 0 /\ x = e.args[1]
    <3>1. Len(more) = 1 /\ more[1] = v /\ e.op = "?:"
      BY <1>2, <1>4, <2>1
    <3> QED
      BY <1>2, <2>1, <3>1 DEF Gathered, more
  <2>2. CASE Len(got) = 1 /\ Known(got[1]) /\ x = Chosen(e, got[1])
    <3>1. more[1] = got[1] /\ more[2] = v /\ Len(more) = 2
      BY <1>2, <2>2
    <3>2. got[1] = Look(d, e.args[1], m)
      BY <1>4, <2>2 DEF Gathered
    <3> QED
      BY <1>2, <1>4, <2>2, <3>1, <3>2 DEF Gathered, more
  <2> QED
    BY <1>4, <2>1, <2>2 DEF Awaits
<1>5. CASE e.op # "?:"
  <2>1. Len(got) < Len(e.args) /\ x = e.args[Len(got) + 1] /\ Len(e.args) \in Nat
    BY <1>5, ListFacts DEF Awaits, Expression
  <2>2. \A i \in 1 .. Len(more) : more[i] = Look(d, e.args[i], m)
    <3> TAKE i \in 1 .. Len(more)
    <3>1. i \in 1 .. Len(got) \/ i = Len(got) + 1
      BY <1>1, <1>2
    <3> QED
      BY <1>2, <1>3, <1>5, <2>1, <3>1 DEF Gathered
  <2>3. Len(more) <= Len(e.args)
    BY <1>1, <1>2, <2>1
  <2>4. Gathered(d, e, more, m)
    BY <1>2, <1>3, <1>5, <2>2, <2>3 DEF Gathered
  <2> QED
    BY <2>4 DEF more
<1> QED
  BY <1>4, <1>5

\* What a constant is known by in an iterate, its operands were known by in
\* the one before.
LEMMA DemandedBefore ==
  ASSUME NEW d, IsList(d), NEW c, Iterates(d, c), NEW s \in ScalarsOf(d), NEW got,
         Gathered(d, InitIn(d, s), got, c[Len(d)]),
         NEW x \in ScalarsOf(d), Awaits(InitIn(d, s), got, x),
         IsList(InitIn(d, s).args),
         NEW n \in 1 .. Len(d), Known(c[n][s])
  PROVE  Known(c[n - 1][x])
<1> DEFINE N == Len(d)
           e == InitIn(d, s)
           less == c[n - 1]
           m == c[N]
<1>1. N \in Nat /\ n - 1 \in 0 .. N /\ N \in n - 1 .. N
  BY ListFacts
<1>2. IteratesTo(d, c, N)
  BY DEF Iterates
<1> HIDE DEF N
<1>3. Learns(d, less, m)
  BY <1>1, <1>2, IteratesGrow
<1>4. Iterating(d, c, N)
  BY <1>1, <1>2, IterateIs
<1>5. c[n] = Refolded(d, less)
  BY <1>4 DEF Iterating, N
<1>6. Known(Mean(d, e, less))
  BY <1>5 DEF Refolded
<1>7. /\ Gathered(d, e, got, m) /\ Awaits(e, got, x) /\ IsList(e.args)
  BY DEF N
<1>8. ~Known(Nullopt)
  BY DEF Known
<1> HIDE DEF e, less, m
<1>9. Known(Look(d, x, less)) => Known(less[x])
  BY DEF Look
<1>10. \A y : Known(Look(d, y, less)) => Look(d, y, m) = Look(d, y, less)
  BY <1>3, <1>8 DEF Learns, Look
<1>11. CASE e.op = "?:"
  <2>1. Known(Look(d, e.args[1], less)) /\ Known(Look(d, Chosen(e, Look(d, e.args[1], less)), less))
    BY <1>6, <1>8, <1>7, <1>11 DEF Mean
  <2>2. CASE Len(got) = 0 /\ x = e.args[1]
    BY <1>9, <2>1, <2>2 DEF less
  <2>3. CASE Len(got) = 1 /\ Known(got[1]) /\ x = Chosen(e, got[1])
    <3>1. got[1] = Look(d, e.args[1], m)
      BY <1>7, <1>11, <2>3 DEF Gathered
    <3>2. x = Chosen(e, Look(d, e.args[1], less))
      BY <1>10, <2>1, <2>3, <3>1
    <3> QED
      BY <1>9, <2>1, <3>2 DEF less
  <2> QED
    BY <1>7, <1>11, <2>2, <2>3 DEF Awaits
<1>12. CASE e.op # "?:"
  <2> DEFINE f == [i \in DOMAIN e.args |-> Look(d, e.args[i], less)]
  <2>1. e.op \notin {"lit", "index", "?:"}
    BY <1>7, <1>12 DEF Awaits
  <2>2. Mean(d, e, less) = EvalWith(e, f)
    BY <2>1 DEF Mean
  <2>3. ~ \E i \in DOMAIN f : ~Known(f[i])
    <3> SUFFICES ASSUME \E i \in DOMAIN f : ~Known(f[i]) PROVE FALSE
      OBVIOUS
    <3>1. EvalWith(e, f) = Nullopt
      BY <2>1 DEF EvalWith
    <3> QED
      BY <1>6, <1>8, <2>2, <3>1
  <2>4. \E i \in DOMAIN e.args : x = e.args[i]
    <3>1. Len(got) < Len(e.args) /\ x = e.args[Len(got) + 1]
      BY <1>7, <1>12 DEF Awaits
    <3>2. Len(got) \in Nat /\ Len(e.args) \in Nat /\ DOMAIN e.args = 1 .. Len(e.args)
      BY <1>7, ListFacts DEF Gathered
    <3> QED
      BY <3>1, <3>2
  <2> QED
    BY <1>9, <2>3, <2>4 DEF less
<1> QED
  BY <1>11, <1>12

-----------------------------------------------------------------------------
(***************************************************************************)
(* What the declarations mean, as the last of the one list of iterates.    *)
(***************************************************************************)
MeaningIn(d) == (CHOOSE c : Iterates(d, c))[Len(d)]

LEMMA OneIterate ==
  ASSUME NEW d, IsList(d), NEW b, Iterates(d, b), NEW c, Iterates(d, c)
  PROVE  b[Len(d)] = c[Len(d)]
<1> DEFINE N == Len(d)
           T == {n \in 0 .. N : b[n] # c[n]}
<1>1. N \in Nat
  BY ListFacts
<1>2. IteratesTo(d, b, N) /\ IteratesTo(d, c, N)
  BY DEF Iterates
<1> HIDE DEF N
<1>3. Iterating(d, b, N)
  BY <1>1, <1>2, IterateIs
<1>4. Iterating(d, c, N)
  BY <1>1, <1>2, IterateIs
<1>5. T # {} => FALSE
  <2> SUFFICES ASSUME T # {} PROVE FALSE
    OBVIOUS
  <2>1. T \subseteq Nat
    BY <1>1
  <2>2. PICK n \in T : \A y \in T : n <= y
    BY <2>1, LeastNumber
  <2>3. n \in 0 .. N /\ b[n] # c[n]
    BY <2>2
  <2>4. n # 0
    BY <1>3, <1>4, <2>3 DEF Iterating
  <2>5. n \in 1 .. N /\ n - 1 \in 0 .. N /\ ~(n <= n - 1)
    BY <1>1, <2>3, <2>4
  <2>6. b[n - 1] = c[n - 1]
    BY <2>2, <2>5
  <2>7. b[n] = Refolded(d, b[n - 1]) /\ c[n] = Refolded(d, c[n - 1])
    BY <1>3, <1>4, <2>5 DEF Iterating
  <2> QED
    BY <2>3, <2>6, <2>7
<1>6. N \in 0 .. N
  BY <1>1
<1>7. b[N] = c[N]
  BY <1>5, <1>6
<1> QED
  BY <1>7 DEF N

LEMMA IteratesAre ==
  ASSUME NEW d, IsList(d)
  PROVE  \E c : Iterates(d, c) /\ MeaningIn(d) = c[Len(d)]
<1>1. \E c : Iterates(d, c)
  BY ListFacts, IteratesUpTo DEF Iterates
<1>2. Iterates(d, CHOOSE c : Iterates(d, c))
  BY <1>1
<1> QED
  BY <1>2 DEF MeaningIn

LEMMA MeaningOfDeclarations ==
  ASSUME IsList(decls)
  PROVE  Meaning(AsFolded) = MeaningIn(decls)
<1>1. PICK c : Iterates(decls, c) /\ MeaningIn(decls) = c[Len(decls)]
  BY IteratesAre
<1>2. PICK b : Iterates(decls, b) /\ Meaning(AsFolded) = b[Len(decls)]
  BY <1>1, MeaningIs
<1> QED
  BY <1>1, <1>2, OneIterate

LEMMA MeaningIsFixed ==
  ASSUME NEW d, IsList(d), NEW s \in ScalarsOf(d)
  PROVE  MeaningIn(d)[s] = Mean(d, InitIn(d, s), MeaningIn(d))
<1>1. PICK c : Iterates(d, c) /\ MeaningIn(d) = c[Len(d)]
  BY IteratesAre
<1>2. MeaningIn(d) = Refolded(d, MeaningIn(d))
  BY <1>1, LastIsFixed
<1> QED
  BY <1>2 DEF Refolded

-----------------------------------------------------------------------------
(***************************************************************************)
(* Declarations and what is done of them.                                  *)
(***************************************************************************)
LEMMA ListFirst ==
  ASSUME NEW s, IsList(s), Len(s) >= 1
  PROVE  1 \in DOMAIN s
<1> DEFINE n == Len(s)
<1>1. n \in Nat /\ DOMAIN s = 1 .. n /\ n >= 1
  BY ListFacts
<1> HIDE DEF n
<1> QED
  BY <1>1

LEMMA CheckedIs == ASSUME NEW e, Checked(e) PROVE Expression(e)
BY DEF Checked, Expression

LEMMA InitialiserOf ==
  ASSUME NEW d, Declared(d), NEW i \in DOMAIN d, d[i].kind = "const"
  PROVE  /\ InitIn(d, d[i].sym) = d[i].exprs[1]
         /\ Expression(d[i].exprs[1]) /\ Checked(d[i].exprs[1])
         /\ d[i].sym # "" /\ d[i].sym \in ScalarsOf(d)
<1>1. d[i].sym # "" /\ Len(d[i].exprs) = 1 /\ IsList(d[i].exprs)
  BY DEF Declared
<1>2. 1 \in DOMAIN d[i].exprs
  <2>1. Len(d[i].exprs) >= 1
    <3> DEFINE n == Len(d[i].exprs)
    <3>1. n = 1
      BY <1>1
    <3> HIDE DEF n
    <3>2. n >= 1
      BY <3>1
    <3> QED
      BY <3>2 DEF n
  <2> QED
    BY <1>1, <2>1, ListFirst
<1>3. Checked(d[i].exprs[1])
  BY <1>2 DEF Declared
<1>4. \A j \in DOMAIN d : d[j].sym = d[i].sym => j = i
  BY DEF Declared
<1>5. (CHOOSE x \in {d[j] : j \in DOMAIN d} : x.sym = d[i].sym) = d[i]
  BY <1>4
<1> QED
  BY <1>1, <1>3, <1>5, CheckedIs DEF InitIn, ScalarsOf

LEMMA ScalarInit ==
  ASSUME NEW d, Declared(d), NEW s \in ScalarsOf(d)
  PROVE  Expression(InitIn(d, s)) /\ s # "" /\ Checked(InitIn(d, s))
<1>1. PICK i \in DOMAIN d : d[i].kind = "const" /\ d[i].sym = s
  BY DEF ScalarsOf
<1> QED
  BY <1>1, InitialiserOf

\* What a job evaluates.
OuterOf(job) == IF job.purpose = "index" THEN Name(job.expr.args[2]) ELSE job.expr

\* The jobs of a declaration: its size first.
Ordered(x, jobs) ==
  /\ IsList(jobs) /\ Len(jobs) >= 1
  /\ \A n \in 1 .. Len(jobs) : Checked(OuterOf(jobs[n])) /\ Checked(jobs[n].expr)
  /\ x.sizes # <<>> => jobs[1] = Job("size", x.sizes[1])
  /\ \A n \in 1 .. Len(jobs) : jobs[n].purpose = "size" => x.sizes # <<>> /\ n = 1
  /\ x.kind = "const" => jobs = <<Job("value", x.exprs[1])>>

LEMMA NameIsChecked == ASSUME NEW s PROVE Checked(Name(s))
<1>1. IsList(<<s>>)
  BY DEF IsList
<1> QED
  BY <1>1 DEF Checked, Name

LEMMA ListConcat ==
  ASSUME NEW s, IsList(s), NEW t, IsList(t)
  PROVE  /\ IsList(s \o t) /\ Len(s \o t) = Len(s) + Len(t)
         /\ \A n \in 1 .. Len(s) : (s \o t)[n] = s[n]
         /\ \A n \in Len(s) + 1 .. Len(s) + Len(t) : (s \o t)[n] = t[n - Len(s)]
<1> DEFINE S == {s[i] : i \in DOMAIN s} \cup {t[i] : i \in DOMAIN t}
           u == s \o t
<1>1. s \in Seq(S) /\ t \in Seq(S)
  BY DEF IsList
<1> HIDE DEF S
<1>2. /\ u \in Seq(S) /\ Len(u) = Len(s) + Len(t) /\ Len(s) \in Nat /\ Len(t) \in Nat
      /\ DOMAIN u = 1 .. Len(s) + Len(t)
      /\ \A n \in 1 .. Len(s) : u[n] = s[n]
      /\ \A n \in Len(s) + 1 .. Len(s) + Len(t) : u[n] = t[n - Len(s)]
  BY <1>1
<1> HIDE DEF u
<1>3. u = [n \in 1 .. Len(s) + Len(t) |-> u[n]]
  <2>1. u = [n \in DOMAIN u |-> u[n]]
    BY <1>2
  <2> QED
    BY <1>2, <2>1
<1>4. IsList(u)
  BY <1>2, <1>3, ListIs
<1> QED
  BY <1>2, <1>4 DEF u

LEMMA JobsAre ==
  ASSUME NEW d, Declared(d), NEW i \in DOMAIN d
  PROVE  Ordered(d[i], Jobs(d[i]))
<1> DEFINE x == d[i]
           a == Len(x.sizes)
           b == Len(x.exprs)
           sizing == [n \in DOMAIN x.sizes |-> Job("size", x.sizes[n])]
           doing == CASE x.kind = "const" -> <<Job("value", x.exprs[1])>>
                      [] x.kind = "const array" ->
                           [n \in 1 .. 2 * Len(x.exprs) |->
                              Job(IF n % 2 = 1 THEN "index" ELSE "value", x.exprs[(n + 1) \div 2])]
                      [] OTHER -> [n \in DOMAIN x.exprs |-> Job("index", x.exprs[n])]
<1>1. /\ IsList(x.sizes) /\ IsList(x.exprs) /\ a + b >= 1
      /\ \A n \in DOMAIN x.sizes : Checked(x.sizes[n])
      /\ \A n \in DOMAIN x.exprs : Checked(x.exprs[n])
      /\ x.kind = "const" => x.sizes = <<>> /\ b = 1
      /\ x.sizes # <<>> => a = 1
  BY DEF Declared
<1>2. Jobs(x) = sizing \o doing
  BY DEF Jobs
<1> HIDE DEF x
<1>3. a \in Nat /\ b \in Nat /\ DOMAIN x.sizes = 1 .. a /\ DOMAIN x.exprs = 1 .. b /\ (a = 0 => x.sizes = <<>>)
      /\ (x.sizes = <<>> => a = 0)
  BY <1>1, ListFacts
<1> HIDE DEF a, b
<1>4. IsList(sizing) /\ Len(sizing) = a /\ \A n \in 1 .. a : sizing[n] = Job("size", x.sizes[n])
  <2>1. DOMAIN sizing = 1 .. a /\ sizing = [n \in 1 .. a |-> sizing[n]]
    BY <1>3
  <2>2. \A n \in 1 .. a : sizing[n] = Job("size", x.sizes[n])
    BY <1>3
  <2> HIDE DEF sizing
  <2> QED
    BY <1>3, <2>1, <2>2, ListIs
<1> DEFINE Other(job) == /\ job.purpose # "size" /\ Checked(job.expr)
           Done(s) == /\ IsList(s) /\ (b >= 1 => Len(s) >= 1)
                      /\ \A n \in 1 .. Len(s) : Other(s[n])
<1>5. CASE x.kind = "const"
  <2>0. a = 0 /\ b = 1 /\ x.sizes = <<>>
    BY <1>1, <1>3, <1>5
  <2>1. a = 0 /\ b = 1 /\ 1 \in DOMAIN x.exprs /\ x.sizes = <<>>
    BY <1>3, <2>0
  <2>2. doing = <<Job("value", x.exprs[1])>>
    BY <1>5
  <2>3. sizing = <<>>
    <3> HIDE DEF sizing
    <3> QED
      BY <1>4, <2>1, ListFacts
  <2>4. Jobs(x) = <<Job("value", x.exprs[1])>>
    <3> DEFINE j == Job("value", x.exprs[1])
    <3>1. Jobs(x) = <<>> \o <<j>>
      BY <1>2, <2>2, <2>3
    <3> HIDE DEF j
    <3>2. <<>> \o <<j>> = <<j>>
      OBVIOUS
    <3> QED
      BY <3>1, <3>2 DEF j
  <2>5. IsList(Jobs(x)) /\ Len(Jobs(x)) = 1 /\ Jobs(x)[1] = Job("value", x.exprs[1])
    BY <2>4 DEF IsList
  <2>6. Checked(OuterOf(Jobs(x)[1])) /\ Checked(Jobs(x)[1].expr) /\ Jobs(x)[1].purpose = "value"
    BY <1>1, <2>1, <2>5 DEF OuterOf, Job
  <2>7. \A n \in 1 .. Len(Jobs(x)) : n = 1
    BY <2>5
  <2> QED
    BY <2>1, <2>4, <2>5, <2>6, <2>7 DEF Ordered, x
<1>6. CASE x.kind # "const"
  <2>1. Done(doing)
    <3>1. CASE x.kind = "const array"
      <4>1. doing = [n \in 1 .. 2 * b |->
                       Job(IF n % 2 = 1 THEN "index" ELSE "value", x.exprs[(n + 1) \div 2])]
        BY <3>1 DEF b
      <4> HIDE DEF doing
      <4>2. 2 * b \in Nat /\ DOMAIN doing = 1 .. 2 * b /\ doing = [n \in 1 .. 2 * b |-> doing[n]]
        BY <1>3, <4>1
      <4>3. IsList(doing) /\ Len(doing) = 2 * b
        BY <4>2, ListIs
      <4>4. \A n \in 1 .. 2 * b : (n + 1) \div 2 \in 1 .. b
        <5> DEFINE L == b
        <5>1. L \in Nat
          BY <1>3
        <5> HIDE DEF L
        <5>2. \A n \in 1 .. 2 * L : (n + 1) \div 2 \in 1 .. L
          BY <5>1
        <5> QED
          BY <5>2 DEF L
      <4>5. \A n \in 1 .. 2 * b : Other(doing[n])
        BY <1>1, <1>3, <4>1, <4>4 DEF Job
      <4>6. b >= 1 => 2 * b >= 1
        BY <1>3
      <4> QED
        BY <4>3, <4>5, <4>6
    <3>2. CASE x.kind # "const array"
      <4>1. doing = [n \in 1 .. b |-> Job("index", x.exprs[n])]
        BY <1>3, <1>6, <3>2
      <4> HIDE DEF doing
      <4>2. DOMAIN doing = 1 .. b /\ doing = [n \in 1 .. b |-> doing[n]]
        BY <4>1
      <4>3. IsList(doing) /\ Len(doing) = b
        BY <1>3, <4>2, ListIs
      <4>4. \A n \in 1 .. b : Other(doing[n])
        BY <1>1, <1>3, <4>1 DEF Job
      <4> QED
        BY <4>3, <4>4
    <3> QED
      BY <3>1, <3>2
  <2> HIDE DEF doing, sizing
  <2> DEFINE all == sizing \o doing
             l == Len(doing)
  <2>2. /\ IsList(all) /\ Len(all) = a + l
        /\ \A n \in 1 .. a : all[n] = sizing[n]
        /\ \A n \in a + 1 .. a + l : all[n] = doing[n - a]
        /\ l \in Nat
    <3>1. IsList(sizing) /\ IsList(doing) /\ Len(sizing) = a
      BY <1>4, <2>1
    <3>2. l \in Nat
      BY <3>1, ListFacts
    <3> QED
      BY <3>1, <3>2, ListConcat
  <2> HIDE DEF all
  <2>3. ASSUME NEW n \in 1 .. a + l
        PROVE  \/ n \in 1 .. a /\ all[n] = Job("size", x.sizes[n])
               \/ n > a /\ Other(all[n])
    <3>1. CASE n \in 1 .. a
      BY <1>4, <2>2, <3>1
    <3>2. CASE n \notin 1 .. a
      <4>1. n \in a + 1 .. a + l /\ n - a \in 1 .. l /\ n > a
        BY <1>3, <2>2, <3>2
      <4> QED
        BY <2>1, <2>2, <4>1
    <3> QED
      BY <3>1, <3>2
  <2>4. \A n \in 1 .. a + l : Checked(OuterOf(all[n])) /\ Checked(all[n].expr)
    <3> SUFFICES ASSUME NEW n \in 1 .. a + l PROVE Checked(OuterOf(all[n])) /\ Checked(all[n].expr)
      OBVIOUS
    <3>1. CASE n \in 1 .. a /\ all[n] = Job("size", x.sizes[n])
      <4>1. Checked(x.sizes[n]) /\ OuterOf(all[n]) = x.sizes[n] /\ all[n].expr = x.sizes[n]
        BY <1>1, <1>3, <3>1 DEF OuterOf, Job
      <4> QED
        BY <4>1
    <3>2. CASE Other(all[n])
      BY <3>2, NameIsChecked DEF OuterOf
    <3> QED
      BY <2>3, <3>1, <3>2
  <2> HIDE DEF l
  <2>5. a + l >= 1
    <3>1. b >= 1 => l >= 1
      BY <2>1 DEF l
    <3> QED
      BY <1>1, <1>3, <2>2, <3>1
  <2>6. x.sizes # <<>> => a = 1 /\ 1 \in 1 .. a + l
    BY <1>1, <2>2
  <2>7. x.sizes # <<>> => all[1] = Job("size", x.sizes[1])
    BY <2>2, <2>3, <2>6
  <2>8. \A n \in 1 .. a + l : all[n].purpose = "size" => x.sizes # <<>> /\ n = 1
    <3> SUFFICES ASSUME NEW n \in 1 .. a + l, all[n].purpose = "size" PROVE x.sizes # <<>> /\ n = 1
      OBVIOUS
    <3>1. n \in 1 .. a
      BY <2>3
    <3>2. a # 0
      BY <1>3, <3>1
    <3> QED
      BY <1>1, <1>3, <3>1, <3>2
  <2> QED
    BY <1>2, <1>6, <2>2, <2>4, <2>5, <2>7, <2>8 DEF Ordered, all, x
<1> QED
  BY <1>5, <1>6

-----------------------------------------------------------------------------
(***************************************************************************)
(* The activations: each has gathered what its operands mean, and awaits   *)
(* the constant of the next.                                               *)
(***************************************************************************)
Outermost(f) == f.sym = ""

FrameExpr(d, outer, f) == IF f.sym = "" THEN outer ELSE InitIn(d, f.sym)

Frame(d, outer, f, m) ==
  /\ f = [sym |-> f.sym, got |-> f.got]
  /\ Gathered(d, FrameExpr(d, outer, f), f.got, m)

AwaitsIn(d, outer, f, x) == Awaits(FrameExpr(d, outer, f), f.got, x)

Stacked(d, outer, st, m) ==
  /\ IsList(st)
  /\ \A i \in 1 .. Len(st) : /\ Frame(d, outer, st[i], m)
                             /\ IF i = 1 THEN Outermost(st[i]) ELSE st[i].sym \in ScalarsOf(d)
  /\ \A i \in 1 .. Len(st) : i < Len(st) => AwaitsIn(d, outer, st[i], st[i + 1].sym)

LEMMA GatheredNone == ASSUME NEW d, NEW e, IsList(e.args), NEW m PROVE Gathered(d, e, <<>>, m)
<1>1. IsList(<<>>) /\ Len(<<>>) = 0
  BY DEF IsList
<1>2. Len(e.args) \in Nat
  BY ListFacts
<1>3. 0 <= Len(e.args)
  BY <1>2
<1> QED
  BY <1>1, <1>3 DEF Gathered

LEMMA StartKeeps ==
  ASSUME NEW d, NEW outer, Expression(outer), NEW m
  PROVE  Stacked(d, outer, <<Activation("")>>, m)
<1> DEFINE f == Activation("")
<1>1. f = [sym |-> f.sym, got |-> f.got] /\ f.sym = "" /\ f.got = <<>> /\ Outermost(f)
  BY DEF Activation, Outermost
<1>2. Frame(d, outer, f, m)
  BY <1>1, GatheredNone DEF Frame, FrameExpr, Expression
<1> HIDE DEF f
<1>3. IsList(<<f>>) /\ Len(<<f>>) = 1 /\ <<f>>[1] = f
  BY DEF IsList
<1> DEFINE t == <<f>>
<1>5. IsList(t) /\ Len(t) = 1 /\ t[1] = f
  BY <1>3
<1> HIDE DEF t
<1>4. \A i \in 1 .. Len(t) : i = 1 /\ ~(i < Len(t))
  <2>1. \A i \in 1 .. 1 : i = 1 /\ ~(i < 1)
    OBVIOUS
  <2> QED
    BY <1>5, <2>1
<1>6. Stacked(d, outer, t, m)
  BY <1>1, <1>2, <1>4, <1>5 DEF Stacked
<1> QED
  BY <1>6 DEF t, f

LEMMA PushKeeps ==
  ASSUME NEW d, Declared(d), NEW outer, NEW m, NEW st, Stacked(d, outer, st, m), st # <<>>,
         NEW x \in ScalarsOf(d), AwaitsIn(d, outer, st[Len(st)], x)
  PROVE  Stacked(d, outer, Append(st, Activation(x)), m)
<1> DEFINE f == Activation(x)
           t == Append(st, f)
           n == Len(st)
<1>1. f = [sym |-> f.sym, got |-> f.got] /\ f.sym = x /\ f.got = <<>>
  BY DEF Activation
<1>2. Frame(d, outer, f, m)
  BY <1>1, GatheredNone, ScalarInit DEF Frame, FrameExpr, Expression
<1>3. IsList(st) /\ n \in Nat /\ n # 0
  BY ListFacts DEF Stacked
<1> HIDE DEF f
<1>4. IsList(t) /\ Len(t) = n + 1 /\ (\A i \in 1 .. n : t[i] = st[i]) /\ t[n + 1] = f
  BY <1>3, ListAppend
<1>5. AwaitsIn(d, outer, st[n], x)
  OBVIOUS
<1>6. /\ \A i \in 1 .. n : /\ Frame(d, outer, st[i], m)
                           /\ IF i = 1 THEN Outermost(st[i]) ELSE st[i].sym \in ScalarsOf(d)
      /\ \A i \in 1 .. n : i < n => AwaitsIn(d, outer, st[i], st[i + 1].sym)
  BY DEF Stacked
<1> HIDE DEF t, n
<1>7. ASSUME NEW i \in 1 .. n + 1
      PROVE  /\ Frame(d, outer, t[i], m)
             /\ IF i = 1 THEN Outermost(t[i]) ELSE t[i].sym \in ScalarsOf(d)
             /\ i < n + 1 => AwaitsIn(d, outer, t[i], t[i + 1].sym)
  <2>1. CASE i = n + 1
    <3>1. i # 1 /\ ~(i < n + 1) /\ t[i] = f
      BY <1>3, <1>4, <2>1
    <3> QED
      BY <1>1, <1>2, <3>1
  <2>2. CASE i # n + 1
    <3>1. i \in 1 .. n /\ t[i] = st[i]
      BY <1>3, <1>4, <2>2
    <3>2. CASE i = n
      <4>1. t[i + 1].sym = x
        BY <1>1, <1>4, <3>2
      <4>2. AwaitsIn(d, outer, t[i], t[i + 1].sym)
        BY <1>5, <3>1, <3>2, <4>1
      <4> QED
        BY <1>6, <3>1, <4>2
    <3>3. CASE i # n
      <4>1. i < n /\ i + 1 \in 1 .. n
        BY <1>3, <3>1, <3>3
      <4>2. t[i + 1] = st[i + 1]
        BY <1>4, <4>1
      <4> QED
        BY <1>6, <3>1, <4>1, <4>2
    <3> QED
      BY <3>2, <3>3
  <2> QED
    BY <2>1, <2>2
<1>8. Stacked(d, outer, t, m)
  BY <1>4, <1>7 DEF Stacked
<1> QED
  BY <1>8 DEF t, f

LEMMA GotMore ==
  ASSUME NEW f, NEW v, f = [sym |-> f.sym, got |-> f.got]
  PROVE  [f EXCEPT !.got = Append(@, v)] = [sym |-> f.sym, got |-> Append(f.got, v)]
OBVIOUS

LEMMA GiveKeeps ==
  ASSUME NEW d, NEW outer, NEW m, NEW st, Stacked(d, outer, st, m), st # <<>>,
         Expression(FrameExpr(d, outer, st[Len(st)])),
         NEW x, AwaitsIn(d, outer, st[Len(st)], x)
  PROVE  Stacked(d, outer, Give(st, Look(d, x, m)), m)
<1> DEFINE n == Len(st)
           v == Look(d, x, m)
           t == Give(st, v)
           f == st[n]
           g == [sym |-> f.sym, got |-> Append(f.got, v)]
<1>1. IsList(st) /\ n \in Nat /\ n # 0 /\ DOMAIN st = 1 .. n
  BY ListFacts DEF Stacked
<1>2. n \in 1 .. n
  BY <1>1
<1>3. Frame(d, outer, f, m)
  BY <1>2 DEF Stacked
<1>4. Gathered(d, FrameExpr(d, outer, f), Append(f.got, v), m)
  BY <1>3, GatheredMore DEF Frame, AwaitsIn
<1>5. Frame(d, outer, g, m)
  BY <1>4 DEF Frame, FrameExpr
<1>6. f = [sym |-> f.sym, got |-> f.got]
  BY <1>3 DEF Frame
<1> HIDE DEF v
<1>7. t = [i \in 1 .. n |-> IF i = n THEN g ELSE st[i]]
  <2>1. t = [i \in 1 .. n |-> IF i = n THEN [f EXCEPT !.got = Append(@, v)] ELSE st[i]]
    BY <1>1 DEF Give
  <2>2. [f EXCEPT !.got = Append(@, v)] = g
    <3> HIDE DEF f
    <3> QED
      BY <1>6, GotMore
  <2> HIDE DEF g, t, f
  <2> QED
    BY <2>1, <2>2
<1> HIDE DEF t
<1>8. IsList(t) /\ Len(t) = n
  <2>1. DOMAIN t = 1 .. n /\ t = [i \in 1 .. n |-> t[i]]
    BY <1>7
  <2> QED
    BY <1>1, <2>1, ListIs
<1>9. /\ \A i \in 1 .. n : /\ Frame(d, outer, st[i], m)
                           /\ IF i = 1 THEN Outermost(st[i]) ELSE st[i].sym \in ScalarsOf(d)
      /\ \A i \in 1 .. n : i < n => AwaitsIn(d, outer, st[i], st[i + 1].sym)
  BY DEF Stacked
<1>10. g.sym = st[n].sym /\ (Outermost(st[n]) <=> Outermost(g))
  BY DEF Outermost
<1> HIDE DEF n, g, f
<1>11. ASSUME NEW i \in 1 .. n
       PROVE  /\ Frame(d, outer, t[i], m)
              /\ IF i = 1 THEN Outermost(t[i]) ELSE t[i].sym \in ScalarsOf(d)
              /\ i < n => AwaitsIn(d, outer, t[i], t[i + 1].sym)
  <2>1. CASE i = n
    <3>1. t[i] = g /\ ~(i < n)
      BY <1>1, <1>7, <2>1
    <3> QED
      BY <1>5, <1>9, <1>10, <2>1, <3>1
  <2>2. CASE i # n
    <3>1. t[i] = st[i] /\ i + 1 \in 1 .. n /\ i < n
      BY <1>1, <1>7, <2>2
    <3>2. t[i + 1].sym = st[i + 1].sym
      BY <1>7, <1>10, <3>1
    <3> QED
      BY <1>9, <3>1, <3>2
  <2> QED
    BY <2>1, <2>2
<1>12. Stacked(d, outer, t, m)
  BY <1>8, <1>11 DEF Stacked
<1> QED
  BY <1>12 DEF t, v

LEMMA PopKeeps ==
  ASSUME NEW d, NEW outer, NEW m, NEW st, Stacked(d, outer, st, m), st # <<>>,
         ~Outermost(st[Len(st)])
  PROVE  LET front == SubSeq(st, 1, Len(st) - 1)
         IN  /\ Stacked(d, outer, front, m) /\ front # <<>>
             /\ AwaitsIn(d, outer, front[Len(front)], st[Len(st)].sym)
             /\ st[Len(st)].sym \in ScalarsOf(d)
<1> DEFINE n == Len(st)
           front == SubSeq(st, 1, Len(st) - 1)
<1>1. IsList(st) /\ n \in Nat /\ n # 0
  BY ListFacts DEF Stacked
<1>2. IsList(front) /\ Len(front) = n - 1 /\ \A i \in 1 .. n - 1 : front[i] = st[i]
  BY <1>1, ListFront
<1>3. /\ \A i \in 1 .. n : /\ Frame(d, outer, st[i], m)
                           /\ IF i = 1 THEN Outermost(st[i]) ELSE st[i].sym \in ScalarsOf(d)
      /\ \A i \in 1 .. n : i < n => AwaitsIn(d, outer, st[i], st[i + 1].sym)
  BY DEF Stacked
<1>4. ~Outermost(st[n])
  OBVIOUS
<1> HIDE DEF n, front
<1>5. n \in 1 .. n /\ n # 1 /\ st[n].sym \in ScalarsOf(d)
  <2>1. n \in 1 .. n
    BY <1>1
  <2> QED
    BY <1>3, <1>4, <2>1
<1>6. n - 1 \in 1 .. n - 1 /\ n - 1 \in 1 .. n /\ n - 1 < n /\ (n - 1) + 1 = n
  BY <1>1, <1>5
<1>7. AwaitsIn(d, outer, st[n - 1], st[n].sym)
  BY <1>3, <1>6
<1>8. ASSUME NEW i \in 1 .. n - 1
      PROVE  /\ Frame(d, outer, front[i], m)
             /\ IF i = 1 THEN Outermost(front[i]) ELSE front[i].sym \in ScalarsOf(d)
             /\ i < n - 1 => AwaitsIn(d, outer, front[i], front[i + 1].sym)
  <2>1. i \in 1 .. n /\ i < n /\ (i < n - 1 => i + 1 \in 1 .. n - 1)
    BY <1>1
  <2> QED
    BY <1>2, <1>3, <2>1
<1>9. Stacked(d, outer, front, m)
  BY <1>2, <1>8 DEF Stacked
<1>10. front[n - 1] = st[n - 1]
  BY <1>2, <1>6
<1>11. front # <<>>
  BY <1>1, <1>2, <1>6
<1>12. AwaitsIn(d, outer, front[Len(front)], st[n].sym)
  BY <1>2, <1>7, <1>10
<1> QED
  BY <1>5, <1>9, <1>11, <1>12 DEF n, front

\* A constant that comes back to itself means nothing: whatever an iterate
\* knew of it, the one before would have known of it too.
LEMMA CycleMeansNothing ==
  ASSUME NEW d, Declared(d), NEW outer, NEW st, Stacked(d, outer, st, MeaningIn(d)),
         st # <<>>, NEW x \in ScalarsOf(d), AwaitsIn(d, outer, st[Len(st)], x),
         NEW j \in 1 .. Len(st), st[j].sym = x
  PROVE  MeaningIn(d)[x] = Nullopt
<1> DEFINE N == Len(d)
           k1 == Len(st)
<1>0. IsList(d) /\ IsList(st)
  BY DEF Declared, Stacked
<1>1. N \in Nat /\ k1 \in Nat /\ k1 # 0
  BY <1>0, ListFacts
<1>2. PICK c : Iterates(d, c) /\ MeaningIn(d) = c[N]
  BY <1>0, IteratesAre
<1>3. IteratesTo(d, c, N)
  BY <1>2 DEF Iterates
<1> HIDE DEF N
<1>4. Iterating(d, c, N)
  BY <1>1, <1>3, IterateIs
<1>5. ASSUME NEW n \in 1 .. N, NEW i \in 1 .. k1, st[i].sym \in ScalarsOf(d), Known(c[n][st[i].sym]),
             NEW y \in ScalarsOf(d), AwaitsIn(d, outer, st[i], y)
      PROVE  Known(c[n - 1][y])
  <2> DEFINE s == st[i].sym
  <2>1. /\ FrameExpr(d, outer, st[i]) = InitIn(d, s)
        /\ Expression(InitIn(d, s))
    BY <1>5, ScalarInit DEF FrameExpr
  <2>2. Gathered(d, InitIn(d, s), st[i].got, c[N])
    BY <1>2, <2>1 DEF Stacked, Frame
  <2>3. Awaits(InitIn(d, s), st[i].got, y)
    BY <1>5, <2>1 DEF AwaitsIn
  <2>4. IsList(InitIn(d, s).args)
    BY <2>1 DEF Expression
  <2> QED
    BY <1>0, <1>2, <1>5, <2>2, <2>3, <2>4, DemandedBefore DEF N
<1>6. SUFFICES ASSUME Known(c[N][x]) PROVE FALSE
  BY <1>2 DEF Known
<1> DEFINE T == {n \in 0 .. N : Known(c[n][x])}
<1>7. N \in T /\ T \subseteq Nat
  BY <1>1, <1>6
<1>8. PICK n \in T : \A y \in T : n <= y
  BY <1>7, LeastNumber
<1>9. n \in 0 .. N /\ Known(c[n][x])
  BY <1>8
<1>10. \A y \in 0 .. N : Known(c[y][x]) => n <= y
  BY <1>8
<1>11. c[0] = [s \in ScalarsOf(d) |-> Nullopt]
  BY <1>4 DEF Iterating
<1> HIDE DEF T
<1>12. n # 0 /\ n \in 1 .. N /\ n - 1 \in 0 .. N
  <2>1. n # 0
    BY <1>9, <1>11 DEF Known
  <2> QED
    BY <1>1, <1>9, <2>1
\* What is above x on the stack was known one iterate before x was.
<1> DEFINE Later(i) == Known(c[n - 1][st[i].sym])
           Y == {i \in j + 1 .. k1 : ~Later(i)}
<1>13. \A i \in 1 .. k1 : i # 1 => st[i].sym \in ScalarsOf(d)
  BY DEF Stacked
<1>14. \A i \in 1 .. k1 : i < k1 => AwaitsIn(d, outer, st[i], st[i + 1].sym)
  BY DEF Stacked
<1>15. st[j].sym = x /\ j \in 1 .. k1 /\ AwaitsIn(d, outer, st[k1], x)
  OBVIOUS
<1> HIDE DEF k1
<1>16. Y # {} => FALSE
  <2> SUFFICES ASSUME Y # {} PROVE FALSE
    OBVIOUS
  <2>1. Y \subseteq Nat
    BY <1>1, <1>15
  <2>2. PICK i \in Y : \A y \in Y : i <= y
    BY <2>1, LeastNumber
  <2>3. i \in j + 1 .. k1 /\ ~Later(i)
    BY <2>2
  <2>4. i - 1 \in 1 .. k1 /\ i - 1 < k1 /\ (i - 1) + 1 = i /\ i \in 1 .. k1 /\ i # 1 /\ ~(i <= i - 1)
    BY <1>1, <1>15, <2>3
  <2>5. st[i].sym \in ScalarsOf(d) /\ AwaitsIn(d, outer, st[i - 1], st[i].sym)
    BY <1>13, <1>14, <2>4
  <2>6. CASE i - 1 = j
    <3>1. st[i - 1].sym = x
      BY <1>15, <2>6
    <3>2. Known(c[n - 1][st[i].sym])
      BY <1>5, <1>9, <1>12, <2>4, <2>5, <3>1
    <3> QED
      BY <2>3, <3>2
  <2>7. CASE i - 1 # j
    <3>1. i - 1 \in j + 1 .. k1 /\ i - 1 # 1
      BY <1>1, <1>15, <2>3, <2>7
    <3>2. Later(i - 1) /\ st[i - 1].sym \in ScalarsOf(d)
      BY <1>13, <2>2, <2>4, <3>1
    <3>3. n - 1 # 0
      BY <1>11, <3>2 DEF Known
    <3>4. n - 1 \in 1 .. N /\ (n - 1) - 1 \in 0 .. N /\ n - 1 \in (n - 1) - 1 .. N
      BY <1>1, <1>12, <3>3
    <3>5. Known(c[(n - 1) - 1][st[i].sym])
      BY <1>5, <2>4, <2>5, <3>2, <3>4
    <3>6. Learns(d, c[(n - 1) - 1], c[n - 1])
      BY <1>1, <1>3, <3>4, IteratesGrow
    <3>7. Later(i)
      BY <2>5, <3>5, <3>6 DEF Learns
    <3> QED
      BY <2>3, <3>7
  <2> QED
    BY <2>6, <2>7
<1>17. Known(c[n - 1][x])
  <2>0. k1 \in 1 .. k1
    BY <1>1
  <2>1. CASE j = k1
    BY <1>5, <1>9, <1>12, <1>15, <2>0, <2>1
  <2>2. CASE j # k1
    <3>1. k1 \in j + 1 .. k1 /\ k1 # 1
      BY <1>1, <1>15, <2>2
    <3>2. Later(k1) /\ st[k1].sym \in ScalarsOf(d)
      BY <1>13, <1>16, <2>0, <3>1
    <3>3. n - 1 # 0
      BY <1>11, <3>2 DEF Known
    <3>4. n - 1 \in 1 .. N /\ (n - 1) - 1 \in 0 .. N /\ n - 1 \in (n - 1) - 1 .. N
      BY <1>1, <1>12, <3>3
    <3>5. Known(c[(n - 1) - 1][x])
      BY <1>5, <1>15, <2>0, <3>2, <3>4
    <3>6. Learns(d, c[(n - 1) - 1], c[n - 1])
      BY <1>1, <1>3, <3>4, IteratesGrow
    <3> QED
      BY <3>5, <3>6 DEF Learns
  <2> QED
    BY <2>1, <2>2
<1>18. n <= n - 1
  BY <1>10, <1>12, <1>17
<1> QED
  BY <1>12, <1>18

-----------------------------------------------------------------------------
(***************************************************************************)
(* The invariant of the walk over the declarations.                        *)
(***************************************************************************)
JobAt(d, p) == Jobs(d[p[1]])[p[2]]

Standing(d, p) ==
  /\ p = <<p[1], p[2]>> /\ p[1] \in 1 .. Len(d) + 1
  /\ p[1] <= Len(d) => p[2] \in 1 .. Len(Jobs(d[p[1]]))

\* Being past the first job of a declaration.
Past(p, i) == i < p[1] \/ (i = p[1] /\ p[2] > 1)

Busy(d, p, st, m) ==
  st # <<>> => p[1] <= Len(d) /\ Stacked(d, OuterOf(JobAt(d, p)), st, m)

Remembered(d, map, m) == \A s \in DOMAIN map : s \in ScalarsOf(d) /\ map[s] = m[s]

FoldedTo(v) == IF Known(v) THEN <<v>> ELSE <<>>

Stored(d, p, map, m) ==
  /\ DOMAIN map = DOMAIN d
  /\ \A i \in DOMAIN d : d[i].kind = "const" =>
       map[i] = IF Past(p, i) THEN FoldedTo(m[d[i].sym]) ELSE <<>>

LengthFor(d, i, m) ==
  IF IsLength(Mean(d, d[i].sizes[1], m)) THEN Mean(d, d[i].sizes[1], m).raw ELSE 0

Measured(d, p, map, m) ==
  /\ DOMAIN map = Symbols
  /\ \A i \in DOMAIN d : d[i].sizes # <<>> =>
       map[d[i].sym] = IF Past(p, i) THEN LengthFor(d, i, m) ELSE 0

FoldInv ==
  /\ Declared(decls)
  /\ Standing(decls, place)
  /\ Busy(decls, place, stack, MeaningIn(decls))
  /\ Remembered(decls, values, MeaningIn(decls))
  /\ Stored(decls, place, folded, MeaningIn(decls))
  /\ Measured(decls, place, lengths, MeaningIn(decls))

\* The job in hand.
InHand(d, p) ==
  LET x == d[p[1]]
  IN  /\ p[1] \in DOMAIN d
      /\ Expression(OuterOf(JobAt(d, p)))
      /\ Checked(OuterOf(JobAt(d, p))) /\ Checked(JobAt(d, p).expr)
      /\ x.kind = "const" => p[2] = 1 /\ JobAt(d, p) = Job("value", x.exprs[1])
      /\ x.sizes # <<>> => (p[2] = 1 => JobAt(d, p).purpose = "size")
      /\ JobAt(d, p).purpose = "size" =>
           x.sizes # <<>> /\ p[2] = 1 /\ JobAt(d, p) = Job("size", x.sizes[1])
      /\ p[2] \in Nat /\ p[2] >= 1 /\ p[1] \in Nat

LEMMA JobInHand ==
  ASSUME NEW d, Declared(d), NEW p, Standing(d, p), p[1] <= Len(d)
  PROVE  InHand(d, p)
<1>1. IsList(d)
  BY DEF Declared
<1>2. Len(d) \in Nat /\ DOMAIN d = 1 .. Len(d)
  BY <1>1, ListFacts
<1>3. p[1] \in DOMAIN d /\ p[1] \in Nat
  BY <1>2 DEF Standing
<1> DEFINE x == d[p[1]]
           jobs == Jobs(x)
           n == p[2]
<1>4. Ordered(x, jobs)
  BY <1>3, JobsAre
<1>5. n \in 1 .. Len(jobs)
  BY DEF Standing
<1>6. JobAt(d, p) = jobs[n]
  BY DEF JobAt
<1>7. Len(jobs) \in Nat
  BY <1>4, ListFacts DEF Ordered
<1>8. n \in Nat /\ n >= 1
  BY <1>5, <1>7
<1> HIDE DEF x, jobs, n
<1>9. Expression(OuterOf(jobs[n])) /\ Checked(OuterOf(jobs[n])) /\ Checked(jobs[n].expr)
  BY <1>4, <1>5, CheckedIs DEF Ordered
<1>10. x.kind = "const" => n = 1 /\ jobs[n] = Job("value", x.exprs[1])
  <2> SUFFICES ASSUME x.kind = "const" PROVE n = 1 /\ jobs[n] = Job("value", x.exprs[1])
    OBVIOUS
  <2>1. jobs = <<Job("value", x.exprs[1])>>
    BY <1>4 DEF Ordered
  <2>2. Len(jobs) = 1 /\ jobs[1] = Job("value", x.exprs[1])
    BY <2>1
  <2>3. n = 1
    BY <1>5, <2>2
  <2> QED
    BY <2>2, <2>3
<1>11. x.sizes # <<>> => (n = 1 => jobs[n].purpose = "size")
  BY <1>4 DEF Ordered, Job
<1>12. jobs[n].purpose = "size" => x.sizes # <<>> /\ n = 1 /\ jobs[n] = Job("size", x.sizes[1])
  BY <1>4, <1>5 DEF Ordered
<1> QED
  BY <1>3, <1>6, <1>8, <1>9, <1>10, <1>11, <1>12 DEF InHand, x, n

NextPlace(d, p) == IF p[2] < Len(Jobs(d[p[1]])) THEN <<p[1], p[2] + 1>> ELSE <<p[1] + 1, 1>>

LEMMA NextStands ==
  ASSUME NEW d, Declared(d), NEW p, Standing(d, p), p[1] <= Len(d)
  PROVE  /\ Standing(d, NextPlace(d, p))
         /\ \A i \in DOMAIN d : Past(NextPlace(d, p), i) <=> Past(p, i) \/ i = p[1]
<1> DEFINE q == NextPlace(d, p)
           N == Len(d)
           P1 == p[1]
           P2 == p[2]
           L(i) == Len(Jobs(d[i]))
<1>1. IsList(d)
  BY DEF Declared
<1>2. N \in Nat /\ DOMAIN d = 1 .. N
  BY <1>1, ListFacts
<1>3. P1 \in 1 .. N
  BY <1>2 DEF Standing
<1>4. \A i \in 1 .. N : L(i) \in Nat /\ L(i) >= 1
  BY <1>2, JobsAre, ListFacts DEF Ordered
<1>5. P2 \in 1 .. L(P1)
  BY DEF Standing
<1>6. q = IF P2 < L(P1) THEN <<P1, P2 + 1>> ELSE <<P1 + 1, 1>>
  BY DEF NextPlace
<1> HIDE DEF q, N, P1, P2, L
<1>7. CASE P2 < L(P1)
  <2>1. q = <<P1, P2 + 1>> /\ q[1] = P1 /\ q[2] = P2 + 1
    BY <1>6, <1>7
  <2>2. P1 \in 1 .. N + 1 /\ P2 + 1 \in 1 .. L(P1) /\ P2 + 1 > 1
    BY <1>2, <1>3, <1>4, <1>5, <1>7
  <2>3. Standing(d, q)
    BY <2>1, <2>2 DEF Standing, N, L
  <2>4. \A i \in DOMAIN d : Past(q, i) <=> Past(p, i) \/ i = P1
    BY <1>2, <1>3, <2>1, <2>2 DEF Past, P1, P2
  <2> QED
    BY <2>3, <2>4 DEF q, P1
<1>8. CASE ~(P2 < L(P1))
  <2>1. q = <<P1 + 1, 1>> /\ q[1] = P1 + 1 /\ q[2] = 1
    BY <1>6, <1>8
  <2>2. P1 + 1 \in 1 .. N + 1 /\ (P1 + 1 <= N => P1 + 1 \in 1 .. N)
    BY <1>2, <1>3
  <2>3. P1 + 1 <= N => 1 \in 1 .. L(P1 + 1)
    BY <1>4, <2>2
  <2>4. Standing(d, q)
    BY <2>1, <2>2, <2>3 DEF Standing, N, L
  <2>5. \A i \in DOMAIN d : Past(q, i) <=> Past(p, i) \/ i = P1
    <3> TAKE i \in DOMAIN d
    <3>1. i \in Int /\ P1 \in Int
      BY <1>2, <1>3
    <3>2. Past(q, i) <=> i < P1 + 1
      BY <2>1, <3>1 DEF Past
    <3>3. Past(p, i) <=> i < P1 \/ (i = P1 /\ P2 > 1)
      BY DEF Past, P1, P2
    <3> QED
      BY <3>1, <3>2, <3>3
  <2> QED
    BY <2>4, <2>5 DEF q, P1
<1> QED
  BY <1>7, <1>8

-----------------------------------------------------------------------------
(***************************************************************************)
(* The state in the terms of the invariant.                                *)
(***************************************************************************)
LEMMA OuterIs == Current = JobAt(decls, place) /\ Outer = OuterOf(JobAt(decls, place))
  BY DEF Outer, Current, OuterOf, JobAt

LEMMA AfterIs == After = NextPlace(decls, place)
  BY DEF After, NextPlace

\* The top of the stack while an expression is evaluated.
AtTop(d, p, st, m) ==
  LET outer == OuterOf(JobAt(d, p))
      top == st[Len(st)]
      e == FrameExpr(d, outer, top)
  IN  /\ Stacked(d, outer, st, m)
      /\ Expression(outer) /\ Expression(e)
      /\ Gathered(d, e, top.got, m)
      /\ Pending(e, top.got) # <<>> => AwaitsIn(d, outer, top, Pending(e, top.got)[1])
      /\ Pending(e, top.got) = <<>> => EvalWith(e, top.got) = Mean(d, e, m)

LEMMA TopIs ==
  ASSUME FoldInv, stack # <<>>
  PROVE  /\ AtTop(decls, place, stack, MeaningIn(decls))
         /\ ExprOf(Top) = FrameExpr(decls, OuterOf(JobAt(decls, place)), Top)
         /\ InHand(decls, place)
<1> DEFINE d == decls
           outer == OuterOf(JobAt(decls, place))
           n == Len(stack)
           f == stack[n]
           m == MeaningIn(decls)
           e == FrameExpr(d, outer, f)
<1>1. place[1] <= Len(decls) /\ Stacked(d, outer, stack, m)
  BY DEF FoldInv, Busy
<1>2. InHand(decls, place)
  BY <1>1, JobInHand DEF FoldInv
<1>3. n \in 1 .. n /\ n \in Nat
  <2>1. IsList(stack)
    BY <1>1 DEF Stacked
  <2>2. n \in Nat /\ n # 0
    BY <2>1, ListFacts
  <2> HIDE DEF n
  <2> QED
    BY <2>2
<1>4. Frame(d, outer, f, m) /\ (IF n = 1 THEN Outermost(f) ELSE f.sym \in ScalarsOf(d))
  BY <1>1, <1>3 DEF Stacked
<1>5. Expression(e)
  <2>1. CASE Outermost(f)
    BY <1>2, <2>1 DEF FrameExpr, Outermost, InHand
  <2>2. CASE f.sym \in ScalarsOf(d)
    <3>1. f.sym # "" /\ Expression(InitIn(d, f.sym))
      BY <2>2, ScalarInit DEF FoldInv
    <3> QED
      BY <3>1 DEF FrameExpr
  <2> QED
    BY <1>4, <2>1, <2>2
<1>6. Gathered(d, e, f.got, m)
  BY <1>4 DEF Frame
<1> HIDE DEF e, m
<1>7. Pending(e, f.got) # <<>> => Awaits(e, f.got, Pending(e, f.got)[1])
  BY <1>5, <1>6, PendingIs
<1>8. Pending(e, f.got) = <<>> => EvalWith(e, f.got) = Mean(d, e, m)
  BY <1>5, <1>6, GatheredDone
<1>9. Expression(outer)
  BY <1>2 DEF InHand
<1>10. AtTop(decls, place, stack, MeaningIn(decls))
  BY <1>1, <1>5, <1>6, <1>7, <1>8, <1>9 DEF AtTop, AwaitsIn, e, m
<1>11. ExprOf(Top) = FrameExpr(decls, OuterOf(JobAt(decls, place)), Top)
  BY OuterIs, InitIs DEF ExprOf, FrameExpr
<1> QED
  BY <1>2, <1>10, <1>11

\* What is wanted is what the top awaits.
LEMMA OperandIs ==
  ASSUME FoldInv, Wanted
  PROVE  /\ AtTop(decls, place, stack, MeaningIn(decls)) /\ stack # <<>>
         /\ AwaitsIn(decls, OuterOf(JobAt(decls, place)), stack[Len(stack)], Operand)
<1>1. stack # <<>>
  BY DEF Wanted
<1>2. AtTop(decls, place, stack, MeaningIn(decls)) /\ ExprOf(Top) = FrameExpr(decls, OuterOf(JobAt(decls, place)), Top)
  BY <1>1, TopIs
<1>3. Pending(ExprOf(Top), Top.got) # <<>>
  BY DEF Wanted
<1> QED
  BY <1>1, <1>2, <1>3 DEF AtTop, Operand, Top

\* A step that only changes the stack.
LEMMA OnlyStack ==
  ASSUME FoldInv, UNCHANGED <<decls, place, values, folded, lengths>>,
         Busy(decls, place, stack', MeaningIn(decls))
  PROVE  FoldInv'
BY DEF FoldInv

LEMMA GiveOnTop ==
  ASSUME FoldInv, Wanted, NEW v, v = Look(decls, Operand, MeaningIn(decls)),
         stack' = Give(stack, v), UNCHANGED <<decls, place, values, folded, lengths>>
  PROVE  FoldInv'
<1> DEFINE outer == OuterOf(JobAt(decls, place))
           m == MeaningIn(decls)
<1>1. AtTop(decls, place, stack, m) /\ stack # <<>>
      /\ AwaitsIn(decls, outer, stack[Len(stack)], Operand)
  BY OperandIs
<1>2. Stacked(decls, outer, stack, m) /\ Expression(FrameExpr(decls, outer, stack[Len(stack)]))
  BY <1>1 DEF AtTop
<1> HIDE DEF m, outer
<1>3. Stacked(decls, outer, Give(stack, Look(decls, Operand, m)), m)
  BY <1>1, <1>2, GiveKeeps
<1>4. place[1] <= Len(decls)
  BY <1>1 DEF FoldInv, Busy
<1>5. Stacked(decls, outer, stack', m)
  BY <1>3 DEF m
<1>6. Busy(decls, place, stack', MeaningIn(decls))
  BY <1>4, <1>5 DEF Busy, outer, m
<1> QED
  BY <1>6, OnlyStack

LEMMA StartsFoldInv == FoldInit => FoldInv
<1> SUFFICES ASSUME FoldInit PROVE FoldInv
  OBVIOUS
<1>1. Declared(decls)
  BY DeclListsAssumption DEF FoldInit
<1>2. IsList(decls)
  BY <1>1 DEF Declared
<1>3. Len(decls) \in Nat /\ DOMAIN decls = 1 .. Len(decls)
  BY <1>2, ListFacts
<1>4. place = <<1, 1>> /\ place[1] = 1 /\ place[2] = 1
  BY DEF FoldInit
<1>5. Standing(decls, place)
  <2> DEFINE N == Len(decls)
  <2>1. 1 \in 1 .. N + 1 /\ (1 <= N => 1 \in 1 .. N)
    BY <1>3
  <2>2. 1 <= N => 1 \in 1 .. Len(Jobs(decls[1]))
    <3> SUFFICES ASSUME 1 <= N PROVE 1 \in 1 .. Len(Jobs(decls[1]))
      OBVIOUS
    <3> DEFINE l == Len(Jobs(decls[1]))
    <3>1. l \in Nat /\ l >= 1
      BY <1>1, <1>3, <2>1, JobsAre, ListFacts DEF Ordered
    <3> HIDE DEF l
    <3> QED
      BY <3>1 DEF l
  <2> QED
    BY <1>4, <2>1, <2>2 DEF Standing
<1>6. \A i \in DOMAIN decls : ~Past(place, i)
  <2> DEFINE N == Len(decls)
  <2>1. N \in Nat /\ DOMAIN decls = 1 .. N
    BY <1>3
  <2> HIDE DEF N
  <2> QED
    BY <1>4, <2>1 DEF Past
<1>7. stack = <<>> /\ DOMAIN values = {} /\ folded = [i \in DOMAIN decls |-> <<>>]
      /\ lengths = [s \in Symbols |-> 0]
  BY DEF FoldInit
<1>8. \A i \in DOMAIN decls : decls[i].sizes # <<>> => decls[i].sym \in Symbols
  BY <1>1 DEF Declared
<1>9. Busy(decls, place, stack, MeaningIn(decls)) /\ Remembered(decls, values, MeaningIn(decls))
  BY <1>7 DEF Busy, Remembered
<1>10. Stored(decls, place, folded, MeaningIn(decls))
  BY <1>6, <1>7 DEF Stored
<1>11. Measured(decls, place, lengths, MeaningIn(decls))
  BY <1>6, <1>7, <1>8 DEF Measured
<1> QED
  BY <1>1, <1>5, <1>9, <1>10, <1>11 DEF FoldInv

-----------------------------------------------------------------------------
(***************************************************************************)
(* Evaluating an expression.                                               *)
(***************************************************************************)
LEMMA EvaluateFoldInv == ASSUME FoldInv, Evaluate PROVE FoldInv'
<1>1. place[1] <= Len(decls) /\ stack' = <<Activation("")>> /\ UNCHANGED <<decls, place, values, folded, lengths>>
  BY DEF Evaluate, Folding
<1>2. Expression(OuterOf(JobAt(decls, place)))
  BY <1>1, JobInHand DEF FoldInv, InHand
<1> DEFINE m == MeaningIn(decls)
           outer == OuterOf(JobAt(decls, place))
<1> HIDE DEF m, outer
<1>3. Stacked(decls, outer, <<Activation("")>>, m)
  BY <1>2, StartKeeps DEF outer
<1>4. Busy(decls, place, stack', MeaningIn(decls))
  BY <1>1, <1>3 DEF Busy, m, outer
<1> QED
  BY <1>1, <1>4, OnlyStack

LEMMA AnswerFoldInv == ASSUME FoldInv, AnswerAtOnce PROVE FoldInv'
<1> DEFINE m == MeaningIn(decls)
<1>1. Wanted /\ UNCHANGED <<decls, place, values, folded, lengths>>
  BY DEF AnswerAtOnce
<1>2. Operand \notin Scalars \/ Operand \in DOMAIN values
  BY DEF AnswerAtOnce
<1>3. stack' = Give(stack, IF Operand \in DOMAIN values THEN values[Operand] ELSE Nullopt)
  BY DEF AnswerAtOnce
<1>4. (IF Operand \in DOMAIN values THEN values[Operand] ELSE Nullopt) = Look(decls, Operand, m)
  BY <1>2, ScalarsAre DEF FoldInv, Remembered, Look
<1> QED
  BY <1>1, <1>3, <1>4, GiveOnTop

LEMMA CycleFoldInv == ASSUME FoldInv, ReportCycle PROVE FoldInv'
<1> DEFINE m == MeaningIn(decls)
           outer == OuterOf(JobAt(decls, place))
<1>1. Wanted /\ UNCHANGED <<decls, place, values, folded, lengths>> /\ stack' = Give(stack, Nullopt)
  BY DEF ReportCycle
<1>2. Operand \in ScalarsOf(decls) /\ Operand \in {stack[i].sym : i \in DOMAIN stack}
  BY ScalarsAre DEF ReportCycle, Cyclic, InProgress
<1>3. AtTop(decls, place, stack, m) /\ stack # <<>>
      /\ AwaitsIn(decls, outer, stack[Len(stack)], Operand)
  BY <1>1, OperandIs
<1>4. Stacked(decls, outer, stack, m)
  BY <1>3 DEF AtTop
<1>5. DOMAIN stack = 1 .. Len(stack)
  BY <1>4, ListFacts DEF Stacked
<1>6. PICK i \in 1 .. Len(stack) : stack[i].sym = Operand
  BY <1>2, <1>5
<1>7. Declared(decls)
  BY DEF FoldInv
<1> HIDE DEF outer
<1>8. MeaningIn(decls)[Operand] = Nullopt
  BY <1>2, <1>3, <1>4, <1>6, <1>7, CycleMeansNothing
<1>9. Nullopt = Look(decls, Operand, MeaningIn(decls))
  BY <1>8, <1>2 DEF Look
<1> QED
  BY <1>1, <1>9, GiveOnTop

LEMMA EnterFoldInv == ASSUME FoldInv, EvalConstant PROVE FoldInv'
<1> DEFINE m == MeaningIn(decls)
           outer == OuterOf(JobAt(decls, place))
<1>1. Wanted /\ UNCHANGED <<decls, place, values, folded, lengths>> /\ stack' = Append(stack, Activation(Operand))
  BY DEF EvalConstant
<1>2. Operand \in ScalarsOf(decls)
  BY ScalarsAre DEF EvalConstant
<1>3. AtTop(decls, place, stack, m) /\ stack # <<>>
      /\ AwaitsIn(decls, outer, stack[Len(stack)], Operand)
  BY <1>1, OperandIs
<1>4. Stacked(decls, outer, stack, m) /\ place[1] <= Len(decls)
  BY <1>3 DEF AtTop, FoldInv, Busy
<1>5. Declared(decls)
  BY DEF FoldInv
<1> HIDE DEF m, outer
<1>6. Stacked(decls, outer, stack', m)
  BY <1>1, <1>2, <1>3, <1>4, <1>5, PushKeeps
<1>7. Busy(decls, place, stack', MeaningIn(decls))
  BY <1>4, <1>6 DEF Busy, m, outer
<1> QED
  BY <1>1, <1>7, OnlyStack

LEMMA LeaveFoldInv == ASSUME FoldInv, LeaveConstant PROVE FoldInv'
<1> DEFINE m == MeaningIn(decls)
           d == decls
           outer == OuterOf(JobAt(decls, place))
           s == Top.sym
           v == EvalWith(InitOf(s), Top.got)
           front == SubSeq(stack, 1, Len(stack) - 1)
<1>1. stack # <<>> /\ Pending(ExprOf(Top), Top.got) = <<>> /\ ~Outermost(Top)
      /\ UNCHANGED <<decls, place, folded, lengths>>
      /\ values' = Cache(s, v) /\ stack' = Give(front, v)
  BY DEF LeaveConstant, Wanted, Outermost, Callers
<1>2. /\ AtTop(decls, place, stack, m)
      /\ ExprOf(Top) = FrameExpr(decls, outer, Top)
      /\ Top = stack[Len(stack)]
  BY <1>1, TopIs DEF Top
<1>3. Stacked(decls, outer, stack, m) /\ place[1] <= Len(decls)
  BY <1>1, <1>2 DEF AtTop, FoldInv, Busy
<1>4. Declared(decls) /\ IsList(decls)
  BY DEF FoldInv, Declared
<1>5. /\ Stacked(d, outer, front, m) /\ front # <<>>
      /\ AwaitsIn(d, outer, front[Len(front)], s)
      /\ s \in ScalarsOf(d)
  <2> HIDE DEF m, outer
  <2>1. ~Outermost(stack[Len(stack)])
    BY <1>1, <1>2
  <2> QED
    BY <1>1, <1>2, <1>3, <2>1, PopKeeps
<1>6. v = m[s]
  <2>1. FrameExpr(d, outer, Top) = InitIn(d, s) /\ InitOf(s) = InitIn(d, s)
    BY <1>1, InitIs DEF FrameExpr, Outermost
  <2>2. EvalWith(InitIn(d, s), Top.got) = Mean(d, InitIn(d, s), m)
    BY <1>1, <1>2, <2>1 DEF AtTop
  <2>3. m[s] = Mean(d, InitIn(d, s), m)
    BY <1>4, <1>5, MeaningIsFixed
  <2> QED
    BY <2>1, <2>2, <2>3
<1>7. v = Look(d, s, m)
  BY <1>5, <1>6 DEF Look
<1>8. Expression(FrameExpr(d, outer, front[Len(front)]))
  <2> DEFINE f == front[Len(front)]
  <2>1. IsList(front)
    BY <1>5 DEF Stacked
  <2>2. Len(front) \in Nat /\ Len(front) # 0
    BY <1>5, <2>1, ListFacts
  <2>3. Len(front) \in 1 .. Len(front)
    <3> DEFINE l == Len(front)
    <3> HIDE DEF l
    <3>1. l \in 1 .. l
      BY <2>2 DEF l
    <3> QED
      BY <3>1 DEF l
  <2>4. IF Len(front) = 1 THEN Outermost(f) ELSE f.sym \in ScalarsOf(d)
    <3> HIDE DEF front, outer, m
    <3> QED
      BY <1>5, <2>3 DEF Stacked
  <2>5. CASE Outermost(f)
    BY <1>2, <2>5 DEF AtTop, FrameExpr, Outermost
  <2>6. CASE f.sym \in ScalarsOf(d)
    BY <1>4, <2>6, ScalarInit DEF FrameExpr
  <2> QED
    BY <2>4, <2>5, <2>6
<1> HIDE DEF m, outer, front
<1>9. Stacked(d, outer, Give(front, Look(d, s, m)), m)
  BY <1>5, <1>8, GiveKeeps
<1>10. Busy(decls, place, stack', m)
  BY <1>1, <1>3, <1>7, <1>9 DEF Busy, outer
<1>11. Remembered(decls, values, m)
  BY DEF FoldInv, m
<1>12. Remembered(decls, values', m)
  BY <1>1, <1>5, <1>6, <1>11 DEF Remembered, Cache, Bind
<1> QED
  BY <1>1, <1>10, <1>12 DEF FoldInv, m
-----------------------------------------------------------------------------
(***************************************************************************)
(* Ending a job.                                                           *)
(***************************************************************************)
\* A job that neither stores nor measures leaves both as they are.
LEMMA OnlyPlace ==
  ASSUME FoldInv, place[1] <= Len(decls), JobAt(decls, place).purpose = "index",
         place' = After, stack' = <<>>, UNCHANGED <<decls, values, folded, lengths>>
  PROVE  FoldInv'
<1>1. Declared(decls) /\ Standing(decls, place) /\ InHand(decls, place)
  BY JobInHand DEF FoldInv
<1>2. /\ Standing(decls, place')
      /\ \A i \in DOMAIN decls : Past(place', i) <=> Past(place, i) \/ i = place[1]
  BY <1>1, AfterIs, NextStands
<1>3. decls[place[1]].kind # "const"
  BY <1>1 DEF InHand, Job
<1>4. decls[place[1]].sizes # <<>> => Past(place, place[1])
  <2> SUFFICES ASSUME decls[place[1]].sizes # <<>> PROVE Past(place, place[1])
    OBVIOUS
  <2>1. place[2] \in Nat /\ place[2] >= 1 /\ place[2] # 1
    BY <1>1 DEF InHand
  <2>2. place[2] > 1
    BY <2>1
  <2> QED
    BY <2>2 DEF Past
<1>5. Stored(decls, place', folded, MeaningIn(decls))
  BY <1>2, <1>3 DEF FoldInv, Stored
<1>6. Measured(decls, place', lengths, MeaningIn(decls))
  BY <1>2, <1>4 DEF FoldInv, Measured
<1>7. Busy(decls, place', stack', MeaningIn(decls))
  BY DEF Busy
<1> QED
  BY <1>2, <1>5, <1>6, <1>7 DEF FoldInv

LEMMA SkipFoldInv == ASSUME FoldInv, SkipIndex PROVE FoldInv'
<1>1. place[1] <= Len(decls) /\ JobAt(decls, place).purpose = "index"
      /\ place' = After /\ stack' = <<>> /\ UNCHANGED <<decls, values, folded, lengths>>
  BY OuterIs DEF SkipIndex, Folding, Skipped
<1> QED
  BY <1>1, OnlyPlace

\* The answer is what the expression of the job means.
LEMMA EndMeans ==
  ASSUME FoldInv, NEW purpose, EndOf(purpose)
  PROVE  /\ Answer = Mean(decls, OuterOf(JobAt(decls, place)), MeaningIn(decls))
         /\ place[1] <= Len(decls) /\ JobAt(decls, place).purpose = purpose
         /\ place' = After /\ stack' = <<>> /\ UNCHANGED <<decls, values>>
<1>1. /\ stack # <<>> /\ ~Wanted /\ Top.sym = ""
      /\ place' = After /\ stack' = <<>> /\ UNCHANGED <<decls, values>>
      /\ Current.purpose = purpose
  BY DEF EndOf
<1> DEFINE m == MeaningIn(decls)
           outer == OuterOf(JobAt(decls, place))
<1>2. /\ AtTop(decls, place, stack, m)
      /\ ExprOf(Top) = FrameExpr(decls, outer, Top)
      /\ Top = stack[Len(stack)]
  BY <1>1, TopIs DEF Top
<1>3. FrameExpr(decls, outer, Top) = outer
  BY <1>1 DEF FrameExpr
<1>4. Pending(ExprOf(Top), Top.got) = <<>>
  BY <1>1 DEF Wanted
<1>5. EvalWith(outer, Top.got) = Mean(decls, outer, m)
  BY <1>2, <1>3, <1>4 DEF AtTop
<1>6. place[1] <= Len(decls)
  BY <1>1 DEF FoldInv, Busy
<1> QED
  BY <1>1, <1>5, <1>6, OuterIs DEF Answer

LEMMA CheckIndexFoldInv == ASSUME FoldInv, CheckIndex PROVE FoldInv'
<1>1. EndOf("index") /\ UNCHANGED <<folded, lengths>>
  BY DEF CheckIndex
<1>2. place[1] <= Len(decls) /\ JobAt(decls, place).purpose = "index"
      /\ place' = After /\ stack' = <<>> /\ UNCHANGED <<decls, values>>
  BY <1>1, EndMeans
<1> QED
  BY <1>1, <1>2, OnlyPlace

LEMMA StoreFoldInv == ASSUME FoldInv, StoreFolded PROVE FoldInv'
<1> DEFINE m == MeaningIn(decls)
           x == decls[place[1]]
<1>1. /\ EndOf("value") /\ UNCHANGED lengths
      /\ folded' = IF Known(Answer) THEN [folded EXCEPT ![place[1]] = Append(@, Answer)] ELSE folded
  BY DEF StoreFolded
<1>2. /\ Answer = Mean(decls, OuterOf(JobAt(decls, place)), m)
      /\ place[1] <= Len(decls) /\ JobAt(decls, place).purpose = "value"
      /\ place' = After /\ stack' = <<>> /\ UNCHANGED <<decls, values>>
  BY <1>1, EndMeans
<1>3. Declared(decls) /\ IsList(decls) /\ Standing(decls, place) /\ InHand(decls, place)
  BY <1>2, JobInHand DEF FoldInv, Declared
<1>4. /\ Standing(decls, place')
      /\ \A i \in DOMAIN decls : Past(place', i) <=> Past(place, i) \/ i = place[1]
  BY <1>2, <1>3, AfterIs, NextStands
<1>5. x.sizes # <<>> => Past(place, place[1])
  <2> SUFFICES ASSUME x.sizes # <<>> PROVE Past(place, place[1])
    OBVIOUS
  <2>1. place[2] \in Nat /\ place[2] >= 1 /\ place[2] # 1
    BY <1>2, <1>3 DEF InHand
  <2>2. place[2] > 1
    BY <2>1
  <2> QED
    BY <2>2 DEF Past
<1>6. x.kind = "const" => Answer = m[x.sym] /\ ~Past(place, place[1])
  <2> SUFFICES ASSUME x.kind = "const" PROVE Answer = m[x.sym] /\ ~Past(place, place[1])
    OBVIOUS
  <2>1. place[2] = 1 /\ JobAt(decls, place) = Job("value", x.exprs[1]) /\ place[1] \in DOMAIN decls
        /\ place[1] \in Nat
    BY <1>3 DEF InHand
  <2>2. OuterOf(JobAt(decls, place)) = x.exprs[1]
    BY <2>1 DEF OuterOf, Job
  <2>3. InitIn(decls, x.sym) = x.exprs[1] /\ x.sym \in ScalarsOf(decls)
    BY <1>3, <2>1, InitialiserOf
  <2>4. m[x.sym] = Mean(decls, x.exprs[1], m)
    BY <1>3, <2>3, MeaningIsFixed
  <2>5. ~Past(place, place[1])
    <3>1. \A n \in Nat : ~(n < n)
      OBVIOUS
    <3> QED
      BY <2>1, <3>1 DEF Past
  <2> QED
    BY <1>2, <2>2, <2>4, <2>5
<1>7. Stored(decls, place, folded, m)
  BY DEF FoldInv
<1> HIDE DEF m
<1>8. Stored(decls, place', folded', m)
  <2>1. DOMAIN folded' = DOMAIN decls
    BY <1>1, <1>7 DEF Stored
  <2>2. ASSUME NEW i \in DOMAIN decls, decls[i].kind = "const"
        PROVE  folded'[i] = IF Past(place', i) THEN FoldedTo(m[decls[i].sym]) ELSE <<>>
    <3>0. folded[i] = IF Past(place, i) THEN FoldedTo(m[decls[i].sym]) ELSE <<>>
      BY <1>7, <2>2 DEF Stored
    <3>1. CASE i = place[1]
      <4>1. folded[i] = <<>> /\ Past(place', i) /\ Answer = m[decls[i].sym]
        BY <1>4, <1>6, <2>2, <3>0, <3>1
      <4>2. CASE Known(Answer)
        <5>1. folded'[i] = Append(folded[i], Answer)
          BY <1>1, <1>7, <3>1, <4>2 DEF Stored
        <5>2. Append(<<>>, Answer) = <<Answer>>
          OBVIOUS
        <5>3. FoldedTo(m[decls[i].sym]) = <<Answer>>
          BY <4>1, <4>2 DEF FoldedTo
        <5> QED
          BY <4>1, <5>1, <5>2, <5>3
      <4>3. CASE ~Known(Answer)
        BY <1>1, <4>1, <4>3 DEF FoldedTo
      <4> QED
        BY <4>2, <4>3
    <3>2. CASE i # place[1]
      <4>1. folded'[i] = folded[i]
        BY <1>1, <1>7, <3>2 DEF Stored
      <4> QED
        BY <1>4, <3>0, <3>2, <4>1
    <3> QED
      BY <3>1, <3>2
  <2> QED
    BY <2>1, <2>2 DEF Stored
<1>9. Measured(decls, place', lengths, m)
  BY <1>4, <1>5 DEF FoldInv, Measured, m
<1>10. Busy(decls, place', stack', m)
  BY <1>2 DEF Busy
<1> QED
  BY <1>1, <1>2, <1>4, <1>8, <1>9, <1>10 DEF FoldInv, m

LEMMA SizeFoldInv == ASSUME FoldInv, FoldSize PROVE FoldInv'
<1> DEFINE m == MeaningIn(decls)
           x == decls[place[1]]
           s == x.sym
<1>1. /\ EndOf("size") /\ UNCHANGED folded
      /\ lengths' = IF IsLength(Answer) THEN [lengths EXCEPT ![s] = Answer.raw] ELSE lengths
  BY DEF FoldSize
<1>2. /\ Answer = Mean(decls, OuterOf(JobAt(decls, place)), m)
      /\ place[1] <= Len(decls) /\ JobAt(decls, place).purpose = "size"
      /\ place' = After /\ stack' = <<>> /\ UNCHANGED <<decls, values>>
  BY <1>1, EndMeans
<1>3. Declared(decls) /\ Standing(decls, place) /\ InHand(decls, place)
  BY <1>2, JobInHand DEF FoldInv
<1>4. /\ Standing(decls, place')
      /\ \A i \in DOMAIN decls : Past(place', i) <=> Past(place, i) \/ i = place[1]
  BY <1>2, <1>3, AfterIs, NextStands
<1>5. /\ place[1] \in DOMAIN decls /\ x.sizes # <<>> /\ place[2] = 1 /\ place[1] \in Nat
      /\ JobAt(decls, place) = Job("size", x.sizes[1])
  BY <1>2, <1>3 DEF InHand
<1>6. Answer = Mean(decls, x.sizes[1], m)
  BY <1>2, <1>5 DEF OuterOf, Job
<1>7. x.kind # "const"
  BY <1>3, <1>5 DEF Declared
<1>8. ~Past(place, place[1])
  <2>1. \A n \in Nat : ~(n < n)
    OBVIOUS
  <2> QED
    BY <1>5, <2>1 DEF Past
<1>9. Measured(decls, place, lengths, m)
  BY DEF FoldInv
<1>10. Stored(decls, place', folded, m)
  BY <1>4, <1>7 DEF FoldInv, Stored
<1> HIDE DEF m
<1>11. LengthFor(decls, place[1], m) = IF IsLength(Answer) THEN Answer.raw ELSE 0
  BY <1>6 DEF LengthFor
<1>12. lengths[s] = 0 /\ s \in DOMAIN lengths
  <2>1. lengths[s] = 0
    BY <1>5, <1>8, <1>9 DEF Measured
  <2>2. s \in Symbols
    BY <1>3, <1>5 DEF Declared
  <2> QED
    BY <1>9, <2>1, <2>2 DEF Measured
<1>13. Measured(decls, place', lengths', m)
  <2>1. DOMAIN lengths' = Symbols
    BY <1>1, <1>9 DEF Measured
  <2>2. ASSUME NEW i \in DOMAIN decls, decls[i].sizes # <<>>
        PROVE  lengths'[decls[i].sym] = IF Past(place', i) THEN LengthFor(decls, i, m) ELSE 0
    <3>1. CASE i = place[1]
      BY <1>1, <1>4, <1>5, <1>11, <1>12, <3>1
    <3>2. CASE i # place[1]
      <4>1. decls[i].sym # s
        <5>1. place[1] \in DOMAIN decls \ {i}
          BY <1>5, <3>2
        <5>2. decls[place[1]].sym = decls[i].sym => <<>> \in {decls[i].sizes, decls[place[1]].sizes}
          BY <1>3, <5>1 DEF Declared
        <5> QED
          BY <1>5, <2>2, <5>2
      <4>2. lengths'[decls[i].sym] = lengths[decls[i].sym]
        BY <1>1, <4>1
      <4>3. Past(place', i) <=> Past(place, i)
        BY <1>4, <3>2
      <4> QED
        BY <1>9, <2>2, <4>2, <4>3 DEF Measured
    <3> QED
      BY <3>1, <3>2
  <2> QED
    BY <2>1, <2>2 DEF Measured
<1>14. Busy(decls, place', stack', m)
  BY <1>2 DEF Busy
<1> QED
  BY <1>1, <1>2, <1>4, <1>10, <1>13, <1>14 DEF FoldInv, m

-----------------------------------------------------------------------------
LEMMA StepsFoldInv == FoldInv /\ [FoldNext]_foldVars => FoldInv'
<1> SUFFICES ASSUME FoldInv, [FoldNext]_foldVars PROVE FoldInv'
  OBVIOUS
<1>1. CASE SkipIndex
  BY <1>1, SkipFoldInv
<1>2. CASE Evaluate
  BY <1>2, EvaluateFoldInv
<1>3. CASE AnswerAtOnce
  BY <1>3, AnswerFoldInv
<1>4. CASE ReportCycle
  BY <1>4, CycleFoldInv
<1>5. CASE EvalConstant
  BY <1>5, EnterFoldInv
<1>6. CASE LeaveConstant
  BY <1>6, LeaveFoldInv
<1>7. CASE StoreFolded
  BY <1>7, StoreFoldInv
<1>8. CASE FoldSize
  BY <1>8, SizeFoldInv
<1>9. CASE CheckIndex
  BY <1>9, CheckIndexFoldInv
<1>10. CASE UNCHANGED foldVars
  BY <1>10 DEF foldVars, FoldInv
<1> QED
  BY <1>1, <1>2, <1>3, <1>4, <1>5, <1>6, <1>7, <1>8, <1>9, <1>10 DEF FoldNext

\* LengthOf(), of an array that has a size.
LEMMA SizeIsLength ==
  ASSUME Declared(decls), NEW i \in DOMAIN decls, decls[i].sizes # <<>>
  PROVE  LengthOf(decls[i].sym, MeaningIn(decls)) = LengthFor(decls, i, MeaningIn(decls))
<1> DEFINE m == MeaningIn(decls)
           known == {j \in Sized : decls[j].sym = decls[i].sym /\ IsLength(Size(j, m))}
<1> HIDE DEF m
<1>1. i \in Sized
  BY DEF Sized
<1>2. \A j \in Sized : decls[j].sym = decls[i].sym => j = i
  <2> SUFFICES ASSUME NEW j \in Sized, decls[j].sym = decls[i].sym, j # i PROVE FALSE
    OBVIOUS
  <2>1. j \in DOMAIN decls \ {i} /\ decls[j].sizes # <<>>
    BY DEF Sized
  <2>2. decls[j].sym = decls[i].sym => <<>> \in {decls[i].sizes, decls[j].sizes}
    BY <2>1 DEF Declared
  <2> QED
    BY <2>1, <2>2
<1>3. \A j : Size(j, m) = Mean(decls, decls[j].sizes[1], m)
  BY ComesIs DEF Size
<1>4. LengthOf(decls[i].sym, m) = IF known = {} THEN 0 ELSE Size(CHOOSE j \in known : TRUE, m).raw
  BY DEF LengthOf
<1>5. CASE IsLength(Size(i, m))
  <2>1. known = {i}
    BY <1>1, <1>2, <1>5
  <2> DEFINE chosen == CHOOSE j \in known : TRUE
  <2>2. chosen = i /\ known # {}
    BY <2>1
  <2>3. LengthOf(decls[i].sym, m) = Size(chosen, m).raw
    BY <1>4, <2>2
  <2> HIDE DEF known, chosen
  <2>4. LengthFor(decls, i, m) = Size(i, m).raw
    BY <1>3, <1>5 DEF LengthFor
  <2> QED
    BY <2>2, <2>3, <2>4 DEF m
<1>6. CASE ~IsLength(Size(i, m))
  <2>1. known = {}
    BY <1>2, <1>6
  <2> HIDE DEF known
  <2> QED
    BY <1>3, <1>4, <1>6, <2>1 DEF LengthFor, m
<1> QED
  BY <1>5, <1>6

LEMMA FoldInvFolds == FoldInv => FoldedAsMeant
<1> SUFFICES ASSUME FoldInv, Finished PROVE FoldedAsMeant
  BY DEF FoldedAsMeant
<1> DEFINE m == MeaningIn(decls)
           meaning == Meaning(AsFolded)
<1>1. Declared(decls) /\ IsList(decls)
  BY DEF FoldInv, Declared
<1>2. meaning = m
  BY <1>1, MeaningOfDeclarations
<1> HIDE DEF meaning, m
<1>3. Len(decls) \in Nat /\ DOMAIN decls = 1 .. Len(decls)
  BY <1>1, ListFacts
<1>4. \A i \in DOMAIN decls : Past(place, i)
  <2> DEFINE N == Len(decls)
             P1 == place[1]
  <2>1. P1 \in 1 .. N + 1 /\ ~(P1 <= N) /\ N \in Nat /\ DOMAIN decls = 1 .. N
    BY <1>3 DEF FoldInv, Standing, Finished, Folding
  <2> HIDE DEF N, P1
  <2>2. \A i \in 1 .. N : i < P1
    BY <2>1
  <2> QED
    BY <2>1, <2>2 DEF Past, P1
<1>5. \A i \in DOMAIN decls : decls[i].kind = "const" =>
        folded[i] = (IF Known(meaning[decls[i].sym]) THEN <<meaning[decls[i].sym]>> ELSE <<>>)
  BY <1>2, <1>4 DEF FoldInv, Stored, FoldedTo, m
<1>6. ASSUME NEW i \in Sized PROVE lengths[decls[i].sym] = LengthOf(decls[i].sym, meaning)
  <2>1. i \in DOMAIN decls /\ decls[i].sizes # <<>>
    BY <1>6 DEF Sized
  <2>2. lengths[decls[i].sym] = LengthFor(decls, i, m)
    BY <1>4, <2>1 DEF FoldInv, Measured, m
  <2> QED
    BY <1>1, <1>2, <2>1, <2>2, SizeIsLength DEF m
<1> QED
  BY <1>5, <1>6 DEF FoldedAsMeant, meaning

\* The invariant holds of every list of declarations: each activation of eval()
\* has gathered what its operands mean and awaits the constant of the next.
THEOREM FoldInvHolds == FoldSpec => []FoldInv
<1>1. FoldInit => FoldInv
  BY StartsFoldInv
<1>2. FoldInv /\ [FoldNext]_foldVars => FoldInv'
  BY StepsFoldInv
<1> QED
  BY <1>1, <1>2, PTL DEF FoldSpec

\* FoldedAsMeant, of every list of declarations: the order they stand in, the
\* values remembered between them and the failures on the way make no
\* difference to what evaluateConst() and validateArray() store.
THEOREM EveryConstantFolds == FoldSpec => []FoldedAsMeant
<1>1. FoldInv => FoldedAsMeant
  BY FoldInvFolds
<1> QED
  BY <1>1, FoldInvHolds, PTL

-----------------------------------------------------------------------------
(***************************************************************************)
(* Which constants an initialiser goes on to look at, and which it comes   *)
(* to in the end.                                                          *)
(***************************************************************************)
FollowsOf(d, e, m) ==
  ScalarsOf(d) \cap
    CASE e.op \in {"lit", "index"} -> {}
      [] e.op = "?:" ->
           IF e.args[1] \in ScalarsOf(d) /\ Known(m[e.args[1]])
           THEN {e.args[1], IF m[e.args[1]].raw # 0 THEN e.args[2] ELSE e.args[3]}
           ELSE {e.args[1]}
      [] OTHER -> Reads(e)

FollowsIn(d, s) == FollowsOf(d, InitIn(d, s), MeaningIn(d))

Further(d, S) == S \cup UNION {FollowsIn(d, t) : t \in S}

WithinTo(d, s, w, N) ==
  w = [n \in 0 .. N |-> IF n = 0 THEN FollowsIn(d, s) ELSE Further(d, w[n - 1])]

OnCycle(d, s) == s \in ScalarsOf(d) /\ \E w : WithinTo(d, s, w, Len(d)) /\ s \in w[Len(d)]

LEMMA WithinUpTo == ASSUME NEW d, NEW s, NEW N \in Nat PROVE \E w : WithinTo(d, s, w, N)
<1> DEFINE T == {m \in Nat : ~ \E w : WithinTo(d, s, w, m)}
           none == FollowsIn(d, s)
<1>1. ASSUME NEW m \in Nat, ~ \E w : WithinTo(d, s, w, m),
             \A y \in T : m <= y
      PROVE  FALSE
  <2>1. CASE m = 0
    <3> DEFINE f == [n \in 0 .. 0 |-> none]
    <3>1. f = [n \in 0 .. 0 |-> IF n = 0 THEN none ELSE Further(d, f[n - 1])]
      OBVIOUS
    <3>2. WithinTo(d, s, f, 0)
      BY <3>1 DEF WithinTo
    <3> QED
      BY <1>1, <2>1, <3>2
  <2>2. CASE m # 0
    <3>1. m - 1 \in Nat /\ ~(m <= m - 1)
      BY <2>2
    <3>2. PICK g : WithinTo(d, s, g, m - 1)
      BY <1>1, <3>1
    <3>3. g = [n \in 0 .. m - 1 |-> IF n = 0 THEN none ELSE Further(d, g[n - 1])]
      BY <3>2 DEF WithinTo
    <3> DEFINE f == [n \in 0 .. m |-> IF n = m THEN Further(d, g[m - 1]) ELSE g[n]]
    <3> HIDE DEF none
    <3>4. \A n \in 0 .. m - 1 : f[n] = g[n]
      BY <1>1
    <3>5. ASSUME NEW n \in 0 .. m PROVE f[n] = IF n = 0 THEN none ELSE Further(d, f[n - 1])
      <4>1. CASE n = m
        BY <2>2, <3>1, <3>4, <4>1
      <4>2. CASE n # m
        <5>1. n \in 0 .. m - 1 /\ (n # 0 => n - 1 \in 0 .. m - 1)
          BY <4>2
        <5>2. f[n] = IF n = 0 THEN none ELSE Further(d, g[n - 1])
          BY <3>3, <3>4, <5>1
        <5> QED
          BY <3>4, <5>1, <5>2
      <4> QED
        BY <4>1, <4>2
    <3>6. f = [n \in 0 .. m |-> f[n]]
      OBVIOUS
    <3> HIDE DEF f
    <3>7. f = [n \in 0 .. m |-> IF n = 0 THEN none ELSE Further(d, f[n - 1])]
      BY <3>5, <3>6
    <3>8. WithinTo(d, s, f, m)
      BY <3>7 DEF WithinTo, none
    <3> QED
      BY <1>1, <3>8
  <2> QED
    BY <2>1, <2>2
<1>2. T # {} => FALSE
  <2> SUFFICES ASSUME T # {} PROVE FALSE
    OBVIOUS
  <2>1. PICK m \in T : \A y \in T : m <= y
    BY LeastNumber
  <2> QED
    BY <1>1, <2>1
<1> QED
  BY <1>2

Nesting(d, s, w, N) ==
  /\ w[0] = FollowsIn(d, s)
  /\ \A n \in 1 .. N : w[n] = Further(d, w[n - 1])

LEMMA WithinIs ==
  ASSUME NEW d, NEW s, NEW w, NEW N \in Nat, WithinTo(d, s, w, N)
  PROVE  Nesting(d, s, w, N)
<1>1. \A n \in 0 .. N : w[n] = IF n = 0 THEN FollowsIn(d, s) ELSE Further(d, w[n - 1])
  BY DEF WithinTo
<1>2. 0 \in 0 .. N /\ \A n \in 1 .. N : n \in 0 .. N /\ n # 0
  OBVIOUS
<1> QED
  BY <1>1, <1>2 DEF Nesting

LEMMA OneWithin ==
  ASSUME NEW d, NEW s, NEW N \in Nat, NEW w, WithinTo(d, s, w, N), NEW v, WithinTo(d, s, v, N)
  PROVE  w[N] = v[N]
<1> DEFINE T == {n \in 0 .. N : w[n] # v[n]}
<1>1. Nesting(d, s, w, N)
  BY WithinIs
<1>2. Nesting(d, s, v, N)
  BY WithinIs
<1>5. T # {} => FALSE
  <2> SUFFICES ASSUME T # {} PROVE FALSE
    OBVIOUS
  <2>1. T \subseteq Nat
    OBVIOUS
  <2>2. PICK n \in T : \A y \in T : n <= y
    BY <2>1, LeastNumber
  <2>3. n \in 0 .. N /\ w[n] # v[n]
    BY <2>2
  <2>4. n # 0
    BY <1>1, <1>2, <2>3 DEF Nesting
  <2>5. n \in 1 .. N /\ n - 1 \in 0 .. N /\ ~(n <= n - 1)
    BY <2>3, <2>4
  <2>6. w[n - 1] = v[n - 1]
    BY <2>2, <2>5
  <2>7. w[n] = Further(d, w[n - 1]) /\ v[n] = Further(d, v[n - 1])
    BY <1>1, <1>2, <2>5 DEF Nesting
  <2> QED
    BY <2>3, <2>6, <2>7
<1> QED
  BY <1>5

\* Reached(), read off the declarations.
LEMMA ReachedIs ==
  ASSUME IsList(decls), NEW s \in Scalars
  PROVE  s \in Reached(s, MeaningIn(decls)) <=> OnCycle(decls, s)
<1> DEFINE m == MeaningIn(decls)
           P(w) == w = [n \in 0 .. Len(decls) |->
                          IF n = 0 THEN Follows(s, m)
                          ELSE w[n - 1] \cup UNION {Follows(t, m) : t \in w[n - 1]}]
           within == CHOOSE w : P(w)
<1>1. Reached(s, m) = within[Len(decls)]
  BY DEF Reached
<1>2. \A t : Follows(t, m) = FollowsIn(decls, t)
  BY ScalarsAre, InitIs DEF Follows, FollowsIn, FollowsOf
<1>3. \A S : S \cup UNION {Follows(t, m) : t \in S} = Further(decls, S)
  BY <1>2 DEF Further
<1>4. \A w : P(w) <=> WithinTo(decls, s, w, Len(decls))
  BY <1>2, <1>3 DEF WithinTo
<1> HIDE DEF P
<1>5. Len(decls) \in Nat
  BY ListFacts
<1>6. \E w : P(w)
  BY <1>4, <1>5, WithinUpTo
<1>7. WithinTo(decls, s, within, Len(decls))
  BY <1>4, <1>6
<1>8. s \in ScalarsOf(decls)
  BY ScalarsAre
<1> HIDE DEF within, m
<1>9. ASSUME OnCycle(decls, s) PROVE s \in within[Len(decls)]
  <2>1. PICK w : WithinTo(decls, s, w, Len(decls)) /\ s \in w[Len(decls)]
    BY <1>9 DEF OnCycle
  <2>2. w[Len(decls)] = within[Len(decls)]
    BY <1>5, <1>7, <2>1, OneWithin
  <2> QED
    BY <2>1, <2>2
<1>10. s \in within[Len(decls)] => OnCycle(decls, s)
  BY <1>7, <1>8 DEF OnCycle
<1> QED
  BY <1>1, <1>9, <1>10 DEF m

-----------------------------------------------------------------------------
(***************************************************************************)
(* Trails of constants without a value, each followed by the next.         *)
(***************************************************************************)
Unknown(d) == {s \in ScalarsOf(d) : ~Known(MeaningIn(d)[s])}

Trail(d, q, n, A) ==
  /\ \A i \in 1 .. n : q[i] \in Unknown(d) /\ q[i] \notin A
  /\ \A i \in 1 .. n : \A j \in 1 .. n : q[i] = q[j] => i = j
  /\ \A i \in 1 .. n : i < n => q[i + 1] \in FollowsIn(d, q[i])

\* What was known of a constant, was known of all it looks at one iterate before.
LEMMA FollowedBefore ==
  ASSUME NEW d, IsList(d), NEW c, Iterates(d, c), c[Len(d)] = MeaningIn(d),
         NEW s \in ScalarsOf(d), NEW x \in FollowsIn(d, s),
         NEW n \in 1 .. Len(d), Known(c[n][s])
  PROVE  Known(c[n - 1][x])
<1> DEFINE N == Len(d)
           e == InitIn(d, s)
           less == c[n - 1]
           m == MeaningIn(d)
<1>1. N \in Nat /\ n - 1 \in 0 .. N /\ N \in n - 1 .. N
  BY ListFacts
<1>2. IteratesTo(d, c, N) /\ c[N] = m
  BY DEF Iterates
<1> HIDE DEF N, m
<1>3. Learns(d, less, m)
  BY <1>1, <1>2, IteratesGrow
<1>4. Iterating(d, c, N)
  BY <1>1, <1>2, IterateIs
<1>5. c[n] = Refolded(d, less)
  BY <1>4 DEF Iterating, N
<1>6. Known(Mean(d, e, less))
  BY <1>5 DEF Refolded
<1>7. x \in FollowsOf(d, e, m) /\ x \in ScalarsOf(d)
  BY DEF FollowsIn, FollowsOf, m
<1>8. ~Known(Nullopt)
  BY DEF Known
<1> HIDE DEF e, less
<1>9. Known(Look(d, x, less)) => Known(less[x])
  BY <1>8 DEF Look
<1>10. \A y : Known(Look(d, y, less)) => y \in ScalarsOf(d) /\ m[y] = Look(d, y, less)
  BY <1>3, <1>8 DEF Learns, Look
<1>11. CASE e.op = "?:"
  <2>1. Known(Look(d, e.args[1], less)) /\ Known(Look(d, Chosen(e, Look(d, e.args[1], less)), less))
    BY <1>6, <1>8, <1>11 DEF Mean
  <2>2. e.args[1] \in ScalarsOf(d) /\ m[e.args[1]] = Look(d, e.args[1], less)
    BY <1>10, <2>1
  <2>3. x \in {e.args[1], Chosen(e, m[e.args[1]])}
    BY <1>7, <1>11, <2>1, <2>2 DEF FollowsOf, Chosen
  <2> QED
    BY <1>9, <2>1, <2>2, <2>3 DEF less
<1>12. CASE e.op \notin {"lit", "index", "?:"}
  <2> DEFINE f == [i \in DOMAIN e.args |-> Look(d, e.args[i], less)]
  <2>2. Mean(d, e, less) = EvalWith(e, f)
    BY <1>12 DEF Mean
  <2>3. ~ \E i \in DOMAIN f : ~Known(f[i])
    <3> SUFFICES ASSUME \E i \in DOMAIN f : ~Known(f[i]) PROVE FALSE
      OBVIOUS
    <3>1. EvalWith(e, f) = Nullopt
      BY <1>12 DEF EvalWith
    <3> QED
      BY <1>6, <1>8, <2>2, <3>1
  <2>4. \E i \in DOMAIN e.args : x = e.args[i]
    BY <1>7, <1>12 DEF FollowsOf, Reads
  <2> QED
    BY <1>9, <2>3, <2>4 DEF less
<1>13. CASE e.op \in {"lit", "index"}
  BY <1>7, <1>13 DEF FollowsOf
<1> QED
  BY <1>11, <1>12, <1>13

\* Constants each of which looks at another of them have no value.
LEMMA ClosedIsUnknown ==
  ASSUME NEW d, IsList(d), NEW S \in SUBSET ScalarsOf(d),
         \A s \in S : \E x \in S : x \in FollowsIn(d, s)
  PROVE  S \subseteq Unknown(d)
<1> DEFINE N == Len(d)
<1>1. N \in Nat
  BY ListFacts
<1>2. PICK c : Iterates(d, c) /\ MeaningIn(d) = c[N]
  BY IteratesAre
<1>3. IteratesTo(d, c, N)
  BY <1>2 DEF Iterates
<1> HIDE DEF N
<1>4. Iterating(d, c, N)
  BY <1>1, <1>3, IterateIs
<1> DEFINE T == {n \in 0 .. N : \E s \in S : Known(c[n][s])}
<1>5. T # {} => FALSE
  <2> SUFFICES ASSUME T # {} PROVE FALSE
    OBVIOUS
  <2>1. T \subseteq Nat
    BY <1>1
  <2>2. PICK n \in T : \A y \in T : n <= y
    BY <2>1, LeastNumber
  <2>3. n \in 0 .. N
    BY <2>2
  <2>4. PICK s \in S : Known(c[n][s])
    BY <2>2
  <2>5. n # 0
    BY <1>4, <2>4 DEF Iterating, Known
  <2>6. n \in 1 .. N /\ n - 1 \in 0 .. N /\ ~(n <= n - 1)
    BY <1>1, <2>3, <2>5
  <2>7. PICK x \in S : x \in FollowsIn(d, s)
    BY <2>4
  <2>8. Known(c[n - 1][x])
    BY <1>2, <2>4, <2>6, <2>7, FollowedBefore DEF N
  <2>9. n - 1 \in T
    BY <2>6, <2>8
  <2> QED
    BY <2>2, <2>6, <2>9
<1>6. N \in 0 .. N
  BY <1>1
<1>7. \A s \in S : ~Known(c[N][s])
  BY <1>5, <1>6
<1> QED
  BY <1>2, <1>7 DEF Unknown

\* The shortest way back, level by level.
Level(d, s, w, p, n) ==
  /\ p[0] \in FollowsIn(d, s)
  /\ \A i \in 0 .. n : p[i] \in w[i]
  /\ \A i \in 0 .. n : \A j \in 0 .. n : j < i => p[i] \notin w[j]
  /\ \A i \in 0 .. n : i < n => p[i + 1] \in FollowsIn(d, p[i])

LEMMA Levels ==
  ASSUME NEW d, NEW s, NEW N \in Nat, NEW w, WithinTo(d, s, w, N),
         NEW n \in 0 .. N, NEW x \in w[n], \A j \in 0 .. N : j < n => x \notin w[j]
  PROVE  \E p : Level(d, s, w, p, n) /\ p[n] = x
<1> DEFINE New(y, j) == y \in w[j] /\ \A l \in 0 .. N : l < j => y \notin w[l]
           Led(y, j) == \E p : Level(d, s, w, p, j) /\ p[j] = y
           T == {j \in 0 .. N : \E y : New(y, j) /\ ~Led(y, j)}
<1>1. Nesting(d, s, w, N)
  BY WithinIs
<1>2. T # {} => FALSE
  <2> SUFFICES ASSUME T # {} PROVE FALSE
    OBVIOUS
  <2>1. T \subseteq Nat
    OBVIOUS
  <2>2. PICK k1 \in T : \A y \in T : k1 <= y
    BY <2>1, LeastNumber
  <2>3. k1 \in 0 .. N
    BY <2>2
  <2>4. PICK y : New(y, k1) /\ ~Led(y, k1)
    BY <2>2
  <2>5. CASE k1 = 0
    <3> DEFINE p == [i \in 0 .. 0 |-> y]
    <3>1. p[0] = y /\ y \in w[0] /\ w[0] = FollowsIn(d, s)
      BY <1>1, <2>4, <2>5 DEF Nesting
    <3>2. \A i \in 0 .. 0 : i = 0 /\ ~(i < 0)
      OBVIOUS
    <3> HIDE DEF p
    <3>3. Level(d, s, w, p, 0)
      BY <3>1, <3>2 DEF Level
    <3> QED
      BY <2>4, <2>5, <3>1, <3>3
  <2>6. CASE k1 # 0
    <3>1. k1 \in 1 .. N /\ k1 - 1 \in 0 .. N /\ k1 - 1 < k1 /\ ~(k1 <= k1 - 1) /\ k1 \in Nat /\ (k1 - 1) + 1 = k1
      BY <2>3, <2>6
    <3>2. w[k1] = Further(d, w[k1 - 1]) /\ y \notin w[k1 - 1] /\ y \in w[k1]
      BY <1>1, <2>4, <3>1 DEF Nesting
    <3>3. PICK u \in w[k1 - 1] : y \in FollowsIn(d, u)
      BY <3>2 DEF Further
    <3>4. ASSUME NEW l \in 0 .. N, l < k1 - 1, u \in w[l] PROVE FALSE
      <4>1. l + 1 \in 1 .. N /\ l + 1 \in 0 .. N /\ l + 1 < k1 /\ (l + 1) - 1 = l
        BY <3>1, <3>4
      <4>2. w[l + 1] = Further(d, w[l])
        BY <1>1, <4>1 DEF Nesting
      <4>3. y \in w[l + 1]
        BY <3>3, <3>4, <4>2 DEF Further
      <4> QED
        BY <2>4, <4>1, <4>3
    <3>5. New(u, k1 - 1)
      BY <3>3, <3>4
    <3>6. Led(u, k1 - 1)
      BY <2>2, <3>1, <3>5
    <3>7. PICK g : Level(d, s, w, g, k1 - 1) /\ g[k1 - 1] = u
      BY <3>6
    <3> DEFINE p == [i \in 0 .. k1 |-> IF i = k1 THEN y ELSE g[i]]
    <3>8. /\ p[k1] = y
          /\ \A i \in 0 .. k1 : i # k1 => i \in 0 .. k1 - 1 /\ p[i] = g[i]
          /\ 0 \in 0 .. k1 /\ 0 # k1
      BY <3>1
    <3>9. New(y, k1)
      BY <2>4
    <3> HIDE DEF p, New
    <3>10. p[0] \in FollowsIn(d, s)
      BY <3>7, <3>8 DEF Level
    <3>11. ASSUME NEW i \in 0 .. k1 PROVE p[i] \in w[i]
      <4>1. CASE i = k1
        BY <3>8, <3>9, <4>1 DEF New
      <4>2. CASE i # k1
        BY <3>7, <3>8, <4>2 DEF Level
      <4> QED
        BY <4>1, <4>2
    <3>12. ASSUME NEW i \in 0 .. k1, NEW j \in 0 .. k1, j < i PROVE p[i] \notin w[j]
      <4>0. j \in 0 .. N
        BY <2>3, <3>12
      <4>1. CASE i = k1
        BY <3>8, <3>9, <3>12, <4>0, <4>1 DEF New
      <4>2. CASE i # k1
        <5>1. i \in 0 .. k1 - 1 /\ j \in 0 .. k1 - 1
          BY <3>1, <3>12, <4>2
        <5>2. p[i] = g[i]
          BY <3>8, <4>2
        <5> QED
          BY <3>7, <3>12, <5>1, <5>2 DEF Level
      <4> QED
        BY <4>1, <4>2
    <3>13. ASSUME NEW i \in 0 .. k1, i < k1 PROVE p[i + 1] \in FollowsIn(d, p[i])
      <4>1. CASE i = k1 - 1
        <5>1. p[i] = u /\ p[i + 1] = y
          BY <3>1, <3>7, <3>8, <4>1
        <5> QED
          BY <3>3, <5>1
      <4>2. CASE i # k1 - 1
        <5>1. i \in 0 .. k1 - 1 /\ i < k1 - 1 /\ i + 1 \in 0 .. k1 /\ i + 1 # k1 /\ i # k1
          BY <3>1, <3>13, <4>2
        <5>2. p[i] = g[i] /\ p[i + 1] = g[i + 1]
          BY <3>8, <5>1
        <5> QED
          BY <3>7, <5>1, <5>2 DEF Level
      <4> QED
        BY <4>1, <4>2
    <3>14. Level(d, s, w, p, k1)
      BY <3>10, <3>11, <3>12, <3>13 DEF Level
    <3> QED
      BY <2>4, <3>8, <3>14
  <2> QED
    BY <2>5, <2>6
<1>3. New(x, n)
  OBVIOUS
<1>4. Led(x, n)
  BY <1>2, <1>3
<1> QED
  BY <1>4

\* A constant on a cycle is at the start of a trail that leads back to it.
LEMMA CycleHasTrail ==
  ASSUME NEW d, Declared(d), NEW s, OnCycle(d, s)
  PROVE  \E n \in Nat \ {0} : \E q : /\ Trail(d, q, n, {""}) /\ q[1] = s
                                     /\ s \in FollowsIn(d, q[n])
<1> DEFINE N == Len(d)
<1>1. IsList(d) /\ N \in Nat
  BY ListFacts DEF Declared
<1>2. PICK w : WithinTo(d, s, w, N) /\ s \in w[N]
  BY DEF OnCycle
<1> HIDE DEF N
<1> DEFINE T == {j \in 0 .. N : s \in w[j]}
<1>3. T \subseteq Nat /\ N \in T
  BY <1>1, <1>2
<1>4. PICK n \in T : \A y \in T : n <= y
  BY <1>3, LeastNumber
<1>5. n \in 0 .. N /\ s \in w[n] /\ \A j \in 0 .. N : j < n => s \notin w[j]
  <2>1. ASSUME NEW j \in 0 .. N, j < n, s \in w[j] PROVE FALSE
    <3>1. n <= j
      BY <1>4, <2>1
    <3>2. n \in Int /\ j \in Int
      BY <1>3, <1>4
    <3> QED
      BY <2>1, <3>1, <3>2
  <2> QED
    BY <1>4, <2>1
<1> HIDE DEF T
<1>6. PICK p : Level(d, s, w, p, n) /\ p[n] = s
  BY <1>1, <1>2, <1>5, Levels
<1>7. \A y, u : u \in FollowsIn(d, y) => u \in ScalarsOf(d)
  BY DEF FollowsIn, FollowsOf
<1>8. n \in Nat
  BY <1>5
<1> DEFINE q == [i \in 1 .. n + 1 |-> IF i = 1 THEN s ELSE p[i - 2]]
           S == {q[i] : i \in 1 .. n + 1}
<1>9. /\ q[1] = s
      /\ \A i \in 1 .. n + 1 : i # 1 => q[i] = p[i - 2] /\ i - 2 \in 0 .. n /\ i - 2 < n
  BY <1>8
<1> HIDE DEF q
<1>10. ASSUME NEW i \in 1 .. n + 1, i < n + 1 PROVE q[i + 1] \in FollowsIn(d, q[i])
  <2>1. i + 1 \in 1 .. n + 1 /\ i + 1 # 1 /\ (i + 1) - 2 = i - 1
    BY <1>8, <1>10
  <2>2. q[i + 1] = p[i - 1]
    BY <1>9, <2>1
  <2>3. CASE i = 1
    BY <1>6, <1>9, <2>2, <2>3 DEF Level
  <2>4. CASE i # 1
    <3>1. q[i] = p[i - 2] /\ i - 2 \in 0 .. n /\ i - 2 < n /\ (i - 2) + 1 = i - 1
      BY <1>8, <1>9, <2>4
    <3>2. p[i - 1] \in FollowsIn(d, p[i - 2])
      BY <1>6, <3>1 DEF Level
    <3> QED
      BY <2>2, <3>1, <3>2
  <2> QED
    BY <2>3, <2>4
<1>11. s \in FollowsIn(d, q[n + 1])
  <2>1. CASE n = 0
    BY <1>6, <1>9, <2>1 DEF Level
  <2>2. CASE n # 0
    <3>1. /\ n + 1 \in 1 .. n + 1 /\ n + 1 # 1 /\ (n + 1) - 2 = n - 1
          /\ n - 1 \in 0 .. n /\ n - 1 < n /\ (n - 1) + 1 = n
      BY <1>8, <2>2
    <3>2. q[n + 1] = p[n - 1]
      BY <1>9, <3>1
    <3>3. p[n] \in FollowsIn(d, p[n - 1])
      BY <1>6, <3>1 DEF Level
    <3> QED
      BY <1>6, <3>2, <3>3
  <2> QED
    BY <2>1, <2>2
<1>12. ASSUME NEW i \in 1 .. n + 1, NEW j \in 1 .. n + 1, i < j PROVE q[i] # q[j]
  <2>1. j # 1 /\ q[j] = p[j - 2] /\ j - 2 \in 0 .. n /\ j - 2 < n
    BY <1>8, <1>9, <1>12
  <2>2. CASE i = 1
    <3>1. p[j - 2] \in w[j - 2]
      BY <1>6, <2>1 DEF Level
    <3>2. j - 2 \in 0 .. N
      BY <1>1, <1>5, <1>8, <2>1
    <3> QED
      BY <1>5, <1>9, <2>1, <2>2, <3>1, <3>2
  <2>3. CASE i # 1
    <3>1. q[i] = p[i - 2] /\ i - 2 \in 0 .. n /\ i - 2 < j - 2
      BY <1>8, <1>9, <1>12, <2>3
    <3>2. p[i - 2] \in w[i - 2] /\ p[j - 2] \notin w[i - 2]
      BY <1>6, <2>1, <3>1 DEF Level
    <3> QED
      BY <2>1, <3>1, <3>2
  <2> QED
    BY <2>2, <2>3
<1>13. S \in SUBSET ScalarsOf(d)
  <2> SUFFICES ASSUME NEW i \in 1 .. n + 1 PROVE q[i] \in ScalarsOf(d)
    OBVIOUS
  <2>1. CASE i = 1
    BY <1>9, <2>1 DEF OnCycle
  <2>2. CASE i # 1
    <3>1. i - 1 \in 1 .. n + 1 /\ i - 1 < n + 1 /\ (i - 1) + 1 = i
      BY <1>8, <2>2
    <3> QED
      BY <1>7, <1>10, <3>1
  <2> QED
    BY <2>1, <2>2
<1>14. \A y \in S : \E x \in S : x \in FollowsIn(d, y)
  <2> SUFFICES ASSUME NEW i \in 1 .. n + 1 PROVE \E x \in S : x \in FollowsIn(d, q[i])
    OBVIOUS
  <2>1. CASE i = n + 1
    <3>1. s \in S
      BY <1>8, <1>9
    <3> QED
      BY <1>11, <2>1, <3>1
  <2>2. CASE i # n + 1
    <3>1. i < n + 1 /\ i + 1 \in 1 .. n + 1
      BY <1>8, <2>2
    <3>2. q[i + 1] \in S
      BY <3>1
    <3> QED
      BY <1>10, <3>1, <3>2
  <2> QED
    BY <2>1, <2>2
<1>15. S \subseteq Unknown(d)
  <2> HIDE DEF S
  <2> QED
    BY <1>1, <1>13, <1>14, ClosedIsUnknown
<1>16. \A i \in 1 .. n + 1 : q[i] \in Unknown(d) /\ q[i] \notin {""}
  <2>1. "" \notin Unknown(d)
    BY ScalarInit DEF Unknown
  <2> QED
    BY <1>15, <2>1
<1>17. \A i \in 1 .. n + 1 : \A j \in 1 .. n + 1 : q[i] = q[j] => i = j
  <2> SUFFICES ASSUME NEW i \in 1 .. n + 1, NEW j \in 1 .. n + 1, q[i] = q[j], i # j PROVE FALSE
    OBVIOUS
  <2>1. i < j \/ j < i
    BY <1>8
  <2> QED
    BY <1>12, <2>1
<1>18. Trail(d, q, n + 1, {""})
  BY <1>10, <1>16, <1>17 DEF Trail
<1>19. n + 1 \in Nat \ {0}
  BY <1>8
<1> QED
  BY <1>9, <1>11, <1>18, <1>19

-----------------------------------------------------------------------------
(***************************************************************************)
(* The values constants have are values: bits of a width, or nothing.      *)
(***************************************************************************)
ProperOrNone(v) == v = Nullopt \/ Proper(v)

ProperValues(d, m) == \A t \in ScalarsOf(d) : ProperOrNone(m[t])

LEMMA BitsAreProper == ASSUME NEW v \in AllBits PROVE Proper(v)
<1> DEFINE K == 2^Kept(v.width)
<1>1. /\ v.width \in Nat \ {0} /\ v.isSigned \in BOOLEAN /\ v.raw \in Nat
      /\ v.raw < 2^Smaller(v.width, HostWidth)
  BY DEF AllBits
<1>2. K \in Nat
  BY <1>1, KeptWidth, PowerOfTwo
<1>3. v.raw < K
  BY <1>1 DEF Kept
<1> HIDE DEF K
<1>4. v.raw \in 0 .. K - 1
  BY <1>1, <1>2, <1>3
<1> QED
  BY <1>1, <1>4 DEF Proper, K

LEMMA AppliedIsProper ==
  ASSUME NEW op \in BinaryOps, NEW l, NEW r, Proper(l), Proper(r), NEW t \in Types
  PROVE  Proper(CastTo(Apply(op, l, r), t))
<1>1. Proper(Apply(op, l, r))
  BY AppliedIsTyped
<1>2. Value(Apply(op, l, r)) \in Int
  BY <1>1, ProperValue
<1>3. t.width \in Nat \ {0} /\ t.isSigned \in BOOLEAN
  BY DEF Types
<1> QED
  BY <1>2, <1>3, MakeProper DEF CastTo

LEMMA MeanIsProper ==
  ASSUME NEW d, NEW e, Checked(e), NEW m, ProperValues(d, m)
  PROVE  ProperOrNone(Mean(d, e, m))
<1>1. \A x : ProperOrNone(Look(d, x, m))
  BY DEF Look, ProperValues, ProperOrNone
<1>2. CASE e.op = "lit"
  <2>1. Mean(d, e, m) = e.value
    BY <1>2 DEF Mean, EvalWith
  <2>2. e.value \in AllBits
    BY <1>2 DEF Checked
  <2> QED
    BY <2>1, <2>2, BitsAreProper DEF ProperOrNone
<1>3. CASE e.op = "index"
  BY <1>3 DEF Mean, EvalWith, ProperOrNone
<1>4. CASE e.op = "?:"
  BY <1>1, <1>4 DEF Mean, ProperOrNone
<1>5. CASE e.op \notin {"lit", "index", "?:"}
  <2> DEFINE f == [i \in DOMAIN e.args |-> Look(d, e.args[i], m)]
  <2>1. Mean(d, e, m) = EvalWith(e, f)
    BY <1>5 DEF Mean
  <2>2. IsList(e.args)
    BY DEF Checked
  <2>3. DOMAIN f = 1 .. Len(e.args)
    BY <2>2, ListFacts
  <2>4. \A i \in DOMAIN f : f[i] = Look(d, e.args[i], m)
    OBVIOUS
  <2>5. \A i \in DOMAIN f : ProperOrNone(f[i])
    BY <1>1, <2>4
  <2> HIDE DEF f
  <2>6. CASE \E i \in DOMAIN f : ~Known(f[i])
    BY <1>5, <2>1, <2>6 DEF EvalWith, ProperOrNone
  <2>7. CASE ~ \E i \in DOMAIN f : ~Known(f[i])
    <3>1. \A i \in DOMAIN f : Proper(f[i])
      BY <2>5, <2>7 DEF ProperOrNone, Known
    <3>2. CASE e.op = "name"
      <4>1. EvalWith(e, f) = f[1]
        BY <2>7, <3>2 DEF EvalWith
      <4>2. Len(e.args) = 1
        BY <3>2 DEF Checked
      <4>3. 1 \in DOMAIN f
        BY <2>3, <4>2
      <4> QED
        BY <2>1, <2>5, <4>1, <4>3
    <3>3. CASE e.op # "name"
      <4>1. EvalWith(e, f) = CastTo(Apply(e.op, f[1], f[2]), e.type)
        BY <1>5, <2>7, <3>3 DEF EvalWith
      <4>2. e.op \in BinaryOps /\ Len(e.args) = 2 /\ e.type \in Types
        BY <1>5, <3>3 DEF Checked
      <4>3. 1 \in DOMAIN f /\ 2 \in DOMAIN f
        BY <2>3, <4>2
      <4>4. Proper(f[1]) /\ Proper(f[2])
        BY <3>1, <4>3
      <4>5. Proper(CastTo(Apply(e.op, f[1], f[2]), e.type))
        BY <4>2, <4>4, AppliedIsProper
      <4> QED
        BY <2>1, <4>1, <4>5 DEF ProperOrNone
    <3> QED
      BY <3>2, <3>3
  <2> QED
    BY <2>6, <2>7
<1> QED
  BY <1>2, <1>3, <1>4, <1>5

LEMMA MeaningIsProper ==
  ASSUME NEW d, Declared(d)
  PROVE  ProperValues(d, MeaningIn(d))
<1> DEFINE N == Len(d)
<1>1. IsList(d) /\ N \in Nat
  BY ListFacts DEF Declared
<1>2. PICK c : Iterates(d, c) /\ MeaningIn(d) = c[N]
  BY <1>1, IteratesAre
<1>3. IteratesTo(d, c, N)
  BY <1>2 DEF Iterates
<1> HIDE DEF N
<1>4. Iterating(d, c, N)
  BY <1>1, <1>3, IterateIs
<1> DEFINE T == {n \in 0 .. N : ~ProperValues(d, c[n])}
<1>5. T # {} => FALSE
  <2> SUFFICES ASSUME T # {} PROVE FALSE
    OBVIOUS
  <2>1. T \subseteq Nat
    BY <1>1
  <2>2. PICK n \in T : \A y \in T : n <= y
    BY <2>1, LeastNumber
  <2>3. n \in 0 .. N /\ ~ProperValues(d, c[n])
    BY <2>2
  <2>4. n # 0
    BY <1>4, <2>3 DEF Iterating, ProperValues, ProperOrNone
  <2>5. n \in 1 .. N /\ n - 1 \in 0 .. N /\ ~(n <= n - 1)
    BY <1>1, <2>3, <2>4
  <2>6. ProperValues(d, c[n - 1])
    BY <2>2, <2>5
  <2>7. c[n] = Refolded(d, c[n - 1])
    BY <1>4, <2>5 DEF Iterating
  <2>8. ASSUME NEW t \in ScalarsOf(d) PROVE ProperOrNone(c[n][t])
    <3>1. Checked(InitIn(d, t))
      BY ScalarInit
    <3>2. ProperOrNone(Mean(d, InitIn(d, t), c[n - 1]))
      BY <2>6, <3>1, MeanIsProper
    <3> QED
      BY <2>7, <3>2 DEF Refolded
  <2> QED
    BY <2>3, <2>8 DEF ProperValues
<1>6. N \in 0 .. N
  BY <1>1
<1>7. ProperValues(d, c[N])
  BY <1>5, <1>6
<1> QED
  BY <1>2, <1>7

\* Of a value, comparing its number and comparing its bits are the same.
LEMMA NumberIsBits ==
  ASSUME NEW v, ProperOrNone(v), Known(v)
  PROVE  /\ Value(v) \in Int /\ v.raw \in Nat
         /\ Value(v) >= 0 => Value(v) = v.raw
BY ValueOfProper DEF ProperOrNone, Known

-----------------------------------------------------------------------------
(***************************************************************************)
(* The length an array's size means.                                       *)
(***************************************************************************)
MeansLength(d, i, m) == IsLength(Mean(d, d[i].sizes[1], m))

LEMMA LengthIsPositive ==
  ASSUME NEW d, Declared(d), NEW i \in DOMAIN d, d[i].sizes # <<>>
  PROVE  /\ LengthFor(d, i, MeaningIn(d)) \in Nat
         /\ MeansLength(d, i, MeaningIn(d)) <=> LengthFor(d, i, MeaningIn(d)) # 0
<1> DEFINE m == MeaningIn(d)
           e == d[i].sizes[1]
           v == Mean(d, e, m)
<1>1. Checked(e)
  <2>1. IsList(d[i].sizes) /\ Len(d[i].sizes) = 1
    BY DEF Declared
  <2>2. 1 \in DOMAIN d[i].sizes
    BY <2>1, ListFacts
  <2>3. e \in {d[i].sizes[k1] : k1 \in DOMAIN d[i].sizes}
    BY <2>2
  <2> HIDE DEF e
  <2> QED
    BY <2>3 DEF Declared
<1>2. ProperOrNone(v)
  BY <1>1, MeaningIsProper, MeanIsProper
<1> HIDE DEF m, e
<1>3. Known(v) => Value(v) \in Int /\ v.raw \in Nat /\ (Value(v) >= 0 => Value(v) = v.raw)
  BY <1>2, NumberIsBits
<1>4. LengthFor(d, i, m) = IF IsLength(v) THEN v.raw ELSE 0
  BY DEF LengthFor, e
<1>5. MeansLength(d, i, m) <=> IsLength(v)
  BY DEF MeansLength, e
<1> HIDE DEF v
<1>6. IsLength(v) => v.raw \in Nat /\ v.raw # 0
  BY <1>3 DEF IsLength
<1> QED
  BY <1>4, <1>5, <1>6 DEF m

-----------------------------------------------------------------------------
(***************************************************************************)
(* A cycle that is reported is one: the constants on the stack are          *)
(* different, and each initialiser looks at the next.                      *)
(***************************************************************************)
LEMMA AwaitedFollows ==
  ASSUME NEW d, NEW e, Expression(e), NEW got, NEW m, Gathered(d, e, got, m),
         NEW x \in ScalarsOf(d), Awaits(e, got, x)
  PROVE  x \in FollowsOf(d, e, m)
<1>1. CASE e.op \in {"lit", "index"}
  BY <1>1 DEF Awaits
<1>2. CASE e.op = "?:"
  <2>1. CASE Len(got) = 0 /\ x = e.args[1]
    BY <1>2, <2>1 DEF FollowsOf
  <2>2. CASE Len(got) = 1 /\ Known(got[1]) /\ x = Chosen(e, got[1])
    <3> DEFINE N == Len(got)
    <3>0. N = 1
      BY <2>2
    <3> HIDE DEF N
    <3>1. N >= 1
      BY <3>0
    <3>2. got[1] = Look(d, e.args[1], m)
      BY <1>2, <3>1 DEF Gathered, N
    <3>3. e.args[1] \in ScalarsOf(d) /\ got[1] = m[e.args[1]]
      BY <2>2, <3>2 DEF Look, Known
    <3> DEFINE c == m[e.args[1]]
    <3>4. e.args[1] \in ScalarsOf(d) /\ Known(c)
      BY <2>2, <3>3
    <3>5. FollowsOf(d, e, m) = ScalarsOf(d) \cap {e.args[1], IF c.raw # 0 THEN e.args[2] ELSE e.args[3]}
      BY <1>2, <3>4 DEF FollowsOf
    <3>6. x = IF c.raw # 0 THEN e.args[2] ELSE e.args[3]
      BY <2>2, <3>3 DEF Chosen
    <3> HIDE DEF c
    <3> QED
      BY <3>5, <3>6
  <2> QED
    BY <1>2, <2>1, <2>2 DEF Awaits
<1>3. CASE e.op \notin {"lit", "index", "?:"}
  <2>1. Len(got) < Len(e.args) /\ x = e.args[Len(got) + 1]
    BY <1>3 DEF Awaits
  <2>2. IsList(e.args) /\ IsList(got)
    BY DEF Expression, Gathered
  <2> DEFINE N == Len(e.args)
             n == Len(got)
  <2>3. N \in Nat /\ DOMAIN e.args = 1 .. N /\ n \in Nat
    BY <2>2, ListFacts
  <2>4. n < N /\ x = e.args[n + 1]
    BY <2>1
  <2> HIDE DEF N, n
  <2>5. n + 1 \in DOMAIN e.args
    BY <2>3, <2>4
  <2>6. x \in Reads(e)
    BY <2>4, <2>5 DEF Reads
  <2> QED
    BY <1>3, <2>6 DEF FollowsOf
<1> QED
  BY <1>1, <1>2, <1>3

Distinct(st) == \A i \in 1 .. Len(st) : \A j \in 1 .. Len(st) : st[i].sym = st[j].sym => i = j

LEMMA StackIsShort ==
  ASSUME NEW d, Declared(d), NEW outer, NEW m, NEW st, Stacked(d, outer, st, m), Distinct(st)
  PROVE  Len(st) \in Nat /\ Len(st) - 1 <= Len(d)
<1> DEFINE L == Len(st)
           N == Len(d)
           f == [i \in 2 .. L |-> st[i].sym]
           S == ScalarsOf(d)
<1>0. IsList(d) /\ IsList(st)
  BY DEF Declared, Stacked
<1>1. L \in Nat /\ N \in Nat
  BY <1>0, ListFacts
<1>2. IsFiniteSet(S) /\ Cardinality(S) <= N /\ Cardinality(S) \in Nat
  BY <1>0, ScalarsAreFew, FS_CardinalityType
<1>3. \A i \in 1 .. L : i # 1 => st[i].sym \in S
  BY DEF Stacked
<1>4. \A i \in 1 .. L : \A j \in 1 .. L : st[i].sym = st[j].sym => i = j
  BY DEF Distinct
<1> HIDE DEF L, N, S
<1>5. \A i \in 2 .. L : i \in 1 .. L /\ i # 1
  BY <1>1
<1>6. f \in Injection(2 .. L, S)
  BY <1>3, <1>4, <1>5 DEF Injection, IsInjective
<1>7. Cardinality(2 .. L) <= Cardinality(S)
  BY <1>2, <1>6, FS_Injection
<1>8. 2 \in Int /\ L \in Int
  BY <1>1
<1>9. Cardinality(2 .. L) = IF 2 > L THEN 0 ELSE L - 2 + 1
  BY <1>8, FS_Interval
<1>10. L - 1 <= N
  BY <1>1, <1>2, <1>7, <1>9
<1> QED
  BY <1>1, <1>10 DEF L, N

\* What a constant's activation awaits is among what its initialiser looks at.
LEMMA FrameFollows ==
  ASSUME NEW d, Declared(d), NEW outer, NEW f, Frame(d, outer, f, MeaningIn(d)),
         f.sym \in ScalarsOf(d), NEW x \in ScalarsOf(d), AwaitsIn(d, outer, f, x)
  PROVE  x \in FollowsIn(d, f.sym)
<1>1. f.sym # "" /\ Expression(InitIn(d, f.sym))
  BY ScalarInit
<1>2. FrameExpr(d, outer, f) = InitIn(d, f.sym)
  BY <1>1 DEF FrameExpr
<1>3. Gathered(d, InitIn(d, f.sym), f.got, MeaningIn(d))
  BY <1>2 DEF Frame
<1>4. Awaits(InitIn(d, f.sym), f.got, x)
  BY <1>2 DEF AwaitsIn
<1> QED
  BY <1>1, <1>3, <1>4, AwaitedFollows DEF FollowsIn

LEMMA WithinGrows ==
  ASSUME NEW d, NEW s, NEW N \in Nat, NEW w, WithinTo(d, s, w, N), NEW n \in 0 .. N
  PROVE  w[n] \subseteq w[N]
<1> DEFINE T == {m \in n .. N : ~(w[n] \subseteq w[m])}
<1>1. Nesting(d, s, w, N)
  BY WithinIs
<1>2. T # {} => FALSE
  <2> SUFFICES ASSUME T # {} PROVE FALSE
    OBVIOUS
  <2>1. T \subseteq Nat
    OBVIOUS
  <2>2. PICK m \in T : \A y \in T : m <= y
    BY <2>1, LeastNumber
  <2>3. m \in n .. N /\ ~(w[n] \subseteq w[m])
    BY <2>2
  <2>4. m # n
    BY <2>3
  <2>5. m \in 1 .. N /\ m - 1 \in n .. N /\ ~(m <= m - 1)
    BY <2>3, <2>4
  <2>6. w[n] \subseteq w[m - 1]
    BY <2>2, <2>5
  <2>7. w[m] = Further(d, w[m - 1])
    BY <1>1, <2>5 DEF Nesting
  <2> QED
    BY <2>3, <2>6, <2>7 DEF Further
<1>3. N \in n .. N
  OBVIOUS
<1> QED
  BY <1>2, <1>3

LEMMA CycleIsMeant ==
  ASSUME NEW d, Declared(d), NEW outer, NEW st, Stacked(d, outer, st, MeaningIn(d)),
         Distinct(st), st # <<>>,
         NEW x \in ScalarsOf(d), AwaitsIn(d, outer, st[Len(st)], x),
         NEW j \in 1 .. Len(st), st[j].sym = x
  PROVE  OnCycle(d, x)
<1> DEFINE L == Len(st)
           N == Len(d)
           z == [i \in 1 .. L + 1 |-> IF i = L + 1 THEN x ELSE st[i].sym]
<1>1. L \in Nat /\ L - 1 <= N
  BY StackIsShort
<1>2. N \in Nat
  BY ListFacts DEF Declared
<1>3. /\ \A i \in 1 .. L : Frame(d, outer, st[i], MeaningIn(d))
      /\ \A i \in 1 .. L : IF i = 1 THEN Outermost(st[i]) ELSE st[i].sym \in ScalarsOf(d)
      /\ \A i \in 1 .. L : i < L => AwaitsIn(d, outer, st[i], st[i + 1].sym)
  BY DEF Stacked
<1>4. j \in 1 .. L /\ AwaitsIn(d, outer, st[L], x)
  OBVIOUS
<1> HIDE DEF L, N
<1>5. j # 1
  <2>1. x # ""
    BY ScalarInit
  <2> QED
    BY <1>3, <1>4, <2>1 DEF Outermost
<1>6. /\ \A i \in 1 .. L : z[i] = st[i].sym
      /\ z[L + 1] = x
  BY <1>1
<1> HIDE DEF z
<1>7. ASSUME NEW i \in 2 .. L PROVE z[i + 1] \in FollowsIn(d, z[i])
  <2>1. i \in 1 .. L /\ i # 1
    BY <1>1, <1>7
  <2>2. st[i].sym \in ScalarsOf(d) /\ Frame(d, outer, st[i], MeaningIn(d)) /\ z[i] = st[i].sym
    BY <1>3, <1>6, <2>1
  <2>3. CASE i = L
    <3>1. AwaitsIn(d, outer, st[i], x) /\ z[i + 1] = x
      BY <1>4, <1>6, <2>3
    <3> QED
      BY <2>2, <3>1, FrameFollows
  <2>4. CASE i # L
    <3>1. i + 1 \in 1 .. L /\ i + 1 # 1 /\ i < L
      BY <1>1, <2>1, <2>4
    <3>2. AwaitsIn(d, outer, st[i], st[i + 1].sym) /\ st[i + 1].sym \in ScalarsOf(d) /\ z[i + 1] = st[i + 1].sym
      BY <1>3, <1>6, <2>1, <3>1
    <3> QED
      BY <2>2, <3>2, FrameFollows
  <2> QED
    BY <2>3, <2>4
<1>8. PICK w : WithinTo(d, x, w, N)
  BY <1>2, WithinUpTo
<1>9. Nesting(d, x, w, N)
  BY <1>2, <1>8, WithinIs
<1>10. z[j] = x
  BY <1>4, <1>6
<1> DEFINE T == {n \in 0 .. L - j : z[j + 1 + n] \notin w[n]}
<1>11. T # {} => FALSE
  <2> SUFFICES ASSUME T # {} PROVE FALSE
    OBVIOUS
  <2>1. T \subseteq Nat
    OBVIOUS
  <2>2. PICK n \in T : \A y \in T : n <= y
    BY <2>1, LeastNumber
  <2>3. n \in 0 .. L - j /\ z[j + 1 + n] \notin w[n]
    BY <2>2
  <2>4. CASE n = 0
    <3>1. j \in 2 .. L /\ j + 1 + n = j + 1
      BY <1>1, <1>4, <1>5, <2>4
    <3>2. z[j + 1] \in FollowsIn(d, x)
      BY <1>7, <1>10, <3>1
    <3>3. w[0] = FollowsIn(d, x)
      BY <1>9 DEF Nesting
    <3> QED
      BY <2>3, <2>4, <3>1, <3>2, <3>3
  <2>5. CASE n # 0
    <3>1. /\ n - 1 \in 0 .. L - j /\ ~(n <= n - 1) /\ n \in 1 .. N
          /\ j + n \in 2 .. L /\ j + 1 + (n - 1) = j + n /\ j + 1 + n = (j + n) + 1
      BY <1>1, <1>2, <1>4, <1>5, <2>3, <2>5
    <3>2. z[j + n] \in w[n - 1]
      BY <2>2, <3>1
    <3>3. z[(j + n) + 1] \in FollowsIn(d, z[j + n])
      BY <1>7, <3>1
    <3>4. w[n] = Further(d, w[n - 1])
      BY <1>9, <3>1 DEF Nesting
    <3>5. z[(j + n) + 1] \in w[n]
      BY <3>2, <3>3, <3>4 DEF Further
    <3> QED
      BY <2>3, <3>1, <3>5
  <2> QED
    BY <2>4, <2>5
<1>12. L - j \in 0 .. L - j /\ L - j \in 0 .. N /\ j + 1 + (L - j) = L + 1
  BY <1>1, <1>2, <1>4, <1>5
<1>13. x \in w[L - j]
  BY <1>6, <1>11, <1>12
<1>14. w[L - j] \subseteq w[N]
  BY <1>2, <1>8, <1>12, WithinGrows
<1> QED
  BY <1>8, <1>13, <1>14 DEF OnCycle, N

-----------------------------------------------------------------------------
(***************************************************************************)
(* No cycle is missed: when a constant without a value has been looked at  *)
(* from among a set of others, every way back to one of those, or to one   *)
(* on the way, has been reported.                                          *)
(***************************************************************************)
HasAnswered(e, got, y) ==
  /\ e.op \notin {"lit", "index"}
  /\ e.op = "?:" => \/ Len(got) >= 1 /\ y = e.args[1]
                    \/ Len(got) = 2 /\ y = Chosen(e, got[1])
  /\ e.op # "?:" => \E i \in 1 .. Len(got) : y = e.args[i]

LEMMA NoneAnswered == ASSUME NEW e, NEW y PROVE ~HasAnswered(e, <<>>, y)
<1>1. Len(<<>>) = 0
  OBVIOUS
<1> DEFINE n == Len(<<>>)
<1>2. n = 0
  BY <1>1
<1> HIDE DEF n
<1>3. ~(n >= 1) /\ n # 2 /\ 1 .. n = {}
  BY <1>2
<1> QED
  BY <1>3 DEF HasAnswered, n

LEMMA AnsweredMore ==
  ASSUME NEW e, NEW got, IsList(got), NEW x, Awaits(e, got, x), NEW v, NEW y,
         HasAnswered(e, Append(got, v), y)
  PROVE  HasAnswered(e, got, y) \/ y = x
<1> DEFINE n == Len(got)
           more == Append(got, v)
           l == Len(more)
<1>1. n \in Nat /\ l = n + 1 /\ \A i \in 1 .. n : more[i] = got[i]
  BY ListFacts, ListAppend
<1>2. HasAnswered(e, more, y)
  OBVIOUS
<1> HIDE DEF more
<1>3. CASE e.op = "?:"
  <2>1. \/ n = 0 /\ x = e.args[1]
        \/ n = 1 /\ Known(got[1]) /\ x = Chosen(e, got[1])
    BY <1>3 DEF Awaits
  <2>2. (l >= 1 /\ y = e.args[1]) \/ (l = 2 /\ y = Chosen(e, more[1]))
    BY <1>2, <1>3 DEF HasAnswered
  <2> HIDE DEF n, l
  <2>3. CASE n = 0
    <3>1. l # 2 /\ n # 1
      BY <1>1, <2>3
    <3> QED
      BY <2>1, <2>2, <3>1
  <2>4. CASE n = 1 /\ x = Chosen(e, got[1])
    <3>1. 1 \in 1 .. n /\ n >= 1
      BY <2>4
    <3>2. more[1] = got[1]
      BY <1>1, <3>1
    <3>3. y = e.args[1] \/ y = x
      BY <2>2, <2>4, <3>2
    <3>4. y = e.args[1] => HasAnswered(e, got, y)
      BY <1>3, <3>1 DEF HasAnswered, n
    <3> QED
      BY <3>3, <3>4
  <2> QED
    BY <2>1, <2>3, <2>4
<1>4. CASE e.op # "?:"
  <2>1. x = e.args[n + 1]
    BY <1>4 DEF Awaits
  <2>2. PICK i \in 1 .. l : y = e.args[i]
    BY <1>2, <1>4 DEF HasAnswered
  <2>3. e.op \notin {"lit", "index"}
    BY DEF Awaits
  <2> HIDE DEF n, l
  <2>4. CASE i = n + 1
    BY <2>1, <2>2, <2>4
  <2>5. CASE i # n + 1
    <3>1. i \in 1 .. n
      BY <1>1, <2>2, <2>5
    <3> QED
      BY <1>4, <2>2, <2>3, <3>1 DEF HasAnswered, n
  <2> QED
    BY <2>4, <2>5
<1> QED
  BY <1>3, <1>4

LEMMA DoneAnswered ==
  ASSUME NEW d, NEW e, Expression(e), NEW got, NEW m, Gathered(d, e, got, m),
         Pending(e, got) = <<>>, NEW y \in FollowsOf(d, e, m)
  PROVE  HasAnswered(e, got, y)
<1>1. \/ e.op \in {"lit", "index"}
      \/ e.op = "?:" /\ Len(got) = 1 /\ ~Known(got[1])
      \/ e.op = "?:" /\ Len(got) = 2
      \/ e.op \notin {"lit", "index", "?:"} /\ Len(got) = Len(e.args)
  BY PendingIs
<1>2. CASE e.op \in {"lit", "index"}
  BY <1>2 DEF FollowsOf
<1>3. CASE e.op = "?:" /\ ((Len(got) = 1 /\ ~Known(got[1])) \/ Len(got) = 2)
  <2> DEFINE n == Len(got)
             c == m[e.args[1]]
  <2>1. n = 1 \/ n = 2
    BY <1>3
  <2>2. (n = 1 /\ ~Known(got[1])) \/ n = 2
    BY <1>3
  <2> HIDE DEF n
  <2>3. n >= 1
    BY <2>1
  <2>4. got[1] = Look(d, e.args[1], m)
    BY <1>3, <2>3 DEF Gathered, n
  <2>5. e.args[1] \in ScalarsOf(d) => got[1] = c
    BY <2>4 DEF Look
  <2>6. \/ y = e.args[1]
        \/ Known(c) /\ e.args[1] \in ScalarsOf(d) /\ y = Chosen(e, c)
    BY <1>3 DEF FollowsOf, Chosen
  <2> HIDE DEF c
  <2>7. y = e.args[1] \/ (n = 2 /\ y = Chosen(e, got[1]))
    BY <2>2, <2>5, <2>6
  <2>8. e.op = "?:"
    BY <1>3
  <2> QED
    BY <2>3, <2>7, <2>8 DEF HasAnswered, n
<1>4. CASE e.op \notin {"lit", "index", "?:"} /\ Len(got) = Len(e.args)
  <2>1. DOMAIN e.args = 1 .. Len(e.args)
    BY ListFacts DEF Expression
  <2>2. \E i \in DOMAIN e.args : y = e.args[i]
    BY <1>4 DEF FollowsOf, Reads
  <2>3. \E i \in 1 .. Len(got) : y = e.args[i]
    BY <1>4, <2>1, <2>2
  <2> QED
    BY <1>4, <2>3 DEF HasAnswered
<1> QED
  BY <1>1, <1>2, <1>3, <1>4

OnTrail(q, n, r) == \E i \in 1 .. n : q[i] = r

Covered(d, A, y, rep) ==
  /\ y \in A => <<"cycle", y>> \in rep
  /\ y \notin A =>
       \A n \in Nat \ {0} : \A q : Trail(d, q, n, A) /\ q[1] = y =>
         \A r \in Unknown(d) : (r \in A \/ OnTrail(q, n, r)) /\ r \in FollowsIn(d, q[n])
                                 => <<"cycle", r>> \in rep

LEMMA CoveredMore ==
  ASSUME NEW d, NEW A, NEW y, NEW rep, NEW more, rep \subseteq more, Covered(d, A, y, rep)
  PROVE  Covered(d, A, y, more)
BY DEF Covered

\* A constant is covered when all it looks at is covered with it.
LEMMA LeaveCovers ==
  ASSUME NEW d, NEW A, NEW s, s \notin A, NEW rep,
         \A y \in Unknown(d) : y \in FollowsIn(d, s) => Covered(d, A \cup {s}, y, rep)
  PROVE  Covered(d, A, s, rep)
<1> SUFFICES ASSUME NEW n \in Nat \ {0}, NEW q, Trail(d, q, n, A), q[1] = s,
                    NEW r \in Unknown(d), r \in A \/ OnTrail(q, n, r), r \in FollowsIn(d, q[n])
             PROVE  <<"cycle", r>> \in rep
  BY DEF Covered
<1>1. /\ \A i \in 1 .. n : q[i] \in Unknown(d) /\ q[i] \notin A
      /\ \A i \in 1 .. n : \A j \in 1 .. n : q[i] = q[j] => i = j
      /\ \A i \in 1 .. n : i < n => q[i + 1] \in FollowsIn(d, q[i])
  BY DEF Trail
<1>2. CASE n = 1
  <2>1. r \in A \cup {s}
    BY <1>2 DEF OnTrail
  <2>2. Covered(d, A \cup {s}, r, rep)
    BY <1>2
  <2> QED
    BY <2>1, <2>2 DEF Covered
<1>3. CASE n # 1
  <2> DEFINE t == [i \in 1 .. n - 1 |-> q[i + 1]]
             y == q[2]
             B == A \cup {s}
  <2>1. /\ n - 1 \in Nat \ {0} /\ 1 \in 1 .. n /\ 2 \in 1 .. n /\ 1 < n /\ 1 + 1 = 2
        /\ 1 \in 1 .. n - 1 /\ (n - 1) + 1 = n /\ n - 1 \in 1 .. n - 1
    BY <1>3
  <2>2. \A i \in 1 .. n - 1 : /\ t[i] = q[i + 1] /\ i + 1 \in 1 .. n /\ i + 1 # 1
                              /\ i < n - 1 => i + 1 < n /\ i + 1 \in 1 .. n - 1
    OBVIOUS
  <2>3. t[1] = y /\ t[n - 1] = q[n]
    BY <2>1, <2>2
  <2> HIDE DEF t
  <2>4. ASSUME NEW i \in 1 .. n - 1 PROVE t[i] \in Unknown(d) /\ t[i] \notin B
    <3>1. t[i] = q[i + 1] /\ i + 1 \in 1 .. n /\ i + 1 # 1
      BY <2>2
    <3>2. q[i + 1] # q[1]
      BY <1>1, <2>1, <3>1
    <3> QED
      BY <1>1, <3>1, <3>2
  <2>5. ASSUME NEW i \in 1 .. n - 1, NEW j \in 1 .. n - 1, t[i] = t[j] PROVE i = j
    <3>1. i + 1 = j + 1
      BY <1>1, <2>2, <2>5
    <3> QED
      BY <3>1
  <2>6. ASSUME NEW i \in 1 .. n - 1, i < n - 1 PROVE t[i + 1] \in FollowsIn(d, t[i])
    <3>1. t[i] = q[i + 1] /\ t[i + 1] = q[(i + 1) + 1] /\ i + 1 \in 1 .. n /\ i + 1 < n
      BY <2>2, <2>6
    <3> QED
      BY <1>1, <3>1
  <2>7. Trail(d, t, n - 1, B)
    BY <2>4, <2>5, <2>6 DEF Trail
  <2>8. y \in Unknown(d) /\ y \in FollowsIn(d, s)
    <3>1. q[1 + 1] \in FollowsIn(d, q[1])
      BY <1>1, <2>1
    <3> QED
      BY <1>1, <2>1, <3>1
  <2>9. Covered(d, B, y, rep)
    BY <2>8
  <2>10. y \notin B
    BY <2>1, <2>3, <2>4
  <2>11. r \in B \/ OnTrail(t, n - 1, r)
    <3>1. CASE r \in A
      BY <3>1
    <3>2. CASE OnTrail(q, n, r)
      <4>1. PICK i \in 1 .. n : q[i] = r
        BY <3>2 DEF OnTrail
      <4>2. CASE i = 1
        BY <4>1, <4>2
      <4>3. CASE i # 1
        <5>1. i - 1 \in 1 .. n - 1 /\ (i - 1) + 1 = i
          BY <4>3
        <5>2. t[i - 1] = r
          BY <2>2, <4>1, <5>1
        <5> QED
          BY <5>1, <5>2 DEF OnTrail
      <4> QED
        BY <4>2, <4>3
    <3> QED
      BY <3>1, <3>2
  <2>12. r \in FollowsIn(d, t[n - 1])
    BY <2>3, Zenon
  <2> HIDE DEF y, B
  <2> QED
    BY <2>1, <2>3, <2>7, <2>9, <2>10, <2>11, <2>12 DEF Covered
<1> QED
  BY <1>2, <1>3

-----------------------------------------------------------------------------
(***************************************************************************)
(* What the stack becomes: an answer for its last activation, one more     *)
(* activation, or one less.                                                *)
(***************************************************************************)
Given(st, t, v) ==
  /\ IsList(t) /\ Len(t) = Len(st) /\ Len(st) \in Nat \ {0}
  /\ \A i \in 1 .. Len(st) : /\ t[i].sym = st[i].sym
                             /\ t[i].got = IF i = Len(st) THEN Append(st[i].got, v) ELSE st[i].got

Pushed(st, t, x) ==
  /\ IsList(t) /\ Len(t) = Len(st) + 1 /\ Len(st) \in Nat
  /\ \A i \in 1 .. Len(st) : t[i] = st[i]
  /\ t[Len(st) + 1] = Activation(x)

Popped(st, t) ==
  /\ IsList(t) /\ Len(t) = Len(st) - 1 /\ Len(st) \in Nat \ {0}
  /\ \A i \in 1 .. Len(t) : t[i] = st[i]

LEMMA GiveIs ==
  ASSUME NEW d, NEW outer, NEW m, NEW st, Stacked(d, outer, st, m), st # <<>>, NEW v
  PROVE  Given(st, Give(st, v), v)
<1> DEFINE n == Len(st)
           t == Give(st, v)
           f == st[n]
           g == [f EXCEPT !.got = Append(@, v)]
<1>1. IsList(st) /\ n \in Nat /\ n # 0 /\ DOMAIN st = 1 .. n
  BY ListFacts DEF Stacked
<1>2. n \in 1 .. n
  BY <1>1
<1>3. f = [sym |-> f.sym, got |-> f.got]
  BY <1>2 DEF Stacked, Frame
<1>4. t = [i \in 1 .. n |-> IF i = n THEN g ELSE st[i]]
  BY <1>1 DEF Give
<1>5. g.sym = f.sym /\ g.got = Append(f.got, v)
  BY <1>3
<1> HIDE DEF t, g
<1>6. IsList(t) /\ Len(t) = n
  <2>1. DOMAIN t = 1 .. n /\ t = [i \in 1 .. n |-> t[i]]
    BY <1>4
  <2> QED
    BY <1>1, <2>1, ListIs
<1>7. \A i \in 1 .. n : t[i].sym = st[i].sym /\ t[i].got = IF i = n THEN Append(st[i].got, v) ELSE st[i].got
  BY <1>4, <1>5
<1> QED
  BY <1>1, <1>6, <1>7 DEF Given, t

LEMMA PushIs ==
  ASSUME NEW st, IsList(st), NEW x
  PROVE  Pushed(st, Append(st, Activation(x)), x)
BY ListFacts, ListAppend DEF Pushed

LEMMA PopIs ==
  ASSUME NEW st, IsList(st), st # <<>>
  PROVE  Popped(st, SubSeq(st, 1, Len(st) - 1))
<1> DEFINE n == Len(st)
           t == SubSeq(st, 1, Len(st) - 1)
<1>1. n \in Nat /\ n # 0
  BY ListFacts
<1>2. IsList(t) /\ Len(t) = n - 1 /\ \A i \in 1 .. n - 1 : t[i] = st[i]
  BY ListFront
<1> QED
  BY <1>1, <1>2 DEF Popped

LEMMA DistinctKept ==
  ASSUME NEW st, Distinct(st), NEW t
  PROVE  /\ \A v : Given(st, t, v) => Distinct(t)
         /\ Popped(st, t) => Distinct(t)
         /\ \A x : Pushed(st, t, x) /\ x \notin {st[i].sym : i \in 1 .. Len(st)} => Distinct(t)
<1> DEFINE n == Len(st)
           l == Len(t)
<1>1. \A i \in 1 .. n : \A j \in 1 .. n : st[i].sym = st[j].sym => i = j
  BY DEF Distinct
<1>2. ASSUME NEW v, Given(st, t, v) PROVE Distinct(t)
  BY <1>2 DEF Given, Distinct
<1>3. ASSUME Popped(st, t) PROVE Distinct(t)
  <2>1. l = n - 1 /\ n \in Nat /\ \A i \in 1 .. l : t[i] = st[i]
    BY <1>3 DEF Popped
  <2> HIDE DEF n, l
  <2>2. \A i \in 1 .. l : i \in 1 .. n
    BY <2>1
  <2> QED
    BY <1>1, <2>1, <2>2 DEF Distinct, l
<1>4. ASSUME NEW x, Pushed(st, t, x), x \notin {st[i].sym : i \in 1 .. Len(st)} PROVE Distinct(t)
  <2>1. l = n + 1 /\ n \in Nat /\ (\A i \in 1 .. n : t[i] = st[i]) /\ t[n + 1].sym = x
    BY <1>4 DEF Pushed, Activation
  <2>2. \A i \in 1 .. n : st[i].sym # x
    BY <1>4
  <2> HIDE DEF n, l
  <2>3. \A i \in 1 .. l : i \in 1 .. n \/ i = n + 1
    BY <2>1
  <2> QED
    BY <1>1, <2>1, <2>2, <2>3 DEF Distinct, l
<1> QED
  BY <1>2, <1>3, <1>4

-----------------------------------------------------------------------------
(***************************************************************************)
(* What the activations have looked at is covered.                         *)
(***************************************************************************)
SymsTo(st, n) == {st[i].sym : i \in 1 .. n}

AnsweredIn(d, outer, f, y) == HasAnswered(FrameExpr(d, outer, f), f.got, y)

Explored(d, outer, st, rep) ==
  \A n \in 1 .. Len(st) : \A y \in Unknown(d) :
    AnsweredIn(d, outer, st[n], y) => Covered(d, SymsTo(st, n), y, rep)

LEMMA ExploredStart ==
  ASSUME NEW d, NEW outer, NEW rep
  PROVE  Explored(d, outer, <<Activation("")>>, rep) /\ Distinct(<<Activation("")>>)
<1> DEFINE f == Activation("")
           t == <<f>>
<1>1. f.got = <<>>
  BY DEF Activation
<1> HIDE DEF f
<1>2. Len(t) = 1 /\ t[1] = f
  OBVIOUS
<1> HIDE DEF t
<1> DEFINE l == Len(t)
<1>3. l = 1
  BY <1>2
<1> HIDE DEF l
<1>4. \A i \in 1 .. l : i = 1
  BY <1>3
<1>5. Explored(d, outer, t, rep)
  BY <1>1, <1>2, <1>4, NoneAnswered DEF Explored, AnsweredIn, l
<1>6. Distinct(t)
  BY <1>4 DEF Distinct, l
<1> QED
  BY <1>5, <1>6 DEF t, f

LEMMA ExploredPush ==
  ASSUME NEW d, NEW outer, NEW st, NEW rep, Explored(d, outer, st, rep),
         NEW x, NEW t, Pushed(st, t, x)
  PROVE  Explored(d, outer, t, rep)
<1> DEFINE n == Len(st)
           l == Len(t)
<1>1. l = n + 1 /\ n \in Nat /\ (\A i \in 1 .. n : t[i] = st[i]) /\ t[n + 1].got = <<>>
  BY DEF Pushed, Activation
<1>2. \A i \in 1 .. n : \A y \in Unknown(d) :
        AnsweredIn(d, outer, st[i], y) => Covered(d, SymsTo(st, i), y, rep)
  BY DEF Explored
<1> HIDE DEF n, l
<1>3. ASSUME NEW i \in 1 .. n PROVE SymsTo(t, i) = SymsTo(st, i)
  <2>1. \A j \in 1 .. i : j \in 1 .. n
    BY <1>1
  <2> QED
    BY <1>1, <2>1 DEF SymsTo
<1>4. ASSUME NEW i \in 1 .. l, NEW y \in Unknown(d), AnsweredIn(d, outer, t[i], y)
      PROVE  Covered(d, SymsTo(t, i), y, rep)
  <2>1. CASE i = n + 1
    BY <1>1, <1>4, <2>1, NoneAnswered DEF AnsweredIn
  <2>2. CASE i # n + 1
    <3>1. i \in 1 .. n
      BY <1>1, <2>2
    <3> QED
      BY <1>1, <1>2, <1>3, <1>4, <3>1
  <2> QED
    BY <2>1, <2>2
<1> QED
  BY <1>4 DEF Explored, l

LEMMA ExploredPop ==
  ASSUME NEW d, NEW outer, NEW st, NEW rep, Explored(d, outer, st, rep), NEW t, Popped(st, t)
  PROVE  Explored(d, outer, t, rep)
<1> DEFINE n == Len(st)
           l == Len(t)
<1>1. l = n - 1 /\ n \in Nat /\ \A i \in 1 .. l : t[i] = st[i]
  BY DEF Popped
<1>2. \A i \in 1 .. n : \A y \in Unknown(d) :
        AnsweredIn(d, outer, st[i], y) => Covered(d, SymsTo(st, i), y, rep)
  BY DEF Explored
<1> HIDE DEF n, l
<1>3. ASSUME NEW i \in 1 .. l PROVE SymsTo(t, i) = SymsTo(st, i) /\ i \in 1 .. n
  <2>1. i \in 1 .. n /\ \A j \in 1 .. i : j \in 1 .. l
    BY <1>1
  <2> QED
    BY <1>1, <2>1 DEF SymsTo
<1> QED
  BY <1>1, <1>2, <1>3 DEF Explored, l

LEMMA ExploredGive ==
  ASSUME NEW d, NEW outer, NEW m, NEW st, Stacked(d, outer, st, m),
         NEW rep, Explored(d, outer, st, rep), NEW more, rep \subseteq more,
         NEW x, AwaitsIn(d, outer, st[Len(st)], x),
         x \in Unknown(d) => Covered(d, SymsTo(st, Len(st)), x, more),
         NEW v, NEW t, Given(st, t, v)
  PROVE  Explored(d, outer, t, more)
<1> DEFINE n == Len(st)
           l == Len(t)
<1>1. /\ l = n /\ n \in Nat \ {0}
      /\ \A i \in 1 .. n : /\ t[i].sym = st[i].sym
                           /\ t[i].got = IF i = n THEN Append(st[i].got, v) ELSE st[i].got
  BY DEF Given
<1>2. \A i \in 1 .. n : \A y \in Unknown(d) :
        AnsweredIn(d, outer, st[i], y) => Covered(d, SymsTo(st, i), y, rep)
  BY DEF Explored
<1>3. \A i \in 1 .. n : IsList(st[i].got)
  BY DEF Stacked, Frame, Gathered
<1>4. AwaitsIn(d, outer, st[n], x) /\ (x \in Unknown(d) => Covered(d, SymsTo(st, n), x, more))
  OBVIOUS
<1> HIDE DEF n, l
<1>5. ASSUME NEW i \in 1 .. n PROVE SymsTo(t, i) = SymsTo(st, i)
  <2>1. \A j \in 1 .. i : j \in 1 .. n
    BY <1>1
  <2> QED
    BY <1>1, <2>1 DEF SymsTo
<1>6. ASSUME NEW i \in 1 .. n, NEW y \in Unknown(d), AnsweredIn(d, outer, t[i], y)
      PROVE  Covered(d, SymsTo(t, i), y, more)
  <2>1. FrameExpr(d, outer, t[i]) = FrameExpr(d, outer, st[i])
    BY <1>1 DEF FrameExpr
  <2>2. CASE AnsweredIn(d, outer, st[i], y)
    BY <1>2, <1>5, <2>2, CoveredMore
  <2>3. CASE ~AnsweredIn(d, outer, st[i], y)
    <3> DEFINE e == FrameExpr(d, outer, st[i])
    <3>1. ~HasAnswered(e, st[i].got, y) /\ HasAnswered(e, t[i].got, y)
      BY <1>6, <2>1, <2>3 DEF AnsweredIn
    <3>2. i = n /\ t[i].got = Append(st[i].got, v)
      BY <1>1, <3>1
    <3>3. Awaits(e, st[i].got, x)
      BY <1>4, <3>2 DEF AwaitsIn
    <3> HIDE DEF e
    <3>4. y = x
      BY <1>3, <3>1, <3>2, <3>3, AnsweredMore
    <3> QED
      BY <1>4, <1>5, <3>2, <3>4
  <2> QED
    BY <2>2, <2>3
<1> QED
  BY <1>1, <1>6 DEF Explored, l

\* An activation that is done has looked at all its initialiser looks at.
LEMMA DoneCovers ==
  ASSUME NEW d, Declared(d), NEW outer, NEW st, Stacked(d, outer, st, MeaningIn(d)), Distinct(st),
         st # <<>>, NEW rep, Explored(d, outer, st, rep),
         Expression(FrameExpr(d, outer, st[Len(st)])),
         Pending(FrameExpr(d, outer, st[Len(st)]), st[Len(st)].got) = <<>>
  PROVE  /\ \A y \in Unknown(d) :
              y \in FollowsOf(d, FrameExpr(d, outer, st[Len(st)]), MeaningIn(d))
                => Covered(d, SymsTo(st, Len(st)), y, rep)
         /\ st[Len(st)].sym \in ScalarsOf(d) =>
              Covered(d, SymsTo(st, Len(st) - 1), st[Len(st)].sym, rep)
<1> DEFINE n == Len(st)
           f == st[n]
           e == FrameExpr(d, outer, f)
           m == MeaningIn(d)
<1>1. n \in Nat \ {0}
  BY ListFacts DEF Stacked
<1>2. n \in 1 .. n
  BY <1>1
<1>3. Frame(d, outer, f, m)
  BY <1>2 DEF Stacked
<1>4. Gathered(d, e, f.got, m) /\ Expression(e) /\ Pending(e, f.got) = <<>>
  BY <1>3 DEF Frame
<1>5. \A y \in Unknown(d) : AnsweredIn(d, outer, f, y) => Covered(d, SymsTo(st, n), y, rep)
  BY <1>2 DEF Explored
<1> HIDE DEF m
<1>6. ASSUME NEW y \in Unknown(d), y \in FollowsOf(d, e, m)
      PROVE  Covered(d, SymsTo(st, n), y, rep)
  <2>1. HasAnswered(e, f.got, y)
    <3> HIDE DEF e, f
    <3> QED
      BY <1>4, <1>6, DoneAnswered
  <2> QED
    BY <1>5, <2>1 DEF AnsweredIn
<1>7. ASSUME f.sym \in ScalarsOf(d) PROVE Covered(d, SymsTo(st, n - 1), f.sym, rep)
  <2>1. f.sym # ""
    BY <1>7, ScalarInit
  <2>2. FollowsIn(d, f.sym) = FollowsOf(d, e, m)
    BY <2>1 DEF FollowsIn, FrameExpr, m
  <2>3. \A i \in 1 .. n : \A j \in 1 .. n : st[i].sym = st[j].sym => i = j
    BY DEF Distinct
  <2> DEFINE A == SymsTo(st, n - 1)
             s == f.sym
  <2> HIDE DEF n
  <2>4. \A i \in 1 .. n - 1 : i \in 1 .. n /\ i # n
    BY <1>1
  <2>5. \A i \in 1 .. n : i = n \/ i \in 1 .. n - 1
    BY <1>1
  <2>6. s \notin A
    BY <1>2, <2>3, <2>4 DEF SymsTo
  <2>7. SymsTo(st, n) = A \cup {s}
    BY <1>2, <2>4, <2>5 DEF SymsTo
  <2>8. \A y \in Unknown(d) : y \in FollowsIn(d, s) => Covered(d, A \cup {s}, y, rep)
    BY <1>6, <2>2, <2>7
  <2> HIDE DEF A, s
  <2>9. Covered(d, A, s, rep)
    BY <2>6, <2>8, LeaveCovers
  <2> QED
    BY <2>9 DEF A, s
<1> QED
  BY <1>6, <1>7 DEF m

-----------------------------------------------------------------------------
(***************************************************************************)
(* The reports there are to be, and those there are at a place.            *)
(***************************************************************************)
ElementsOf(d) ==
  {q \in UNION {{i} \X DOMAIN Jobs(d[i]) : i \in DOMAIN d} :
     JobAt(d, q).purpose = "index" /\ JobAt(d, q).expr.op = "index"}

Before(q, p) == q[1] < p[1] \/ (q[1] = p[1] /\ q[2] < p[2])

\* The index is outside the array of size d[i].
BeyondSize(d, e, i, m) ==
  /\ d[i].sizes # <<>> /\ d[i].sym = e.args[1]
  /\ LengthFor(d, i, m) # 0
  /\ Known(Mean(d, Name(e.args[2]), m))
  /\ Value(Mean(d, Name(e.args[2]), m)) >= LengthFor(d, i, m)

WrongIndex(d, q, m) ==
  \E i \in DOMAIN d : i <= q[1] /\ BeyondSize(d, JobAt(d, q).expr, i, m)

NoLength(d, i, m) == d[i].sizes # <<>> /\ LengthFor(d, i, m) = 0

Right(d, r, m) ==
  \/ \E s : r = <<"cycle", s>> /\ OnCycle(d, s)
  \/ \E i \in DOMAIN d : NoLength(d, i, m) /\ r = <<"size", d[i].sym>>
  \/ \E q \in ElementsOf(d) : WrongIndex(d, q, m) /\ r = <<"index", q>>

Outmost == {""}

Searched(d, i, rep) ==
  \A y \in Unknown(d) : y \in FollowsIn(d, d[i].sym) => Covered(d, Outmost, y, rep)

Reported(d, p, rep, m) ==
  /\ \A r \in rep : Right(d, r, m)
  /\ \A i \in DOMAIN d : Past(p, i) /\ NoLength(d, i, m) => <<"size", d[i].sym>> \in rep
  /\ \A q \in ElementsOf(d) : Before(q, p) /\ WrongIndex(d, q, m) => <<"index", q>> \in rep
  /\ \A i \in DOMAIN d : Past(p, i) /\ d[i].kind = "const" => Searched(d, i, rep)

LEMMA SearchedMore ==
  ASSUME NEW d, NEW i, NEW rep, Searched(d, i, rep), NEW more, rep \subseteq more
  PROVE  Searched(d, i, more)
BY CoveredMore DEF Searched

LEMMA ReportedMore ==
  ASSUME NEW d, NEW p, NEW rep, NEW m, Reported(d, p, rep, m),
         NEW more, rep \subseteq more, \A r \in more : r \in rep \/ Right(d, r, m)
  PROVE  Reported(d, p, more, m)
<1>1. \A i \in DOMAIN d : Past(p, i) /\ d[i].kind = "const" => Searched(d, i, more)
  BY SearchedMore DEF Reported
<1> QED
  BY <1>1 DEF Reported

LEMMA ElementIs ==
  ASSUME NEW d, Declared(d), NEW q \in ElementsOf(d)
  PROVE  /\ q = <<q[1], q[2]>> /\ q[1] \in DOMAIN d /\ q[2] \in 1 .. Len(Jobs(d[q[1]]))
         /\ JobAt(d, q).purpose = "index" /\ JobAt(d, q).expr.op = "index"
<1>1. PICK i \in DOMAIN d : q \in {i} \X DOMAIN Jobs(d[i])
  BY DEF ElementsOf
<1>2. DOMAIN Jobs(d[i]) = 1 .. Len(Jobs(d[i]))
  BY JobsAre, ListFacts DEF Ordered
<1>3. q = <<q[1], q[2]>> /\ q[1] = i /\ q[2] \in DOMAIN Jobs(d[i])
  BY <1>1
<1> QED
  BY <1>2, <1>3 DEF ElementsOf

LEMMA NextBefore ==
  ASSUME NEW d, Declared(d), NEW p, Standing(d, p), p[1] <= Len(d), NEW q \in ElementsOf(d),
         Before(q, NextPlace(d, p))
  PROVE  Before(q, p) \/ q = p
<1> DEFINE N == Len(d)
           P1 == p[1]
           P2 == p[2]
           Q1 == q[1]
           Q2 == q[2]
           L(i) == Len(Jobs(d[i]))
<1>1. N \in Nat /\ DOMAIN d = 1 .. N
  BY ListFacts DEF Declared
<1>2. P1 \in 1 .. N /\ P2 \in 1 .. L(P1) /\ p = <<P1, P2>>
  BY <1>1 DEF Standing
<1>3. Q1 \in 1 .. N /\ Q2 \in 1 .. L(Q1) /\ q = <<Q1, Q2>>
  BY <1>1, ElementIs
<1>4. L(P1) \in Nat /\ L(Q1) \in Nat
  BY <1>1, <1>2, <1>3, JobsAre, ListFacts DEF Ordered
<1>5. NextPlace(d, p) = IF P2 < L(P1) THEN <<P1, P2 + 1>> ELSE <<P1 + 1, 1>>
  BY DEF NextPlace
<1> HIDE DEF N, P1, P2, Q1, Q2, L
<1>6. CASE P2 < L(P1)
  <2> DEFINE z == NextPlace(d, p)
  <2>1. z[1] = P1 /\ z[2] = P2 + 1
    BY <1>5, <1>6
  <2>2. Q1 < P1 \/ (Q1 = P1 /\ Q2 < P2 + 1)
    BY <2>1 DEF Before, Q1, Q2
  <2>3. Q1 < P1 \/ (Q1 = P1 /\ Q2 < P2) \/ (Q1 = P1 /\ Q2 = P2)
    BY <1>2, <1>3, <1>4, <2>2
  <2> QED
    BY <1>2, <1>3, <2>3 DEF Before, Q1, Q2, P1, P2
<1>7. CASE ~(P2 < L(P1))
  <2> DEFINE z == NextPlace(d, p)
  <2>1. z[1] = P1 + 1 /\ z[2] = 1
    BY <1>5, <1>7
  <2>2. Q1 < P1 + 1 \/ (Q1 = P1 + 1 /\ Q2 < 1)
    BY <2>1 DEF Before, Q1, Q2
  <2>3. Q1 < P1 \/ Q1 = P1
    BY <1>1, <1>2, <1>3, <1>4, <2>2
  <2>4. Q1 = P1 => Q2 < P2 \/ Q2 = P2
    BY <1>2, <1>3, <1>4, <1>7
  <2> QED
    BY <1>2, <1>3, <2>3, <2>4 DEF Before, Q1, Q2, P1, P2
<1> QED
  BY <1>6, <1>7

\* What the job in hand has to report before it is left.
Settled(d, p, rep, m) ==
  /\ ~Past(p, p[1]) /\ NoLength(d, p[1], m) => <<"size", d[p[1]].sym>> \in rep
  /\ p \in ElementsOf(d) /\ WrongIndex(d, p, m) => <<"index", p>> \in rep
  /\ ~Past(p, p[1]) /\ d[p[1]].kind = "const" => Searched(d, p[1], rep)

LEMMA ReportedNext ==
  ASSUME NEW d, Declared(d), NEW p, Standing(d, p), p[1] <= Len(d),
         NEW rep, NEW m, Reported(d, p, rep, m), Settled(d, p, rep, m)
  PROVE  Reported(d, NextPlace(d, p), rep, m)
<1>1. \A i \in DOMAIN d : Past(NextPlace(d, p), i) <=> Past(p, i) \/ i = p[1]
  BY NextStands
<1>2. \A q \in ElementsOf(d) : Before(q, NextPlace(d, p)) => Before(q, p) \/ q = p
  BY NextBefore
<1>3. \A r \in rep : Right(d, r, m)
  BY DEF Reported
<1>4. \A i \in DOMAIN d : Past(NextPlace(d, p), i) /\ NoLength(d, i, m) => <<"size", d[i].sym>> \in rep
  BY <1>1 DEF Reported, Settled
<1>5. \A q \in ElementsOf(d) : Before(q, NextPlace(d, p)) /\ WrongIndex(d, q, m) => <<"index", q>> \in rep
  BY <1>2 DEF Reported, Settled
<1>6. \A i \in DOMAIN d : Past(NextPlace(d, p), i) /\ d[i].kind = "const" => Searched(d, i, rep)
  BY <1>1 DEF Reported, Settled
<1> QED
  BY <1>3, <1>4, <1>5, <1>6 DEF Reported

-----------------------------------------------------------------------------
(***************************************************************************)
(* The invariant.                                                          *)
(***************************************************************************)
Searching(d, p, st, rep) ==
  /\ Distinct(st)
  /\ st # <<>> /\ JobAt(d, p).purpose # "index" => Explored(d, OuterOf(JobAt(d, p)), st, rep)

KnownOnly(map) == \A s \in DOMAIN map : Known(map[s])

Measuring(d, p, map) ==
  \A s \in Symbols : map[s] # 0 =>
    \E i \in DOMAIN d : d[i].sizes # <<>> /\ d[i].sym = s /\ Past(p, i)

Indexing(d, p, st, map) ==
  st # <<>> /\ JobAt(d, p).purpose = "index" =>
    JobAt(d, p).expr.op = "index" /\ map[JobAt(d, p).expr.args[1]] # 0

ReportInv ==
  /\ FoldInv
  /\ Searching(decls, place, stack, reports)
  /\ KnownOnly(values)
  /\ Measuring(decls, place, lengths)
  /\ Indexing(decls, place, stack, lengths)
  /\ Reported(decls, place, reports, MeaningIn(decls))

LEMMA StartsReportInv == FoldInit => ReportInv
<1> SUFFICES ASSUME FoldInit PROVE ReportInv
  OBVIOUS
<1>1. FoldInv
  BY StartsFoldInv
<1>2. /\ place = <<1, 1>> /\ stack = <<>> /\ reports = {}
      /\ values = [s \in {} |-> Nullopt] /\ lengths = [s \in Symbols |-> 0]
  BY DEF FoldInit
<1>3. Declared(decls)
  BY <1>1 DEF FoldInv
<1>4. Searching(decls, place, stack, reports)
  <2>1. Len(stack) = 0
    BY <1>2
  <2> DEFINE n == Len(stack)
  <2>2. n = 0
    BY <2>1
  <2> HIDE DEF n
  <2>3. 1 .. n = {}
    BY <2>2
  <2> QED
    BY <1>2, <2>3 DEF Searching, Distinct, n
<1>5. KnownOnly(values) /\ Measuring(decls, place, lengths) /\ Indexing(decls, place, stack, lengths)
  BY <1>2 DEF KnownOnly, Measuring, Indexing
<1>6. DOMAIN decls = 1 .. Len(decls) /\ Len(decls) \in Nat
  BY <1>3, ListFacts DEF Declared
<1>7. place[1] = 1 /\ place[2] = 1
  BY <1>2
<1>8. \A i \in DOMAIN decls : ~Past(place, i)
  <2> DEFINE N == Len(decls)
  <2>1. DOMAIN decls = 1 .. N /\ N \in Nat
    BY <1>6
  <2> HIDE DEF N
  <2>2. \A i \in 1 .. N : ~(i < 1) /\ ~(1 > 1)
    BY <2>1
  <2> QED
    BY <1>7, <2>1, <2>2 DEF Past
<1>9. \A q \in ElementsOf(decls) : ~Before(q, place)
  <2> TAKE q \in ElementsOf(decls)
  <2> DEFINE N == Len(decls)
             l == Len(Jobs(decls[q[1]]))
             Q1 == q[1]
             Q2 == q[2]
  <2>1. Q1 \in 1 .. N /\ Q2 \in 1 .. l
    BY <1>3, <1>6, ElementIs
  <2> HIDE DEF N, l, Q1, Q2
  <2>2. ~(Q1 < 1) /\ ~(Q2 < 1)
    BY <2>1
  <2> QED
    BY <1>7, <2>2 DEF Before, Q1, Q2
<1>10. Reported(decls, place, reports, MeaningIn(decls))
  BY <1>2, <1>8, <1>9 DEF Reported
<1> QED
  BY <1>1, <1>4, <1>5, <1>10 DEF ReportInv

-----------------------------------------------------------------------------
(***************************************************************************)
(* A step inside an expression: the stack, and the cycles that are         *)
(* reported.                                                               *)
(***************************************************************************)

LEMMA InsideKeeps ==
  ASSUME ReportInv, FoldInv', stack # <<>>, UNCHANGED <<decls, place, lengths>>,
         KnownOnly(values'), Searching(decls, place, stack', reports'),
         reports \subseteq reports',
         \A r \in reports' : r \in reports \/ Right(decls, r, MeaningIn(decls))
  PROVE  ReportInv'
<1>1. Reported(decls, place, reports', MeaningIn(decls))
  BY ReportedMore DEF ReportInv
<1>2. Indexing(decls, place, stack', lengths)
  BY DEF ReportInv, Indexing
<1> QED
  BY <1>1, <1>2 DEF ReportInv

\* An answer for the top of the stack.
LEMMA GivenSearching ==
  ASSUME NEW d, NEW p, NEW st, NEW m, Stacked(d, OuterOf(JobAt(d, p)), st, m), st # <<>>,
         NEW rep, Searching(d, p, st, rep), NEW more, rep \subseteq more,
         NEW x, AwaitsIn(d, OuterOf(JobAt(d, p)), st[Len(st)], x),
         JobAt(d, p).purpose # "index" /\ x \in Unknown(d) => Covered(d, SymsTo(st, Len(st)), x, more),
         NEW v
  PROVE  Searching(d, p, Give(st, v), more)
<1> DEFINE outer == OuterOf(JobAt(d, p))
           t == Give(st, v)
<1>1. Given(st, t, v)
  BY GiveIs
<1>2. Distinct(t)
  BY <1>1, DistinctKept DEF Searching
<1> HIDE DEF t
<1>3. ASSUME JobAt(d, p).purpose # "index" PROVE Explored(d, outer, t, more)
  <2>1. Explored(d, outer, st, rep)
    BY <1>3 DEF Searching
  <2>2. x \in Unknown(d) => Covered(d, SymsTo(st, Len(st)), x, more)
    BY <1>3
  <2>3. Stacked(d, outer, st, m) /\ AwaitsIn(d, outer, st[Len(st)], x)
    OBVIOUS
  <2> HIDE DEF outer
  <2> QED
    BY <1>1, <2>1, <2>2, <2>3, ExploredGive
<1> QED
  BY <1>2, <1>3 DEF Searching, t

LEMMA AnswerReportInv == ASSUME ReportInv, AnswerAtOnce PROVE ReportInv'
<1> DEFINE m == MeaningIn(decls)
           outer == OuterOf(JobAt(decls, place))
           v == IF Operand \in DOMAIN values THEN values[Operand] ELSE Nullopt
<1>1. FoldInv /\ FoldInv'
  BY AnswerFoldInv DEF ReportInv
<1>2. /\ Wanted /\ UNCHANGED <<decls, place, values, reports, lengths>>
      /\ Operand \notin Scalars \/ Operand \in DOMAIN values
      /\ stack' = Give(stack, v)
  BY DEF AnswerAtOnce
<1>3. /\ AtTop(decls, place, stack, m) /\ stack # <<>>
      /\ AwaitsIn(decls, outer, stack[Len(stack)], Operand)
  BY <1>1, <1>2, OperandIs
<1>4. Stacked(decls, outer, stack, m)
  BY <1>3 DEF AtTop
<1>5. Operand \notin Unknown(decls)
  BY <1>1, <1>2, ScalarsAre DEF ReportInv, KnownOnly, FoldInv, Remembered, Unknown
<1> HIDE DEF v, m
<1>6. Searching(decls, place, stack, reports)
  BY DEF ReportInv
<1>7. Searching(decls, place, Give(stack, v), reports)
  BY <1>3, <1>4, <1>5, <1>6, GivenSearching
<1> QED
  BY <1>1, <1>2, <1>3, <1>7, InsideKeeps DEF ReportInv

LEMMA CycleReportInv == ASSUME ReportInv, ReportCycle PROVE ReportInv'
<1> DEFINE m == MeaningIn(decls)
           outer == OuterOf(JobAt(decls, place))
           x == Operand
<1>1. FoldInv /\ FoldInv'
  BY CycleFoldInv DEF ReportInv
<1>2. /\ Wanted /\ UNCHANGED <<decls, place, values, lengths>>
      /\ x \in ScalarsOf(decls) /\ x \in {stack[i].sym : i \in DOMAIN stack}
      /\ stack' = Give(stack, Nullopt)
  BY ScalarsAre DEF ReportCycle, Cyclic, InProgress
<1>3. reports' = IF JobAt(decls, place).purpose # "index" THEN reports \cup {<<"cycle", x>>} ELSE reports
  BY OuterIs DEF ReportCycle, Diagnose
<1>4. /\ AtTop(decls, place, stack, m) /\ stack # <<>>
      /\ AwaitsIn(decls, outer, stack[Len(stack)], x)
  BY <1>1, <1>2, OperandIs
<1>5. Stacked(decls, outer, stack, m)
  BY <1>4 DEF AtTop
<1>6. DOMAIN stack = 1 .. Len(stack)
  BY <1>5, ListFacts DEF Stacked
<1>7. PICK j \in 1 .. Len(stack) : stack[j].sym = x
  BY <1>2, <1>6
<1>8. Declared(decls) /\ Searching(decls, place, stack, reports)
  BY <1>1 DEF FoldInv, ReportInv
<1> HIDE DEF outer, x
<1>9. OnCycle(decls, x)
  BY <1>2, <1>4, <1>5, <1>7, <1>8, CycleIsMeant DEF Searching, m
<1>10. x \in SymsTo(stack, Len(stack))
  BY <1>7 DEF SymsTo
<1>11. JobAt(decls, place).purpose # "index" => Covered(decls, SymsTo(stack, Len(stack)), x, reports')
  BY <1>3, <1>10 DEF Covered
<1>12. reports \subseteq reports'
  BY <1>3
<1>13. \A r \in reports' : r \in reports \/ Right(decls, r, MeaningIn(decls))
  BY <1>3, <1>9 DEF Right
<1> HIDE DEF m
<1>14. Searching(decls, place, Give(stack, Nullopt), reports')
  BY <1>4, <1>5, <1>8, <1>11, <1>12, GivenSearching DEF outer
<1>15. KnownOnly(values)
  BY DEF ReportInv
<1> QED
  BY <1>1, <1>2, <1>4, <1>12, <1>13, <1>14, <1>15, InsideKeeps

LEMMA EnterReportInv == ASSUME ReportInv, EvalConstant PROVE ReportInv'
<1> DEFINE m == MeaningIn(decls)
           outer == OuterOf(JobAt(decls, place))
           t == Append(stack, Activation(Operand))
<1>1. FoldInv /\ FoldInv'
  BY EnterFoldInv DEF ReportInv
<1>2. /\ Wanted /\ UNCHANGED <<decls, place, values, reports, lengths>>
      /\ Operand \notin {stack[i].sym : i \in DOMAIN stack}
      /\ stack' = t
  BY DEF EvalConstant, Cyclic, InProgress
<1>3. AtTop(decls, place, stack, m) /\ stack # <<>>
  BY <1>1, <1>2, OperandIs
<1>4. IsList(stack)
  BY <1>3 DEF AtTop, Stacked
<1>5. DOMAIN stack = 1 .. Len(stack)
  BY <1>4, ListFacts
<1>6. Pushed(stack, t, Operand)
  BY <1>4, PushIs
<1>7. Searching(decls, place, stack, reports) /\ KnownOnly(values)
  BY DEF ReportInv
<1> HIDE DEF t, m, outer
<1>8. Distinct(t)
  BY <1>2, <1>5, <1>6, <1>7, DistinctKept DEF Searching
<1>9. Searching(decls, place, t, reports)
  BY <1>3, <1>6, <1>7, <1>8, ExploredPush DEF Searching
<1> QED
  BY <1>1, <1>2, <1>3, <1>7, <1>9, InsideKeeps

LEMMA LeaveReportInv == ASSUME ReportInv, LeaveConstant PROVE ReportInv'
<1> DEFINE m == MeaningIn(decls)
           d == decls
           outer == OuterOf(JobAt(decls, place))
           s == Top.sym
           v == EvalWith(InitOf(s), Top.got)
           front == SubSeq(stack, 1, Len(stack) - 1)
           top == stack[Len(stack)]
           A == SymsTo(front, Len(front))
<1>1. FoldInv /\ FoldInv'
  BY LeaveFoldInv DEF ReportInv
<1>2. stack # <<>> /\ Pending(ExprOf(Top), Top.got) = <<>> /\ ~Outermost(Top)
      /\ UNCHANGED <<decls, place, reports, lengths>>
      /\ values' = Cache(s, v) /\ stack' = Give(front, v)
  BY DEF LeaveConstant, Wanted, Outermost, Callers
<1>3. /\ AtTop(decls, place, stack, m)
      /\ ExprOf(Top) = FrameExpr(decls, outer, Top)
      /\ Top = top
  BY <1>1, <1>2, TopIs DEF Top
<1>4. Stacked(decls, outer, stack, m) /\ IsList(stack) /\ Expression(FrameExpr(d, outer, top))
  BY <1>3 DEF AtTop, Stacked
<1>5. Declared(decls) /\ Searching(decls, place, stack, reports) /\ KnownOnly(values)
  BY <1>1 DEF FoldInv, ReportInv
<1>6. KnownOnly(values')
  BY <1>2, <1>5 DEF KnownOnly, Cache, Bind
<1> HIDE DEF outer, v
<1>7. /\ Stacked(d, outer, front, m) /\ front # <<>>
      /\ AwaitsIn(d, outer, front[Len(front)], s)
      /\ s \in ScalarsOf(d)
  <2> HIDE DEF m
  <2>1. ~Outermost(stack[Len(stack)])
    BY <1>2, <1>3
  <2> QED
    BY <1>2, <1>3, <1>4, <2>1, PopKeeps
<1>8. Popped(stack, front)
  BY <1>2, <1>4, PopIs
<1>9. Pending(FrameExpr(d, outer, top), top.got) = <<>> /\ s = top.sym
  BY <1>2, <1>3
<1>10. Distinct(stack)
  BY <1>5 DEF Searching
<1>11. A = SymsTo(stack, Len(stack) - 1)
  <2>1. Len(front) = Len(stack) - 1 /\ \A i \in 1 .. Len(front) : front[i] = stack[i]
    BY <1>8 DEF Popped
  <2> DEFINE l == Len(front)
             n == Len(stack)
  <2>2. l = n - 1 /\ \A i \in 1 .. l : front[i] = stack[i]
    BY <2>1
  <2> HIDE DEF l, n, front
  <2> QED
    BY <2>2 DEF SymsTo, l, n
<1> HIDE DEF top, front, A, s
<1>12. ASSUME JobAt(decls, place).purpose # "index"
       PROVE  Covered(d, A, s, reports) /\ Explored(d, outer, front, reports)
  <2>1. Explored(d, outer, stack, reports)
    BY <1>2, <1>5, <1>12 DEF Searching, outer
  <2>2. Explored(d, outer, front, reports)
    BY <1>8, <2>1, ExploredPop
  <2>3. Covered(d, SymsTo(stack, Len(stack) - 1), top.sym, reports)
    <3>1. Expression(FrameExpr(d, outer, stack[Len(stack)]))
      BY <1>4 DEF top
    <3>2. Pending(FrameExpr(d, outer, stack[Len(stack)]), stack[Len(stack)].got) = <<>>
      BY <1>9 DEF top
    <3>3. stack[Len(stack)].sym \in ScalarsOf(d)
      BY <1>7, <1>9 DEF top
    <3>4. Covered(d, SymsTo(stack, Len(stack) - 1), stack[Len(stack)].sym, reports)
      BY <1>2, <1>4, <1>5, <1>10, <2>1, <3>1, <3>2, <3>3, DoneCovers
    <3> QED
      BY <3>4 DEF top
  <2> QED
    BY <1>9, <1>11, <2>2, <2>3
<1>13. Distinct(front)
  BY <1>8, <1>10, DistinctKept
<1>14. Searching(d, place, front, reports)
  BY <1>12, <1>13 DEF Searching, outer
<1> HIDE DEF m
<1>15. Searching(d, place, Give(front, v), reports)
  BY <1>7, <1>12, <1>14, GivenSearching DEF A, outer
<1> QED
  BY <1>1, <1>2, <1>6, <1>15, InsideKeeps

-----------------------------------------------------------------------------
(***************************************************************************)
(* A job begins, and ends.                                                 *)
(***************************************************************************)
LEMMA EvaluateReportInv == ASSUME ReportInv, Evaluate PROVE ReportInv'
<1> DEFINE t == <<Activation("")>>
<1>1. FoldInv /\ FoldInv'
  BY EvaluateFoldInv DEF ReportInv
<1>2. /\ UNCHANGED <<decls, place, values, reports, lengths>> /\ ~Skipped
      /\ stack' = t
  BY DEF Evaluate
<1>3. Explored(decls, OuterOf(JobAt(decls, place)), t, reports) /\ Distinct(t)
  BY ExploredStart
<1> HIDE DEF t
<1>4. Searching(decls, place, t, reports)
  BY <1>3 DEF Searching
<1>5. Indexing(decls, place, t, lengths)
  BY <1>2, OuterIs DEF Indexing, Skipped, Indexed
<1>6. /\ KnownOnly(values) /\ Measuring(decls, place, lengths)
      /\ Reported(decls, place, reports, MeaningIn(decls))
  BY DEF ReportInv
<1> QED
  BY <1>1, <1>2, <1>4, <1>5, <1>6 DEF ReportInv

LEMMA EmptySearching ==
  ASSUME NEW d, NEW p, NEW rep, NEW map
  PROVE  Searching(d, p, <<>>, rep) /\ Indexing(d, p, <<>>, map)
<1>1. Len(<<>>) = 0
  OBVIOUS
<1> DEFINE t == <<>>
           n == Len(t)
<1>2. n = 0 /\ t = <<>>
  BY <1>1
<1> HIDE DEF n, t
<1>3. 1 .. n = {}
  BY <1>2
<1>4. Distinct(t)
  BY <1>3 DEF Distinct, n
<1> QED
  BY <1>2, <1>4 DEF Searching, Indexing

LEMMA EndKeeps ==
  ASSUME ReportInv, FoldInv', place[1] <= Len(decls),
         stack' = <<>>, place' = After, UNCHANGED <<decls, values>>,
         \A s \in Symbols : lengths'[s] = lengths[s] \/ (s = decls[place[1]].sym /\ decls[place[1]].sizes # <<>>),
         reports \subseteq reports',
         \A r \in reports' : r \in reports \/ Right(decls, r, MeaningIn(decls)),
         Settled(decls, place, reports', MeaningIn(decls))
  PROVE  ReportInv'
<1> DEFINE m == MeaningIn(decls)
<1> HIDE DEF m
<1>1. Declared(decls) /\ Standing(decls, place)
  BY DEF ReportInv, FoldInv
<1>2. place' = NextPlace(decls, place)
  BY AfterIs
<1>3. Reported(decls, place, reports', m)
  BY ReportedMore DEF ReportInv, m
<1>4. Settled(decls, place, reports', m)
  BY DEF m
<1>5. Reported(decls, place', reports', m)
  BY <1>1, <1>2, <1>3, <1>4, ReportedNext
<1>6. \A i \in DOMAIN decls : Past(place', i) <=> Past(place, i) \/ i = place[1]
  BY <1>1, <1>2, NextStands
<1>7. place[1] \in DOMAIN decls
  BY <1>1, JobInHand DEF InHand
<1>8. Measuring(decls, place, lengths)
  BY DEF ReportInv
<1>9. Measuring(decls, place', lengths')
  BY <1>6, <1>7, <1>8 DEF Measuring
<1>10. Searching(decls, place', stack', reports') /\ Indexing(decls, place', stack', lengths')
  BY EmptySearching
<1>11. KnownOnly(values')
  BY DEF ReportInv
<1> QED
  BY <1>5, <1>9, <1>10, <1>11 DEF ReportInv, m

\* The sizes there are before an index, or in its own declaration, have been folded.
LEMMA SizedIsPast ==
  ASSUME NEW d, NEW p, InHand(d, p), JobAt(d, p).purpose = "index"
  PROVE  /\ \A i \in DOMAIN d \cap Int : i <= p[1] /\ d[i].sizes # <<>> => Past(p, i)
         /\ \A i \in Int : Past(p, i) => i <= p[1]
         /\ d[p[1]].kind # "const"
<1>1. p[1] \in Nat /\ p[2] \in Nat /\ p[2] >= 1
  BY DEF InHand
<1>2. d[p[1]].sizes # <<>> => p[2] # 1
  BY DEF InHand
<1>3. d[p[1]].kind # "const"
  BY DEF InHand, Job
<1> DEFINE P1 == p[1]
           P2 == p[2]
<1>4. P1 \in Nat /\ P2 \in Nat /\ P2 >= 1
  BY <1>1
<1> HIDE DEF P1, P2
<1>5. P2 # 1 => P2 > 1
  BY <1>4
<1>6. \A i \in Int : (i <= P1 => i < P1 \/ i = P1) /\ (i < P1 \/ i = P1 => i <= P1)
  BY <1>4
<1> QED
  BY <1>2, <1>3, <1>5, <1>6 DEF Past, P1, P2

\* Of the element at hand, its array has the length of the sizes before it.
LEMMA ArrayLength ==
  ASSUME ReportInv, InHand(decls, place), JobAt(decls, place).purpose = "index",
         NEW e, e = JobAt(decls, place).expr, e.op = "index"
  PROVE  /\ \A i \in DOMAIN decls : i <= place[1] /\ decls[i].sizes # <<>> /\ decls[i].sym = e.args[1]
                => lengths[e.args[1]] = LengthFor(decls, i, MeaningIn(decls))
         /\ lengths[e.args[1]] # 0 =>
              \E i \in DOMAIN decls : /\ i <= place[1] /\ decls[i].sizes # <<>> /\ decls[i].sym = e.args[1]
                                      /\ lengths[e.args[1]] = LengthFor(decls, i, MeaningIn(decls))
<1> DEFINE m == MeaningIn(decls)
<1>1. DOMAIN decls = 1 .. Len(decls) /\ Len(decls) \in Nat
  BY ListFacts DEF ReportInv, FoldInv, Declared
<1>2. \A i \in DOMAIN decls : i \in Int
  <2> DEFINE N == Len(decls)
  <2>1. DOMAIN decls = 1 .. N /\ N \in Nat
    BY <1>1
  <2> HIDE DEF N
  <2> QED
    BY <2>1
<1>3. Measured(decls, place, lengths, m) /\ Measuring(decls, place, lengths)
  BY DEF ReportInv, FoldInv
<1>4. Checked(e)
  BY DEF InHand
<1>5. e.args[1] \in Symbols
  BY <1>4 DEF Checked
<1>6. /\ \A i \in DOMAIN decls \cap Int : i <= place[1] /\ decls[i].sizes # <<>> => Past(place, i)
      /\ \A i \in Int : Past(place, i) => i <= place[1]
  BY SizedIsPast
<1> HIDE DEF m
<1>7. \A i \in DOMAIN decls : i <= place[1] /\ decls[i].sizes # <<>> /\ decls[i].sym = e.args[1]
          => lengths[e.args[1]] = LengthFor(decls, i, m)
  BY <1>2, <1>3, <1>6 DEF Measured
<1>8. lengths[e.args[1]] # 0 =>
        \E i \in DOMAIN decls : i <= place[1] /\ decls[i].sizes # <<>> /\ decls[i].sym = e.args[1]
  BY <1>2, <1>3, <1>5, <1>6 DEF Measuring
<1> QED
  BY <1>7, <1>8 DEF m

\* An index leaves no size and no constant behind.
LEMMA IndexSettles ==
  ASSUME NEW d, Declared(d), NEW p, InHand(d, p), JobAt(d, p).purpose = "index", NEW rep, NEW m,
         p \in ElementsOf(d) /\ WrongIndex(d, p, m) => <<"index", p>> \in rep
  PROVE  Settled(d, p, rep, m)
<1>1. p[1] \in DOMAIN d /\ p[1] \in Nat
  BY DEF InHand
<1>2. d[p[1]].kind # "const"
  BY SizedIsPast
<1>3. d[p[1]].sizes # <<>> => Past(p, p[1])
  <2> DEFINE P1 == p[1]
  <2>1. P1 \in Nat
    BY <1>1
  <2> HIDE DEF P1
  <2>2. P1 <= P1 /\ P1 \in Int
    BY <2>1
  <2> QED
    BY <1>1, <2>2, SizedIsPast DEF P1
<1> QED
  BY <1>2, <1>3 DEF Settled, NoLength

LEMMA SkipReportInv == ASSUME ReportInv, SkipIndex PROVE ReportInv'
<1> DEFINE m == MeaningIn(decls)
           e == JobAt(decls, place).expr
<1>1. FoldInv /\ FoldInv' /\ Declared(decls)
  BY SkipFoldInv DEF ReportInv, FoldInv
<1>2. /\ place[1] <= Len(decls) /\ stack = <<>> /\ place' = After
      /\ UNCHANGED <<decls, stack, values, reports, lengths>>
      /\ JobAt(decls, place).purpose = "index"
      /\ e.op = "index" => lengths[e.args[1]] = 0
  BY OuterIs DEF SkipIndex, Folding, Skipped, Indexed
<1>3. InHand(decls, place)
  BY <1>1, <1>2, JobInHand DEF FoldInv
<1> HIDE DEF m
<1>4. ASSUME place \in ElementsOf(decls), WrongIndex(decls, place, m) PROVE FALSE
  <2>1. e.op = "index"
    BY <1>4 DEF ElementsOf
  <2>2. PICK i \in DOMAIN decls : i <= place[1] /\ BeyondSize(decls, e, i, m)
    BY <1>4 DEF WrongIndex
  <2>3. LengthFor(decls, i, m) # 0 /\ decls[i].sizes # <<>> /\ decls[i].sym = e.args[1]
    BY <2>2 DEF BeyondSize
  <2>4. lengths[e.args[1]] = LengthFor(decls, i, m)
    BY <1>2, <1>3, <2>1, <2>2, <2>3, ArrayLength DEF m
  <2> QED
    BY <1>2, <2>1, <2>3, <2>4
<1>5. Settled(decls, place, reports, m)
  BY <1>1, <1>2, <1>3, <1>4, IndexSettles
<1> HIDE DEF e
<1> QED
  BY <1>1, <1>2, <1>5, EndKeeps DEF m

LEMMA CheckIndexReportInv == ASSUME ReportInv, CheckIndex PROVE ReportInv'
<1> DEFINE m == MeaningIn(decls)
           e == JobAt(decls, place).expr
           length == lengths[e.args[1]]
           v == Mean(decls, Name(e.args[2]), m)
<1>1. FoldInv /\ FoldInv' /\ Declared(decls)
  BY CheckIndexFoldInv DEF ReportInv, FoldInv
<1>2. /\ EndOf("index") /\ UNCHANGED <<folded, lengths>>
      /\ reports' = IF OutOfBounds(Answer, length) THEN reports \cup {<<"index", place>>} ELSE reports
  BY OuterIs DEF CheckIndex, Indexed
<1>3. /\ Answer = Mean(decls, OuterOf(JobAt(decls, place)), m)
      /\ place[1] <= Len(decls) /\ JobAt(decls, place).purpose = "index"
      /\ place' = After /\ stack' = <<>> /\ UNCHANGED <<decls, values>>
  BY <1>1, <1>2, EndMeans
<1>4. InHand(decls, place)
  BY <1>1, <1>3, JobInHand DEF FoldInv
<1>5. Answer = v
  BY <1>3 DEF OuterOf
<1>6. e.op = "index" /\ length # 0
  BY <1>2, <1>3 DEF EndOf, ReportInv, Indexing
<1>7. ProperOrNone(v)
  BY <1>1, NameIsChecked, MeaningIsProper, MeanIsProper
<1> HIDE DEF m, v
<1>8. Known(v) => Value(v) \in Int /\ v.raw \in Nat /\ (Value(v) >= 0 => Value(v) = v.raw)
  BY <1>7, NumberIsBits
<1>9. PICK i \in DOMAIN decls : /\ i <= place[1] /\ decls[i].sizes # <<>> /\ decls[i].sym = e.args[1]
                                /\ length = LengthFor(decls, i, m)
  BY <1>3, <1>4, <1>6, ArrayLength DEF m
<1>10. length \in Nat
  BY <1>1, <1>9, LengthIsPositive DEF m
<1>11. place \in ElementsOf(decls)
  <2>1. place = <<place[1], place[2]>> /\ place[2] \in 1 .. Len(Jobs(decls[place[1]]))
    BY <1>1, <1>3 DEF FoldInv, Standing
  <2>2. place[1] \in DOMAIN decls
    BY <1>4 DEF InHand
  <2>3. DOMAIN Jobs(decls[place[1]]) = 1 .. Len(Jobs(decls[place[1]]))
    BY <1>1, <2>2, JobsAre, ListFacts DEF Ordered
  <2>4. place \in {place[1]} \X DOMAIN Jobs(decls[place[1]])
    BY <2>1, <2>3
  <2> QED
    BY <1>3, <1>6, <2>2, <2>4 DEF ElementsOf
<1> HIDE DEF length
<1>12. OutOfBounds(Answer, length) <=> Known(v) /\ Value(v) >= length
  BY <1>5, <1>8, <1>10 DEF OutOfBounds
<1>13. ASSUME OutOfBounds(Answer, length) PROVE WrongIndex(decls, place, m)
  <2>1. BeyondSize(decls, e, i, m)
    BY <1>6, <1>9, <1>12, <1>13 DEF BeyondSize, v
  <2> QED
    BY <1>9, <2>1 DEF WrongIndex
<1>14. ASSUME WrongIndex(decls, place, m) PROVE OutOfBounds(Answer, length)
  <2>1. PICK j \in DOMAIN decls : j <= place[1] /\ BeyondSize(decls, e, j, m)
    BY <1>14 DEF WrongIndex
  <2>2. /\ decls[j].sizes # <<>> /\ decls[j].sym = e.args[1]
        /\ Known(v) /\ Value(v) >= LengthFor(decls, j, m)
    BY <2>1 DEF BeyondSize, v
  <2>3. length = LengthFor(decls, j, m)
    BY <1>3, <1>4, <1>6, <2>1, <2>2, ArrayLength DEF m, length
  <2> QED
    BY <1>12, <2>2, <2>3
<1> HIDE DEF e
<1>15. reports \subseteq reports' /\ \A r \in reports' : r \in reports \/ Right(decls, r, m)
  BY <1>2, <1>11, <1>13 DEF Right
<1>16. Settled(decls, place, reports', m)
  <2>1. WrongIndex(decls, place, m) => <<"index", place>> \in reports'
    BY <1>2, <1>14
  <2> QED
    BY <1>1, <1>3, <1>4, <2>1, IndexSettles
<1> QED
  BY <1>1, <1>2, <1>3, <1>15, <1>16, EndKeeps DEF m

LEMMA SizeReportInv == ASSUME ReportInv, FoldSize PROVE ReportInv'
<1> DEFINE m == MeaningIn(decls)
           i == place[1]
           s == decls[i].sym
<1>1. FoldInv /\ FoldInv' /\ Declared(decls)
  BY SizeFoldInv DEF ReportInv, FoldInv
<1>2. /\ EndOf("size")
      /\ IF IsLength(Answer)
         THEN lengths' = [lengths EXCEPT ![s] = Answer.raw] /\ reports' = reports
         ELSE reports' = reports \cup {<<"size", s>>} /\ lengths' = lengths
  BY DEF FoldSize
<1>3. /\ Answer = Mean(decls, OuterOf(JobAt(decls, place)), m)
      /\ place[1] <= Len(decls) /\ JobAt(decls, place).purpose = "size"
      /\ place' = After /\ stack' = <<>> /\ UNCHANGED <<decls, values>>
  BY <1>1, <1>2, EndMeans
<1>4. InHand(decls, place)
  BY <1>1, <1>3, JobInHand DEF FoldInv
<1>5. /\ i \in DOMAIN decls /\ decls[i].sizes # <<>>
      /\ JobAt(decls, place) = Job("size", decls[i].sizes[1])
  BY <1>3, <1>4 DEF InHand
<1>6. Answer = Mean(decls, decls[i].sizes[1], m)
  BY <1>3, <1>5 DEF OuterOf, Job
<1>7. decls[i].kind # "const"
  BY <1>1, <1>5 DEF Declared
<1>8. IsLength(Answer) <=> LengthFor(decls, i, m) # 0
  BY <1>1, <1>5, <1>6, LengthIsPositive DEF MeansLength
<1> HIDE DEF m, i
<1>9. place \notin ElementsOf(decls)
  BY <1>3 DEF ElementsOf
<1>10. reports \subseteq reports' /\ \A r \in reports' : r \in reports \/ Right(decls, r, m)
  <2>1. ~IsLength(Answer) => NoLength(decls, i, m)
    BY <1>5, <1>8 DEF NoLength
  <2> QED
    BY <1>2, <1>5, <2>1 DEF Right
<1>11. Settled(decls, place, reports', m)
  <2>1. NoLength(decls, i, m) => <<"size", decls[i].sym>> \in reports'
    BY <1>2, <1>8 DEF NoLength
  <2> QED
    BY <1>7, <1>9, <2>1 DEF Settled, i
<1>12. \A x \in Symbols : lengths'[x] = lengths[x] \/ (x = decls[place[1]].sym /\ decls[place[1]].sizes # <<>>)
  <2>1. DOMAIN lengths = Symbols
    BY <1>1 DEF FoldInv, Measured
  <2>2. lengths' = lengths \/ lengths' = [lengths EXCEPT ![s] = Answer.raw]
    BY <1>2
  <2> HIDE DEF s
  <2>3. \A x \in Symbols : lengths'[x] = lengths[x] \/ x = s
    BY <2>1, <2>2
  <2> QED
    BY <1>5, <2>3 DEF s, i
<1> QED
  BY <1>1, <1>3, <1>10, <1>11, <1>12, EndKeeps DEF m

LEMMA StoreReportInv == ASSUME ReportInv, StoreFolded PROVE ReportInv'
<1> DEFINE m == MeaningIn(decls)
           d == decls
           i == place[1]
           outer == OuterOf(JobAt(decls, place))
           top == stack[Len(stack)]
<1>1. FoldInv /\ FoldInv' /\ Declared(decls)
  BY StoreFoldInv DEF ReportInv, FoldInv
<1>2. EndOf("value") /\ UNCHANGED <<reports, lengths>>
  BY DEF StoreFolded
<1>3. /\ place[1] <= Len(decls) /\ JobAt(decls, place).purpose = "value"
      /\ place' = After /\ stack' = <<>> /\ UNCHANGED <<decls, values>>
  BY <1>1, <1>2, EndMeans
<1>4. InHand(decls, place)
  BY <1>1, <1>3, JobInHand DEF FoldInv
<1>5. stack # <<>> /\ Pending(ExprOf(Top), Top.got) = <<>> /\ Outermost(Top)
  BY <1>2 DEF EndOf, Wanted, Outermost
<1>6. /\ AtTop(decls, place, stack, m)
      /\ ExprOf(Top) = FrameExpr(decls, outer, Top) /\ Top = top
  BY <1>1, <1>5, TopIs DEF Top
<1>7. Stacked(decls, outer, stack, m) /\ Expression(FrameExpr(d, outer, top))
  BY <1>6 DEF AtTop
<1>8. place \notin ElementsOf(decls)
  BY <1>3 DEF ElementsOf
<1>9. decls[i].sizes # <<>> => Past(place, i)
  <2> SUFFICES ASSUME decls[i].sizes # <<>> PROVE Past(place, i)
    OBVIOUS
  <2>1. place[2] \in Nat /\ place[2] >= 1 /\ place[2] # 1
    BY <1>3, <1>4 DEF InHand
  <2>2. place[2] > 1
    BY <2>1
  <2> QED
    BY <2>2 DEF Past
<1> HIDE DEF m, outer
<1>10. Len(stack) = 1
  <2> DEFINE n == Len(stack)
  <2>1. n \in Nat /\ n # 0
    BY <1>5, <1>7, ListFacts DEF Stacked
  <2>2. \A j \in 1 .. n : IF j = 1 THEN Outermost(stack[j]) ELSE stack[j].sym \in ScalarsOf(d)
    BY <1>7 DEF Stacked
  <2>3. Outermost(stack[n])
    BY <1>5, <1>6
  <2> HIDE DEF n
  <2>4. n \in 1 .. n
    BY <2>1
  <2>5. \A s \in ScalarsOf(d) : s # ""
    BY <1>1, ScalarInit
  <2>6. n = 1
    BY <2>2, <2>3, <2>4, <2>5 DEF Outermost
  <2> QED
    BY <2>6 DEF n
<1>11. SymsTo(stack, Len(stack)) = Outmost
  <2>1. 1 .. 1 = {1}
    OBVIOUS
  <2>2. top.sym = ""
    BY <1>5, <1>6 DEF Outermost
  <2>3. stack[1].sym = ""
    BY <1>10, <2>2
  <2>4. SymsTo(stack, 1) = {stack[1].sym}
    BY <2>1 DEF SymsTo
  <2> QED
    BY <1>10, <2>3, <2>4 DEF Outmost
<1>12. ASSUME decls[i].kind = "const" PROVE Searched(decls, i, reports)
  <2>1. JobAt(decls, place) = Job("value", decls[i].exprs[1]) /\ i \in DOMAIN decls
    BY <1>4, <1>12 DEF InHand
  <2>2. outer = InitIn(d, decls[i].sym)
    <3>1. InitIn(d, decls[i].sym) = decls[i].exprs[1]
      BY <1>1, <1>12, <2>1, InitialiserOf
    <3> QED
      BY <2>1, <3>1 DEF outer, OuterOf, Job
  <2>3. FrameExpr(d, outer, top) = outer
    BY <1>5, <1>6 DEF FrameExpr, Outermost
  <2>4. FollowsIn(d, decls[i].sym) = FollowsOf(d, FrameExpr(d, outer, top), m)
    BY <2>2, <2>3 DEF FollowsIn, m
  <2>5. Explored(d, outer, stack, reports) /\ Distinct(stack)
    BY <1>3, <1>5 DEF ReportInv, Searching, outer
  <2>6. Pending(FrameExpr(d, outer, top), top.got) = <<>>
    BY <1>5, <1>6
  <2>7. \A y \in Unknown(d) : y \in FollowsOf(d, FrameExpr(d, outer, top), m)
          => Covered(d, SymsTo(stack, Len(stack)), y, reports)
    BY <1>1, <1>5, <1>7, <2>5, <2>6, DoneCovers DEF m
  <2> QED
    BY <1>11, <2>4, <2>7 DEF Searched
<1>13. Settled(decls, place, reports, m)
  BY <1>8, <1>9, <1>12 DEF Settled, NoLength
<1> HIDE DEF top
<1> QED
  BY <1>1, <1>2, <1>3, <1>13, EndKeeps DEF m

-----------------------------------------------------------------------------
LEMMA StepsReportInv == ReportInv /\ [FoldNext]_foldVars => ReportInv'
<1> SUFFICES ASSUME ReportInv, [FoldNext]_foldVars PROVE ReportInv'
  OBVIOUS
<1>1. CASE SkipIndex
  BY <1>1, SkipReportInv
<1>2. CASE Evaluate
  BY <1>2, EvaluateReportInv
<1>3. CASE AnswerAtOnce
  BY <1>3, AnswerReportInv
<1>4. CASE ReportCycle
  BY <1>4, CycleReportInv
<1>5. CASE EvalConstant
  BY <1>5, EnterReportInv
<1>6. CASE LeaveConstant
  BY <1>6, LeaveReportInv
<1>7. CASE StoreFolded
  BY <1>7, StoreReportInv
<1>8. CASE FoldSize
  BY <1>8, SizeReportInv
<1>9. CASE CheckIndex
  BY <1>9, CheckIndexReportInv
<1>10. CASE UNCHANGED foldVars
  BY <1>10 DEF foldVars, ReportInv, FoldInv
<1> QED
  BY <1>1, <1>2, <1>3, <1>4, <1>5, <1>6, <1>7, <1>8, <1>9, <1>10 DEF FoldNext

\* When every declaration is past, so is every element.
LEMMA AllPast ==
  ASSUME FoldInv, Finished
  PROVE  /\ \A i \in DOMAIN decls : Past(place, i)
         /\ \A q \in ElementsOf(decls) : Before(q, place)
<1> DEFINE N == Len(decls)
           P1 == place[1]
<1>1. P1 \in 1 .. N + 1 /\ ~(P1 <= N)
  BY DEF FoldInv, Standing, Finished, Folding
<1>2. DOMAIN decls = 1 .. N /\ N \in Nat
  BY ListFacts DEF FoldInv, Declared
<1>3. \A q \in ElementsOf(decls) : q[1] \in DOMAIN decls
  BY ElementIs DEF FoldInv
<1> HIDE DEF N, P1
<1>4. \A i \in 1 .. N : i < P1
  BY <1>1, <1>2
<1> QED
  BY <1>2, <1>3, <1>4 DEF Past, Before, P1

LEMMA CyclesAreReported ==
  ASSUME ReportInv, Finished, NEW s, OnCycle(decls, s)
  PROVE  <<"cycle", s>> \in reports
<1> DEFINE d == decls
<1>1. Declared(d)
  BY DEF ReportInv, FoldInv
<1>2. PICK n \in Nat \ {0} : \E q : /\ Trail(d, q, n, Outmost) /\ q[1] = s
                                    /\ s \in FollowsIn(d, q[n])
  BY <1>1, CycleHasTrail DEF Outmost
<1>3. PICK q : Trail(d, q, n, Outmost) /\ q[1] = s /\ s \in FollowsIn(d, q[n])
  BY <1>2
<1>4. 1 \in 1 .. n /\ n \in 1 .. n
  OBVIOUS
<1>5. s \in Unknown(d) /\ s \notin Outmost /\ q[n] \in Unknown(d)
  BY <1>3, <1>4 DEF Trail
<1>6. q[n] \in ScalarsOf(d)
  BY <1>5 DEF Unknown
<1>7. PICK i \in DOMAIN d : d[i].kind = "const" /\ d[i].sym = q[n]
  BY <1>6 DEF ScalarsOf
<1>8. Searched(d, i, reports)
  BY <1>7, AllPast DEF ReportInv, Reported
<1>9. Covered(d, Outmost, s, reports)
  BY <1>3, <1>5, <1>7, <1>8 DEF Searched
<1>10. OnTrail(q, n, s)
  BY <1>3, <1>4 DEF OnTrail
<1> QED
  BY <1>3, <1>5, <1>9, <1>10 DEF Covered

LEMMA WrongIs ==
  ASSUME Declared(decls), NEW q
  PROVE  WrongIndex(decls, q, MeaningIn(decls)) <=>
           LET e == ElementAt(q)
           IN  SizedBefore(e.args[1], q[1]) /\ Outside(e.args[1], e.args[2], MeaningIn(decls))
<1> DEFINE m == MeaningIn(decls)
           e == ElementAt(q)
           v == Mean(decls, Name(e.args[2]), m)
           length == LengthOf(e.args[1], m)
<1>1. e = JobAt(decls, q).expr
  BY DEF ElementAt, JobAt
<1>2. Outside(e.args[1], e.args[2], m) <=> length # 0 /\ Known(v) /\ Value(v) >= length
  BY ComesIs DEF Outside
<1>3. SizedBefore(e.args[1], q[1]) <=>
        \E i \in DOMAIN decls : decls[i].sizes # <<>> /\ i <= q[1] /\ decls[i].sym = e.args[1]
  BY DEF SizedBefore, Sized
<1>4. \A i \in DOMAIN decls : decls[i].sizes # <<>> /\ decls[i].sym = e.args[1] => length = LengthFor(decls, i, m)
  BY SizeIsLength
<1>5. WrongIndex(decls, q, m) <=>
        \E i \in DOMAIN decls : /\ i <= q[1] /\ decls[i].sizes # <<>> /\ decls[i].sym = e.args[1]
                                /\ LengthFor(decls, i, m) # 0
                                /\ Known(v) /\ Value(v) >= LengthFor(decls, i, m)
  BY <1>1 DEF WrongIndex, BeyondSize
<1> HIDE DEF m, e, v, length
<1>6. WrongIndex(decls, q, m) <=> SizedBefore(e.args[1], q[1]) /\ Outside(e.args[1], e.args[2], m)
  BY <1>2, <1>3, <1>4, <1>5
<1> QED
  BY <1>6 DEF m, e

LEMMA ReportInvReports == ReportInv => ReportsAreExact
<1> SUFFICES ASSUME ReportInv, Finished PROVE ReportsAreExact
  BY DEF ReportsAreExact
<1> DEFINE m == MeaningIn(decls)
           cycles == {<<"cycle", s>> : s \in {t \in Scalars : t \in Reached(t, m)}}
           sizes == {<<"size", decls[i].sym>> : i \in {j \in Sized : LengthOf(decls[j].sym, m) = 0}}
           indices == {<<"index", p>> :
                         p \in {q \in Elements :
                                  LET e == ElementAt(q)
                                  IN  /\ SizedBefore(e.args[1], q[1])
                                      /\ Outside(e.args[1], e.args[2], m)}}
<1>1. FoldInv /\ Declared(decls) /\ IsList(decls)
  BY DEF ReportInv, FoldInv, Declared
<1>2. Meaning(AsFolded) = m
  BY <1>1, MeaningOfDeclarations
<1>3. \A s \in Scalars : s \in Reached(s, m) <=> OnCycle(decls, s)
  BY <1>1, ReachedIs
<1>4. \A s : OnCycle(decls, s) => s \in Scalars
  BY ScalarsAre DEF OnCycle
<1>5. Elements = ElementsOf(decls)
  BY DEF Elements, ElementsOf, JobAt
<1>6. \A i \in DOMAIN decls : i \in Sized /\ LengthOf(decls[i].sym, m) = 0 <=> NoLength(decls, i, m)
  BY <1>1, SizeIsLength DEF Sized, NoLength
<1>7. \A i \in Sized : i \in DOMAIN decls
  BY DEF Sized
<1>8. \A q : WrongIndex(decls, q, m) <=> LET e == ElementAt(q)
                                         IN  /\ SizedBefore(e.args[1], q[1])
                                             /\ Outside(e.args[1], e.args[2], m)
  BY <1>1, WrongIs
<1>9. Reported(decls, place, reports, m)
  BY DEF ReportInv
<1>10. /\ \A i \in DOMAIN decls : Past(place, i)
       /\ \A q \in ElementsOf(decls) : Before(q, place)
  BY <1>1, AllPast
<1> HIDE DEF m
<1>11. cycles = {<<"cycle", s>> : s \in {t \in Scalars : OnCycle(decls, t)}}
  BY <1>3
<1>12. sizes = {<<"size", decls[i].sym>> : i \in {j \in DOMAIN decls : NoLength(decls, j, m)}}
  BY <1>6, <1>7
<1>13. indices = {<<"index", p>> : p \in {q \in ElementsOf(decls) : WrongIndex(decls, q, m)}}
  BY <1>5, <1>8
<1> HIDE DEF cycles, sizes, indices
<1>14. ASSUME NEW r \in reports PROVE r \in cycles \/ r \in sizes \/ r \in indices
  <2>1. Right(decls, r, m)
    BY <1>9 DEF Reported
  <2>2. CASE \E s : r = <<"cycle", s>> /\ OnCycle(decls, s)
    BY <1>4, <1>11, <2>2
  <2>3. CASE \E i \in DOMAIN decls : NoLength(decls, i, m) /\ r = <<"size", decls[i].sym>>
    BY <1>12, <2>3
  <2>4. CASE \E q \in ElementsOf(decls) : WrongIndex(decls, q, m) /\ r = <<"index", q>>
    BY <1>13, <2>4
  <2> QED
    BY <2>1, <2>2, <2>3, <2>4 DEF Right
<1>15. cycles \subseteq reports
  BY <1>11, CyclesAreReported
<1>16. sizes \subseteq reports
  BY <1>9, <1>10, <1>12 DEF Reported
<1>17. indices \subseteq reports
  BY <1>9, <1>10, <1>13 DEF Reported
<1>18. reports = cycles \cup sizes \cup indices
  BY <1>14, <1>15, <1>16, <1>17
<1> QED
  BY <1>2, <1>18 DEF ReportsAreExact, cycles, sizes, indices

\* The invariant holds of every list of declarations: what an activation has
\* looked at has had each of its ways back reported, and only those.
THEOREM ReportInvHolds == FoldSpec => []ReportInv
<1>1. FoldInit => ReportInv
  BY StartsReportInv
<1>2. ReportInv /\ [FoldNext]_foldVars => ReportInv'
  BY StepsReportInv
<1> QED
  BY <1>1, <1>2, PTL DEF FoldSpec

\* ReportsAreExact, of every list of declarations: each constant on a cycle is
\* reported, whichever constant the cycle was entered from and whatever was
\* remembered by then, each size that means no length, each element read
\* outside an array sized before it; nothing else is.
THEOREM EveryReportIsRight == FoldSpec => []ReportsAreExact
<1>1. ReportInv => ReportsAreExact
  BY ReportInvReports
<1> QED
  BY <1>1, ReportInvHolds, PTL
=============================================================================
