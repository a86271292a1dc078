-------------------------- MODULE ResolverProofs --------------------------
(***************************************************************************)
(* The stack of scopes and the text.  What is left to visit opens and       *)
(* closes blocks in pairs (Runs), each event of the text follows the step   *)
(* that makes it (Paired), and what the scopes hold is what the text behind *)
(* that step says is visible (Agree).                                       *)
(***************************************************************************)
EXTENDS Resolver, FiniteSetTheorems, WellFoundedInduction, TLAPS

Borders == {"open", "close"}

-----------------------------------------------------------------------------
(* The last of a set of positions.                                          *)

Less == {ss \in Nat \X Nat : ss[1] < ss[2]}

\* Every set of numbers has a least one.
LEMMA Least ==
  ASSUME NEW T, T \subseteq Nat, T # {}
  PROVE  \E x \in T : \A y \in T : x <= y
<1>1. OpToRel(<, Nat) = Less
  BY Zenon DEF OpToRel, Less
<1>2. IsWellFoundedOn(Less, Nat)
  BY <1>1, NatLessThanWellFounded, Zenon
<1>3. PICK x \in T : \A y \in T : ~ (<<y, x>> \in Less)
  BY <1>2, WFMin
<1>4. ASSUME NEW y \in T
      PROVE  x <= y
  <2>1. x \in Nat /\ y \in Nat
    OBVIOUS
  <2>2. <<y, x>> \notin Less
    BY <1>3
  <2>3. ~(y < x)
    BY <2>1, <2>2 DEF Less
  <2> QED
    BY <2>1, <2>3
<1> QED
  BY <1>4

\* Max is attained.
LEMMA MaxIsLast ==
  ASSUME NEW N \in Nat, NEW S, S \subseteq 0 .. N, S # {}
  PROVE  Max(S) \in S /\ \A y \in S : y <= Max(S)
<1> DEFINE T == {k \in 0 .. N : N - k \in S}
<1>1. T \subseteq Nat
  OBVIOUS
<1>2. T # {}
  <2>1. PICK y \in S : TRUE
    OBVIOUS
  <2>2. y \in 0 .. N
    BY <2>1
  <2>3. N - y \in 0 .. N /\ N - (N - y) = y
    BY <2>2
  <2> QED
    BY <2>1, <2>3
<1>3. PICK k \in T : \A j \in T : k <= j
  BY <1>1, <1>2, Least
<1>4. N - k \in S
  BY <1>3
<1>5. ASSUME NEW y \in S
      PROVE  N - k >= y
  <2>1. y \in 0 .. N
    OBVIOUS
  <2>2. N - y \in 0 .. N /\ N - (N - y) = y
    BY <2>1
  <2>3. N - y \in T
    BY <2>2
  <2>4. k <= N - y /\ k \in 0 .. N
    BY <2>3, <1>3
  <2> QED
    BY <2>1, <2>4
<1>6. \E m \in S : \A y \in S : m >= y
  BY <1>4, <1>5
<1>7. Max(S) \in S /\ \A y \in S : Max(S) >= y
  BY <1>6 DEF Max
<1>8. S \subseteq Int
  OBVIOUS
<1> QED
  BY <1>7, <1>8

-----------------------------------------------------------------------------
(* Texts.                                                                   *)

Texts == Seq(Names \cup Borders)

\* Depth, Visible and SymbolAt of any text.
Events(t, S, i) == {j \in 1 .. i : t[j] \in S}

Count(t, S, i) == Cardinality(Events(t, S, i))

Level(t, i) == Count(t, {"open"}, i) - Count(t, {"close"}, i)

Seen(t, n) ==
  {i \in DOMAIN t :
     t[i] = n /\ \A j \in i .. Len(t) : Level(t, j) >= Level(t, i)}

Made(t, i) == Count(t, Names, i)

\* They are the model's.
LEMMA ModelsText ==
  /\ \A i : Depth(i) = Level(text, i)
  /\ \A n : Visible(n) = Seen(text, n)
  /\ \A i : SymbolAt(i) = Made(text, i)
<1>1. \A i, s : Events(text, {s}, i) = {j \in 1 .. i : text[j] = s}
  BY DEF Events
<1>2. \A i : Depth(i) = Level(text, i)
  BY <1>1, Zenon DEF Depth, Level, Count
<1>3. \A i : SymbolAt(i) = Made(text, i)
  BY Zenon DEF SymbolAt, Made, Count, Events
<1>4. \A n : Visible(n) = Seen(text, n)
  BY <1>2 DEF Visible, Seen
<1> QED
  BY <1>2, <1>3, <1>4

\* One position at a time.
LEMMA CountNext ==
  ASSUME NEW t, NEW S, NEW i \in Nat
  PROVE  /\ Count(t, S, 0) = 0
         /\ Count(t, S, i) \in Nat
         /\ Count(t, S, i + 1) = Count(t, S, i) + (IF t[i + 1] \in S THEN 1 ELSE 0)
<1>1. Count(t, S, 0) = 0
  <2>1. Events(t, S, 0) = {}
    BY DEF Events
  <2> QED
    BY <2>1, FS_EmptySet DEF Count
<1>2. IsFiniteSet(Events(t, S, i))
  <2>1. IsFiniteSet(1 .. i)
    BY FS_Interval
  <2> QED
    BY <2>1, FS_Subset DEF Events
<1>3. Count(t, S, i) \in Nat
  BY <1>2, FS_CardinalityType DEF Count
<1>4. CASE t[i + 1] \in S
  <2>1. Events(t, S, i + 1) = Events(t, S, i) \cup {i + 1}
    BY <1>4 DEF Events
  <2>2. i + 1 \notin Events(t, S, i)
    BY DEF Events
  <2> QED
    BY <1>1, <1>2, <1>3, <1>4, <2>1, <2>2, FS_AddElement DEF Count
<1>5. CASE t[i + 1] \notin S
  <2>1. Events(t, S, i + 1) = Events(t, S, i)
    BY <1>5 DEF Events
  <2> QED
    BY <1>1, <1>3, <1>5, <2>1 DEF Count
<1> QED
  BY <1>4, <1>5

\* Counts grow.
LEMMA CountGrows ==
  ASSUME NEW t, NEW S, NEW i \in Nat, NEW j \in Nat, i <= j
  PROVE  Count(t, S, i) <= Count(t, S, j)
<1>1. IsFiniteSet(1 .. j)
  BY FS_Interval
<1>2. IsFiniteSet(Events(t, S, j))
  BY <1>1, FS_Subset DEF Events
<1>3. Events(t, S, i) \in SUBSET Events(t, S, j)
  BY DEF Events
<1> QED
  BY <1>2, <1>3, FS_Subset DEF Count

\* A count depends on what it counts.
LEMMA CountOfPrefix ==
  ASSUME NEW t, NEW u, NEW S, NEW i \in Nat, \A j \in 1 .. i : t[j] = u[j]
  PROVE  Count(t, S, i) = Count(u, S, i)
<1>1. Events(t, S, i) = Events(u, S, i)
  BY DEF Events
<1> QED
  BY <1>1 DEF Count

\* What one more event e changes: u is t with e behind it.
Continues(t, e, u) ==
  /\ u \in Texts /\ Len(u) = Len(t) + 1 /\ u[Len(t) + 1] = e
  /\ \A i \in 1 .. Len(t) : u[i] = t[i]
  /\ \A i \in 0 .. Len(t) : Level(u, i) = Level(t, i) /\ Made(u, i) = Made(t, i)
  /\ Level(t, Len(t)) \in Int /\ Made(t, Len(t)) \in Nat
  /\ Level(u, Len(t) + 1) = Level(t, Len(t)) +
       (IF e = "open" THEN 1 ELSE IF e = "close" THEN -1 ELSE 0)
  /\ Made(u, Len(t) + 1) = Made(t, Len(t)) + (IF e \in Names THEN 1 ELSE 0)

LEMMA Extended ==
  ASSUME NEW t \in Texts, NEW e \in Names \cup Borders
  PROVE  Continues(t, e, Append(t, e))
<1> DEFINE u == Append(t, e)
           k == Len(t) + 1
<1>1. /\ u \in Texts /\ Len(u) = k /\ u[k] = e
      /\ \A i \in 1 .. Len(t) : u[i] = t[i]
      /\ Len(t) \in Nat
  BY DEF Texts
<1> HIDE DEF u
<1>2. ASSUME NEW S, NEW i \in 0 .. Len(t)
      PROVE  Count(u, S, i) = Count(t, S, i)
  BY <1>1, CountOfPrefix
<1>3. \A i \in 0 .. Len(t) : Level(u, i) = Level(t, i) /\ Made(u, i) = Made(t, i)
  BY <1>2 DEF Level, Made
<1>4. ASSUME NEW S
      PROVE  /\ Count(t, S, Len(t)) \in Nat
             /\ Count(u, S, k) = Count(t, S, Len(t)) + (IF e \in S THEN 1 ELSE 0)
  <2>1. Len(t) \in Nat /\ Len(t) \in 0 .. Len(t) /\ u[Len(t) + 1] = e
    BY <1>1
  <2>2. Count(u, S, Len(t)) = Count(t, S, Len(t))
    BY <1>2, <2>1
  <2>3. /\ Count(t, S, Len(t)) \in Nat
        /\ Count(u, S, Len(t) + 1) = Count(u, S, Len(t)) + (IF u[Len(t) + 1] \in S THEN 1 ELSE 0)
    <3>1. \A i \in Nat : Count(t, S, i) \in Nat
      BY CountNext
    <3>2. \A i \in Nat :
            Count(u, S, i + 1) = Count(u, S, i) + (IF u[i + 1] \in S THEN 1 ELSE 0)
      BY CountNext
    <3> QED
      BY <2>1, <3>1, <3>2
  <2> QED
    BY <2>1, <2>2, <2>3
<1>5. /\ Level(t, Len(t)) \in Int /\ Made(t, Len(t)) \in Nat
      /\ Made(u, k) = Made(t, Len(t)) + (IF e \in Names THEN 1 ELSE 0)
  BY <1>4 DEF Level, Made
<1>6. Level(u, k) = Level(t, Len(t)) +
        (IF e = "open" THEN 1 ELSE IF e = "close" THEN -1 ELSE 0)
  <2>1. /\ Count(u, {"open"}, k) = Count(t, {"open"}, Len(t)) + (IF e = "open" THEN 1 ELSE 0)
        /\ Count(u, {"close"}, k) = Count(t, {"close"}, Len(t)) + (IF e = "close" THEN 1 ELSE 0)
        /\ Count(t, {"open"}, Len(t)) \in Nat /\ Count(t, {"close"}, Len(t)) \in Nat
    BY <1>4
  <2>2. "open" # "close"
    OBVIOUS
  <2> QED
    BY <2>1, <2>2 DEF Level
<1> QED
  BY <1>1, <1>3, <1>5, <1>6, Zenon DEF u, Continues

-----------------------------------------------------------------------------
(* Texts and scopes.                                                        *)

Stacks(last) == Seq([Names -> 0 .. last])

\* What is visible stands in the scope of its block, and nothing else does.
Agree(t, sc) ==
  /\ \A n \in Names : \A i \in Seen(t, n) :
       Level(t, i) \in DOMAIN sc /\ sc[Level(t, i)][n] = Made(t, i)
  /\ \A n \in Names : \A d \in DOMAIN sc :
       sc[d][n] # NoSymbol => \E i \in Seen(t, n) : Level(t, i) = d

\* A name stands for a symbol.
LEMMA DeclarationsCount ==
  ASSUME NEW t \in Texts, NEW n \in Names, NEW i \in Seen(t, n)
  PROVE  i \in 1 .. Len(t) /\ Made(t, i) \in Nat \ {0} /\ Level(t, i) \in Int
<1>1. i \in 1 .. Len(t) /\ t[i] = n /\ Len(t) \in Nat
  BY DEF Seen, Texts
<1>2. i - 1 \in Nat /\ (i - 1) + 1 = i
  BY <1>1
<1>3. \A S : \A j \in Nat :
        /\ Count(t, S, j) \in Nat
        /\ Count(t, S, j + 1) = Count(t, S, j) + (IF t[j + 1] \in S THEN 1 ELSE 0)
  BY CountNext
<1>4. /\ Count(t, Names, i - 1) \in Nat
      /\ Count(t, Names, i) = Count(t, Names, i - 1) + 1
  BY <1>1, <1>2, <1>3
<1>5. Count(t, {"open"}, i) \in Nat /\ Count(t, {"close"}, i) \in Nat
  BY <1>1, <1>3
<1> QED
  BY <1>1, <1>4, <1>5 DEF Made, Level

\* What an event makes invisible, or visible.
LEMMA SeenNext ==
  ASSUME NEW t \in Texts, NEW e \in Names \cup Borders, NEW n \in Names
  PROVE  LET u == Append(t, e)
             k == Len(t) + 1
         IN  Seen(u, n) = {i \in Seen(t, n) : Level(u, k) >= Level(t, i)}
                            \cup (IF n = e THEN {k} ELSE {})
<1> DEFINE u == Append(t, e)
           k == Len(t) + 1
           old == {i \in Seen(t, n) : Level(u, k) >= Level(t, i)}
           new == IF n = e THEN {k} ELSE {}
<1> HIDE DEF u
<1>0. Continues(t, e, u)
  BY Extended DEF u
<1>1. /\ u \in Texts /\ Len(u) = k /\ u[k] = e /\ Len(t) \in Nat
      /\ \A i \in 1 .. Len(t) : u[i] = t[i]
      /\ \A i \in 0 .. Len(t) : Level(u, i) = Level(t, i)
      /\ DOMAIN u = 1 .. k /\ DOMAIN t = 1 .. Len(t)
  <2>1. u \in Texts /\ Len(u) = k /\ Len(t) \in Nat
    BY <1>0 DEF Continues, Texts
  <2>2. DOMAIN t = 1 .. Len(t) /\ DOMAIN u = 1 .. k
    BY <2>1 DEF Texts
  <2> QED
    BY <1>0, <2>1, <2>2 DEF Continues
<1>2. Level(u, k) \in Int
  BY <1>0 DEF Continues
<1>3. ASSUME NEW i \in Seen(u, n)
      PROVE  i \in old \cup new
  <2>1. i \in 1 .. k /\ u[i] = n /\ \A j \in i .. k : Level(u, j) >= Level(u, i)
    BY <1>1 DEF Seen
  <2>2. CASE i = k
    BY <2>1, <2>2, <1>1
  <2>3. CASE i # k
    <3>1. i \in 1 .. Len(t) /\ t[i] = n /\ Level(u, i) = Level(t, i)
      BY <2>1, <2>3, <1>1
    <3>2. \A j \in i .. Len(t) : Level(t, j) >= Level(t, i)
      BY <3>1, <2>1, <1>1
    <3>3. i \in Seen(t, n)
      BY <3>1, <3>2, <1>1 DEF Seen
    <3>4. Level(u, k) >= Level(t, i)
      BY <2>1, <3>1, <1>1
    <3> QED
      BY <3>3, <3>4
  <2> QED
    BY <2>2, <2>3
<1>4. ASSUME NEW i \in old
      PROVE  i \in Seen(u, n)
  <2>1. i \in 1 .. Len(t) /\ t[i] = n /\ \A j \in i .. Len(t) : Level(t, j) >= Level(t, i)
    BY <1>1 DEF Seen
  <2>2. i \in 1 .. k /\ u[i] = n /\ Level(u, i) = Level(t, i)
    BY <2>1, <1>1
  <2>3. ASSUME NEW j \in i .. k
        PROVE  Level(u, j) >= Level(u, i)
    <3>1. CASE j = k
      BY <3>1, <2>2
    <3>2. CASE j # k
      <4>1. j \in i .. Len(t) /\ Level(u, j) = Level(t, j)
        BY <3>2, <2>1, <1>1
      <4> QED
        BY <4>1, <2>1, <2>2
    <3> QED
      BY <3>1, <3>2
  <2> QED
    BY <2>2, <2>3, <1>1 DEF Seen
<1>5. ASSUME NEW i \in new
      PROVE  i \in Seen(u, n)
  <2>1. i = k /\ u[k] = n
    BY <1>1
  <2>2. \A j \in k .. k : j = k
    BY <1>1
  <2>3. \A j \in k .. Len(u) : Level(u, j) >= Level(u, k)
    BY <2>2, <1>1, <1>2
  <2> QED
    BY <2>1, <2>3, <1>1 DEF Seen
<1>6. Seen(u, n) = old \cup new
  BY <1>3, <1>4, <1>5
<1> QED
  BY <1>6 DEF u

\* A block is opened.
LEMMA OpenAgrees ==
  ASSUME NEW t \in Texts, NEW last \in Nat, NEW sc \in Stacks(last), Agree(t, sc),
         Level(t, Len(t)) = Len(sc)
  PROVE  Agree(Append(t, "open"), Append(sc, NoNames))
<1> DEFINE u == Append(t, "open")
           su == Append(sc, NoNames)
           k == Len(t) + 1
<1>1. "open" \in Borders /\ "open" \notin Names
  BY NamesAssumption DEF Borders
<1>2. /\ Len(sc) \in Nat /\ Len(su) = Len(sc) + 1 /\ su[Len(sc) + 1] = NoNames
      /\ \A d \in 1 .. Len(sc) : su[d] = sc[d]
      /\ DOMAIN su = 1 .. Len(sc) + 1 /\ DOMAIN sc = 1 .. Len(sc)
  BY DEF Stacks
<1>3. /\ \A i \in 0 .. Len(t) : Level(u, i) = Level(t, i) /\ Made(u, i) = Made(t, i)
      /\ Level(u, k) = Len(sc) + 1
  <2>1. Continues(t, "open", u)
    BY <1>1, Extended
  <2> HIDE DEF u
  <2> QED
    BY <1>1, <2>1 DEF Continues
<1>4. \A n \in Names : Seen(u, n) = {i \in Seen(t, n) : Level(u, k) >= Level(t, i)}
  BY <1>1, SeenNext
<1> HIDE DEF u, su
<1>5. ASSUME NEW n \in Names
      PROVE  Seen(u, n) = Seen(t, n)
  <2>1. ASSUME NEW i \in Seen(t, n)
        PROVE  Level(u, k) >= Level(t, i)
    <3>1. Level(t, i) \in 1 .. Len(sc)
      BY <1>2 DEF Agree
    <3> QED
      BY <3>1, <1>2, <1>3
  <2> QED
    BY <2>1, <1>4
<1>6. ASSUME NEW n \in Names, NEW i \in Seen(u, n)
      PROVE  Level(u, i) \in DOMAIN su /\ su[Level(u, i)][n] = Made(u, i)
  <2>1. i \in Seen(t, n) /\ i \in 1 .. Len(t)
    BY <1>5, DeclarationsCount
  <2>2. Level(u, i) = Level(t, i) /\ Made(u, i) = Made(t, i)
    BY <2>1, <1>3
  <2>3. Level(t, i) \in DOMAIN sc /\ sc[Level(t, i)][n] = Made(t, i)
    BY <2>1 DEF Agree
  <2> QED
    BY <2>2, <2>3, <1>2
<1>7. ASSUME NEW n \in Names, NEW d \in DOMAIN su, su[d][n] # NoSymbol
      PROVE  \E i \in Seen(u, n) : Level(u, i) = d
  <2>1. NoNames[n] = NoSymbol
    BY DEF NoNames
  <2>2. d \in DOMAIN sc /\ sc[d][n] # NoSymbol
    BY <1>2, <1>7, <2>1
  <2>3. PICK i \in Seen(t, n) : Level(t, i) = d
    BY <2>2 DEF Agree
  <2>4. i \in Seen(u, n) /\ i \in 1 .. Len(t)
    BY <1>5, DeclarationsCount
  <2>5. Level(u, i) = d
    BY <2>3, <2>4, <1>3
  <2> QED
    BY <2>4, <2>5
<1>8. Agree(u, su)
  BY <1>6, <1>7 DEF Agree
<1> QED
  BY <1>8 DEF u, su

\* A block is closed.
LEMMA CloseAgrees ==
  ASSUME NEW t \in Texts, NEW last \in Nat, NEW sc \in Stacks(last), Agree(t, sc),
         Level(t, Len(t)) = Len(sc), Len(sc) >= 1
  PROVE  Agree(Append(t, "close"), SubSeq(sc, 1, Len(sc) - 1))
<1> DEFINE u == Append(t, "close")
           su == SubSeq(sc, 1, Len(sc) - 1)
           k == Len(t) + 1
<1>1. "close" \in Borders /\ "close" \notin Names /\ "close" # "open"
  BY NamesAssumption DEF Borders
<1>2. /\ Len(sc) \in Nat
      /\ \A d \in 1 .. Len(sc) - 1 : su[d] = sc[d]
      /\ DOMAIN su = 1 .. Len(sc) - 1 /\ DOMAIN sc = 1 .. Len(sc)
  BY DEF Stacks
<1>3. /\ \A i \in 0 .. Len(t) : Level(u, i) = Level(t, i) /\ Made(u, i) = Made(t, i)
      /\ Level(u, k) = Len(sc) - 1
  <2>1. Continues(t, "close", u)
    BY <1>1, Extended
  <2> HIDE DEF u
  <2> QED
    BY <1>1, <1>2, <2>1 DEF Continues
<1>4. \A n \in Names : Seen(u, n) = {i \in Seen(t, n) : Level(u, k) >= Level(t, i)}
  BY <1>1, SeenNext
<1> HIDE DEF u, su
<1>6. ASSUME NEW n \in Names, NEW i \in Seen(u, n)
      PROVE  Level(u, i) \in DOMAIN su /\ su[Level(u, i)][n] = Made(u, i)
  <2>1. i \in Seen(t, n) /\ i \in 1 .. Len(t) /\ Level(u, k) >= Level(t, i)
    BY <1>4, DeclarationsCount
  <2>2. Level(u, i) = Level(t, i) /\ Made(u, i) = Made(t, i)
    BY <2>1, <1>3
  <2>3. Level(t, i) \in DOMAIN sc /\ sc[Level(t, i)][n] = Made(t, i)
    BY <2>1 DEF Agree
  <2>4. Level(t, i) \in DOMAIN su
    BY <2>1, <2>3, <1>2, <1>3
  <2> QED
    BY <2>2, <2>3, <2>4, <1>2
<1>7. ASSUME NEW n \in Names, NEW d \in DOMAIN su, su[d][n] # NoSymbol
      PROVE  \E i \in Seen(u, n) : Level(u, i) = d
  <2>2. d \in DOMAIN sc /\ sc[d][n] # NoSymbol /\ d <= Len(sc) - 1
    BY <1>2, <1>7
  <2>3. PICK i \in Seen(t, n) : Level(t, i) = d
    BY <2>2 DEF Agree
  <2>4. i \in Seen(u, n) /\ i \in 1 .. Len(t)
    BY <2>2, <2>3, <1>3, <1>4, DeclarationsCount
  <2>5. Level(u, i) = d
    BY <2>3, <2>4, <1>3
  <2> QED
    BY <2>4, <2>5
<1>8. Agree(u, su)
  BY <1>6, <1>7 DEF Agree
<1> QED
  BY <1>8 DEF u, su

\* A name that its scope does not hold is declared.
LEMMA DeclareAgrees ==
  ASSUME NEW t \in Texts, NEW last \in Nat, NEW sc \in Stacks(last), Agree(t, sc),
         Level(t, Len(t)) = Len(sc), Made(t, Len(t)) = last, Len(sc) >= 1,
         NEW m \in Names, sc[Len(sc)][m] = NoSymbol
  PROVE  Agree(Append(t, m), [sc EXCEPT ![Len(sc)][m] = last + 1])
<1> DEFINE u == Append(t, m)
           su == [sc EXCEPT ![Len(sc)][m] = last + 1]
           k == Len(t) + 1
<1>1. m # "open" /\ m # "close" /\ m \in Names \cup Borders
  BY NamesAssumption
<1>2. /\ Len(sc) \in Nat /\ Len(sc) \in DOMAIN sc
      /\ DOMAIN su = 1 .. Len(sc) /\ DOMAIN sc = 1 .. Len(sc)
      /\ \A d \in 1 .. Len(sc) : \A n \in Names :
           su[d][n] = IF d = Len(sc) /\ n = m THEN last + 1 ELSE sc[d][n]
  BY DEF Stacks
<1>3. /\ \A i \in 0 .. Len(t) : Level(u, i) = Level(t, i) /\ Made(u, i) = Made(t, i)
      /\ Level(u, k) = Len(sc) /\ Made(u, k) = last + 1
  <2>1. Continues(t, m, u)
    BY <1>1, Extended
  <2> HIDE DEF u
  <2> QED
    BY <1>1, <1>2, <2>1 DEF Continues
<1>4. \A n \in Names : Seen(u, n) = {i \in Seen(t, n) : Level(u, k) >= Level(t, i)}
                                      \cup (IF n = m THEN {k} ELSE {})
  BY <1>1, SeenNext
<1> HIDE DEF u, su
<1>5. ASSUME NEW n \in Names
      PROVE  Seen(u, n) = Seen(t, n) \cup (IF n = m THEN {k} ELSE {})
  <2>1. ASSUME NEW i \in Seen(t, n)
        PROVE  Level(u, k) >= Level(t, i)
    <3>1. Level(t, i) \in 1 .. Len(sc)
      BY <1>2 DEF Agree
    <3> QED
      BY <3>1, <1>2, <1>3
  <2> QED
    BY <2>1, <1>4
<1>6. ASSUME NEW n \in Names, NEW i \in Seen(u, n)
      PROVE  Level(u, i) \in DOMAIN su /\ su[Level(u, i)][n] = Made(u, i)
  <2>1. CASE i \in Seen(t, n)
    <3>1. i \in 1 .. Len(t) /\ Made(t, i) # 0
      BY <2>1, DeclarationsCount
    <3>2. Level(u, i) = Level(t, i) /\ Made(u, i) = Made(t, i)
      BY <3>1, <1>3
    <3>3. Level(t, i) \in DOMAIN sc /\ sc[Level(t, i)][n] = Made(t, i)
      BY <2>1 DEF Agree
    <3>4. ~(Level(t, i) = Len(sc) /\ n = m)
      BY <3>1, <3>3 DEF NoSymbol
    <3> QED
      BY <3>2, <3>3, <3>4, <1>2
  <2>2. CASE i \notin Seen(t, n)
    <3>1. i = k /\ n = m
      BY <2>2, <1>5
    <3> QED
      BY <3>1, <1>2, <1>3
  <2> QED
    BY <2>1, <2>2
<1>7. ASSUME NEW n \in Names, NEW d \in DOMAIN su, su[d][n] # NoSymbol
      PROVE  \E i \in Seen(u, n) : Level(u, i) = d
  <2>1. CASE d = Len(sc) /\ n = m
    BY <2>1, <1>3, <1>5
  <2>2. CASE ~(d = Len(sc) /\ n = m)
    <3>2. d \in DOMAIN sc /\ sc[d][n] # NoSymbol
      BY <1>2, <1>7, <2>2
    <3>3. PICK i \in Seen(t, n) : Level(t, i) = d
      BY <3>2 DEF Agree
    <3>4. i \in Seen(u, n) /\ i \in 1 .. Len(t)
      BY <1>5, DeclarationsCount
    <3>5. Level(u, i) = d
      BY <3>3, <3>4, <1>3
    <3> QED
      BY <3>4, <3>5
  <2> QED
    BY <2>1, <2>2
<1>8. Agree(u, su)
  BY <1>6, <1>7 DEF Agree
<1> QED
  BY <1>8 DEF u, su

\* ScopeStack::lookup finds the last of what is visible.
LEMMA LookupIsLast ==
  ASSUME text \in Texts, NEW last \in Nat, scopes \in Stacks(last), Agree(text, scopes),
         NEW n \in Names, Lookup(n) # NoSymbol
  PROVE  Visible(n) # {} /\ Lookup(n) = SymbolAt(Max(Visible(n)))
<1> DEFINE in == {d \in DOMAIN scopes : scopes[d][n] # NoSymbol}
<1>1. in # {} /\ Lookup(n) = scopes[Max(in)][n]
  BY DEF Lookup
<1>2. Len(scopes) \in Nat /\ DOMAIN scopes = 1 .. Len(scopes) /\ Len(text) \in Nat
  BY DEF Stacks, Texts
<1>3. in \subseteq 0 .. Len(scopes)
  BY <1>2
<1> HIDE DEF in
<1>4. Max(in) \in in /\ \A d \in in : d <= Max(in)
  BY <1>1, <1>2, <1>3, MaxIsLast
<1>5. Seen(text, n) # {}
  BY <1>4 DEF Agree, in
<1>6. Seen(text, n) \subseteq 0 .. Len(text)
  BY DeclarationsCount
<1> DEFINE m == Max(Seen(text, n))
<1>7. m \in Seen(text, n) /\ \A i \in Seen(text, n) : i <= m
  BY <1>2, <1>5, <1>6, MaxIsLast
<1> HIDE DEF m
<1>8. /\ Level(text, m) \in DOMAIN scopes
      /\ scopes[Level(text, m)][n] = Made(text, m)
      /\ Made(text, m) # 0 /\ m \in 1 .. Len(text)
  BY <1>7, DeclarationsCount DEF Agree
<1>9. Level(text, m) \in in
  BY <1>8 DEF in, NoSymbol
<1>10. Max(in) <= Level(text, m)
  <2>1. PICK i \in Seen(text, n) : Level(text, i) = Max(in)
    BY <1>4 DEF Agree, in
  <2>2. i \in 1 .. Len(text) /\ i <= m
    BY <2>1, <1>7, DeclarationsCount
  <2>3. m \in i .. Len(text)
    BY <2>2, <1>8
  <2>4. Level(text, m) >= Level(text, i)
    BY <2>3 DEF Seen
  <2>5. Level(text, m) \in Int /\ Level(text, i) \in Int
    BY <1>7, DeclarationsCount
  <2> QED
    BY <2>1, <2>4, <2>5
<1>11. Max(in) = Level(text, m)
  <2>1. Max(in) \in 0 .. Len(scopes) /\ Level(text, m) \in 0 .. Len(scopes)
    BY <1>3, <1>4, <1>9
  <2>2. Level(text, m) <= Max(in)
    BY <1>4, <1>9
  <2> QED
    BY <2>1, <2>2, <1>10
<1>12. Lookup(n) = Made(text, m)
  BY <1>1, <1>8, <1>11
<1> QED
  BY <1>5, <1>12, ModelsText DEF m

-----------------------------------------------------------------------------
(* What is left to visit.                                                   *)

Kinds == ParamKinds \cup ConstKinds \cup {"Local", "LocalArray", "InductionVar"}

Roles == {"value", "element", "target", "element_target", "read", "write"}

Plain == {<<"expr">>, <<"stmts">>, <<"consts">>, <<"sizes">>, <<"params">>}
           \cup ({"stream"} \X {"read", "write"} \X Names)

Makers == {<<"push">>, <<"pop">>} \cup ({"declare"} \X Kinds \X Names)

Tasks == Plain \cup Makers \cup ({"text"} \X (Names \cup Borders))

Makes(x) == x[1] \in {"push", "pop", "declare"}

\* What a step that makes an event is followed by.
EventOf(x) == IF x[1] = "push" THEN "open" ELSE IF x[1] = "pop" THEN "close" ELSE x[3]

\* Each event stands behind what makes it; the first may be due alone.
Paired(s) ==
  \A i \in 1 .. Len(s) :
    /\ Makes(s[i]) => i < Len(s) /\ s[i + 1] = Mark(EventOf(s[i]))
    /\ s[i][1] = "text" /\ i > 1 => Makes(s[i - 1])

Shift(x) == IF x[1] = "push" THEN 1 ELSE IF x[1] = "pop" THEN -1 ELSE 0

\* These declare, or may: a scope has to be open.
Deep == {"declare", "stmts", "consts", "params"}

\* s is visited with a scopes open at its beginning, and b at its end.
Runs(s, a, b) ==
  \E f \in [1 .. Len(s) + 1 -> Nat] :
    /\ f[1] = a /\ f[Len(s) + 1] = b
    /\ \A i \in 1 .. Len(s) :
         f[i + 1] = f[i] + Shift(s[i]) /\ (s[i][1] \in Deep => f[i] >= 1)

\* What a step may put in front of what is left.
Phrase(s, a) ==
  /\ s \in Seq(Tasks) /\ Paired(s) /\ Runs(s, a, a)
  /\ s # <<>> => s[1][1] # "text"

\* One sequence behind another.
LEMMA JoinRuns ==
  ASSUME NEW s \in Seq(Tasks), NEW t \in Seq(Tasks), NEW a, NEW b, NEW c,
         Runs(s, a, b), Runs(t, b, c)
  PROVE  Runs(s \o t, a, c)
<1>1. PICK f \in [1 .. Len(s) + 1 -> Nat] :
        /\ f[1] = a /\ f[Len(s) + 1] = b
        /\ \A i \in 1 .. Len(s) :
             f[i + 1] = f[i] + Shift(s[i]) /\ (s[i][1] \in Deep => f[i] >= 1)
  BY DEF Runs
<1>2. PICK g \in [1 .. Len(t) + 1 -> Nat] :
        /\ g[1] = b /\ g[Len(t) + 1] = c
        /\ \A i \in 1 .. Len(t) :
             g[i + 1] = g[i] + Shift(t[i]) /\ (t[i][1] \in Deep => g[i] >= 1)
  BY DEF Runs
<1> DEFINE u == s \o t
           h == [i \in 1 .. Len(u) + 1 |-> IF i <= Len(s) THEN f[i] ELSE g[i - Len(s)]]
<1>3. /\ Len(s) \in Nat /\ Len(t) \in Nat /\ Len(u) = Len(s) + Len(t)
      /\ \A i \in 1 .. Len(u) : u[i] = IF i <= Len(s) THEN s[i] ELSE t[i - Len(s)]
  OBVIOUS
<1> HIDE DEF u
<1>4. h \in [1 .. Len(u) + 1 -> Nat]
  BY <1>3
<1>5. h[1] = a /\ h[Len(u) + 1] = c
  BY <1>1, <1>2, <1>3
<1>6. ASSUME NEW i \in 1 .. Len(u)
      PROVE  h[i + 1] = h[i] + Shift(u[i]) /\ (u[i][1] \in Deep => h[i] >= 1)
  <2>1. CASE i < Len(s)
    <3>1. h[i + 1] = f[i + 1] /\ h[i] = f[i] /\ u[i] = s[i] /\ i \in 1 .. Len(s)
      BY <2>1, <1>3
    <3> QED
      BY <3>1, <1>1
  <2>2. CASE i = Len(s)
    <3>1. h[i + 1] = g[1] /\ h[i] = f[i] /\ u[i] = s[i] /\ i \in 1 .. Len(s)
      BY <2>2, <1>3
    <3> QED
      BY <3>1, <2>2, <1>1, <1>2
  <2>3. CASE i > Len(s)
    <3>1. /\ i - Len(s) \in 1 .. Len(t) /\ u[i] = t[i - Len(s)]
          /\ h[i] = g[i - Len(s)] /\ h[i + 1] = g[(i - Len(s)) + 1]
      BY <2>3, <1>3
    <3> QED
      BY <3>1, <1>2
  <2> QED
    BY <2>1, <2>2, <2>3, <1>3
<1> HIDE DEF h
<1>7. Runs(u, a, c)
  BY <1>4, <1>5, <1>6 DEF Runs
<1> QED
  BY <1>7 DEF u

\* No event stands between them.
LEMMA JoinPairs ==
  ASSUME NEW s \in Seq(Tasks), NEW t \in Seq(Tasks), Paired(s), Paired(t),
         t # <<>> => t[1][1] # "text"
  PROVE  Paired(s \o t)
<1> DEFINE u == s \o t
<1>3. /\ Len(s) \in Nat /\ Len(t) \in Nat /\ Len(u) = Len(s) + Len(t)
      /\ \A i \in 1 .. Len(u) : u[i] = IF i <= Len(s) THEN s[i] ELSE t[i - Len(s)]
      /\ t = <<>> => Len(t) = 0
  OBVIOUS
<1> HIDE DEF u
<1>4. ASSUME NEW i \in 1 .. Len(u)
      PROVE  /\ Makes(u[i]) => i < Len(u) /\ u[i + 1] = Mark(EventOf(u[i]))
             /\ u[i][1] = "text" /\ i > 1 => Makes(u[i - 1])
  <2>1. CASE i <= Len(s)
    <3>1. i \in 1 .. Len(s) /\ u[i] = s[i]
      BY <2>1, <1>3
    <3>2. Makes(u[i]) => i < Len(u) /\ u[i + 1] = Mark(EventOf(u[i]))
      BY <3>1, <1>3 DEF Paired
    <3>3. u[i][1] = "text" /\ i > 1 => Makes(u[i - 1])
      BY <3>1, <1>3 DEF Paired
    <3> QED
      BY <3>2, <3>3
  <2>2. CASE i > Len(s)
    <3>1. i - Len(s) \in 1 .. Len(t) /\ u[i] = t[i - Len(s)]
      BY <2>2, <1>3
    <3>2. Makes(u[i]) => i < Len(u) /\ u[i + 1] = Mark(EventOf(u[i]))
      <4>1. Makes(u[i]) => i - Len(s) < Len(t) /\ t[(i - Len(s)) + 1] = Mark(EventOf(u[i]))
        BY <3>1 DEF Paired
      <4>2. i < Len(u) => u[i + 1] = t[(i - Len(s)) + 1]
        BY <3>1, <1>3
      <4> QED
        BY <4>1, <4>2, <3>1, <1>3
    <3>3. u[i][1] = "text" /\ i > 1 => Makes(u[i - 1])
      <4>1. CASE i - Len(s) = 1
        BY <3>1, <4>1, <1>3
      <4>2. CASE i - Len(s) > 1
        <5>1. u[i - 1] = t[(i - Len(s)) - 1]
          <6>1. /\ i - 1 \in 1 .. Len(u) /\ ~(i - 1 <= Len(s))
                /\ (i - 1) - Len(s) = (i - Len(s)) - 1
            BY <3>1, <4>2, <1>3
          <6> QED
            BY <6>1, <1>3
        <5> QED
          BY <5>1, <3>1, <4>2 DEF Paired
      <4> QED
        BY <4>1, <4>2, <3>1, <1>3
    <3> QED
      BY <3>2, <3>3
  <2> QED
    BY <2>1, <2>2, <1>3
<1>5. Paired(u)
  BY <1>4 DEF Paired
<1> QED
  BY <1>5 DEF u

LEMMA JoinPhrases ==
  ASSUME NEW a \in Nat, NEW s, NEW t, Phrase(s, a), Phrase(t, a)
  PROVE  Phrase(s \o t, a)
<1>1. s \in Seq(Tasks) /\ t \in Seq(Tasks) /\ s \o t \in Seq(Tasks)
  BY DEF Phrase
<1>2. Paired(s \o t) /\ Runs(s \o t, a, a)
  BY <1>1, JoinPairs, JoinRuns DEF Phrase
<1>3. s # <<>> => (s \o t)[1] = s[1]
  BY <1>1
<1>4. s = <<>> => s \o t = t
  BY <1>1
<1> QED
  BY <1>1, <1>2, <1>3, <1>4 DEF Phrase

\* Things to do, by their first components.
LEMMA TaskForms ==
  ASSUME NEW x \in Tasks
  PROVE  /\ x \in Plain => ~Makes(x) /\ x[1] # "text" /\ Shift(x) = 0
         /\ Makes(x) => x \in Makers /\ EventOf(x) \in Names \cup Borders /\ x[1] # "text"
         /\ x[1] = "declare" => x[2] \in Kinds /\ x[3] \in Names
         /\ x[1] = "stream" => x[2] \in {"read", "write"} /\ x[3] \in Names
         /\ x[1] = "text" => x[2] \in Names \cup Borders /\ x = Mark(x[2])
         /\ ~Makes(x) /\ x[1] # "text" => x \in Plain
<1>1. ASSUME x \in Plain
      PROVE  /\ ~Makes(x) /\ x[1] # "text" /\ x[1] # "declare" /\ Shift(x) = 0
             /\ x[1] = "stream" => x[2] \in {"read", "write"} /\ x[3] \in Names
  BY <1>1 DEF Plain, Makes, Shift
<1>2. ASSUME x \in Makers
      PROVE  /\ Makes(x) /\ x[1] # "text" /\ x[1] # "stream"
             /\ EventOf(x) \in Names \cup Borders
             /\ x[1] = "declare" => x[2] \in Kinds /\ x[3] \in Names
  <2>1. CASE x = <<"push">>
    BY <2>1 DEF Makes, EventOf, Borders
  <2>2. CASE x = <<"pop">>
    BY <2>2 DEF Makes, EventOf, Borders
  <2>3. CASE x \in {"declare"} \X Kinds \X Names
    <3>1. x[1] = "declare" /\ x[2] \in Kinds /\ x[3] \in Names
      BY <2>3
    <3> QED
      BY <3>1 DEF Makes, EventOf
  <2> QED
    BY <1>2, <2>1, <2>2, <2>3 DEF Makers
<1>3. ASSUME x \in {"text"} \X (Names \cup Borders)
      PROVE  /\ ~Makes(x) /\ x[1] = "text" /\ x[2] \in Names \cup Borders
             /\ x = Mark(x[2])
  <2>1. x[1] = "text" /\ x[2] \in Names \cup Borders /\ x = <<x[1], x[2]>>
    BY <1>3
  <2>2. x = <<"text", x[2]>>
    BY <2>1
  <2> QED
    BY <2>1, <2>2 DEF Makes, Mark
<1>4. x \in Plain \/ x \in Makers \/ x \in {"text"} \X (Names \cup Borders)
  BY DEF Tasks
<1> QED
  BY <1>1, <1>2, <1>3, <1>4

\* Things that change no scope.
LEMMA PlainPhrase ==
  ASSUME NEW a \in Nat, NEW s \in Seq(Plain),
         \A i \in 1 .. Len(s) : s[i][1] \in Deep => a >= 1
  PROVE  Phrase(s, a)
<1>1. s \in Seq(Tasks)
  BY DEF Tasks
<1>2. Len(s) \in Nat /\ \A i \in 1 .. Len(s) : s[i] \in Plain
  OBVIOUS
<1>3. \A i \in 1 .. Len(s) : ~Makes(s[i]) /\ s[i][1] # "text" /\ Shift(s[i]) = 0
  BY <1>2, TaskForms DEF Tasks
<1>4. Paired(s)
  BY <1>3 DEF Paired
<1>5. Runs(s, a, a)
  <2> DEFINE f == [i \in 1 .. Len(s) + 1 |-> a]
  <2>1. f \in [1 .. Len(s) + 1 -> Nat] /\ \A i \in 1 .. Len(s) + 1 : f[i] = a
    OBVIOUS
  <2> HIDE DEF f
  <2>2. f[1] = a /\ f[Len(s) + 1] = a
    BY <2>1, <1>2
  <2>3. \A i \in 1 .. Len(s) :
          f[i + 1] = f[i] + Shift(s[i]) /\ (s[i][1] \in Deep => f[i] >= 1)
    BY <2>1, <1>2, <1>3
  <2> QED
    BY <2>1, <2>2, <2>3 DEF Runs
<1>6. s # <<>> => s[1][1] # "text"
  BY <1>2, <1>3
<1> QED
  BY <1>1, <1>4, <1>5, <1>6 DEF Phrase

\* What makes an event, and the event.
LEMMA EventPair ==
  ASSUME NEW a \in Nat, NEW x \in Makers, a + Shift(x) \in Nat,
         x[1] \in Deep => a >= 1
  PROVE  LET s == <<x, Mark(EventOf(x))>>
         IN  /\ s \in Seq(Tasks) /\ Paired(s) /\ Runs(s, a, a + Shift(x))
             /\ s # <<>> /\ s[1][1] # "text"
<1> DEFINE y == Mark(EventOf(x))
           s == <<x, y>>
<1>1. x \in Tasks /\ x[1] # "text" /\ Makes(x)
  BY DEF Tasks, Makers, Makes
<1>2. EventOf(x) \in Names \cup Borders
  BY <1>1, TaskForms
<1>3. y \in Tasks /\ y[1] = "text" /\ ~Makes(y) /\ Shift(y) = 0 /\ y[1] \notin Deep
  BY <1>2 DEF Tasks, Mark, Makes, Shift, Deep
<1> HIDE DEF y
<1>4. s \in Seq(Tasks) /\ Len(s) = 2 /\ s[1] = x /\ s[2] = y /\ s # <<>>
  BY <1>1, <1>3
<1> HIDE DEF s
<1>5. Paired(s)
  BY <1>1, <1>3, <1>4 DEF Paired, y
<1>6. Runs(s, a, a + Shift(x))
  <2> DEFINE f == [i \in 1 .. 3 |-> IF i = 1 THEN a ELSE a + Shift(x)]
  <2>1. f \in [1 .. 3 -> Nat] /\ f[1] = a /\ f[2] = a + Shift(x) /\ f[3] = a + Shift(x)
    OBVIOUS
  <2> HIDE DEF f
  <2>2. \A i \in 1 .. 2 : i = 1 \/ i = 2
    OBVIOUS
  <2>3. \A i \in 1 .. Len(s) :
          f[i + 1] = f[i] + Shift(s[i]) /\ (s[i][1] \in Deep => f[i] >= 1)
    BY <2>1, <2>2, <1>3, <1>4
  <2> QED
    BY <2>1, <2>3, <1>4 DEF Runs
<1> QED
  BY <1>1, <1>4, <1>5, <1>6 DEF y, s

LEMMA DeclPhrase ==
  ASSUME NEW a \in Nat, a >= 1, NEW kind \in Kinds, NEW n \in Names
  PROVE  Phrase(<<Decl(kind, n), Mark(n)>>, a)
<1> DEFINE x == Decl(kind, n)
<1>1. x \in Makers /\ x[1] = "declare" /\ x[3] = n
  BY DEF Decl, Makers
<1> HIDE DEF x
<1>2. Shift(x) = 0 /\ EventOf(x) = n
  BY <1>1 DEF Shift, EventOf
<1>3. a + Shift(x) \in Nat /\ a + Shift(x) = a
  BY <1>2
<1>4. LET s == <<x, Mark(n)>>
      IN  s \in Seq(Tasks) /\ Paired(s) /\ Runs(s, a, a) /\ s[1][1] # "text"
  BY <1>1, <1>2, <1>3, EventPair
<1> QED
  BY <1>4 DEF Phrase, x

\* A block.
LEMMA ScopePhrase ==
  ASSUME NEW a \in Nat, NEW body, Phrase(body, a + 1)
  PROVE  Phrase(Scope(body), a)
<1> DEFINE front == <<Do("push"), Mark("open")>>
           back == <<Do("pop"), Mark("close")>>
<1>1. /\ Do("push") \in Makers /\ EventOf(Do("push")) = "open" /\ Shift(Do("push")) = 1
      /\ Do("push")[1] \notin Deep
  BY DEF Do, Makers, EventOf, Shift, Deep
<1>2. /\ Do("pop") \in Makers /\ EventOf(Do("pop")) = "close" /\ Shift(Do("pop")) = -1
      /\ Do("pop")[1] \notin Deep
  BY DEF Do, Makers, EventOf, Shift, Deep
<1>3. /\ front \in Seq(Tasks) /\ Paired(front) /\ Runs(front, a, a + 1)
      /\ front # <<>> /\ front[1][1] # "text"
  BY <1>1, EventPair
<1>4. a + 1 \in Nat /\ (a + 1) + (-1) = a
  OBVIOUS
<1>5. /\ back \in Seq(Tasks) /\ Paired(back) /\ Runs(back, a + 1, a)
      /\ back # <<>> /\ back[1][1] # "text"
  BY <1>2, <1>4, EventPair
<1> HIDE DEF front, back
<1>6. body \in Seq(Tasks) /\ Paired(body) /\ Runs(body, a + 1, a + 1)
      /\ (body # <<>> => body[1][1] # "text")
  BY DEF Phrase
<1>7. /\ front \o body \in Seq(Tasks) /\ Paired(front \o body) /\ Runs(front \o body, a, a + 1)
      /\ front \o body # <<>> /\ (front \o body)[1] = front[1]
  <2>1. Paired(front \o body) /\ Runs(front \o body, a, a + 1)
    BY <1>3, <1>6, JoinPairs, JoinRuns
  <2> QED
    BY <2>1, <1>3, <1>6
<1> DEFINE most == front \o body
<1> HIDE DEF most
<1>8. Paired(most \o back) /\ Runs(most \o back, a, a)
  BY <1>5, <1>7, JoinPairs, JoinRuns DEF most
<1>9. most \o back \in Seq(Tasks) /\ (most \o back)[1] = most[1]
  BY <1>5, <1>7 DEF most
<1>10. Scope(body) = most \o back
  <2>1. Scope(body) = front \o body \o back
    BY Zenon DEF Scope, front, back
  <2> QED
    BY <2>1 DEF most
<1> QED
  BY <1>3, <1>7, <1>8, <1>9, <1>10 DEF Phrase, most

\* What is left behind the first thing to do.
LEMMA TailRuns ==
  ASSUME NEW a, NEW b, NEW s \in Seq(Tasks), s # <<>>, Runs(s, a, b)
  PROVE  /\ a \in Nat /\ a + Shift(Head(s)) \in Nat
         /\ Head(s)[1] \in Deep => a >= 1
         /\ Runs(Tail(s), a + Shift(Head(s)), b)
<1>1. PICK f \in [1 .. Len(s) + 1 -> Nat] :
        /\ f[1] = a /\ f[Len(s) + 1] = b
        /\ \A i \in 1 .. Len(s) :
             f[i + 1] = f[i] + Shift(s[i]) /\ (s[i][1] \in Deep => f[i] >= 1)
  BY DEF Runs
<1> DEFINE t == Tail(s)
           g == [i \in 1 .. Len(t) + 1 |-> f[i + 1]]
<1>2. /\ Len(s) \in Nat /\ Len(s) >= 1 /\ Len(t) = Len(s) - 1 /\ Head(s) = s[1]
      /\ \A i \in 1 .. Len(t) : t[i] = s[i + 1]
  OBVIOUS
<1> HIDE DEF t
<1>3. 1 \in 1 .. Len(s) /\ 1 + 1 = 2 /\ f[1] \in Nat /\ f[2] \in Nat
  BY <1>2
<1>4. f[2] = a + Shift(Head(s)) /\ (Head(s)[1] \in Deep => a >= 1)
  BY <1>1, <1>2, <1>3
<1>5. /\ g \in [1 .. Len(t) + 1 -> Nat]
      /\ \A i \in 1 .. Len(t) + 1 : g[i] = f[i + 1]
  BY <1>2
<1> HIDE DEF g
<1>6. g[1] = a + Shift(Head(s)) /\ g[Len(t) + 1] = b
  BY <1>1, <1>2, <1>4, <1>5
<1>7. ASSUME NEW i \in 1 .. Len(t)
      PROVE  g[i + 1] = g[i] + Shift(t[i]) /\ (t[i][1] \in Deep => g[i] >= 1)
  <2>1. i + 1 \in 1 .. Len(s) /\ t[i] = s[i + 1]
    BY <1>2
  <2>2. g[i] = f[i + 1] /\ g[i + 1] = f[(i + 1) + 1]
    BY <1>5, <1>2
  <2> QED
    BY <2>1, <2>2, <1>1
<1>8. Runs(t, a + Shift(Head(s)), b)
  BY <1>5, <1>6, <1>7 DEF Runs
<1> QED
  BY <1>1, <1>3, <1>4, <1>8 DEF t

LEMMA TailPairs ==
  ASSUME NEW s \in Seq(Tasks), s # <<>>, Paired(s)
  PROVE  /\ Tail(s) \in Seq(Tasks) /\ Paired(Tail(s))
         /\ Makes(Head(s)) =>
              Tail(s) # <<>> /\ Head(Tail(s)) = Mark(EventOf(Head(s)))
         /\ ~Makes(Head(s)) /\ Tail(s) # <<>> => Tail(s)[1][1] # "text"
<1> DEFINE t == Tail(s)
<1>1. /\ Len(s) \in Nat /\ Len(s) >= 1 /\ Len(t) = Len(s) - 1 /\ Head(s) = s[1]
      /\ \A i \in 1 .. Len(t) : t[i] = s[i + 1]
      /\ t \in Seq(Tasks) /\ (t # <<>> <=> Len(t) >= 1) /\ (t # <<>> => Head(t) = t[1])
  OBVIOUS
<1> HIDE DEF t
<1>2. ASSUME NEW i \in 1 .. Len(t)
      PROVE  /\ Makes(t[i]) => i < Len(t) /\ t[i + 1] = Mark(EventOf(t[i]))
             /\ t[i][1] = "text" /\ i > 1 => Makes(t[i - 1])
  <2>1. i + 1 \in 1 .. Len(s) /\ t[i] = s[i + 1] /\ i + 1 > 1 /\ (i + 1) - 1 = i
    BY <1>1
  <2>2. Makes(t[i]) => i + 1 < Len(s) /\ s[(i + 1) + 1] = Mark(EventOf(t[i]))
    BY <2>1 DEF Paired
  <2>3. Makes(t[i]) => i < Len(t) /\ t[i + 1] = Mark(EventOf(t[i]))
    BY <2>2, <1>1
  <2>4. t[i][1] = "text" => Makes(s[i])
    BY <2>1 DEF Paired
  <2>5. i > 1 => t[i - 1] = s[i]
    BY <1>1
  <2> QED
    BY <2>3, <2>4, <2>5
<1>3. Paired(t)
  BY <1>2 DEF Paired
<1>4. Makes(Head(s)) => t # <<>> /\ Head(t) = Mark(EventOf(Head(s)))
  BY <1>1 DEF Paired
<1>5. ~Makes(Head(s)) /\ t # <<>> => t[1][1] # "text"
  <2>1. t # <<>> => 2 \in 1 .. Len(s) /\ t[1] = s[2]
    BY <1>1
  <2>2. 2 \in 1 .. Len(s) /\ s[2][1] = "text" => Makes(s[2 - 1])
    BY DEF Paired
  <2> QED
    BY <2>1, <2>2, <1>1
<1> QED
  BY <1>1, <1>3, <1>4, <1>5 DEF t

\* Something is done in the place of the first thing to do.
LEMMA PhraseStep ==
  ASSUME NEW a, NEW b, NEW s \in Seq(Tasks), s # <<>>, Paired(s), Runs(s, a, b),
         Head(s) \in Plain, NEW next, Phrase(next, a)
  PROVE  LET t == next \o Tail(s)
         IN  /\ t \in Seq(Tasks) /\ Paired(t) /\ Runs(t, a, b)
             /\ t # <<>> => t[1][1] # "text"
<1> DEFINE r == Tail(s)
<1>1. Head(s) \in Tasks /\ ~Makes(Head(s)) /\ Shift(Head(s)) = 0
  BY TaskForms DEF Tasks
<1>2. a \in Nat /\ Runs(r, a + 0, b)
  BY <1>1, TailRuns
<1>3. a + 0 = a
  BY <1>2
<1>4. r \in Seq(Tasks) /\ Paired(r) /\ (r # <<>> => r[1][1] # "text")
  BY <1>1, TailPairs
<1>5. /\ next \in Seq(Tasks) /\ Paired(next) /\ Runs(next, a, a)
      /\ next # <<>> => next[1][1] # "text"
  BY DEF Phrase
<1> HIDE DEF r
<1>6. Paired(next \o r) /\ Runs(next \o r, a, b)
  BY <1>2, <1>3, <1>4, <1>5, JoinPairs, JoinRuns
<1>7. /\ next \o r \in Seq(Tasks)
      /\ next # <<>> => (next \o r)[1] = next[1]
      /\ next = <<>> => next \o r = r
  <2>1. r \in Seq(Tasks) /\ next \in Seq(Tasks)
    BY <1>4, <1>5
  <2>2. next \o r \in Seq(Tasks)
    BY <2>1
  <2>3. next # <<>> => (next \o r)[1] = next[1]
    BY <2>1
  <2>4. next = <<>> => next \o r = r
    BY <2>1
  <2> QED
    BY <2>2, <2>3, <2>4
<1>8. next \o r # <<>> => (next \o r)[1][1] # "text"
  BY <1>4, <1>5, <1>7
<1> QED
  BY <1>6, <1>7, <1>8 DEF r

-----------------------------------------------------------------------------
(* The invariant.                                                           *)

\* The text, with the event that is due.
Due == IF At("text") THEN Append(text, Head(todo)[2]) ELSE text

Walked ==
  /\ todo \in Seq(Tasks) /\ Paired(todo) /\ Runs(todo, Len(scopes), 0)
  /\ symbols \in Seq([name : Names, kind : Kinds])
  /\ scopes \in Stacks(Len(symbols))
  /\ errors \in BOOLEAN
  /\ text \in Texts
  /\ Level(Due, Len(Due)) = Len(scopes) /\ Made(Due, Len(Due)) = Len(symbols)
  /\ ~errors => Agree(Due, scopes)

\* The use just bound is what the scopes make of it, and nobody objects.
Answered ==
  Bound => /\ ~At("text")
           /\ use.name \in Names /\ use.role \in Roles
           /\ use.symbol = Lookup(use.name) /\ use.symbol # NoSymbol
           /\ ~Objection(use.role, KindOf(use.symbol))

Resolved == Walked /\ Answered

\* A node is visited: the scopes and the text stay.
LEMMA VisitStep ==
  ASSUME Walked, todo # <<>>, Head(todo) \in Plain,
         NEW next, Phrase(next, Len(scopes)), Go(next),
         UNCHANGED <<scopes, symbols, text>>, errors' \in BOOLEAN, errors => errors'
  PROVE  Walked' /\ ~At("text")'
<1>1. /\ todo' \in Seq(Tasks) /\ Paired(todo') /\ Runs(todo', Len(scopes), 0)
      /\ todo' # <<>> => todo'[1][1] # "text"
  BY PhraseStep DEF Walked, Go
<1>2. todo' # <<>> => Head(todo') = todo'[1]
  BY <1>1
<1>3. ~At("text")'
  BY <1>1, <1>2 DEF At
<1>4. ~At("text")
  <2>1. Head(todo) \in Tasks
    BY DEF Tasks
  <2> QED
    BY <2>1, TaskForms DEF At
<1>5. Due' = Due
  BY <1>3, <1>4 DEF Due
<1>6. /\ (symbols \in Seq([name : Names, kind : Kinds]))'
      /\ (scopes \in Stacks(Len(symbols)))' /\ (text \in Texts)'
  BY DEF Walked
<1>7. /\ (Level(Due, Len(Due)) = Len(scopes))' /\ (Made(Due, Len(Due)) = Len(symbols))'
      /\ (~errors => Agree(Due, scopes))'
  <2>1. (Level(Due, Len(Due)) = Len(scopes))'
    BY <1>5 DEF Walked
  <2>2. (Made(Due, Len(Due)) = Len(symbols))'
    BY <1>5 DEF Walked
  <2>3. (~errors => Agree(Due, scopes))'
    BY <1>5 DEF Walked
  <2> QED
    BY <2>1, <2>2, <2>3
<1>8. (Paired(todo) /\ Runs(todo, Len(scopes), 0))'
  BY <1>1 DEF Paired, Runs
<1> QED
  BY <1>1, <1>3, <1>6, <1>7, <1>8 DEF Walked

LEMMA WalkStep ==
  ASSUME Resolved, todo # <<>>, Head(todo) \in Plain,
         NEW next, Phrase(next, Len(scopes)), Walk(next)
  PROVE  Resolved'
<1>1. Walked'
  BY VisitStep DEF Walk, Resolved, Walked
<1>2. ~Bound'
  BY DEF Walk, Bound, NoUse
<1> QED
  BY <1>1, <1>2 DEF Resolved, Answered

LEMMA BindStep ==
  ASSUME Resolved, todo # <<>>, Head(todo) \in Plain,
         NEW next, Phrase(next, Len(scopes)), Go(next),
         NEW role \in Roles, NEW n \in Names, Bind(role, n)
  PROVE  Resolved'
<1> DEFINE s == Lookup(n)
           bad == s = NoSymbol \/ Objection(role, KindOf(s))
           lost == s # NoSymbol /\ role \in {"read", "write"} /\ KindOf(s) \notin Streams
<1>1. /\ use' = [name |-> n, role |-> role, symbol |-> IF lost THEN NoSymbol ELSE s]
      /\ errors' = (errors \/ bad)
      /\ UNCHANGED <<scopes, symbols, text>>
  BY Zenon DEF Bind
<1>2. s' = s /\ KindOf(s)' = KindOf(s)
  BY <1>1 DEF Lookup, KindOf
<1>3. lost => bad
  BY DEF Objection, Streams
<1>4. Objection(use.role, KindOf(use.symbol))' = Objection(use'.role, symbols[use'.symbol].kind)
  BY <1>1 DEF Objection, KindOf
<1> HIDE DEF s, bad, lost
<1>5. errors' \in BOOLEAN /\ (errors => errors')
  BY <1>1, Zenon
<1>6. Walked' /\ ~At("text")'
  BY <1>1, <1>5, VisitStep DEF Resolved
<1>7. ASSUME ~errors'
      PROVE  /\ use'.name = n /\ use'.role = role /\ use'.symbol = s
             /\ s # NoSymbol /\ ~Objection(role, KindOf(s))
  <2>1. ~bad
    BY <1>1, <1>7
  <2>2. ~lost
    BY <1>3, <2>1
  <2> QED
    BY <2>1, <2>2, <1>1 DEF bad
<1>8. ASSUME Bound'
      PROVE  /\ ~At("text")'
             /\ use'.name \in Names /\ use'.role \in Roles
             /\ use'.symbol = Lookup(use.name)' /\ use'.symbol # NoSymbol
             /\ ~Objection(use.role, KindOf(use.symbol))'
  <2>1. ~errors'
    BY <1>8 DEF Bound
  <2>2. Lookup(use.name)' = s
    BY <1>1, <1>7, <2>1 DEF s, Lookup
  <2>3. Objection(use'.role, symbols[use'.symbol].kind) = Objection(role, KindOf(s))
    BY <1>7, <2>1 DEF KindOf
  <2> QED
    BY <1>4, <1>6, <1>7, <2>1, <2>2, <2>3
<1> QED
  BY <1>6, <1>8 DEF Resolved, Answered

\* Where nothing is due, the first thing to do is a node.
LEMMA AtNode ==
  ASSUME Walked, NEW what, At(what), what \notin {"push", "pop", "declare", "text"}
  PROVE  /\ todo # <<>> /\ Head(todo) \in Plain
         /\ what \in Deep => Len(scopes) >= 1
         /\ what = "stream" => Head(todo)[2] \in {"read", "write"} /\ Head(todo)[3] \in Names
<1>1. todo # <<>> /\ Head(todo) \in Tasks /\ Head(todo)[1] = what
  BY DEF At, Walked
<1>2. Head(todo) \in Plain
  BY <1>1, TaskForms DEF Makes
<1>3. what \in Deep => Len(scopes) >= 1
  BY <1>1, TailRuns DEF Walked
<1> QED
  BY <1>1, <1>2, <1>3, TaskForms

-----------------------------------------------------------------------------
(* Events.                                                                  *)

\* What makes an event is followed by it.
LEMMA EventIsDue ==
  ASSUME Walked, todo # <<>>, Makes(Head(todo)), Go(<<>>), text' = text
  PROVE  /\ Head(todo) \in Makers /\ EventOf(Head(todo)) \in Names \cup Borders
         /\ ~At("text") /\ At("text")'
         /\ Due = text /\ Due' = Append(text, EventOf(Head(todo)))
         /\ todo' \in Seq(Tasks) /\ Paired(todo')
         /\ Len(scopes) + Shift(Head(todo)) \in Nat
         /\ Head(todo)[1] \in Deep => Len(scopes) >= 1
         /\ Runs(todo', Len(scopes) + Shift(Head(todo)), 0)
<1>1. /\ Head(todo) \in Tasks /\ todo \in Seq(Tasks) /\ Paired(todo)
      /\ Runs(todo, Len(scopes), 0)
  BY DEF Walked
<1>2. /\ Head(todo) \in Makers /\ EventOf(Head(todo)) \in Names \cup Borders
      /\ Head(todo)[1] # "text"
  BY <1>1, TaskForms
<1>3. todo' = Tail(todo)
  <2>1. Tail(todo) \in Seq(Tasks)
    BY <1>1
  <2> QED
    BY <2>1 DEF Go
<1>4. /\ Tail(todo) \in Seq(Tasks) /\ Paired(Tail(todo))
      /\ Tail(todo) # <<>> /\ Head(Tail(todo)) = Mark(EventOf(Head(todo)))
  BY <1>1, TailPairs
<1>5. /\ Len(scopes) + Shift(Head(todo)) \in Nat
      /\ Head(todo)[1] \in Deep => Len(scopes) >= 1
      /\ Runs(Tail(todo), Len(scopes) + Shift(Head(todo)), 0)
  BY <1>1, TailRuns
<1>6. Head(todo') = <<"text", EventOf(Head(todo))>> /\ todo' # <<>>
  BY <1>3, <1>4 DEF Mark
<1>7. ~At("text") /\ At("text")'
  BY <1>2, <1>6 DEF At
<1>8. Due = text /\ Due' = Append(text, EventOf(Head(todo)))
  BY <1>6, <1>7 DEF Due
<1> QED
  BY <1>1, <1>2, <1>3, <1>4, <1>5, <1>7, <1>8

\* The event that was due is part of the text.
LEMMA TextStep ==
  ASSUME Resolved, Text
  PROVE  Resolved'
<1>1. /\ todo # <<>> /\ Head(todo)[1] = "text" /\ Head(todo) \in Tasks /\ todo \in Seq(Tasks)
      /\ Paired(todo) /\ Runs(todo, Len(scopes), 0)
  BY DEF Text, At, Resolved, Walked
<1>2. Head(todo)[2] \in Names \cup Borders /\ ~Makes(Head(todo)) /\ Shift(Head(todo)) = 0
  BY <1>1, TaskForms DEF Makes, Shift
<1>3. todo' = Tail(todo)
  <2>1. Tail(todo) \in Seq(Tasks)
    BY <1>1
  <2> QED
    BY <2>1 DEF Go, Text
<1>4. todo' \in Seq(Tasks) /\ Paired(todo') /\ (todo' # <<>> => todo'[1][1] # "text")
  BY <1>1, <1>2, <1>3, TailPairs
<1>5. Runs(todo', Len(scopes), 0)
  <2>1. Len(scopes) \in Nat /\ Runs(Tail(todo), Len(scopes) + Shift(Head(todo)), 0)
    BY <1>1, TailRuns
  <2>2. Len(scopes) + Shift(Head(todo)) = Len(scopes)
    BY <1>2, <2>1
  <2> QED
    BY <1>3, <2>1, <2>2
<1>6. ~At("text")'
  BY <1>4 DEF At
<1>7. text' = Append(text, Head(todo)[2]) /\ text' \in Texts /\ Due' = Due
  BY <1>2, <1>6 DEF Text, Due, Resolved, Walked, Texts
<1>8. UNCHANGED <<scopes, symbols, errors>> /\ use' = NoUse
  BY DEF Text
<1>9. ~Bound'
  BY <1>8 DEF Bound, NoUse
<1>10. /\ (Level(Due, Len(Due)) = Len(scopes))' /\ (Made(Due, Len(Due)) = Len(symbols))'
       /\ (~errors => Agree(Due, scopes))'
  <2>1. (Level(Due, Len(Due)) = Len(scopes))'
    BY <1>7, <1>8 DEF Resolved, Walked
  <2>2. (Made(Due, Len(Due)) = Len(symbols))'
    BY <1>7, <1>8 DEF Resolved, Walked
  <2>3. (~errors => Agree(Due, scopes))'
    BY <1>7, <1>8 DEF Resolved, Walked
  <2> QED
    BY <2>1, <2>2, <2>3
<1>11. Walked'
  BY <1>4, <1>5, <1>7, <1>8, <1>10 DEF Resolved, Walked
<1> QED
  BY <1>9, <1>11 DEF Resolved, Answered

\* The counts behind an event that is due.
LEMMA CountsBehind ==
  ASSUME Walked, todo # <<>>, Makes(Head(todo)), Go(<<>>), text' = text,
         NEW e, e = EventOf(Head(todo))
  PROVE  /\ e \in Names \cup Borders /\ text \in Texts
         /\ Len(scopes) \in Nat /\ Len(symbols) \in Nat
         /\ Level(text, Len(text)) = Len(scopes) /\ Made(text, Len(text)) = Len(symbols)
         /\ ~errors => Agree(text, scopes)
         /\ Due' = Append(text, e)
         /\ Level(Due', Len(Due')) = Len(scopes) +
              (IF e = "open" THEN 1 ELSE IF e = "close" THEN -1 ELSE 0)
         /\ Made(Due', Len(Due')) = Len(symbols) + (IF e \in Names THEN 1 ELSE 0)
<1>1. e \in Names \cup Borders /\ Due = text /\ Due' = Append(text, e)
  BY EventIsDue
<1>2. /\ text \in Texts /\ Len(scopes) \in Nat /\ Len(symbols) \in Nat
      /\ Level(text, Len(text)) = Len(scopes) /\ Made(text, Len(text)) = Len(symbols)
      /\ ~errors => Agree(text, scopes)
  BY <1>1 DEF Walked, Stacks
<1> DEFINE u == Append(text, e)
           k == Len(text) + 1
<1>3. /\ Len(u) = k
      /\ Level(u, k) = Level(text, Len(text)) +
           (IF e = "open" THEN 1 ELSE IF e = "close" THEN -1 ELSE 0)
      /\ Made(u, k) = Made(text, Len(text)) + (IF e \in Names THEN 1 ELSE 0)
  <2>1. Continues(text, e, u)
    BY <1>1, <1>2, Extended
  <2> HIDE DEF u
  <2> QED
    BY <2>1 DEF Continues
<1> HIDE DEF u, k
<1>4. Due' = u
  BY <1>1 DEF u
<1>5. Level(Due', Len(Due')) = Len(scopes) +
        (IF e = "open" THEN 1 ELSE IF e = "close" THEN -1 ELSE 0)
  BY <1>2, <1>3, <1>4
<1>6. Made(Due', Len(Due')) = Len(symbols) + (IF e \in Names THEN 1 ELSE 0)
  BY <1>2, <1>3, <1>4
<1> QED
  BY <1>1, <1>2, <1>5, <1>6

LEMMA PushStep ==
  ASSUME Resolved, PushOrPop, At("push")
  PROVE  Resolved'
<1>1. /\ todo # <<>> /\ Head(todo)[1] = "push" /\ Makes(Head(todo)) /\ Go(<<>>)
      /\ Shift(Head(todo)) = 1 /\ EventOf(Head(todo)) = "open" /\ Walked
  BY DEF At, Makes, Shift, EventOf, PushOrPop, Resolved
<1>2. /\ scopes' = Append(scopes, NoNames) /\ UNCHANGED <<symbols, errors, text>> /\ use' = NoUse
  BY DEF PushOrPop
<1>3. /\ text \in Texts /\ Len(scopes) \in Nat /\ Len(symbols) \in Nat
      /\ Level(text, Len(text)) = Len(scopes) /\ Made(text, Len(text)) = Len(symbols)
      /\ ~errors => Agree(text, scopes)
      /\ Due' = Append(text, "open")
      /\ Level(Due', Len(Due')) = Len(scopes) + 1
      /\ Made(Due', Len(Due')) = Len(symbols)
  <2>1. "open" \notin Names
    BY NamesAssumption
  <2> QED
    BY <1>1, <1>2, <2>1, CountsBehind
<1>4. scopes \in Stacks(Len(symbols)) /\ symbols \in Seq([name : Names, kind : Kinds])
  BY <1>1 DEF Walked
<1>5. scopes' \in Stacks(Len(symbols)) /\ Len(scopes') = Len(scopes) + 1
  <2>1. NoNames \in [Names -> 0 .. Len(symbols)]
    BY <1>3 DEF NoNames, NoSymbol
  <2> QED
    BY <1>2, <1>4, <2>1 DEF Stacks
<1>6. ~errors => Agree(Due', scopes')
  BY <1>2, <1>3, <1>4, OpenAgrees
<1>7. /\ todo' \in Seq(Tasks) /\ Paired(todo') /\ Runs(todo', Len(scopes) + 1, 0)
  BY <1>1, <1>2, EventIsDue
<1>8. Walked'
  BY <1>1, <1>2, <1>3, <1>4, <1>5, <1>6, <1>7 DEF Walked
<1> QED
  BY <1>2, <1>8 DEF Resolved, Answered, Bound

LEMMA PopStep ==
  ASSUME Resolved, PushOrPop, At("pop")
  PROVE  Resolved'
<1>1. /\ todo # <<>> /\ Head(todo)[1] = "pop" /\ Makes(Head(todo)) /\ Go(<<>>)
      /\ Shift(Head(todo)) = -1 /\ EventOf(Head(todo)) = "close" /\ Walked /\ ~At("push")
  BY DEF At, Makes, Shift, EventOf, PushOrPop, Resolved
<1>2. /\ scopes' = SubSeq(scopes, 1, Len(scopes) - 1)
      /\ UNCHANGED <<symbols, errors, text>> /\ use' = NoUse
  BY <1>1 DEF PushOrPop
<1>3. /\ text \in Texts /\ Len(scopes) \in Nat /\ Len(symbols) \in Nat
      /\ Level(text, Len(text)) = Len(scopes) /\ Made(text, Len(text)) = Len(symbols)
      /\ ~errors => Agree(text, scopes)
      /\ Due' = Append(text, "close")
      /\ Level(Due', Len(Due')) = Len(scopes) - 1
      /\ Made(Due', Len(Due')) = Len(symbols)
  <2>1. "close" \notin Names /\ "close" # "open"
    BY NamesAssumption
  <2> QED
    BY <1>1, <1>2, <2>1, CountsBehind
<1>4. scopes \in Stacks(Len(symbols)) /\ symbols \in Seq([name : Names, kind : Kinds])
  BY <1>1 DEF Walked
<1>5. /\ todo' \in Seq(Tasks) /\ Paired(todo') /\ Runs(todo', Len(scopes) - 1, 0)
      /\ Len(scopes) >= 1
  <2>1. /\ todo' \in Seq(Tasks) /\ Paired(todo') /\ Runs(todo', Len(scopes) + (-1), 0)
        /\ Len(scopes) + (-1) \in Nat
    BY <1>1, <1>2, EventIsDue
  <2> QED
    BY <2>1, <1>3
<1>6. scopes' \in Stacks(Len(symbols)) /\ Len(scopes') = Len(scopes) - 1
  BY <1>2, <1>3, <1>4, <1>5 DEF Stacks
<1>7. ~errors => Agree(Due', scopes')
  BY <1>2, <1>3, <1>4, <1>5, CloseAgrees
<1>8. Walked'
  BY <1>1, <1>2, <1>3, <1>4, <1>5, <1>6, <1>7 DEF Walked
<1> QED
  BY <1>2, <1>8 DEF Resolved, Answered, Bound

LEMMA DeclareStep ==
  ASSUME Resolved, Declare
  PROVE  Resolved'
<1> DEFINE n == Head(todo)[3]
           free == Innermost[n] = NoSymbol
<1>1. /\ todo # <<>> /\ Head(todo)[1] = "declare" /\ Makes(Head(todo)) /\ Go(<<>>)
      /\ Shift(Head(todo)) = 0 /\ EventOf(Head(todo)) = n /\ Walked /\ Head(todo) \in Tasks
  BY DEF Declare, At, Makes, Shift, EventOf, Resolved, Walked
<1>2. n \in Names /\ Head(todo)[2] \in Kinds /\ n # "open" /\ n # "close"
  BY <1>1, TaskForms, NamesAssumption
<1>3. /\ symbols' = Append(symbols, [name |-> n, kind |-> Head(todo)[2]])
      /\ scopes' = IF free THEN [scopes EXCEPT ![Len(scopes)][n] = Len(symbols) + 1] ELSE scopes
      /\ errors' = (errors \/ ~free) /\ text' = text /\ use' = NoUse
  BY DEF Declare
<1> HIDE DEF n
<1>4. /\ text \in Texts /\ Len(scopes) \in Nat /\ Len(symbols) \in Nat
      /\ Level(text, Len(text)) = Len(scopes) /\ Made(text, Len(text)) = Len(symbols)
      /\ ~errors => Agree(text, scopes)
      /\ Due' = Append(text, n)
      /\ Level(Due', Len(Due')) = Len(scopes)
      /\ Made(Due', Len(Due')) = Len(symbols) + 1
  <2>1. /\ Level(Due', Len(Due')) = Len(scopes) + 0 /\ Len(scopes) \in Nat
        /\ Made(Due', Len(Due')) = Len(symbols) + 1
    BY <1>1, <1>2, <1>3, CountsBehind
  <2> QED
    BY <1>1, <1>2, <1>3, <2>1, CountsBehind
<1>5. scopes \in Stacks(Len(symbols)) /\ symbols \in Seq([name : Names, kind : Kinds])
  BY <1>1 DEF Walked
<1>6. /\ todo' \in Seq(Tasks) /\ Paired(todo') /\ Runs(todo', Len(scopes), 0)
      /\ Len(scopes) >= 1
  <2>1. /\ todo' \in Seq(Tasks) /\ Paired(todo') /\ Runs(todo', Len(scopes) + 0, 0)
        /\ Head(todo)[1] \in Deep => Len(scopes) >= 1
    BY <1>1, <1>3, EventIsDue
  <2> QED
    BY <2>1, <1>1, <1>4 DEF Deep
<1>7. /\ symbols' \in Seq([name : Names, kind : Kinds]) /\ Len(symbols') = Len(symbols) + 1
  BY <1>2, <1>3, <1>5
<1>8. scopes' \in Stacks(Len(symbols) + 1) /\ Len(scopes') = Len(scopes)
  <2>1. [Names -> 0 .. Len(symbols)] \subseteq [Names -> 0 .. Len(symbols) + 1]
    BY <1>4
  <2>2. scopes \in Stacks(Len(symbols) + 1)
    BY <2>1, <1>5 DEF Stacks
  <2>3. CASE free
    <3>1. Len(symbols) + 1 \in 0 .. Len(symbols) + 1
      BY <1>4
    <3>2. scopes' = [scopes EXCEPT ![Len(scopes)][n] = Len(symbols) + 1]
      BY <2>3, <1>3
    <3> HIDE DEF free
    <3> QED
      BY <3>1, <3>2, <2>2, <1>2, <1>6 DEF Stacks
  <2>4. CASE ~free
    BY <2>2, <2>4, <1>3
  <2> QED
    BY <2>3, <2>4
<1>9. ~errors' => Agree(Due', scopes')
  <2>1. ASSUME ~errors'
        PROVE  Agree(Due', scopes')
    <3>1. free /\ ~errors
      BY <2>1, <1>3
    <3>2. scopes[Len(scopes)][n] = NoSymbol
      BY <3>1 DEF Innermost
    <3>3. scopes' = [scopes EXCEPT ![Len(scopes)][n] = Len(symbols) + 1]
      BY <3>1, <1>3
    <3>4. Agree(text, scopes)
      BY <3>1, <1>4
    <3> HIDE DEF free
    <3> QED
      BY <3>2, <3>3, <3>4, <1>2, <1>4, <1>5, <1>6, DeclareAgrees
  <2> QED
    BY <2>1
<1>10. errors' \in BOOLEAN
  <2> HIDE DEF free
  <2> QED
    BY <1>1, <1>3, Zenon DEF Walked
<1>11. text' \in Texts
  BY <1>3, <1>4
<1>12. Walked'
  <2> HIDE DEF free
  <2>1. (Level(Due, Len(Due)) = Len(scopes))' /\ (Made(Due, Len(Due)) = Len(symbols))'
    BY <1>4, <1>7, <1>8
  <2>2. (scopes \in Stacks(Len(symbols)))'
    BY <1>7, <1>8
  <2>3. (Paired(todo) /\ Runs(todo, Len(scopes), 0))'
    BY <1>6, <1>8
  <2>4. (~errors => Agree(Due, scopes))'
    BY <1>9
  <2> QED
    BY <1>6, <1>7, <1>10, <1>11, <2>1, <2>2, <2>3, <2>4 DEF Walked
<1> QED
  BY <1>3, <1>12 DEF Resolved, Answered, Bound

-----------------------------------------------------------------------------
(* Nodes.                                                                   *)

\* The nodes that are visited next.
LEMMA Nodes ==
  /\ Expr \in Plain /\ Stmts \in Plain /\ Do("consts") \in Plain
  /\ Do("sizes") \in Plain /\ Do("params") \in Plain
  /\ \A s \in Names : Read(s) \in Plain /\ <<"stream", "write", s>> \in Plain
  /\ Expr[1] \notin Deep /\ Do("sizes")[1] \notin Deep
  BY DEF Expr, Stmts, Do, Read, Plain, Deep

LEMMA ExprPhrases ==
  ASSUME NEW a \in Nat
  PROVE  /\ Phrase(<<>>, a) /\ Phrase(<<Expr>>, a) /\ Phrase(<<Expr, Expr>>, a)
         /\ Phrase(<<Expr, Do("sizes")>>, a)
<1> DEFINE e == Expr
           z == Do("sizes")
<1>1. e \in Plain /\ z \in Plain /\ e[1] \notin Deep /\ z[1] \notin Deep
  BY Nodes
<1> HIDE DEF e, z
<1>2. Phrase(<<>>, a)
  <2>1. <<>> \in Seq(Plain) /\ \A i \in 1 .. Len(<<>>) : FALSE
    OBVIOUS
  <2> QED
    BY <2>1, PlainPhrase
<1>3. ASSUME NEW x \in Plain, x[1] \notin Deep
      PROVE  Phrase(<<x>>, a)
  <2>1. <<x>> \in Seq(Plain) /\ \A i \in 1 .. Len(<<x>>) : <<x>>[i] = x
    OBVIOUS
  <2> QED
    BY <1>3, <2>1, PlainPhrase
<1>4. ASSUME NEW x \in Plain, NEW y \in Plain, x[1] \notin Deep, y[1] \notin Deep
      PROVE  Phrase(<<x, y>>, a)
  <2>1. <<x, y>> \in Seq(Plain) /\ \A i \in 1 .. Len(<<x, y>>) : <<x, y>>[i] \in {x, y}
    OBVIOUS
  <2>2. \A i \in 1 .. Len(<<x, y>>) : <<x, y>>[i][1] \notin Deep
    BY <1>4, <2>1
  <2> QED
    BY <2>1, <2>2, PlainPhrase
<1> QED
  BY <1>1, <1>2, <1>3, <1>4 DEF e, z

\* Where a scope is open, all of them.
LEMMA PlainPhrases ==
  ASSUME NEW a \in Nat, a >= 1
  PROVE  /\ \A x \in Plain : Phrase(<<x>>, a)
         /\ \A x, y \in Plain : Phrase(<<x, y>>, a)
         /\ \A x, y, z \in Plain : Phrase(<<x, y, z>>, a)
<1>1. ASSUME NEW s \in Seq(Plain)
      PROVE  Phrase(s, a)
  BY PlainPhrase
<1>2. \A x \in Plain : <<x>> \in Seq(Plain)
  OBVIOUS
<1>3. \A x, y \in Plain : <<x, y>> \in Seq(Plain)
  OBVIOUS
<1>4. \A x, y, z \in Plain : <<x, y, z>> \in Seq(Plain)
  OBVIOUS
<1> QED
  BY <1>1, <1>2, <1>3, <1>4

\* Declarations of locals, loop variables, parameters and constants.
LEMMA DeclaringPhrases ==
  ASSUME NEW a \in Nat, a >= 1, NEW kind \in Kinds, NEW n \in Names
  PROVE  /\ \A x \in Plain : Phrase(Local(kind, n, <<x>>), a)
         /\ \A parts : Phrase(parts, a) => Phrase(<<Decl(kind, n), Mark(n)>> \o parts, a)
         /\ Phrase(<<Decl(kind, n), Mark(n), Expr, Expr, Stmts>>, a)
<1> DEFINE d == Decl(kind, n)
           m == Mark(n)
           e == Expr
           b == Stmts
<1>1. Phrase(<<d, m>>, a)
  BY DeclPhrase
<1>2. e \in Plain /\ b \in Plain
  BY Nodes
<1>3. \A x : Local(kind, n, <<x>>) = <<x>> \o <<d, m>>
  BY DEF Local
<1> HIDE DEF d, m, e, b
<1>4. ASSUME NEW x \in Plain
      PROVE  Phrase(Local(kind, n, <<x>>), a)
  <2>1. Phrase(<<x>>, a)
    BY PlainPhrases
  <2> QED
    BY <1>1, <1>3, <2>1, JoinPhrases
<1>5. ASSUME NEW parts, Phrase(parts, a)
      PROVE  Phrase(<<d, m>> \o parts, a)
  BY <1>1, <1>5, JoinPhrases
<1>6. Phrase(<<d, m, e, e, b>>, a)
  <2>1. <<d, m, e, e, b>> = <<d, m>> \o <<e, e, b>>
    OBVIOUS
  <2>2. Phrase(<<e, e, b>>, a)
    BY <1>2, PlainPhrases
  <2> QED
    BY <2>1, <2>2, <1>5
<1> QED
  BY <1>4, <1>5, <1>6 DEF d, m, e, b

LEMMA StatementStep ==
  ASSUME Resolved, NEW parts, Len(scopes) >= 1 => Phrase(parts, Len(scopes)),
         Statement(parts)
  PROVE  Resolved'
<1>1. Walked /\ At("stmts") /\ Walk(parts \o <<Stmts>>)
  BY DEF Resolved, Statement
<1>2. todo # <<>> /\ Head(todo) \in Plain /\ Len(scopes) >= 1 /\ Len(scopes) \in Nat
  <2>1. "stmts" \in Deep /\ "stmts" \notin {"push", "pop", "declare", "text"}
    BY DEF Deep
  <2>2. Len(scopes) \in Nat
    BY <1>1 DEF Walked, Stacks
  <2> QED
    BY <1>1, <2>1, <2>2, AtNode
<1>3. Phrase(<<Stmts>>, Len(scopes))
  BY <1>2, Nodes, PlainPhrases
<1>4. Phrase(parts \o <<Stmts>>, Len(scopes))
  BY <1>2, <1>3, JoinPhrases
<1> QED
  BY <1>1, <1>2, <1>4, WalkStep

\* Expressions.
LEMMA ExpressionSteps ==
  ASSUME Resolved,
         \/ Literal \/ Operands
         \/ \E n \in Names : NameRef(n) \/ Index(n)
  PROVE  Resolved'
<1>1. Walked /\ At("expr")
  BY DEF Resolved, Literal, Operands, NameRef, Index
<1>2. todo # <<>> /\ Head(todo) \in Plain
  BY <1>1, AtNode
<1>3. Len(scopes) \in Nat
  BY <1>1 DEF Walked, Stacks
<1>4. CASE Literal
  BY <1>2, <1>3, <1>4, ExprPhrases, WalkStep DEF Literal
<1>5. CASE Operands
  BY <1>2, <1>3, <1>5, ExprPhrases, WalkStep DEF Operands
<1>6. ASSUME NEW n \in Names, NameRef(n)
      PROVE  Resolved'
  <2>1. "value" \in Roles
    BY DEF Roles
  <2> QED
    BY <1>2, <1>3, <1>6, <2>1, ExprPhrases, BindStep DEF NameRef
<1>7. ASSUME NEW n \in Names, Index(n)
      PROVE  Resolved'
  <2>1. "element" \in Roles
    BY DEF Roles
  <2> QED
    BY <1>2, <1>3, <1>7, <2>1, ExprPhrases, BindStep DEF Index
<1> QED
  BY <1>4, <1>5, <1>6, <1>7

\* Statements that bind nothing themselves.
LEMMA StatementSteps ==
  ASSUME Resolved,
         \/ If \/ Return \/ Block
         \/ \E n \in Names : \/ ArrayDecl(n) \/ For(n) \/ Write(n) \/ VarDecl(n, Expr)
                             \/ \E s \in Names : VarDecl(n, Read(s))
  PROVE  Resolved'
<1> DEFINE a == Len(scopes)
<1>1. a \in Nat
  BY DEF Resolved, Walked, Stacks
<1> HIDE DEF a
<1>2. ASSUME a >= 1
      PROVE  Phrase(<<Expr>>, a) /\ Phrase(Scope(<<Stmts>>), a)
  <2>1. a + 1 \in Nat /\ a + 1 >= 1
    BY <1>1
  <2>2. Phrase(<<Stmts>>, a + 1)
    BY <2>1, Nodes, PlainPhrases
  <2> QED
    BY <1>1, <1>2, <2>2, ScopePhrase, ExprPhrases
<1>3. CASE If
  <2>1. PICK else \in {<<>>, Scope(<<Stmts>>), <<Expr>> \o Scope(<<Stmts>>)} :
          Statement(<<Expr>> \o Scope(<<Stmts>>) \o else)
    BY <1>3 DEF If
  <2>2. ASSUME a >= 1
        PROVE  Phrase(<<Expr>> \o Scope(<<Stmts>>) \o else, a)
    <3>1. Phrase(<<Expr>> \o Scope(<<Stmts>>), a)
      BY <1>1, <1>2, <2>2, JoinPhrases
    <3>2. Phrase(else, a)
      BY <3>1, <1>1, <1>2, <2>1, <2>2, ExprPhrases
    <3> QED
      BY <1>1, <3>1, <3>2, JoinPhrases
  <2> QED
    BY <2>1, <2>2, StatementStep DEF a
<1>4. CASE Return
  BY <1>2, <1>4, StatementStep DEF Return, a
<1>5. CASE Block
  BY <1>2, <1>5, StatementStep DEF Block, a
<1>6. ASSUME NEW n \in Names, ArrayDecl(n)
      PROVE  Resolved'
  <2>1. "LocalArray" \in Kinds
    BY DEF Kinds
  <2>2. a >= 1 => Phrase(Local("LocalArray", n, <<Expr>>), a)
    BY <1>1, <2>1, Nodes, DeclaringPhrases
  <2> QED
    BY <1>6, <2>2, StatementStep DEF ArrayDecl, a
<1>7. ASSUME NEW n \in Names, NEW x \in Plain, VarDecl(n, x)
      PROVE  Resolved'
  <2>1. "Local" \in Kinds
    BY DEF Kinds
  <2>2. a >= 1 => Phrase(Local("Local", n, <<x>>), a)
    BY <1>1, <2>1, DeclaringPhrases
  <2> QED
    BY <1>7, <2>2, StatementStep DEF VarDecl, a
<1>8. ASSUME NEW n \in Names, For(n)
      PROVE  Resolved'
  <2> DEFINE body == <<Decl("InductionVar", n), Mark(n), Expr, Expr, Stmts>>
  <2>1. "InductionVar" \in Kinds
    BY DEF Kinds
  <2>2. a >= 1 => Phrase(<<Expr>> \o Scope(body), a)
    <3>1. a + 1 \in Nat /\ a + 1 >= 1
      BY <1>1
    <3>2. Phrase(body, a + 1)
      BY <2>1, <3>1, DeclaringPhrases
    <3>3. Phrase(Scope(body), a)
      BY <1>1, <3>2, ScopePhrase
    <3> QED
      BY <1>1, <1>2, <3>3, JoinPhrases
  <2>3. Statement(<<Expr>> \o Scope(body))
    BY <1>8 DEF For
  <2> HIDE DEF body
  <2> QED
    BY <2>2, <2>3, StatementStep DEF a
<1>9. ASSUME NEW n \in Names, Write(n)
      PROVE  Resolved'
  <2> DEFINE w == <<"stream", "write", n>>
  <2>1. w \in Plain
    BY Nodes
  <2>2. Statement(<<w, Expr>>)
    BY <1>9 DEF Write
  <2> HIDE DEF w
  <2>3. a >= 1 => Phrase(<<w, Expr>>, a)
    BY <1>1, <2>1, Nodes, PlainPhrases
  <2> QED
    BY <2>2, <2>3, StatementStep DEF a
<1> QED
  BY <1>3, <1>4, <1>5, <1>6, <1>7, <1>8, <1>9, Nodes

\* Assignments: the target is bound before the index and the value are visited.
LEMMA AssignStep ==
  ASSUME Resolved, NEW n \in Names, NEW index \in {<<>>, <<Expr>>}, NEW value \in Plain,
         Assign(n, index, value)
  PROVE  Resolved'
<1> DEFINE a == Len(scopes)
           role == IF index = <<>> THEN "target" ELSE "element_target"
<1>1. /\ Walked /\ At("stmts") /\ Go(index \o <<value, Stmts>>) /\ Bind(role, n)
  BY DEF Resolved, Assign
<1>2. role \in Roles
  BY DEF Roles
<1> HIDE DEF role
<1>3. todo # <<>> /\ Head(todo) \in Plain /\ a >= 1 /\ a \in Nat
  <2>1. "stmts" \in Deep /\ "stmts" \notin {"push", "pop", "declare", "text"}
    BY DEF Deep
  <2>2. a \in Nat
    BY <1>1 DEF Walked, Stacks
  <2> QED
    BY <1>1, <2>1, <2>2, AtNode
<1>4. Phrase(<<value, Stmts>>, a) /\ Phrase(index, a)
  BY <1>3, Nodes, PlainPhrases, ExprPhrases
<1>5. Phrase(index \o <<value, Stmts>>, a)
  BY <1>3, <1>4, JoinPhrases
<1> QED
  BY <1>1, <1>2, <1>3, <1>5, BindStep

\* Streams that are read from and written to.
LEMMA StreamStep ==
  ASSUME Resolved, LookupStream
  PROVE  Resolved'
<1>1. /\ Walked /\ At("stream") /\ Go(<<>>) /\ Bind(Head(todo)[2], Head(todo)[3])
  BY DEF Resolved, LookupStream
<1>2. /\ todo # <<>> /\ Head(todo) \in Plain
      /\ Head(todo)[2] \in {"read", "write"} /\ Head(todo)[3] \in Names
  BY <1>1, AtNode
<1>3. Head(todo)[2] \in Roles
  BY <1>2 DEF Roles
<1>4. Len(scopes) \in Nat
  BY <1>1 DEF Walked, Stacks
<1>5. Phrase(<<>>, Len(scopes))
  BY <1>4, ExprPhrases
<1> QED
  BY <1>1, <1>2, <1>3, <1>5, BindStep

\* Constants, parameters and the ends of lists.
LEMMA ProgramSteps ==
  ASSUME Resolved,
         \/ EndOfList \/ ParamSize
         \/ \E n \in Names : \/ \E kind \in ConstKinds : DeclareConst(kind, n)
                             \/ \E kind \in ParamKinds : DeclareParam(kind, n)
  PROVE  Resolved'
<1> DEFINE a == Len(scopes)
<1>1. a \in Nat /\ Walked
  BY DEF Resolved, Walked, Stacks
<1> HIDE DEF a
<1>2. /\ "consts" \in Deep /\ "params" \in Deep
      /\ \A w \in {"consts", "params", "sizes", "stmts"} :
           w \notin {"push", "pop", "declare", "text"}
  BY DEF Deep
<1>3. CASE EndOfList
  <2>1. PICK w \in {"consts", "params", "sizes", "stmts"} : At(w)
    BY <1>3 DEF EndOfList
  <2>2. todo # <<>> /\ Head(todo) \in Plain
    BY <2>1, <1>1, <1>2, AtNode
  <2>3. Walk(<<>>)
    BY <1>3 DEF EndOfList
  <2> QED
    BY <1>1, <2>2, <2>3, ExprPhrases, WalkStep DEF a
<1>4. CASE ParamSize
  <2>1. At("sizes") /\ Walk(<<Expr, Do("sizes")>>)
    BY <1>4 DEF ParamSize
  <2>2. todo # <<>> /\ Head(todo) \in Plain
    BY <2>1, <1>1, <1>2, AtNode
  <2> QED
    BY <1>1, <2>1, <2>2, ExprPhrases, WalkStep DEF a
<1>5. ASSUME NEW n \in Names, NEW kind \in Kinds, NEW parts, NEW w \in {"consts", "params"},
             At(w), Declaration(kind, n, parts), a >= 1 => Phrase(parts, a)
      PROVE  Resolved'
  <2>1. todo # <<>> /\ Head(todo) \in Plain /\ a >= 1
    BY <1>1, <1>2, <1>5, AtNode DEF a
  <2>2. Phrase(<<Decl(kind, n), Mark(n)>> \o parts, a)
    BY <1>1, <1>5, <2>1, DeclaringPhrases
  <2>3. Walk(<<Decl(kind, n), Mark(n)>> \o parts)
    BY <1>5 DEF Declaration
  <2> QED
    BY <2>1, <2>2, <2>3, WalkStep DEF a
<1>6. ASSUME NEW n \in Names, NEW kind \in ConstKinds, DeclareConst(kind, n)
      PROVE  Resolved'
  <2>1. At("consts") /\ Declaration(kind, n, <<Do("consts"), Expr>>)
    BY <1>6 DEF DeclareConst
  <2>2. a >= 1 => Phrase(<<Do("consts"), Expr>>, a)
    BY <1>1, Nodes, PlainPhrases
  <2>3. kind \in Kinds
    BY DEF Kinds
  <2> QED
    BY <1>5, <2>1, <2>2, <2>3
<1>7. ASSUME NEW n \in Names, NEW kind \in ParamKinds, DeclareParam(kind, n)
      PROVE  Resolved'
  <2>1. At("params") /\ Declaration(kind, n, <<Do("params")>>)
    BY <1>7 DEF DeclareParam
  <2>2. a >= 1 => Phrase(<<Do("params")>>, a)
    BY <1>1, Nodes, PlainPhrases
  <2>3. kind \in Kinds
    BY DEF Kinds
  <2> QED
    BY <1>5, <2>1, <2>2, <2>3
<1> QED
  BY <1>3, <1>4, <1>6, <1>7

-----------------------------------------------------------------------------
\* The scope of the file, and in it that of the function.
LEMMA InitResolved ==
  Init => Resolved
<1> SUFFICES ASSUME Init
             PROVE  Resolved
  OBVIOUS
<1> DEFINE file == <<Do("consts"), Do("sizes")>>
           function == <<Do("params"), Stmts>>
<1>1. todo = Scope(file \o Scope(function))
  BY DEF Init
<1>2. Phrase(file, 1) /\ Phrase(function, 2)
  BY Nodes, PlainPhrases
<1> HIDE DEF file, function
<1>3. Phrase(Scope(function), 1)
  <2>1. 1 + 1 = 2
    OBVIOUS
  <2> QED
    BY <1>2, <2>1, ScopePhrase
<1>4. Phrase(file \o Scope(function), 1)
  BY <1>2, <1>3, JoinPhrases
<1>5. Phrase(todo, 0)
  <2>1. 0 + 1 = 1
    OBVIOUS
  <2> QED
    BY <1>1, <1>4, <2>1, ScopePhrase
<1>6. scopes = <<>> /\ symbols = <<>> /\ errors = FALSE /\ use = NoUse /\ text = <<>>
  BY DEF Init
<1>7. todo \in Seq(Tasks) /\ Paired(todo) /\ Runs(todo, 0, 0) /\ ~At("text")
  <2>1. todo # <<>> => Head(todo) = todo[1]
    BY <1>5 DEF Phrase
  <2> QED
    BY <1>5, <2>1 DEF Phrase, At
<1>8. Due = <<>>
  BY <1>6, <1>7 DEF Due
<1>9. Len(<<>>) = 0 /\ DOMAIN <<>> = {}
  OBVIOUS
<1>10. Level(Due, Len(Due)) = 0 /\ Made(Due, Len(Due)) = 0
  <2>1. \A S : Count(Due, S, 0) = 0
    BY CountNext
  <2> QED
    BY <1>8, <1>9, <2>1 DEF Level, Made
<1>11. Agree(Due, scopes)
  <2>1. \A n : Seen(Due, n) = {}
    BY <1>8, <1>9 DEF Seen
  <2> QED
    BY <1>6, <1>9, <2>1 DEF Agree
<1>12. Walked
  <2>1. /\ symbols \in Seq([name : Names, kind : Kinds]) /\ text \in Texts
        /\ scopes \in Stacks(Len(symbols))
    BY <1>6 DEF Stacks, Texts
  <2>2. Len(scopes) = 0 /\ Len(symbols) = 0 /\ errors \in BOOLEAN
    BY <1>6
  <2> QED
    BY <1>7, <1>10, <1>11, <2>1, <2>2 DEF Walked
<1> QED
  BY <1>6, <1>12 DEF Resolved, Answered, Bound

\* One case for each disjunct of Next.
LEMMA ResolvedIsPreserved ==
  Resolved /\ [Next]_vars => Resolved'
<1> SUFFICES ASSUME Resolved, [Next]_vars
             PROVE  Resolved'
  OBVIOUS
<1>1. CASE UNCHANGED vars
  BY <1>1 DEF vars, Resolved, Walked, Answered, Due, At, Bound, Lookup, KindOf
<1>2. CASE PushOrPop
  BY <1>2, PushStep, PopStep DEF PushOrPop
<1>3. CASE Declare \/ Text \/ LookupStream
  BY <1>3, DeclareStep, TextStep, StreamStep
<1>4. CASE EndOfList \/ ParamSize \/ Literal \/ Operands \/ If \/ Return \/ Block
  BY <1>4, ProgramSteps, ExpressionSteps, StatementSteps
<1>5. ASSUME NEW n \in Names,
             \/ NameRef(n) \/ Index(n) \/ ArrayDecl(n) \/ For(n) \/ Write(n)
             \/ VarDecl(n, Expr) \/ \E s \in Names : VarDecl(n, Read(s))
             \/ \E kind \in ConstKinds : DeclareConst(kind, n)
             \/ \E kind \in ParamKinds : DeclareParam(kind, n)
      PROVE  Resolved'
  BY <1>5, ProgramSteps, ExpressionSteps, StatementSteps
<1>6. ASSUME NEW n \in Names,
             \/ Assign(n, <<>>, Expr) \/ Assign(n, <<Expr>>, Expr)
             \/ \E s \in Names : Assign(n, <<>>, Read(s))
      PROVE  Resolved'
  BY <1>6, Nodes, AssignStep
<1> QED
  BY <1>1, <1>2, <1>3, <1>4, <1>5, <1>6 DEF Next

\* The inductive invariant.
LEMMA AlwaysResolved ==
  Spec => []Resolved
<1> QED
  BY InitResolved, ResolvedIsPreserved, PTL DEF Spec

\* Whatever the program, its nesting and the names it reuses: what lookup finds
\* is the innermost declaration that the text has made so far (declare, lookup,
\* the order of resolveStmt).
THEOREM InnermostIsBound ==
  Spec => []InnermostBinding
<1>1. ASSUME Resolved
      PROVE  InnermostBinding
  <2> SUFFICES ASSUME Bound
               PROVE  /\ Visible(use.name) # {}
                      /\ use.symbol = SymbolAt(Max(Visible(use.name)))
    BY DEF InnermostBinding
  <2>1. /\ ~At("text") /\ use.name \in Names
        /\ use.symbol = Lookup(use.name) /\ use.symbol # NoSymbol
    BY <1>1 DEF Resolved, Answered
  <2>2. /\ text \in Texts /\ Len(symbols) \in Nat /\ scopes \in Stacks(Len(symbols))
        /\ Agree(text, scopes)
    BY <1>1, <2>1 DEF Resolved, Walked, Due, Bound
  <2> QED
    BY <2>1, <2>2, LookupIsLast
<1> QED
  BY <1>1, AlwaysResolved, PTL

\* Whatever the program: what a use is bound to is of a kind that its place
\* allows, or one of the exceptions (resolveExpr, resolveStmt, lookupStream).
THEOREM RolesAreRespected ==
  Spec => []RolesRespected
<1>1. ASSUME Resolved
      PROVE  RolesRespected
  <2> SUFFICES ASSUME Bound
               PROVE  KindOf(use.symbol) \in LegalKinds(use.role) \cup Unchecked(use.role)
    BY DEF RolesRespected
  <2>1. /\ use.name \in Names /\ use.role \in Roles
        /\ use.symbol = Lookup(use.name) /\ use.symbol # NoSymbol
        /\ ~Objection(use.role, KindOf(use.symbol))
    BY <1>1 DEF Resolved, Answered
  <2>2. KindOf(use.symbol) \in Kinds
    <3>1. /\ symbols \in Seq([name : Names, kind : Kinds]) /\ Len(symbols) \in Nat
          /\ scopes \in Stacks(Len(symbols)) /\ Len(scopes) \in Nat
      BY <1>1 DEF Resolved, Walked, Stacks
    <3> DEFINE in == {d \in DOMAIN scopes : scopes[d][use.name] # NoSymbol}
    <3>2. in # {} /\ Lookup(use.name) = scopes[Max(in)][use.name]
      BY <2>1 DEF Lookup
    <3>3. in \subseteq 0 .. Len(scopes) /\ in \subseteq DOMAIN scopes
      BY <3>1 DEF Stacks
    <3> HIDE DEF in
    <3>4. Max(in) \in DOMAIN scopes
      BY <3>1, <3>2, <3>3, MaxIsLast
    <3>5. Lookup(use.name) \in 0 .. Len(symbols)
      BY <2>1, <3>1, <3>2, <3>4 DEF Stacks
    <3>6. use.symbol \in 1 .. Len(symbols)
      BY <2>1, <3>1, <3>5 DEF NoSymbol
    <3>7. symbols[use.symbol] \in [name : Names, kind : Kinds]
      <4> DEFINE Symbols == [name : Names, kind : Kinds]
                 s == use.symbol
      <4>1. symbols \in Seq(Symbols) /\ s \in 1 .. Len(symbols)
        BY <3>1, <3>6
      <4> HIDE DEF Symbols, s
      <4>2. symbols[s] \in Symbols
        BY <4>1
      <4> QED
        BY <4>2 DEF Symbols, s
    <3> QED
      BY <3>7 DEF KindOf
  <2> DEFINE kind == KindOf(use.symbol)
  <2> HIDE DEF kind
  <2>3. kind \in Kinds /\ use.role \in Roles /\ ~Objection(use.role, kind)
    BY <2>1, <2>2 DEF kind
  <2>4. kind \in LegalKinds(use.role) \cup Unchecked(use.role)
    BY <2>3 DEF Kinds, Roles, Objection, LegalKinds, Unchecked, ReadOnly, Arrays, Streams,
                ParamKinds, ConstKinds
  <2> QED
    BY <2>4 DEF kind
<1> QED
  BY <1>1, AlwaysResolved, PTL

=============================================================================
