-------------------------- MODULE LoweringProofs --------------------------
(***************************************************************************)
(* For every set of listings and every choice of types. First, of what     *)
(* MLIRGen emits: operations use only values that dominate them, no region *)
(* loses the binding of a symbol it has to yield, MLIRGen's variables keep *)
(* their types, a symbol names, all through the walk, a value of the width *)
(* it was declared with, and a module that is handed on is whole. Then, of *)
(* hwgen's pass over it: a value that reaches hwgen has a lowered          *)
(* equivalent, and the circuit keeps its types. The pass is correct        *)
(* because of what MLIRGen emits, so most of that proof is about MLIRGen   *)
(* too: a use names its value as the operation that makes it does, and the *)
(* flat list is the nesting of the regions written out. Last, MLIRGen      *)
(* gives up only on what it may refuse: a name in scope has a value.       *)
(***************************************************************************)
EXTENDS Differential, SequenceTheorems, FiniteSetTheorems, TLAPS

Sequence(s) == s \in Seq({s[i] : i \in DOMAIN s})
Blocks == [op : Nat, arm : Arms]

\* v is available before operation n in the first d blocks of where.
Placed(v, n, where, d) ==
  /\ v.at \in Nat
  /\ v.at < n
  /\ Len(v.path) \in Nat
  /\ Len(v.path) <= d
  /\ \A i \in 1 .. Len(v.path) : v.path[i] = where[i]

\* Operations whose first one is the n+1st of the module, all their uses placed.
Sound(code, n) ==
  \A k \in DOMAIN code : \A v \in Uses(code[k]) :
    Placed(v, n + k, code[k].path, Len(code[k].path))

-----------------------------------------------------------------------------
(***************************************************************************)
(* Sequences of anything.                                                  *)
(***************************************************************************)
LEMMA SequenceDomain ==
  ASSUME NEW s, Sequence(s)
  PROVE  Len(s) \in Nat /\ DOMAIN s = 1 .. Len(s)
  BY DEF Sequence

LEMMA SequenceOf ==
  ASSUME NEW S, NEW s \in Seq(S)
  PROVE  Sequence(s)
<1> DEFINE R == {s[i] : i \in DOMAIN s}
<1>1. Len(s) \in Nat /\ DOMAIN s = 1 .. Len(s)
  OBVIOUS
<1>2. s = [i \in 1 .. Len(s) |-> s[i]]
  OBVIOUS
<1>3. \A i \in 1 .. Len(s) : s[i] \in R
  BY <1>1
<1>4. [i \in 1 .. Len(s) |-> s[i]] \in Seq(R)
  BY <1>1, <1>3
<1> QED
  BY <1>2, <1>4 DEF Sequence

\* Append leaves what was there and adds one element behind it.
LEMMA SequenceAppend ==
  ASSUME NEW s, Sequence(s), NEW x
  PROVE  /\ Sequence(Append(s, x))
         /\ Len(Append(s, x)) = Len(s) + 1
         /\ \A i \in 1 .. Len(s) : Append(s, x)[i] = s[i]
         /\ Append(s, x)[Len(s) + 1] = x
<1> DEFINE S == {s[i] : i \in DOMAIN s} \cup {x}
<1>1. s \in Seq(S)
  BY DEF Sequence
<1>2. Append(s, x) \in Seq(S) /\ Len(Append(s, x)) = Len(s) + 1
  BY <1>1
<1>3. \A i \in 1 .. Len(s) : Append(s, x)[i] = s[i]
  BY <1>1
<1>4. Append(s, x)[Len(s) + 1] = x
  BY <1>1
<1>5. Sequence(Append(s, x))
  BY <1>2, SequenceOf
<1> QED
  BY <1>2, <1>3, <1>4, <1>5

\* Concatenation likewise.
LEMMA SequenceConcat ==
  ASSUME NEW s, Sequence(s), NEW t, Sequence(t)
  PROVE  /\ Sequence(s \o t)
         /\ Len(s \o t) = Len(s) + Len(t)
         /\ \A i \in 1 .. Len(s) : (s \o t)[i] = s[i]
         /\ \A i \in 1 .. Len(t) : (s \o t)[Len(s) + i] = t[i]
<1> DEFINE S == {s[i] : i \in DOMAIN s} \cup {t[i] : i \in DOMAIN t}
<1>1. s \in Seq(S) /\ t \in Seq(S)
  BY DEF Sequence
<1>2. s \o t \in Seq(S) /\ Len(s \o t) = Len(s) + Len(t)
  BY <1>1
<1>3. \A i \in 1 .. Len(s) : (s \o t)[i] = s[i]
  BY <1>1
<1>4. \A i \in 1 .. Len(t) : (s \o t)[Len(s) + i] = t[i]
  BY <1>1
<1>5. Sequence(s \o t)
  BY <1>2, SequenceOf
<1> QED
  BY <1>2, <1>3, <1>4, <1>5

LEMMA SoundConcat ==
  ASSUME NEW s, Sequence(s), NEW t, Sequence(t), NEW n \in Nat,
         Sound(s, n), Sound(t, n + Len(s))
  PROVE  Sound(s \o t, n)
<1> SUFFICES ASSUME NEW k \in DOMAIN (s \o t), NEW v \in Uses((s \o t)[k])
             PROVE  Placed(v, n + k, (s \o t)[k].path, Len((s \o t)[k].path))
  BY DEF Sound
<1>1. /\ Len(s) \in Nat /\ DOMAIN s = 1 .. Len(s)
      /\ Len(t) \in Nat /\ DOMAIN t = 1 .. Len(t)
  BY SequenceDomain
<1>2. k \in 1 .. Len(s) + Len(t)
  BY SequenceConcat, SequenceDomain
<1>3. CASE k <= Len(s)
  <2>1. (s \o t)[k] = s[k] /\ k \in DOMAIN s
    BY <1>1, <1>2, <1>3, SequenceConcat
  <2> QED
    BY <2>1 DEF Sound
<1>4. CASE k > Len(s)
  <2> DEFINE i == k - Len(s)
  <2>1. i \in DOMAIN t /\ k = Len(s) + i
    BY <1>1, <1>2, <1>4
  <2>2. (s \o t)[k] = t[i]
    BY <1>1, <2>1, SequenceConcat
  <2>3. Placed(v, (n + Len(s)) + i, t[i].path, Len(t[i].path))
    BY <2>1, <2>2 DEF Sound
  <2>4. (n + Len(s)) + i = n + k
    BY <1>1, <1>2
  <2> QED
    BY <2>2, <2>3, <2>4
<1> QED
  BY <1>1, <1>2, <1>3, <1>4

-----------------------------------------------------------------------------
(***************************************************************************)
(* A value stays placed later in the module and in the blocks inside.      *)
(***************************************************************************)
LEMMA PlacedLater ==
  ASSUME NEW v, NEW n \in Nat, NEW m \in Nat, n <= m, NEW p, NEW d, Placed(v, n, p, d)
  PROVE  Placed(v, m, p, d)
  BY DEF Placed

LEMMA PlacedInside ==
  ASSUME NEW v, NEW n, NEW p, NEW q, NEW d \in Nat, NEW e \in Nat, d <= e,
         \A i \in 1 .. d : p[i] = q[i], Placed(v, n, p, d)
  PROVE  Placed(v, n, q, e)
  BY DEF Placed

\* What the n+1st operation makes is placed behind it, in its own block.
LEMMA PlacedResult ==
  ASSUME NEW n \in Nat, NEW m \in Nat, n < m, NEW w, NEW of, NEW p \in Seq(Blocks)
  PROVE  Placed(SSA(n, p, w, of), m, p, Len(p))
  BY DEF Placed, SSA

LEMMA UsesOfOne ==
  ASSUME NEW op, NEW p, NEW v, NEW attr
  PROVE  /\ Uses(Operation(op, p, NoValues, <<v>>, attr)) = {v}
         /\ Operation(op, p, NoValues, <<v>>, attr).path = p
  BY DEF Uses, Operation, NoValues

LEMMA UsesOfArgs ==
  ASSUME NEW op, NEW p, NEW args, NEW attr
  PROVE  /\ Uses(Operation(op, p, args, <<>>, attr)) = {args[k] : k \in DOMAIN args}
         /\ Operation(op, p, args, <<>>, attr).path = p
  BY DEF Uses, Operation

LEMMA UsesOfRebuilt ==
  ASSUME NEW p, NEW x, NEW y, NEW attr
  PROVE  /\ Uses(Operation("iv", p, NoValues, <<x, y>>, attr)) = {x, y}
         /\ Operation("iv", p, NoValues, <<x, y>>, attr).path = p
<1>1. {<<x, y>>[k] : k \in DOMAIN <<x, y>>} = {x, y}
  OBVIOUS
<1> QED
  BY <1>1 DEF Uses, Operation, NoValues

\* A sequence and one more.
LEMMA AppendFacts ==
  ASSUME NEW S, NEW p \in Seq(S), NEW x \in S
  PROVE  /\ Append(p, x) \in Seq(S) /\ Len(Append(p, x)) = Len(p) + 1
         /\ \A i \in 1 .. Len(p) : Append(p, x)[i] = p[i]
OBVIOUS

LEMMA SoundOne ==
  ASSUME NEW o, NEW n \in Nat,
         \A v \in Uses(o) : Placed(v, n + 1, o.path, Len(o.path))
  PROVE  Sequence(<<o>>) /\ Len(<<o>>) = 1 /\ Sound(<<o>>, n)
<1>1. <<o>> \in Seq({o})
  OBVIOUS
<1>2. Sequence(<<o>>)
  BY <1>1, SequenceOf
<1> QED
  BY <1>2 DEF Sound

LEMMA SoundNone ==
  ASSUME NEW n
  PROVE  Sequence(<<>>) /\ Len(<<>>) = 0 /\ Sound(<<>>, n)
<1>1. <<>> \in Seq({}) /\ Len(<<>>) = 0 /\ DOMAIN <<>> = {}
  OBVIOUS
<1>2. Sequence(<<>>)
  BY <1>1, SequenceOf
<1>3. Sound(<<>>, n)
  BY <1>1 DEF Sound
<1> QED
  BY <1>1, <1>2, <1>3

(***************************************************************************)
(* coerce and emit(Expr&), at any insertion point.                         *)
(***************************************************************************)
LEMMA CoerceSound ==
  ASSUME path \in Seq(Blocks), NEW n \in Nat, NEW v, NEW type, NEW width,
         Placed(v, n + 1, path, Len(path)),
         NEW r, r = Coerce(v, type, width, n)
  PROVE  /\ Sequence(r.code)
         /\ Sound(r.code, n)
         /\ Placed(r.value, n + Len(r.code) + 1, path, Len(path))
<1>1. CASE v.width = width
  <2>1. r.code = <<>> /\ r.value = v
    BY <1>1 DEF Coerce
  <2> QED
    BY <2>1, SoundNone
<1>2. CASE v.width # width
  <2> DEFINE attr == [isSigned |-> type.isSigned, width |-> width]
             o == Operation("coerce", path, NoValues, <<v>>, attr)
  <2>1. r.code = <<o>> /\ r.value = SSA(n + 1, path, width, <<>>)
    BY <1>2 DEF Coerce
  <2>2. \A u \in Uses(o) : Placed(u, n + 1, o.path, Len(o.path))
    <3> HIDE DEF attr
    <3> QED
      BY UsesOfOne
  <2>3. Sequence(<<o>>) /\ Len(<<o>>) = 1 /\ Sound(<<o>>, n)
    <3> HIDE DEF o
    <3> QED
      BY <2>2, SoundOne
  <2>4. Placed(SSA(n + 1, path, width, <<>>), n + 1 + 1, path, Len(path))
    BY PlacedResult
  <2> QED
    BY <2>1, <2>3, <2>4
<1> QED
  BY <1>1, <1>2

LEMMA EmitExprSound ==
  ASSUME path \in Seq(Blocks), NEW n \in Nat, NEW e, NEW width,
         \A s \in DOMAIN values : Placed(values[s], n + 1, path, Len(path)),
         NEW r, r = EmitExpr(e, width, n)
  PROVE  /\ Sequence(r.code)
         /\ Sound(r.code, n)
         /\ Placed(r.value, n + Len(r.code) + 1, path, Len(path))
<1>1. CASE e.op = "name" /\ e.args[1] \in DOMAIN values
  <2>1. r = Coerce(values[e.args[1]], e.type, width, n)
    BY <1>1 DEF EmitExpr
  <2>2. Placed(values[e.args[1]], n + 1, path, Len(path))
    BY <1>1
  <2> QED
    BY <2>1, <2>2, CoerceSound
<1>2. CASE ~(e.op = "name" /\ e.args[1] \in DOMAIN values)
  <2> DEFINE args == [s \in Reads(e) \cap DOMAIN values |-> values[s]]
             o    == Operation("compute", path, args, <<>>, e)
             made == SSA(n + 1, path, e.type.width, <<>>)
             fit  == Coerce(made, e.type, width, n + 1)
  <2>1. r.code = <<o>> \o fit.code /\ r.value = fit.value
    BY <1>2 DEF EmitExpr
  <2>2. \A u \in Uses(o) : Placed(u, n + 1, o.path, Len(o.path))
    <3>1. \A k \in DOMAIN args : Placed(args[k], n + 1, path, Len(path))
      OBVIOUS
    <3> HIDE DEF args
    <3> QED
      BY <3>1, UsesOfArgs
  <2>3. Sequence(<<o>>) /\ Len(<<o>>) = 1 /\ Sound(<<o>>, n)
    <3> HIDE DEF o
    <3> QED
      BY <2>2, SoundOne
  <2>4. Placed(made, n + 1 + 1, path, Len(path))
    BY PlacedResult
  <2>9. fit = Coerce(made, e.type, width, n + 1) /\ n + 1 \in Nat
    OBVIOUS
  <2> HIDE DEF made, o, fit
  <2>5. /\ Sequence(fit.code)
        /\ Sound(fit.code, n + 1)
        /\ Placed(fit.value, n + 1 + Len(fit.code) + 1, path, Len(path))
    BY <2>4, <2>9, CoerceSound
  <2>6. Sequence(r.code) /\ Len(r.code) = 1 + Len(fit.code)
    BY <2>1, <2>3, <2>5, SequenceConcat
  <2>7. Sound(r.code, n)
    BY <2>1, <2>3, <2>5, SoundConcat
  <2>8. n + 1 + Len(fit.code) + 1 = n + Len(r.code) + 1
    <3>1. Len(fit.code) \in Nat
      BY <2>5, SequenceDomain
    <3>2. \A a \in Nat : n + 1 + a + 1 = n + (1 + a) + 1
      OBVIOUS
    <3>3. n + 1 + Len(fit.code) + 1 = n + (1 + Len(fit.code)) + 1
      BY <3>1, <3>2
    <3>4. Len(r.code) = 1 + Len(fit.code)
      BY <2>6
    <3> QED
      BY <3>3, <3>4
  <2> QED
    BY <2>1, <2>5, <2>6, <2>7, <2>8
<1> QED
  BY <1>1, <1>2

-----------------------------------------------------------------------------
(***************************************************************************)
(* The inductive invariant.  Dominance alone is not inductive: closing a   *)
(* region puts back the bindings saved when it was opened, so those have   *)
(* to be placed outside the region all the while; and the yield names the  *)
(* carried symbols, so those have to stay bound, also across the saved     *)
(* bindings of the regions inside.                                         *)
(***************************************************************************)
Shape ==
  /\ Sequence(ir)
  /\ path \in Seq(Blocks)
  /\ Sequence(frames)
  /\ Len(frames) = Len(path)
  /\ \A k \in DOMAIN frames :
       /\ frames[k].op \in Nat
       /\ frames[k] = Frame(frames[k].arm, frames[k].op, frames[k].carried, frames[k].entry)

BindingsPlaced ==
  outcome # "failed" =>
    \A s \in DOMAIN values : Placed(values[s], Len(ir) + 1, path, Len(path))

EntriesPlaced ==
  outcome # "failed" =>
    \A k \in 1 .. Len(frames) : \A s \in DOMAIN frames[k].entry :
      Placed(frames[k].entry[s], Len(ir) + 1, path, k - 1)

CarriedBound ==
  \A j \in 1 .. Len(frames) :
    /\ frames[j].carried \subseteq DOMAIN values
    /\ \A k \in j .. Len(frames) : frames[j].carried \subseteq DOMAIN frames[k].entry

IInv == Shape /\ Sound(ir, 0) /\ BindingsPlaced /\ EntriesPlaced /\ CarriedBound

LEMMA InitInvariant == Init => IInv
<1> SUFFICES ASSUME Init PROVE IInv
  OBVIOUS
<1>1. ir = <<>> /\ path = <<>> /\ frames = <<>>
  BY DEF Init
<1>2. Sequence(ir) /\ Sequence(frames) /\ Len(ir) = 0 /\ Len(frames) = 0 /\ Sound(ir, 0)
  BY <1>1, SoundNone
<1>3. path \in Seq(Blocks) /\ Len(path) = 0 /\ DOMAIN frames = {}
  BY <1>1
<1>4. Shape
  BY <1>2, <1>3 DEF Shape
<1>5. BindingsPlaced
  <2> SUFFICES ASSUME NEW s \in DOMAIN values
               PROVE  Placed(values[s], Len(ir) + 1, path, Len(path))
    BY DEF BindingsPlaced
  <2>1. values[s] = SSA(0, <<>>, TypeOf[s].width, <<s>>)
    BY DEF Init
  <2> QED
    BY <2>1, <1>2, <1>3 DEF Placed, SSA
<1> QED
  BY <1>2, <1>4, <1>5 DEF IInv, EntriesPlaced, CarriedBound

-----------------------------------------------------------------------------
(***************************************************************************)
(* The steps that open no region.                                          *)
(***************************************************************************)
LEMMA FailInvariant == ASSUME IInv, Fail PROVE IInv'
<1>1. Sequence(ir') /\ Sound(ir', 0)
  BY SoundNone DEF Fail
<1>2. Shape'
  BY <1>1 DEF IInv, Shape, Fail
<1> QED
  BY <1>1, <1>2 DEF IInv, Fail, BindingsPlaced, EntriesPlaced, CarriedBound

\* Nothing the invariant speaks of changes.
LEMMA QuietInvariant ==
  ASSUME IInv, UNCHANGED <<values, ir, path, frames, outcome>>
  PROVE  IInv'
  BY DEF IInv, Shape, BindingsPlaced, EntriesPlaced, CarriedBound

\* More operations in the same block, and the same or more symbols bound.
LEMMA EmitInvariant ==
  ASSUME IInv, outcome # "failed", UNCHANGED <<path, frames>>,
         Sequence(ir'), Sound(ir', 0), Len(ir) <= Len(ir'),
         DOMAIN values \subseteq DOMAIN values',
         \A s \in DOMAIN values' : Placed(values'[s], Len(ir') + 1, path, Len(path))
  PROVE  IInv'
<1>1. Shape'
  BY DEF IInv, Shape
<1>2. BindingsPlaced'
  BY DEF BindingsPlaced
<1>3. EntriesPlaced'
  <2> SUFFICES ASSUME NEW k \in 1 .. Len(frames), NEW s \in DOMAIN frames[k].entry
               PROVE  Placed(frames[k].entry[s], Len(ir') + 1, path, k - 1)
    BY DEF EntriesPlaced
  <2>1. Placed(frames[k].entry[s], Len(ir) + 1, path, k - 1)
    BY DEF IInv, EntriesPlaced
  <2>2. Len(ir) \in Nat /\ Len(ir') \in Nat
    BY SequenceDomain DEF IInv, Shape
  <2>3. Len(ir) + 1 \in Nat /\ Len(ir') + 1 \in Nat /\ Len(ir) + 1 <= Len(ir') + 1
    BY <2>2
  <2> QED
    BY <2>1, <2>3, PlacedLater
<1>4. CarriedBound'
  BY DEF IInv, CarriedBound
<1> QED
  BY <1>1, <1>2, <1>3, <1>4 DEF IInv

\* What the walk may assume of an expression it emits next.
LEMMA NextExpr ==
  ASSUME IInv, outcome # "failed", NEW e, NEW width,
         NEW r, r = EmitExpr(e, width, Len(ir))
  PROVE  /\ Sequence(r.code)
         /\ Sound(r.code, Len(ir))
         /\ Placed(r.value, Len(ir) + Len(r.code) + 1, path, Len(path))
         /\ Sequence(ir \o r.code)
         /\ Len(ir \o r.code) = Len(ir) + Len(r.code)
         /\ Sound(ir \o r.code, 0)
<1>1. Len(ir) \in Nat /\ Sequence(ir) /\ path \in Seq(Blocks) /\ Sound(ir, 0)
  BY SequenceDomain DEF IInv, Shape
<1>2. \A s \in DOMAIN values : Placed(values[s], Len(ir) + 1, path, Len(path))
  BY DEF IInv, BindingsPlaced
<1>3. /\ Sequence(r.code)
      /\ Sound(r.code, Len(ir))
      /\ Placed(r.value, Len(ir) + Len(r.code) + 1, path, Len(path))
  BY <1>1, <1>2, EmitExprSound
<1>4. Sound(r.code, 0 + Len(ir))
  BY <1>1, <1>3
<1> QED
  BY <1>1, <1>3, <1>4, SequenceConcat, SoundConcat

LEMMA EmitBindingInvariant == ASSUME IInv, EmitBinding PROVE IInv'
<1> DEFINE s == prog[pc]
           e == EmitExpr(s.expr, TypeOf[s.sym].width, Len(ir))
<1>1. CASE HasValue(s.expr)
  <2>1. /\ outcome # "failed" /\ UNCHANGED <<path, frames>>
        /\ values' = Bind(values, s.sym, e.value)
        /\ ir' = ir \o e.code
    BY <1>1, Zenon DEF EmitBinding, Statement
  <2> HIDE DEF e
  <2>2. /\ Placed(e.value, Len(ir) + Len(e.code) + 1, path, Len(path))
        /\ Sequence(ir') /\ Len(ir') = Len(ir) + Len(e.code) /\ Sound(ir', 0)
        /\ Sequence(e.code)
    BY <2>1, NextExpr DEF e
  <2>3. Len(ir) \in Nat /\ Len(e.code) \in Nat
    BY <2>2, SequenceDomain DEF IInv, Shape
  <2>4. ASSUME NEW t \in DOMAIN values'
        PROVE  Placed(values'[t], Len(ir') + 1, path, Len(path))
    <3>1. CASE t = s.sym
      BY <2>1, <2>2, <3>1 DEF Bind
    <3>2. CASE t # s.sym
      <4>1. values'[t] = values[t] /\ t \in DOMAIN values
        BY <2>1, <2>4, <3>2 DEF Bind
      <4>2. Placed(values[t], Len(ir) + 1, path, Len(path))
        BY <2>1, <4>1 DEF IInv, BindingsPlaced
      <4>3. Len(ir) + 1 \in Nat /\ Len(ir') + 1 \in Nat /\ Len(ir) + 1 <= Len(ir') + 1
        BY <2>2, <2>3
      <4> QED
        BY <4>1, <4>2, <4>3, PlacedLater
    <3> QED
      BY <3>1, <3>2
  <2>5. DOMAIN values \subseteq DOMAIN values' /\ Len(ir) <= Len(ir')
    BY <2>1, <2>2, <2>3 DEF Bind
  <2> QED
    BY <2>1, <2>2, <2>4, <2>5, EmitInvariant, Zenon
<1>2. CASE ~HasValue(s.expr)
  BY <1>2, FailInvariant DEF EmitBinding
<1> QED
  BY <1>1, <1>2

LEMMA SoundAppend ==
  ASSUME NEW code, Sequence(code), NEW o, Sound(code, 0),
         \A v \in Uses(o) : Placed(v, Len(code) + 1, o.path, Len(o.path))
  PROVE  /\ Sequence(Append(code, o))
         /\ Len(Append(code, o)) = Len(code) + 1
         /\ Sound(Append(code, o), 0)
<1>1. /\ Sequence(Append(code, o))
      /\ Len(Append(code, o)) = Len(code) + 1
      /\ \A i \in 1 .. Len(code) : Append(code, o)[i] = code[i]
      /\ Append(code, o)[Len(code) + 1] = o
  BY SequenceAppend
<1>2. Len(code) \in Nat /\ DOMAIN code = 1 .. Len(code)
      /\ DOMAIN Append(code, o) = 1 .. Len(code) + 1
  BY <1>1, SequenceDomain
<1> DEFINE all == Append(code, o)
<1> HIDE DEF all
<1> SUFFICES ASSUME NEW k \in 1 .. Len(code) + 1, NEW v \in Uses(all[k])
             PROVE  Placed(v, 0 + k, all[k].path, Len(all[k].path))
  BY <1>1, <1>2 DEF Sound, all
<1>3. CASE k = Len(code) + 1
  <2>1. all[k] = o /\ 0 + k = Len(code) + 1
    BY <1>1, <1>2, <1>3 DEF all
  <2> QED
    BY <2>1
<1>4. CASE k # Len(code) + 1
  <2>1. k \in 1 .. Len(code)
    BY <1>2, <1>4
  <2>2. all[k] = code[k] /\ k \in DOMAIN code
    BY <1>1, <1>2, <2>1 DEF all
  <2> QED
    BY <2>2 DEF Sound
<1> QED
  BY <1>3, <1>4

\* The return is the last operation of the function's own block.
LEMMA EmitReturnInvariant == ASSUME IInv, EmitReturn PROVE IInv'
<1> DEFINE s == prog[pc]
           e == EmitExpr(s.expr, ReturnType.width, Len(ir))
           o == Operation("return", path, NoValues, <<e.value>>, ReturnType)
<1>1. CASE HasValue(s.expr) /\ frames = <<>>
  <2>1. /\ outcome # "failed" /\ UNCHANGED <<values, path, frames>>
        /\ ir' = Append(ir \o e.code, o)
    BY <1>1 DEF EmitReturn, Statement
  <2>2. Uses(o) = {e.value} /\ o.path = path
    <3> HIDE DEF e
    <3> QED
      BY UsesOfOne
  <2>3. e = EmitExpr(s.expr, ReturnType.width, Len(ir))
    OBVIOUS
  <2> HIDE DEF e, o
  <2>4. /\ Placed(e.value, Len(ir) + Len(e.code) + 1, path, Len(path))
        /\ Sequence(e.code) /\ Sequence(ir \o e.code)
        /\ Len(ir \o e.code) = Len(ir) + Len(e.code) /\ Sound(ir \o e.code, 0)
    BY <2>1, <2>3, NextExpr
  <2>5. Sequence(ir') /\ Len(ir') = Len(ir \o e.code) + 1 /\ Sound(ir', 0)
    BY <2>1, <2>2, <2>4, SoundAppend
  <2>6. Len(ir) \in Nat /\ Len(e.code) \in Nat
    BY <2>4, SequenceDomain DEF IInv, Shape
  <2>7. Len(ir) + 1 \in Nat /\ Len(ir') + 1 \in Nat /\ Len(ir) + 1 <= Len(ir') + 1
        /\ Len(ir) <= Len(ir')
    BY <2>4, <2>5, <2>6
  <2>8. \A t \in DOMAIN values : Placed(values[t], Len(ir') + 1, path, Len(path))
    BY <2>1, <2>7, PlacedLater DEF IInv, BindingsPlaced
  <2> QED
    BY <2>1, <2>5, <2>7, <2>8, EmitInvariant
<1>2. CASE ~(HasValue(s.expr) /\ frames = <<>>)
  BY <1>2, FailInvariant DEF EmitReturn
<1> QED
  BY <1>1, <1>2

-----------------------------------------------------------------------------
(***************************************************************************)
(* Opening a region: the bindings in force become the frame's, and the     *)
(* region starts with them or with others placed in it.                    *)
(***************************************************************************)
LEMMA OpenInvariant ==
  ASSUME IInv, outcome # "failed",
         Sequence(ir'), Sound(ir', 0), Len(ir) <= Len(ir'),
         NEW arm \in Arms, NEW op \in Nat, path' = Append(path, Block(op, arm)),
         NEW carried, carried \subseteq DOMAIN values,
         frames' = Append(frames, Frame(arm, op, carried, values)),
         DOMAIN values \subseteq DOMAIN values',
         \A s \in DOMAIN values' : Placed(values'[s], Len(ir') + 1, path', Len(path'))
  PROVE  IInv'
<1> DEFINE top == Frame(arm, op, carried, values)
<1>1. /\ path \in Seq(Blocks) /\ Len(path) \in Nat /\ Len(frames) = Len(path)
      /\ DOMAIN frames = 1 .. Len(frames)
      /\ Len(ir) + 1 \in Nat /\ Len(ir') + 1 \in Nat /\ Len(ir) + 1 <= Len(ir') + 1
  <2>1. Len(ir) \in Nat /\ Len(ir') \in Nat
    BY SequenceDomain DEF IInv, Shape
  <2> QED
    BY <2>1, SequenceDomain DEF IInv, Shape
<1>2. Block(op, arm) \in Blocks
  BY DEF Block, Blocks
<1>3. /\ path' \in Seq(Blocks) /\ Len(path') = Len(path) + 1
      /\ \A i \in 1 .. Len(path) : path'[i] = path[i]
  BY <1>1, <1>2
<1>4. /\ Sequence(frames') /\ Len(frames') = Len(frames) + 1
      /\ \A k \in 1 .. Len(frames) : frames'[k] = frames[k]
      /\ frames'[Len(frames) + 1] = top
      /\ DOMAIN frames' = 1 .. Len(frames) + 1
  <2> HIDE DEF top
  <2>1. frames' = Append(frames, top)
    BY DEF top
  <2> QED
    BY <2>1, SequenceAppend, SequenceDomain DEF IInv, Shape
<1>5. /\ top.op = op /\ top.carried = carried /\ top.entry = values
      /\ top = Frame(top.arm, top.op, top.carried, top.entry)
  BY DEF Frame
<1> HIDE DEF top
<1>6. Shape'
  <2> SUFFICES ASSUME NEW k \in DOMAIN frames'
               PROVE  /\ frames'[k].op \in Nat
                      /\ frames'[k] = Frame(frames'[k].arm, frames'[k].op,
                                            frames'[k].carried, frames'[k].entry)
    BY <1>1, <1>3, <1>4 DEF Shape
  <2>1. CASE k = Len(frames) + 1
    BY <2>1, <1>4, <1>5
  <2>2. CASE k # Len(frames) + 1
    <3>1. k \in DOMAIN frames /\ frames'[k] = frames[k]
      BY <2>2, <1>1, <1>4
    <3> QED
      BY <3>1 DEF IInv, Shape
  <2> QED
    BY <2>1, <2>2
<1>7. EntriesPlaced'
  <2> SUFFICES ASSUME NEW k \in 1 .. Len(frames'), NEW s \in DOMAIN frames'[k].entry
               PROVE  Placed(frames'[k].entry[s], Len(ir') + 1, path', k - 1)
    BY DEF EntriesPlaced
  <2>1. CASE k = Len(frames) + 1
    <3>1. frames'[k].entry = values /\ k - 1 = Len(path)
      BY <2>1, <1>1, <1>4, <1>5
    <3>2. Placed(values[s], Len(ir) + 1, path, Len(path))
      BY <3>1 DEF IInv, BindingsPlaced
    <3>3. Placed(values[s], Len(ir') + 1, path, Len(path))
      BY <3>2, <1>1, PlacedLater
    <3>4. Len(path) <= Len(path) /\ \A i \in 1 .. Len(path) : path[i] = path'[i]
      BY <1>1, <1>3
    <3>5. Placed(values[s], Len(ir') + 1, path', Len(path))
      BY <3>3, <3>4, <1>1, PlacedInside
    <3> QED
      BY <3>1, <3>5
  <2>2. CASE k # Len(frames) + 1
    <3>1. k \in 1 .. Len(frames) /\ frames'[k] = frames[k]
      BY <2>2, <1>1, <1>4
    <3>2. Placed(frames[k].entry[s], Len(ir) + 1, path, k - 1)
      BY <3>1 DEF IInv, EntriesPlaced
    <3>3. Placed(frames[k].entry[s], Len(ir') + 1, path, k - 1)
      BY <3>2, <1>1, PlacedLater
    <3>4. /\ k - 1 \in Nat /\ k - 1 <= k - 1
          /\ \A i \in 1 .. k - 1 : path[i] = path'[i]
      BY <3>1, <1>1, <1>3
    <3>5. Placed(frames[k].entry[s], Len(ir') + 1, path', k - 1)
      BY <3>3, <3>4, PlacedInside
    <3> QED
      BY <3>1, <3>5
  <2> QED
    BY <2>1, <2>2
<1>8. CarriedBound'
  <2> SUFFICES ASSUME NEW j \in 1 .. Len(frames')
               PROVE  /\ frames'[j].carried \subseteq DOMAIN values'
                      /\ \A k \in j .. Len(frames') :
                           frames'[j].carried \subseteq DOMAIN frames'[k].entry
    BY DEF CarriedBound
  <2>1. frames'[j].carried \subseteq DOMAIN values
    <3>1. CASE j = Len(frames) + 1
      BY <3>1, <1>4, <1>5
    <3>2. CASE j # Len(frames) + 1
      <4>1. j \in 1 .. Len(frames) /\ frames'[j] = frames[j]
        BY <3>2, <1>1, <1>4
      <4> QED
        BY <4>1 DEF IInv, CarriedBound
    <3> QED
      BY <3>1, <3>2
  <2>2. ASSUME NEW k \in j .. Len(frames')
        PROVE  frames'[j].carried \subseteq DOMAIN frames'[k].entry
    <3>1. CASE k = Len(frames) + 1
      BY <3>1, <2>1, <1>4, <1>5
    <3>2. CASE k # Len(frames) + 1
      <4>1. /\ j \in 1 .. Len(frames) /\ frames'[j] = frames[j]
            /\ k \in j .. Len(frames) /\ frames'[k] = frames[k]
        BY <3>2, <1>1, <1>4
      <4> QED
        BY <4>1 DEF IInv, CarriedBound
    <3> QED
      BY <3>1, <3>2
  <2> QED
    BY <2>1, <2>2
<1> QED
  BY <1>6, <1>7, <1>8 DEF IInv, BindingsPlaced

LEMMA BeginIfInvariant == ASSUME IInv, BeginIf PROVE IInv'
<1> DEFINE s       == prog[pc]
           cond    == EmitExpr(s.expr, s.expr.type.width, Len(ir))
           carried == CollectAssigned(prog, pc)
           op      == Len(ir) + Len(cond.code) + 1
           widths  == [c \in carried |-> values[c].width]
           o       == Operation("if", path, NoValues, <<cond.value>>, widths)
<1>1. CASE HasValue(s.expr) /\ carried \subseteq DOMAIN values
  <2>1. /\ outcome # "failed" /\ UNCHANGED values
        /\ ir' = Append(ir \o cond.code, o)
        /\ path' = Append(path, Block(op, "then"))
        /\ frames' = Append(frames, Frame("then", op, carried, values))
    BY <1>1 DEF BeginIf, Statement
  <2>2. Uses(o) = {cond.value} /\ o.path = path
    <3> HIDE DEF cond, widths
    <3> QED
      BY UsesOfOne
  <2>3. cond = EmitExpr(s.expr, s.expr.type.width, Len(ir))
    OBVIOUS
  <2>4. op = Len(ir) + Len(cond.code) + 1
    OBVIOUS
  <2>5. carried \subseteq DOMAIN values
    BY <1>1, Zenon
  <2> HIDE DEF cond, carried, op, widths, o
  <2>6. /\ Placed(cond.value, Len(ir) + Len(cond.code) + 1, path, Len(path))
        /\ Sequence(cond.code) /\ Sequence(ir \o cond.code)
        /\ Len(ir \o cond.code) = Len(ir) + Len(cond.code) /\ Sound(ir \o cond.code, 0)
    BY <2>1, <2>3, NextExpr
  <2>7. Sequence(ir') /\ Len(ir') = Len(ir \o cond.code) + 1 /\ Sound(ir', 0)
    BY <2>1, <2>2, <2>6, SoundAppend
  <2>8. Len(ir) \in Nat /\ Len(cond.code) \in Nat
    BY <2>6, SequenceDomain DEF IInv, Shape
  <2>9. /\ Len(ir) + 1 \in Nat /\ Len(ir') + 1 \in Nat /\ Len(ir) + 1 <= Len(ir') + 1
        /\ Len(ir) <= Len(ir') /\ op \in Nat
    BY <2>4, <2>6, <2>7, <2>8
  <2>10. "then" \in Arms /\ Block(op, "then") \in Blocks
    BY <2>9 DEF Arms, Block, Blocks
  <2>11. ASSUME NEW t \in DOMAIN values'
         PROVE  Placed(values'[t], Len(ir') + 1, path', Len(path'))
    <3>1. Placed(values[t], Len(ir) + 1, path, Len(path))
      BY <2>1, <2>11 DEF IInv, BindingsPlaced
    <3>2. Placed(values[t], Len(ir') + 1, path, Len(path))
      BY <3>1, <2>9, PlacedLater
    <3>3. /\ Len(path) \in Nat /\ Len(path') \in Nat /\ Len(path) <= Len(path')
          /\ \A i \in 1 .. Len(path) : path[i] = path'[i]
      BY <2>1, <2>10 DEF IInv, Shape
    <3>4. Placed(values[t], Len(ir') + 1, path', Len(path'))
      BY <3>2, <3>3, PlacedInside
    <3> QED
      BY <3>4, <2>1
  <2> QED
    BY <2>1, <2>5, <2>7, <2>9, <2>10, <2>11, OpenInvariant
<1>2. CASE ~(HasValue(s.expr) /\ carried \subseteq DOMAIN values)
  BY <1>2, FailInvariant DEF BeginIf
<1> QED
  BY <1>1, <1>2

\* The two expressions of the header, one emitted after the other.
LEMMA NextTwoExprs ==
  ASSUME IInv, outcome # "failed", NEW e, NEW f, NEW width,
         NEW a, a = EmitExpr(e, width, Len(ir)),
         NEW b, b = EmitExpr(f, width, Len(ir) + Len(a.code)),
         NEW header, header = ir \o a.code \o b.code
  PROVE  /\ Sequence(header) /\ Len(header) \in Nat /\ Len(ir) <= Len(header)
         /\ Sound(header, 0)
         /\ Placed(a.value, Len(header) + 1, path, Len(path))
         /\ Placed(b.value, Len(header) + 1, path, Len(path))
<1>1. /\ Sequence(a.code)
      /\ Placed(a.value, Len(ir) + Len(a.code) + 1, path, Len(path))
      /\ Sequence(ir \o a.code) /\ Len(ir \o a.code) = Len(ir) + Len(a.code)
      /\ Sound(ir \o a.code, 0)
  BY NextExpr
<1>2. /\ Len(ir) \in Nat /\ Len(a.code) \in Nat /\ path \in Seq(Blocks)
      /\ Len(ir) + Len(a.code) \in Nat /\ Len(ir) + 1 \in Nat
  <2>1. Len(ir) \in Nat /\ Len(a.code) \in Nat
    BY <1>1, SequenceDomain DEF IInv, Shape
  <2> QED
    BY <2>1 DEF IInv, Shape
<1> DEFINE n == Len(ir) + Len(a.code)
<1>3. n = Len(ir \o a.code) /\ n \in Nat /\ n + 1 \in Nat /\ Len(ir) + 1 <= n + 1
      /\ Len(ir) <= n
      /\ b = EmitExpr(f, width, n)
  BY <1>1, <1>2
<1> HIDE DEF n
<1>4. \A s \in DOMAIN values : Placed(values[s], n + 1, path, Len(path))
  <2> TAKE s \in DOMAIN values
  <2>1. Placed(values[s], Len(ir) + 1, path, Len(path))
    BY DEF IInv, BindingsPlaced
  <2> QED
    BY <2>1, <1>2, <1>3, PlacedLater
<1>5. /\ Sequence(b.code) /\ Sound(b.code, n)
      /\ Placed(b.value, n + Len(b.code) + 1, path, Len(path))
  BY <1>2, <1>3, <1>4, EmitExprSound
<1>6. Len(b.code) \in Nat
  BY <1>5, SequenceDomain
<1>7. Sequence(header) /\ Len(header) = n + Len(b.code)
  BY <1>1, <1>3, <1>5, SequenceConcat
<1>8. Sound(header, 0)
  <2>1. Sound(b.code, 0 + Len(ir \o a.code))
    BY <1>3, <1>5
  <2> QED
    BY <2>1, <1>1, <1>5, SoundConcat
<1>9. /\ Len(header) \in Nat /\ Len(ir) <= Len(header)
      /\ n + 1 <= Len(header) + 1 /\ Len(header) + 1 \in Nat
  <2>1. \A x, y, z \in Nat :
          /\ x + y \in Nat /\ x + y + 1 \in Nat /\ x + 1 <= x + y + 1
          /\ z <= x => z <= x + y
    OBVIOUS
  <2>2. /\ n + Len(b.code) \in Nat /\ Len(ir) <= n + Len(b.code)
        /\ n + 1 <= n + Len(b.code) + 1 /\ n + Len(b.code) + 1 \in Nat
    BY <1>2, <1>3, <1>6, <2>1
  <2> QED
    BY <1>7, <2>2
<1>10. Placed(a.value, Len(header) + 1, path, Len(path))
  <2>1. Placed(a.value, n + 1, path, Len(path))
    BY <1>1, <1>3
  <2> QED
    BY <2>1, <1>3, <1>9, PlacedLater
<1>11. Placed(b.value, Len(header) + 1, path, Len(path))
  BY <1>5, <1>7
<1> QED
  BY <1>7, <1>8, <1>9, <1>10, <1>11

LEMMA BeginForInvariant == ASSUME IInv, BeginFor PROVE IInv'
<1> DEFINE s       == prog[pc]
           width   == TypeOf[s.sym].width
           carried == CollectAssigned(prog, pc) \ {s.sym}
           init    == EmitExpr(s.init, width, Len(ir))
           step    == EmitExpr(s.step, width, Len(ir) + Len(init.code))
           header  == ir \o init.code \o step.code
           op      == Len(header) + 1
           body    == Append(path, Block(op, "body"))
           args    == [c \in carried |-> SSA(op, body, values[c].width, <<c>>)]
           iv      == SSA(op + 1, body, width, <<>>)
           before  == [c \in carried |-> values[c]]
           loop    == Operation("for", path, before, <<>>, s.tripCount)
           rebuild == Operation("iv", body, NoValues, <<init.value, step.value>>, s.stepIsAdd)
<1> DEFINE fits == /\ s.tripCount # NoTripCount
                   /\ s.tripCount <= MaxIndex
                   /\ HasValue(s.init)
                   /\ HasValue(s.step)
                   /\ carried \subseteq DOMAIN values
<1>1. CASE fits
  <2>1. /\ outcome # "failed"
        /\ ir' = Append(Append(header, loop), rebuild)
        /\ values' = Rebind(Bind(values, s.sym, iv), args)
        /\ path' = body
        /\ frames' = Append(frames, Frame("body", op, carried, values))
    BY <1>1, Zenon DEF BeginFor, Statement
  <2>2. /\ Uses(loop) = {before[k] : k \in DOMAIN before} /\ loop.path = path
        /\ Uses(rebuild) = {init.value, step.value} /\ rebuild.path = body
    <3>1. Uses(loop) = {before[k] : k \in DOMAIN before} /\ loop.path = path
      <4> HIDE DEF before
      <4> QED
        BY UsesOfArgs
    <3>2. Uses(rebuild) = {init.value, step.value} /\ rebuild.path = body
      <4> HIDE DEF init, step, body
      <4> QED
        BY UsesOfRebuilt
    <3> QED
      BY <3>1, <3>2
  <2>3. /\ Sequence(header) /\ Len(header) \in Nat /\ Len(ir) <= Len(header)
        /\ Sound(header, 0)
        /\ Placed(init.value, Len(header) + 1, path, Len(path))
        /\ Placed(step.value, Len(header) + 1, path, Len(path))
    <3>1. /\ init = EmitExpr(s.init, width, Len(ir))
          /\ step = EmitExpr(s.step, width, Len(ir) + Len(init.code))
          /\ header = ir \o init.code \o step.code
      OBVIOUS
    <3> HIDE DEF init, step, header, width
    <3> QED
      BY <2>1, <3>1, NextTwoExprs
  <2>4. /\ op = Len(header) + 1 /\ body = Append(path, Block(op, "body"))
        /\ carried \subseteq DOMAIN values
    BY <1>1
  <2>5. /\ \A c \in DOMAIN before : before[c] = values[c] /\ c \in DOMAIN values
    BY <1>1
  <2>6. /\ DOMAIN values' = DOMAIN values \cup {s.sym} \cup carried
        /\ \A t \in carried : values'[t] = SSA(op, body, values[t].width, <<t>>)
        /\ s.sym \notin carried => values'[s.sym] = SSA(op + 1, body, width, <<>>)
        /\ \A t \in DOMAIN values : t \notin carried /\ t # s.sym => values'[t] = values[t]
    <3> HIDE DEF carried, op, body, width
    <3> QED
      BY <2>1 DEF Rebind, Bind
  <2>7. s.sym \notin carried
    OBVIOUS
  <2> HIDE DEF width, carried, init, step, header, op, body, args, iv, before, loop, rebuild, fits
  <2>8. /\ path \in Seq(Blocks) /\ Len(path) \in Nat /\ Len(ir) \in Nat
        /\ Len(ir) + 1 \in Nat /\ Len(header) + 1 \in Nat /\ Len(header) + 2 \in Nat
        /\ Len(ir) + 1 <= Len(header) + 1 /\ op \in Nat /\ "body" \in Arms
        /\ Len(header) + 1 <= Len(header) + 2
    BY <2>3, <2>4, SequenceDomain DEF IInv, Shape, Arms
  <2>9. /\ body \in Seq(Blocks) /\ Len(body) = Len(path) + 1 /\ Len(body) \in Nat
        /\ Len(path) <= Len(body)
        /\ \A i \in 1 .. Len(path) : path[i] = body[i]
    <3>1. Block(op, "body") \in Blocks
      BY <2>8 DEF Block, Blocks
    <3> QED
      BY <2>4, <2>8, <3>1
  <2>10. ASSUME NEW t \in DOMAIN values
         PROVE  Placed(values[t], Len(header) + 1, path, Len(path))
    <3>1. Placed(values[t], Len(ir) + 1, path, Len(path))
      BY <2>1 DEF IInv, BindingsPlaced
    <3> QED
      BY <3>1, <2>8, PlacedLater
  <2>11. /\ Sequence(Append(header, loop)) /\ Len(Append(header, loop)) = Len(header) + 1
         /\ Sound(Append(header, loop), 0)
    <3>1. \A v \in Uses(loop) : Placed(v, Len(header) + 1, loop.path, Len(loop.path))
      BY <2>2, <2>5, <2>10
    <3> QED
      BY <2>3, <3>1, SoundAppend
  <2>12. ASSUME NEW v, Placed(v, Len(header) + 1, path, Len(path)),
                NEW m \in Nat, Len(header) + 1 <= m
         PROVE  Placed(v, m, body, Len(body))
    <3>1. Placed(v, m, path, Len(path))
      BY <2>8, <2>12, PlacedLater
    <3> QED
      BY <3>1, <2>8, <2>9, PlacedInside
  <2>13. Sequence(ir') /\ Len(ir') = Len(header) + 2 /\ Sound(ir', 0)
    <3>1. Len(header) + 1 + 1 = Len(header) + 2
      BY <2>3
    <3>2. \A v \in Uses(rebuild) :
            Placed(v, Len(Append(header, loop)) + 1, rebuild.path, Len(rebuild.path))
      BY <2>2, <2>3, <2>8, <2>11, <2>12, <3>1
    <3> QED
      BY <2>1, <2>11, <3>1, <3>2, SoundAppend
  <2>14. /\ Len(ir) <= Len(ir') /\ Len(ir') + 1 \in Nat /\ Len(header) + 1 <= Len(ir') + 1
         /\ op < Len(ir') + 1 /\ op + 1 < Len(ir') + 1 /\ op + 1 \in Nat
    BY <2>3, <2>4, <2>8, <2>13
  <2>15. ASSUME NEW t \in DOMAIN values'
         PROVE  Placed(values'[t], Len(ir') + 1, path', Len(path'))
    <3>1. CASE t \in carried
      <4>1. values'[t] = SSA(op, body, values[t].width, <<t>>)
        BY <3>1, <2>6
      <4>2. Placed(SSA(op, body, values[t].width, <<t>>), Len(ir') + 1, body, Len(body))
        BY <2>8, <2>9, <2>14, PlacedResult
      <4> QED
        BY <4>1, <4>2, <2>1
    <3>2. CASE t = s.sym
      <4>1. values'[t] = SSA(op + 1, body, width, <<>>)
        BY <3>2, <2>6, <2>7
      <4>2. Placed(SSA(op + 1, body, width, <<>>), Len(ir') + 1, body, Len(body))
        BY <2>9, <2>14, PlacedResult
      <4> QED
        BY <4>1, <4>2, <2>1
    <3>3. CASE t \notin carried /\ t # s.sym
      <4>1. t \in DOMAIN values /\ values'[t] = values[t]
        BY <3>3, <2>6, <2>15
      <4>2. Placed(values[t], Len(ir') + 1, body, Len(body))
        BY <4>1, <2>10, <2>12, <2>14
      <4> QED
        BY <4>1, <4>2, <2>1
    <3> QED
      BY <3>1, <3>2, <3>3
  <2>16. DOMAIN values \subseteq DOMAIN values'
    BY <2>6, Zenon
  <2> QED
    BY <2>1, <2>4, <2>8, <2>13, <2>14, <2>15, <2>16, OpenInvariant
<1>2. CASE ~fits
  BY <1>2, FailInvariant DEF BeginFor
<1> QED
  BY <1>1, <1>2

-----------------------------------------------------------------------------
(***************************************************************************)
(* Closing a region.                                                       *)
(***************************************************************************)
\* The yield reads what the carried symbols name at the end of the region.
LEMMA YieldSound ==
  ASSUME IInv, outcome # "failed", frames # <<>>
  PROVE  /\ Sequence(Append(ir, Yield))
         /\ Len(Append(ir, Yield)) = Len(ir) + 1
         /\ Sound(Append(ir, Yield), 0)
<1> DEFINE args == [s \in Top.carried |-> values[s]]
<1>1. Uses(Yield) = {args[k] : k \in DOMAIN args} /\ Yield.path = path
  <2>1. Yield = Operation("yield", path, args, <<>>, Top.op)
    BY DEF Yield
  <2> HIDE DEF args
  <2> QED
    BY <2>1, UsesOfArgs
<1>2. Len(frames) \in 1 .. Len(frames)
  <2>1. Len(frames) \in Nat /\ Len(frames) # 0
    BY DEF IInv, Shape, Sequence
  <2> QED
    BY <2>1
<1>3. \A k \in DOMAIN args : args[k] = values[k] /\ k \in DOMAIN values
  BY <1>2 DEF IInv, CarriedBound, Top
<1>4. \A v \in Uses(Yield) : Placed(v, Len(ir) + 1, Yield.path, Len(Yield.path))
  <2>1. \A k \in DOMAIN args : Placed(args[k], Len(ir) + 1, path, Len(path))
    BY <1>3 DEF IInv, BindingsPlaced
  <2> HIDE DEF args
  <2> QED
    BY <1>1, <2>1
<1> QED
  BY <1>4, SoundAppend DEF IInv, Shape

LEMMA SequenceFront ==
  ASSUME NEW s, Sequence(s), s # <<>>
  PROVE  /\ Len(s) \in Nat \ {0}
         /\ Sequence(SubSeq(s, 1, Len(s) - 1))
         /\ Len(SubSeq(s, 1, Len(s) - 1)) = Len(s) - 1
         /\ \A i \in 1 .. Len(s) - 1 : SubSeq(s, 1, Len(s) - 1)[i] = s[i]
<1> DEFINE S == {s[i] : i \in DOMAIN s}
<1>1. s \in Seq(S)
  BY DEF Sequence
<1> HIDE DEF S
<1>2. Len(s) \in Nat \ {0}
  BY <1>1
<1>3. SubSeq(s, 1, Len(s) - 1) \in Seq(S)
  BY <1>1, <1>2
<1>4. Len(SubSeq(s, 1, Len(s) - 1)) = Len(s) - 1
  <2>1. 1 \in Int /\ Len(s) - 1 \in Int /\ \A i \in 1 .. Len(s) - 1 : s[i] \in S
    BY <1>1, <1>2
  <2>2. Len(SubSeq(s, 1, Len(s) - 1)) = IF 1 <= Len(s) - 1 THEN Len(s) - 1 - 1 + 1 ELSE 0
    BY <2>1, SubSeqProperties
  <2> QED
    BY <1>2, <2>2
<1>5. ASSUME NEW i \in 1 .. Len(s) - 1
      PROVE  SubSeq(s, 1, Len(s) - 1)[i] = s[i]
  BY <1>1, <1>2
<1> QED
  BY <1>2, <1>3, <1>4, <1>5, SequenceOf

\* The facts about the innermost frame both steps need.
LEMMA Innermost ==
  ASSUME IInv, frames # <<>>
  PROVE  /\ Len(frames) \in Nat \ {0} /\ Len(path) = Len(frames)
         /\ Len(frames) - 1 \in Nat /\ Len(ir) \in Nat
         /\ Len(ir) + 1 \in Nat /\ Len(ir) + 2 \in Nat
         /\ Len(ir) + 1 <= Len(ir) + 2 /\ Len(ir) + 1 < Len(ir) + 2
         /\ Len(frames) \in DOMAIN frames /\ DOMAIN frames = 1 .. Len(frames)
         /\ Top = Frame(Top.arm, Top.op, Top.carried, Top.entry) /\ Top.op \in Nat
         /\ Parent \in Seq(Blocks) /\ Len(Parent) = Len(frames) - 1
         /\ \A i \in 1 .. Len(frames) - 1 : path[i] = Parent[i]
<1>1. Len(frames) \in Nat \ {0} /\ DOMAIN frames = 1 .. Len(frames)
  BY SequenceFront, SequenceDomain DEF IInv, Shape
<1>2. Len(ir) \in Nat
  BY SequenceDomain DEF IInv, Shape
<1>3. Len(path) = Len(frames) /\ path \in Seq(Blocks)
  BY DEF IInv, Shape
<1>4. /\ Parent \in Seq(Blocks) /\ Len(Parent) = Len(frames) - 1
      /\ \A i \in 1 .. Len(frames) - 1 : path[i] = Parent[i]
  BY <1>1, <1>3 DEF Parent
<1>5. Len(frames) \in DOMAIN frames
  BY <1>1
<1>6. Top = Frame(Top.arm, Top.op, Top.carried, Top.entry) /\ Top.op \in Nat
  BY <1>5 DEF Top, IInv, Shape
<1> QED
  BY <1>1, <1>2, <1>3, <1>4, <1>5, <1>6

\* The saved bindings are placed where the walk stood before the region.
LEMMA EntryPlaced ==
  ASSUME IInv, outcome # "failed", frames # <<>>, NEW s \in DOMAIN Top.entry,
         NEW where, NEW d \in Nat, Len(frames) - 1 <= d,
         \A i \in 1 .. Len(frames) - 1 : Parent[i] = where[i]
  PROVE  Placed(Top.entry[s], Len(ir) + 2, where, d)
<1>1. Placed(Top.entry[s], Len(ir) + 1, path, Len(frames) - 1)
  BY Innermost DEF IInv, EntriesPlaced, Top
<1>2. Placed(Top.entry[s], Len(ir) + 2, path, Len(frames) - 1)
  BY <1>1, Innermost, PlacedLater
<1>3. \A i \in 1 .. Len(frames) - 1 : path[i] = where[i]
  <2> TAKE i \in 1 .. Len(frames) - 1
  <2>1. path[i] = Parent[i]
    BY Innermost
  <2>2. Parent[i] = where[i]
    OBVIOUS
  <2> QED
    BY <2>1, <2>2
<1> QED
  BY <1>2, <1>3, Innermost, PlacedInside

LEMMA BeginElseInvariant == ASSUME IInv, BeginElse PROVE IInv'
<1> DEFINE last == Len(frames)
           b    == Block(Top.op, "else")
           new  == Frame("else", Top.op, Top.carried, Top.entry)
<1>1. /\ outcome # "failed" /\ frames # <<>>
      /\ ir' = Append(ir, Yield) /\ values' = Top.entry
      /\ path' = Append(Parent, b)
      /\ frames' = [frames EXCEPT ![last].arm = "else"]
  BY DEF BeginElse, Yielding, Entry, Statement, Inside
<1>2. b \in Blocks /\ new = [Top EXCEPT !.arm = "else"]
  <2>1. b \in Blocks
    BY <1>1, Innermost DEF Block, Blocks, Arms
  <2>2. Top = Frame(Top.arm, Top.op, Top.carried, Top.entry)
    BY <1>1, Innermost
  <2>3. new = [Frame(Top.arm, Top.op, Top.carried, Top.entry) EXCEPT !.arm = "else"]
    BY DEF Frame
  <2> QED
    BY <2>1, <2>2, <2>3
<1>3. /\ path' \in Seq(Blocks) /\ Len(path') = last
      /\ \A i \in 1 .. last - 1 : Parent[i] = path'[i]
  <2>1. Parent \in Seq(Blocks) /\ Len(Parent) = last - 1 /\ (last - 1) + 1 = last
    BY <1>1, Innermost
  <2>2. /\ Append(Parent, b) \in Seq(Blocks) /\ Len(Append(Parent, b)) = Len(Parent) + 1
        /\ \A i \in 1 .. Len(Parent) : Append(Parent, b)[i] = Parent[i]
    BY <1>2, <2>1, AppendFacts
  <2> HIDE DEF last, b
  <2> QED
    BY <1>1, <2>1, <2>2
<1>4. /\ Sequence(frames') /\ Len(frames') = last /\ DOMAIN frames' = 1 .. last
      /\ \A k \in 1 .. last : k # last => frames'[k] = frames[k]
      /\ frames'[last] = new
  <2> DEFINE S == {frames[k] : k \in DOMAIN frames} \cup {new}
  <2>1. frames \in Seq(S) /\ new \in S /\ last \in DOMAIN frames
    BY <1>1, Innermost DEF IInv, Shape, Sequence
  <2>2. frames' = [frames EXCEPT ![last] = new]
    BY <1>1, <1>2 DEF Top
  <2> HIDE DEF new, S
  <2>3. frames' \in Seq(S) /\ Len(frames') = last
    BY <2>1, <2>2
  <2>4. Sequence(frames') /\ DOMAIN frames' = 1 .. last
    BY <2>3, SequenceOf, SequenceDomain
  <2> QED
    BY <2>1, <2>2, <2>3, <2>4
<1>5. /\ new.op = Top.op /\ new.carried = Top.carried /\ new.entry = Top.entry
      /\ new = Frame(new.arm, new.op, new.carried, new.entry)
  BY DEF Frame
<1>6. Top = frames[last] /\ last \in 1 .. last /\ last \in Nat \ {0} /\ DOMAIN frames = 1 .. last
  BY <1>1, Innermost DEF Top
<1> HIDE DEF new, b, last
<1>7. /\ Sequence(ir') /\ Len(ir') = Len(ir) + 1 /\ Sound(ir', 0)
  BY <1>1, YieldSound
<1>8. Len(ir') + 1 = Len(ir) + 2 /\ last - 1 \in Nat /\ last \in Nat /\ last - 1 <= last
  BY <1>1, <1>6, <1>7, Innermost
<1>9. Shape'
  <2>1. ASSUME NEW k \in DOMAIN frames'
        PROVE  /\ frames'[k].op \in Nat
               /\ frames'[k] = Frame(frames'[k].arm, frames'[k].op,
                                     frames'[k].carried, frames'[k].entry)
    <3>1. CASE k = last
      BY <3>1, <1>1, <1>4, <1>5, Innermost
    <3>2. CASE k # last
      BY <3>2, <2>1, <1>4, <1>6 DEF IInv, Shape
    <3> QED
      BY <3>1, <3>2
  <2> QED
    BY <2>1, <1>3, <1>4, <1>7 DEF Shape
<1>10. BindingsPlaced'
  <2> SUFFICES ASSUME NEW s \in DOMAIN Top.entry
               PROVE  Placed(Top.entry[s], Len(ir') + 1, path', Len(path'))
    BY <1>1 DEF BindingsPlaced
  <2>1. Placed(Top.entry[s], Len(ir) + 2, path', last)
    BY <1>1, <1>3, <1>8, EntryPlaced DEF last
  <2> QED
    BY <2>1, <1>3, <1>8
<1>11. EntriesPlaced'
  <2> SUFFICES ASSUME NEW k \in 1 .. Len(frames'), NEW s \in DOMAIN frames'[k].entry
               PROVE  Placed(frames'[k].entry[s], Len(ir') + 1, path', k - 1)
    BY DEF EntriesPlaced
  <2>1. k \in 1 .. last /\ k - 1 \in Nat /\ k - 1 <= k - 1
    BY <1>4, <1>6
  <2>2. frames'[k].entry = frames[k].entry
    BY <2>1, <1>4, <1>5, <1>6
  <2>3. Placed(frames[k].entry[s], Len(ir) + 1, path, k - 1)
    BY <2>1, <2>2, <1>1 DEF IInv, EntriesPlaced, last
  <2>4. Placed(frames[k].entry[s], Len(ir) + 2, path, k - 1)
    BY <2>3, <1>1, Innermost, PlacedLater
  <2>5. \A i \in 1 .. k - 1 : path[i] = path'[i]
    <3> TAKE i \in 1 .. k - 1
    <3>1. i \in 1 .. last - 1
      BY <2>1, <1>6
    <3>2. path[i] = Parent[i]
      BY <3>1, <1>1, Innermost DEF last
    <3> QED
      BY <3>1, <3>2, <1>3
  <2>6. Placed(frames[k].entry[s], Len(ir) + 2, path', k - 1)
    BY <2>1, <2>4, <2>5, PlacedInside
  <2> QED
    BY <2>2, <2>6, <1>8
<1>12. CarriedBound'
  <2>1. \A k \in 1 .. last :
          frames'[k].carried = frames[k].carried /\ frames'[k].entry = frames[k].entry
    BY <1>4, <1>5, <1>6
  <2>2. ASSUME NEW j \in 1 .. last
        PROVE  /\ frames[j].carried \subseteq DOMAIN Top.entry
               /\ \A k \in j .. last : frames[j].carried \subseteq DOMAIN frames[k].entry
    <3>1. last \in j .. last
      BY <1>6
    <3> QED
      BY <3>1, <1>6 DEF IInv, CarriedBound, last
  <2>3. \A j \in 1 .. last : \A k \in j .. last : k \in 1 .. last
    BY <1>6
  <2> QED
    BY <2>1, <2>2, <2>3, <1>1, <1>4 DEF CarriedBound
<1> QED
  BY <1>7, <1>9, <1>10, <1>11, <1>12 DEF IInv

\* Both EndIf and EndFor: the results replace the carried symbols in the
\* bindings from before the region.
LEMMA LeaveInvariant ==
  ASSUME IInv, outcome # "failed", frames # <<>>, Leave
  PROVE  IInv'
<1> DEFINE last == Len(frames)
<1>1. /\ ir' = Append(ir, Yield) /\ path' = Parent
      /\ values' = Rebind(Top.entry, Results)
      /\ frames' = SubSeq(frames, 1, last - 1)
  BY DEF Leave, Yielding, Restored, Entry
<1>2. /\ Sequence(frames') /\ Len(frames') = last - 1 /\ DOMAIN frames' = 1 .. last - 1
      /\ \A k \in 1 .. last - 1 : frames'[k] = frames[k]
  BY <1>1, SequenceFront, SequenceDomain DEF IInv, Shape
<1>3. Top = frames[last] /\ last \in 1 .. last /\ last \in Nat \ {0} /\ DOMAIN frames = 1 .. last
  BY Innermost DEF Top
<1>4. /\ Sequence(ir') /\ Len(ir') = Len(ir) + 1 /\ Sound(ir', 0)
  BY <1>1, YieldSound
<1>5. /\ Len(ir') + 1 = Len(ir) + 2 /\ last - 1 \in Nat /\ last - 1 <= last - 1
      /\ Parent \in Seq(Blocks) /\ Len(Parent) = last - 1
      /\ Len(ir) + 1 \in Nat /\ Len(ir) + 2 \in Nat /\ Len(ir) + 1 < Len(ir) + 2
  <2>1. /\ Len(ir) \in Nat /\ last - 1 \in Nat /\ Parent \in Seq(Blocks)
        /\ Len(Parent) = last - 1
    BY Innermost
  <2>2. \A n \in Nat : n + 1 + 1 = n + 2 /\ n + 1 \in Nat /\ n + 2 \in Nat /\ n + 1 < n + 2 /\ n <= n
    OBVIOUS
  <2> QED
    BY <2>1, <2>2, <1>4
<1>6. /\ DOMAIN values' = DOMAIN Top.entry \cup Top.carried
      /\ \A s \in Top.carried :
           values'[s] = SSA(Len(ir) + 1, Parent, Top.entry[s].width, <<s>>)
      /\ \A s \in DOMAIN Top.entry : s \notin Top.carried => values'[s] = Top.entry[s]
  BY <1>1 DEF Rebind, Results
<1> HIDE DEF last
<1>7. Shape'
  <2>1. \A k \in 1 .. last - 1 : k \in 1 .. last
    BY <1>3
  <2> QED
    BY <2>1, <1>1, <1>2, <1>3, <1>4, <1>5 DEF IInv, Shape
<1>8. BindingsPlaced'
  <2> SUFFICES ASSUME NEW s \in DOMAIN values'
               PROVE  Placed(values'[s], Len(ir) + 2, Parent, last - 1)
    BY <1>1, <1>5 DEF BindingsPlaced
  <2>1. CASE s \in Top.carried
    <3>1. values'[s] = SSA(Len(ir) + 1, Parent, Top.entry[s].width, <<s>>)
      BY <2>1, <1>6
    <3>2. Placed(SSA(Len(ir) + 1, Parent, Top.entry[s].width, <<s>>),
                 Len(ir) + 2, Parent, Len(Parent))
      BY <1>5, PlacedResult
    <3> QED
      BY <3>1, <3>2, <1>5
  <2>2. CASE s \notin Top.carried
    <3>1. s \in DOMAIN Top.entry /\ values'[s] = Top.entry[s]
      BY <2>2, <1>6
    <3>2. Placed(Top.entry[s], Len(ir) + 2, Parent, last - 1)
      BY <3>1, <1>5, EntryPlaced DEF last
    <3> QED
      BY <3>1, <3>2
  <2> QED
    BY <2>1, <2>2
<1>9. EntriesPlaced'
  <2> SUFFICES ASSUME NEW k \in 1 .. Len(frames'), NEW s \in DOMAIN frames'[k].entry
               PROVE  Placed(frames'[k].entry[s], Len(ir') + 1, path', k - 1)
    BY DEF EntriesPlaced
  <2>1. /\ k \in 1 .. last - 1 /\ k \in 1 .. last /\ k - 1 \in Nat /\ k - 1 <= k - 1
        /\ frames'[k] = frames[k]
    BY <1>2, <1>3
  <2>2. Placed(frames[k].entry[s], Len(ir) + 1, path, k - 1)
    BY <2>1 DEF IInv, EntriesPlaced, last
  <2>3. Placed(frames[k].entry[s], Len(ir) + 2, path, k - 1)
    BY <2>2, Innermost, PlacedLater
  <2>4. \A i \in 1 .. k - 1 : path[i] = Parent[i]
    <3> TAKE i \in 1 .. k - 1
    <3>1. i \in 1 .. last - 1
      BY <2>1, <1>3
    <3> QED
      BY <3>1, Innermost DEF last
  <2>5. Placed(frames[k].entry[s], Len(ir) + 2, Parent, k - 1)
    BY <2>1, <2>3, <2>4, PlacedInside
  <2> QED
    BY <2>1, <2>5, <1>1, <1>5
<1>10. CarriedBound'
  <2> SUFFICES ASSUME NEW j \in 1 .. last - 1
               PROVE  /\ frames[j].carried \subseteq DOMAIN values'
                      /\ \A k \in j .. last - 1 :
                           frames[j].carried \subseteq DOMAIN frames[k].entry
    <3>1. \A i \in 1 .. last - 1 : \A k \in i .. last - 1 : k \in 1 .. last - 1
      BY <1>3
    <3> QED
      BY <3>1, <1>2 DEF CarriedBound
  <2>1. j \in 1 .. last /\ last \in j .. last /\ \A k \in j .. last - 1 : k \in j .. last
    BY <1>3
  <2>2. frames[j].carried \subseteq DOMAIN Top.entry
    BY <2>1, <1>3 DEF IInv, CarriedBound, last
  <2> QED
    BY <2>1, <2>2, <1>6 DEF IInv, CarriedBound, last
<1> QED
  BY <1>4, <1>7, <1>8, <1>9, <1>10 DEF IInv

-----------------------------------------------------------------------------
(***************************************************************************)
(* The theorems.                                                           *)
(***************************************************************************)
LEMMA NextInvariant == ASSUME IInv, [Next]_vars PROVE IInv'
<1>1. CASE EmitBinding
  BY <1>1, EmitBindingInvariant
<1>2. CASE EmitReturn
  BY <1>2, EmitReturnInvariant
<1>3. CASE EmitBlockBrace
  BY <1>3, QuietInvariant DEF EmitBlockBrace
<1>4. CASE EmitUnsupported
  BY <1>4, FailInvariant DEF EmitUnsupported
<1>5. CASE FallOffTheEnd
  BY <1>5, FailInvariant DEF FallOffTheEnd
<1>6. CASE BeginIf
  BY <1>6, BeginIfInvariant
<1>7. CASE BeginElse
  BY <1>7, BeginElseInvariant
<1>8. CASE EndIf
  BY <1>8, LeaveInvariant DEF EndIf, Statement, Inside
<1>9. CASE SkipFor
  BY <1>9, QuietInvariant DEF SkipFor
<1>10. CASE BeginFor
  BY <1>10, BeginForInvariant
<1>11. CASE EndFor
  BY <1>11, LeaveInvariant DEF EndFor, Statement, Inside
<1>12. CASE UNCHANGED vars
  BY <1>12, QuietInvariant DEF vars
<1> QED
  BY <1>1, <1>2, <1>3, <1>4, <1>5, <1>6, <1>7, <1>8, <1>9, <1>10, <1>11, <1>12 DEF Next

\* The shape of the walk's state, whatever the listing and the types: each
\* region the insertion point is in has its one activation of emitIf or
\* emitFor, and the bindings are placed where the walk stands.
THEOREM InvariantHolds == Spec => []IInv
<1>1. Init => IInv
  BY InitInvariant
<1>2. IInv /\ [Next]_vars => IInv'
  BY NextInvariant
<1> QED
  BY <1>1, <1>2, PTL DEF Spec

\* Whatever the listing, every operation emitted uses only values that
\* dominate it: the verifier of the module has nothing to refuse there.
THEOREM DominanceHolds == Spec => []Dominance
<1>1. IInv => Dominance
  <2> SUFFICES ASSUME IInv, NEW q \in DOMAIN ir, NEW v \in Uses(ir[q])
               PROVE  Available(v, q, ir[q].path)
    BY DEF Dominance
  <2>1. Placed(v, 0 + q, ir[q].path, Len(ir[q].path))
    BY DEF IInv, Sound
  <2>2. 0 + q = q
    BY SequenceDomain DEF IInv, Shape
  <2> QED
    BY <2>1, <2>2 DEF Placed, Available, Encloses
<1> QED
  BY <1>1, InvariantHolds, PTL

\* emitFor's assert holds for every listing, and so does what emitBranch
\* relies on without one: the yield finds every symbol it must name.
THEOREM CarriedStayBoundHolds == Spec => []CarriedStayBound
<1>1. IInv => CarriedStayBound
  BY SequenceDomain DEF IInv, Shape, CarriedBound, CarriedStayBound
<1> QED
  BY <1>1, InvariantHolds, PTL

-----------------------------------------------------------------------------
(***************************************************************************)
(* Types.  The dominance invariant is a part of the typed one: it is what  *)
(* says that the frames, the path and the bindings fit together.           *)
(***************************************************************************)
\* Bindings as wide as the symbols are declared.
TypedBindings(m) ==
  /\ DOMAIN m \subseteq Symbols
  /\ \A s \in DOMAIN m : m[s] \in SSAValues /\ m[s].width = TypeOf[s].width

\* An operation uses SSA values; a yield, and the entry of a loop, names each
\* symbol's value at that symbol's width.
TypedOperation(o) ==
  /\ Uses(o) \subseteq SSAValues
  /\ o.op \in {"yield", "for"} => \A s \in DOMAIN o.args : o.args[s].width = TypeOf[s].width

TypedCode(code) == \A q \in DOMAIN code : TypedOperation(code[q])

-----------------------------------------------------------------------------
(***************************************************************************)
(* Typed code.                                                             *)
(***************************************************************************)
LEMMA TypedConcat ==
  ASSUME NEW s, Sequence(s), NEW t, Sequence(t), TypedCode(s), TypedCode(t)
  PROVE  TypedCode(s \o t)
<1> SUFFICES ASSUME NEW k \in DOMAIN (s \o t)
             PROVE  TypedOperation((s \o t)[k])
  BY DEF TypedCode
<1>1. /\ Len(s) \in Nat /\ DOMAIN s = 1 .. Len(s)
      /\ Len(t) \in Nat /\ DOMAIN t = 1 .. Len(t)
  BY SequenceDomain
<1>2. k \in 1 .. Len(s) + Len(t)
  BY SequenceConcat, SequenceDomain
<1>3. CASE k <= Len(s)
  <2>1. (s \o t)[k] = s[k] /\ k \in DOMAIN s
    BY <1>1, <1>2, <1>3, SequenceConcat
  <2> QED
    BY <2>1 DEF TypedCode
<1>4. CASE k > Len(s)
  <2> DEFINE i == k - Len(s)
  <2>1. i \in DOMAIN t /\ k = Len(s) + i
    BY <1>1, <1>2, <1>4
  <2>2. (s \o t)[k] = t[i]
    BY <1>1, <2>1, SequenceConcat
  <2> QED
    BY <2>1, <2>2 DEF TypedCode
<1> QED
  BY <1>1, <1>2, <1>3, <1>4

LEMMA TypedOne == ASSUME NEW o, TypedOperation(o) PROVE TypedCode(<<o>>)
  BY DEF TypedCode

LEMMA TypedNone == TypedCode(<<>>)
  BY DEF TypedCode

LEMMA TypedAppend ==
  ASSUME NEW code, Sequence(code), TypedCode(code), NEW o, TypedOperation(o)
  PROVE  TypedCode(Append(code, o))
<1> DEFINE all == Append(code, o)
<1>1. /\ DOMAIN all = 1 .. Len(code) + 1 /\ Len(code) \in Nat
      /\ DOMAIN code = 1 .. Len(code)
      /\ \A i \in 1 .. Len(code) : all[i] = code[i]
      /\ all[Len(code) + 1] = o
  BY SequenceAppend, SequenceDomain
<1> HIDE DEF all
<1>2. ASSUME NEW k \in 1 .. Len(code) + 1 PROVE TypedOperation(all[k])
  <2>1. CASE k = Len(code) + 1
    BY <2>1, <1>1
  <2>2. CASE k # Len(code) + 1
    <3>1. k \in DOMAIN code /\ all[k] = code[k]
      BY <2>2, <1>1
    <3> QED
      BY <3>1 DEF TypedCode
  <2> QED
    BY <2>1, <2>2
<1> QED
  BY <1>1, <1>2 DEF TypedCode, all

\* What an operation makes is an SSA value of the width asked for.
LEMMA TypedResult ==
  ASSUME NEW n \in Nat, NEW p \in Seq(Blocks), NEW w \in Nat \ {0},
         NEW of \in {<<>>} \cup {<<s>> : s \in Symbols}
  PROVE  SSA(n, p, w, of) \in SSAValues /\ SSA(n, p, w, of).width = w
  BY DEF SSA, SSAValues, Paths, Blocks

-----------------------------------------------------------------------------
(***************************************************************************)
(* coerce and emit(Expr&): the value has the width that was asked for.     *)
(***************************************************************************)
LEMMA CoerceTyped ==
  ASSUME path \in Seq(Blocks), NEW n \in Nat, NEW v \in SSAValues, NEW type,
         NEW width \in Nat \ {0}, NEW r, r = Coerce(v, type, width, n)
  PROVE  Sequence(r.code) /\ TypedCode(r.code) /\ r.value \in SSAValues /\ r.value.width = width
<1>1. CASE v.width = width
  <2>1. r.code = <<>> /\ r.value = v
    BY <1>1 DEF Coerce
  <2> QED
    BY <1>1, <2>1, SoundNone, TypedNone
<1>2. CASE v.width # width
  <2> DEFINE attr == [isSigned |-> type.isSigned, width |-> width]
             o == Operation("coerce", path, NoValues, <<v>>, attr)
  <2>1. r.code = <<o>> /\ r.value = SSA(n + 1, path, width, <<>>)
    BY <1>2 DEF Coerce
  <2>2. Uses(o) = {v} /\ o.op = "coerce"
    <3> HIDE DEF attr
    <3> QED
      BY UsesOfOne DEF Operation
  <2> HIDE DEF o
  <2>3. TypedCode(<<o>>)
    BY <2>2, TypedOne DEF TypedOperation
  <2>4. Sequence(<<o>>)
    <3>1. <<o>> \in Seq({o})
      OBVIOUS
    <3> QED
      BY <3>1, SequenceOf
  <2>5. r.value \in SSAValues /\ r.value.width = width
    <3> DEFINE m == n + 1
               none == <<>>
    <3>1. m \in Nat /\ none \in {<<>>} \cup {<<s>> : s \in Symbols}
      OBVIOUS
    <3>2. r.value = SSA(m, path, width, none)
      BY <2>1
    <3> HIDE DEF m, none
    <3> QED
      BY <3>1, <3>2, TypedResult
  <2> QED
    BY <2>1, <2>3, <2>4, <2>5
<1> QED
  BY <1>1, <1>2

LEMMA EmitExprTyped ==
  ASSUME path \in Seq(Blocks), TypedBindings(values), NEW n \in Nat,
         NEW e, e.type \in Types, NEW width \in Nat \ {0},
         NEW r, r = EmitExpr(e, width, n)
  PROVE  Sequence(r.code) /\ TypedCode(r.code) /\ r.value \in SSAValues /\ r.value.width = width
<1>1. CASE e.op = "name" /\ e.args[1] \in DOMAIN values
  <2>1. r = Coerce(values[e.args[1]], e.type, width, n)
    BY <1>1 DEF EmitExpr
  <2>2. values[e.args[1]] \in SSAValues
    BY <1>1 DEF TypedBindings
  <2> QED
    BY <2>1, <2>2, CoerceTyped
<1>2. CASE ~(e.op = "name" /\ e.args[1] \in DOMAIN values)
  <2> DEFINE args == [s \in Reads(e) \cap DOMAIN values |-> values[s]]
             o    == Operation("compute", path, args, <<>>, e)
             made == SSA(n + 1, path, e.type.width, <<>>)
             fit  == Coerce(made, e.type, width, n + 1)
  <2>1. r.code = <<o>> \o fit.code /\ r.value = fit.value
    BY <1>2 DEF EmitExpr
  <2>2. Uses(o) \subseteq SSAValues /\ o.op = "compute"
    <3>1. \A k \in DOMAIN args : args[k] \in SSAValues
      BY DEF TypedBindings
    <3> HIDE DEF args
    <3>2. Uses(o) = {args[k] : k \in DOMAIN args} /\ o.op = "compute"
      BY UsesOfArgs DEF Operation
    <3> QED
      BY <3>1, <3>2
  <2>3. n + 1 \in Nat /\ e.type.width \in Nat \ {0}
    BY DEF Types
  <2>4. made \in SSAValues
    BY <2>3, TypedResult
  <2>5. fit = Coerce(made, e.type, width, n + 1)
    OBVIOUS
  <2> HIDE DEF o, made, fit
  <2>6. TypedCode(<<o>>) /\ Sequence(<<o>>)
    <3>1. <<o>> \in Seq({o})
      OBVIOUS
    <3> QED
      BY <2>2, <3>1, SequenceOf, TypedOne DEF TypedOperation
  <2>7. /\ Sequence(fit.code) /\ TypedCode(fit.code)
        /\ fit.value \in SSAValues /\ fit.value.width = width
    BY <2>3, <2>4, <2>5, CoerceTyped
  <2> QED
    BY <2>1, <2>6, <2>7, SequenceConcat, TypedConcat
<1> QED
  BY <1>1, <1>2

\* Bindings stay typed when symbols are bound to values of their width.
LEMMA BindTyped ==
  ASSUME NEW m, TypedBindings(m), NEW s \in Symbols, NEW v \in SSAValues,
         v.width = TypeOf[s].width
  PROVE  TypedBindings(Bind(m, s, v))
  BY DEF TypedBindings, Bind

LEMMA RebindTyped ==
  ASSUME NEW m, TypedBindings(m), NEW more, TypedBindings(more)
  PROVE  TypedBindings(Rebind(m, more))
  BY DEF TypedBindings, Rebind

\* Fresh values for symbols that m binds already, at the widths they have.
Fresh(fresh, m, n, p) ==
  /\ DOMAIN fresh \subseteq DOMAIN m
  /\ \A s \in DOMAIN fresh : fresh[s] = SSA(n, p, m[s].width, <<s>>)

LEMMA FreshTyped ==
  ASSUME NEW m, TypedBindings(m), NEW n \in Nat, NEW p \in Seq(Blocks),
         NEW fresh, Fresh(fresh, m, n, p)
  PROVE  TypedBindings(fresh)
<1> SUFFICES ASSUME NEW s \in DOMAIN fresh
             PROVE  /\ s \in Symbols
                    /\ fresh[s] \in SSAValues
                    /\ fresh[s].width = TypeOf[s].width
  BY DEF TypedBindings
<1>1. s \in DOMAIN m /\ fresh[s] = SSA(n, p, m[s].width, <<s>>)
  BY DEF Fresh
<1>2. s \in Symbols /\ m[s].width \in Nat \ {0} /\ m[s].width = TypeOf[s].width
  BY <1>1 DEF TypedBindings, SSAValues
<1>3. <<s>> \in {<<>>} \cup {<<t>> : t \in Symbols}
  BY <1>2
<1> QED
  BY <1>1, <1>2, <1>3, TypedResult

LEMMA SymbolWidth == ASSUME NEW s \in Symbols PROVE TypeOf[s].width \in Nat \ {0}
  BY ProgramAssumption DEF Types

-----------------------------------------------------------------------------
(***************************************************************************)
(* The inductive invariant.  The saved bindings are typed like those in    *)
(* force, since closing a region puts them back; and each frame is the     *)
(* activation whose region is the block at its depth.                      *)
(***************************************************************************)
FramesFit ==
  \A k \in DOMAIN frames :
    /\ frames[k].arm = path[k].arm
    /\ frames[k].op = path[k].op
    /\ TypedBindings(frames[k].entry)

TInv ==
  /\ IInv
  /\ prog \in Programs
  /\ pc \in 1 .. Len(prog) + 1
  /\ TypedBindings(values)
  /\ TypedCode(ir)
  /\ FramesFit
  /\ outcome \in {"emitting", "done", "failed"}

LEMMA InitTyped == Init => TInv
<1> SUFFICES ASSUME Init PROVE TInv
  OBVIOUS
<1>1. IInv
  BY InitInvariant
<1>2. prog \in Programs /\ pc = 1 /\ Len(prog) \in Nat
  <2>1. prog \in Programs /\ pc = 1
    BY DEF Init
  <2>2. Sequence(prog)
    BY <2>1, ListingsAssumption DEF WellFormed, Sequence
  <2> QED
    BY <2>1, <2>2, SequenceDomain
<1>3. TypedBindings(values)
  <2> SUFFICES ASSUME NEW s \in Params
               PROVE  /\ s \in Symbols
                      /\ SSA(0, <<>>, TypeOf[s].width, <<s>>) \in SSAValues
                      /\ SSA(0, <<>>, TypeOf[s].width, <<s>>).width = TypeOf[s].width
    BY DEF Init, TypedBindings
  <2>1. s \in Symbols
    BY ProgramAssumption
  <2>2. /\ TypeOf[s].width \in Nat \ {0} /\ <<s>> \in {<<>>} \cup {<<t>> : t \in Symbols}
        /\ <<>> \in Seq(Blocks) /\ 0 \in Nat
    BY <2>1, SymbolWidth
  <2> QED
    BY <2>1, <2>2, TypedResult
<1>4. TypedCode(ir) /\ FramesFit /\ outcome \in {"emitting", "done", "failed"}
  <2>1. ir = <<>> /\ frames = <<>> /\ outcome = "emitting"
    BY DEF Init
  <2> QED
    BY <2>1, TypedNone DEF FramesFit
<1> QED
  BY <1>1, <1>2, <1>3, <1>4 DEF TInv

-----------------------------------------------------------------------------
(***************************************************************************)
(* The steps that open no region.                                          *)
(***************************************************************************)
\* What the front end has settled of the statement the walk is at.
LEMMA Listed ==
  ASSUME TInv, NEW kinds, Statement(kinds)
  PROVE  /\ outcome = "emitting" /\ prog[pc].kind \in kinds
         /\ pc \in 1 .. Len(prog) /\ Len(prog) \in Nat /\ pc + 1 \in 1 .. Len(prog) + 1
         /\ prog[pc].kind \in {"decl", "assign", "for"} => prog[pc].sym \in Symbols
         /\ prog[pc].kind \in {"decl", "assign", "if", "return"} => prog[pc].expr.type \in Types
         /\ prog[pc].kind = "for" =>
              /\ {prog[pc].init.type, prog[pc].step.type} \subseteq Types
              /\ CloseOf(prog, pc) \in pc + 1 .. Len(prog)
<1>1. WellFormed(prog)
  BY ListingsAssumption DEF TInv
<1>2. Sequence(prog)
  BY <1>1 DEF WellFormed, Sequence
<1>3. Len(prog) \in Nat /\ DOMAIN prog = 1 .. Len(prog)
  BY <1>2, SequenceDomain
<1>4. pc \in 1 .. Len(prog) + 1 /\ pc <= Len(prog)
  BY DEF TInv, Statement
<1>5. pc \in 1 .. Len(prog) /\ pc + 1 \in 1 .. Len(prog) + 1
  BY <1>3, <1>4
<1>6. pc \in DOMAIN prog
  BY <1>3, <1>5
<1>7. outcome = "emitting" /\ prog[pc].kind \in kinds
  BY DEF Statement
<1> QED
  BY <1>1, <1>3, <1>5, <1>6, <1>7 DEF WellFormed

LEMMA FailTyped == ASSUME TInv, Fail PROVE TInv'
<1>1. IInv'
  BY FailInvariant DEF TInv
<1>2. TypedCode(ir')
  BY TypedNone DEF Fail
<1> QED
  BY <1>1, <1>2 DEF TInv, Fail, FramesFit

\* More operations in the same block, and bindings that are still typed.
LEMMA EmitTyped ==
  ASSUME TInv, IInv', UNCHANGED <<prog, path, frames>>, pc' \in 1 .. Len(prog) + 1,
         TypedBindings(values'), TypedCode(ir'), outcome' \in {"emitting", "done", "failed"}
  PROVE  TInv'
  BY DEF TInv, FramesFit

\* The code behind the next expression, and its value.
LEMMA NextExprTyped ==
  ASSUME TInv, outcome # "failed", NEW e, e.type \in Types, NEW width \in Nat \ {0},
         NEW r, r = EmitExpr(e, width, Len(ir))
  PROVE  /\ Sequence(ir \o r.code) /\ TypedCode(ir \o r.code)
         /\ r.value \in SSAValues /\ r.value.width = width
<1>1. /\ Len(ir) \in Nat /\ Sequence(ir) /\ path \in Seq(Blocks)
      /\ TypedBindings(values) /\ TypedCode(ir)
  BY SequenceDomain DEF TInv, IInv, Shape
<1>2. Sequence(r.code) /\ TypedCode(r.code) /\ r.value \in SSAValues /\ r.value.width = width
  BY <1>1, EmitExprTyped
<1> QED
  BY <1>1, <1>2, SequenceConcat, TypedConcat

LEMMA EmitBindingTyped == ASSUME TInv, EmitBinding PROVE TInv'
<1> DEFINE s == prog[pc]
           e == EmitExpr(s.expr, TypeOf[s.sym].width, Len(ir))
<1>1. CASE HasValue(s.expr)
  <2>1. /\ Statement({"decl", "assign"}) /\ values' = Bind(values, s.sym, e.value)
        /\ ir' = ir \o e.code /\ pc' = pc + 1 /\ UNCHANGED <<prog, path, frames, outcome>>
    BY <1>1 DEF EmitBinding
  <2>2. e = EmitExpr(s.expr, TypeOf[s.sym].width, Len(ir))
    OBVIOUS
  <2> HIDE DEF e
  <2>3. /\ outcome = "emitting" /\ s.sym \in Symbols /\ s.expr.type \in Types
        /\ pc + 1 \in 1 .. Len(prog) + 1
    BY <2>1, Listed
  <2>4. TypeOf[s.sym].width \in Nat \ {0}
    BY <2>3, SymbolWidth
  <2> HIDE DEF s
  <2>5. /\ TypedCode(ir \o e.code) /\ e.value \in SSAValues
        /\ e.value.width = TypeOf[s.sym].width
    BY <2>2, <2>3, <2>4, NextExprTyped
  <2>6. TypedBindings(values')
    BY <2>1, <2>3, <2>5, BindTyped DEF TInv
  <2>7. IInv'
    BY EmitBindingInvariant DEF TInv
  <2> QED
    BY <2>1, <2>3, <2>5, <2>6, <2>7, EmitTyped, Zenon
<1>2. CASE ~HasValue(s.expr)
  BY <1>2, FailTyped DEF EmitBinding
<1> QED
  BY <1>1, <1>2

\* An operation with one operand and no named values: a return, an scf.if.
LEMMA TypedUser ==
  ASSUME NEW op \in {"return", "if"}, NEW where, NEW v \in SSAValues, NEW attr
  PROVE  TypedOperation(Operation(op, where, NoValues, <<v>>, attr))
<1>1. Operation(op, where, NoValues, <<v>>, attr).op = op
  BY DEF Operation
<1>2. op \notin {"yield", "for"}
  OBVIOUS
<1> QED
  BY <1>1, <1>2, UsesOfOne DEF TypedOperation

LEMMA EmitReturnTyped == ASSUME TInv, EmitReturn PROVE TInv'
<1> DEFINE s == prog[pc]
           e == EmitExpr(s.expr, ReturnType.width, Len(ir))
           o == Operation("return", path, NoValues, <<e.value>>, ReturnType)
<1>1. CASE HasValue(s.expr) /\ frames = <<>>
  <2>1. /\ Statement({"return"}) /\ ir' = Append(ir \o e.code, o) /\ outcome' = "done"
        /\ UNCHANGED <<prog, pc, values, path, frames>>
    BY <1>1 DEF EmitReturn
  <2>2. e = EmitExpr(s.expr, ReturnType.width, Len(ir))
    OBVIOUS
  <2> HIDE DEF e
  <2>3. outcome = "emitting" /\ s.expr.type \in Types
    BY <2>1, Listed
  <2>4. ReturnType.width \in Nat \ {0}
    BY ProgramAssumption DEF Types
  <2> HIDE DEF s
  <2>5. /\ Sequence(ir \o e.code) /\ TypedCode(ir \o e.code) /\ e.value \in SSAValues
    BY <2>2, <2>3, <2>4, NextExprTyped
  <2>6. TypedOperation(o)
    BY <2>5, TypedUser
  <2> HIDE DEF o
  <2>7. TypedCode(ir')
    BY <2>1, <2>5, <2>6, TypedAppend
  <2>8. IInv'
    BY EmitReturnInvariant DEF TInv
  <2> QED
    BY <2>1, <2>7, <2>8, EmitTyped DEF TInv
<1>2. CASE ~(HasValue(s.expr) /\ frames = <<>>)
  BY <1>2, FailTyped DEF EmitReturn
<1> QED
  BY <1>1, <1>2

\* A brace, and a loop that runs no iteration.
LEMMA QuietTyped ==
  ASSUME TInv, UNCHANGED <<prog, values, ir, path, frames, outcome>>,
         pc' \in 1 .. Len(prog) + 1
  PROVE  TInv'
<1>1. IInv'
  BY QuietInvariant DEF TInv
<1> QED
  BY <1>1 DEF TInv, FramesFit

LEMMA SkipForTyped == ASSUME TInv, SkipFor PROVE TInv'
<1>1. /\ Len(prog) \in Nat /\ pc \in 1 .. Len(prog)
      /\ CloseOf(prog, pc) \in pc + 1 .. Len(prog)
  BY Listed DEF SkipFor
<1>2. CloseOf(prog, pc) + 1 \in 1 .. Len(prog) + 1
  BY <1>1
<1> QED
  BY <1>2, QuietTyped DEF SkipFor

-----------------------------------------------------------------------------
(***************************************************************************)
(* Opening a region.                                                       *)
(***************************************************************************)
\* The new frame is the activation of the new block.
LEMMA OpenTyped ==
  ASSUME TInv, IInv', NEW arm, NEW op, NEW carried,
         path' = Append(path, Block(op, arm)), Block(op, arm) \in Blocks,
         frames' = Append(frames, Frame(arm, op, carried, values)),
         UNCHANGED <<prog, outcome>>, pc' \in 1 .. Len(prog) + 1,
         TypedBindings(values'), TypedCode(ir')
  PROVE  TInv'
<1> DEFINE n == Len(frames)
           top == Frame(arm, op, carried, values)
<1>1. /\ top.arm = arm /\ top.op = op /\ top.entry = values
      /\ Block(op, arm).arm = arm /\ Block(op, arm).op = op
  BY DEF Frame, Block
<1>2. /\ n \in Nat /\ n = Len(path) /\ path \in Seq(Blocks) /\ DOMAIN frames = 1 .. n
  BY SequenceDomain DEF TInv, IInv, Shape
<1>3. /\ DOMAIN frames' = 1 .. n + 1
      /\ \A k \in 1 .. n : frames'[k] = frames[k]
      /\ frames'[n + 1] = top
  <2> HIDE DEF top
  <2>1. frames' = Append(frames, top) /\ Sequence(frames)
    BY DEF top, TInv, IInv, Shape
  <2> QED
    BY <2>1, SequenceAppend, SequenceDomain
<1>4. /\ \A k \in 1 .. n : path'[k] = path[k]
      /\ path'[n + 1] = Block(op, arm)
  BY <1>2
<1> HIDE DEF n, top
<1>5. ASSUME NEW k \in 1 .. n + 1
      PROVE  /\ frames'[k].arm = path'[k].arm /\ frames'[k].op = path'[k].op
             /\ TypedBindings(frames'[k].entry)
  <2>1. CASE k = n + 1
    BY <2>1, <1>1, <1>3, <1>4 DEF TInv
  <2>2. CASE k # n + 1
    <3>1. k \in 1 .. n
      BY <2>2, <1>2
    <3> QED
      BY <3>1, <1>2, <1>3, <1>4 DEF TInv, FramesFit
  <2> QED
    BY <2>1, <2>2
<1>6. FramesFit'
  BY <1>3, <1>5 DEF FramesFit
<1> QED
  BY <1>6 DEF TInv

LEMMA BeginIfTyped == ASSUME TInv, BeginIf PROVE TInv'
<1> DEFINE s       == prog[pc]
           cond    == EmitExpr(s.expr, s.expr.type.width, Len(ir))
           carried == CollectAssigned(prog, pc)
           op      == Len(ir) + Len(cond.code) + 1
           widths  == [c \in carried |-> values[c].width]
           o       == Operation("if", path, NoValues, <<cond.value>>, widths)
<1>1. CASE HasValue(s.expr) /\ carried \subseteq DOMAIN values
  <2>1. /\ Statement({"if"}) /\ ir' = Append(ir \o cond.code, o)
        /\ path' = Append(path, Block(op, "then"))
        /\ frames' = Append(frames, Frame("then", op, carried, values))
        /\ pc' = pc + 1 /\ UNCHANGED <<prog, values, outcome>>
    BY <1>1 DEF BeginIf
  <2>2. cond = EmitExpr(s.expr, s.expr.type.width, Len(ir))
    OBVIOUS
  <2>3. op = Len(ir) + Len(cond.code) + 1
    OBVIOUS
  <2> HIDE DEF cond, carried, op, widths
  <2>4. outcome = "emitting" /\ s.expr.type \in Types /\ pc + 1 \in 1 .. Len(prog) + 1
    BY <2>1, Listed
  <2>5. s.expr.type.width \in Nat \ {0}
    BY <2>4 DEF Types
  <2> HIDE DEF s
  <2>6. Sequence(ir \o cond.code) /\ TypedCode(ir \o cond.code) /\ cond.value \in SSAValues
    BY <2>2, <2>4, <2>5, NextExprTyped
  <2>7. TypedOperation(o)
    BY <2>6, TypedUser
  <2> HIDE DEF o
  <2>8. TypedCode(ir')
    BY <2>1, <2>6, <2>7, TypedAppend
  <2>9. Block(op, "then") \in Blocks
    <3>1. Sequence(cond.code)
      BY <2>2, <2>4, NextExpr DEF TInv
    <3>2. Len(ir) \in Nat /\ Len(cond.code) \in Nat
      BY <3>1, SequenceDomain DEF TInv, IInv, Shape
    <3>3. op \in Nat
      BY <2>3, <3>2
    <3> QED
      BY <3>3 DEF Block, Blocks, Arms
  <2>10. IInv' /\ TypedBindings(values')
    BY <2>1, BeginIfInvariant DEF TInv
  <2> QED
    BY <2>1, <2>4, <2>8, <2>9, <2>10, OpenTyped
<1>2. CASE ~(HasValue(s.expr) /\ carried \subseteq DOMAIN values)
  BY <1>2, FailTyped DEF BeginIf
<1> QED
  BY <1>1, <1>2

\* The two expressions of the header, one emitted after the other.
LEMMA NextTwoExprsTyped ==
  ASSUME TInv, outcome # "failed", NEW e, NEW f, e.type \in Types, f.type \in Types,
         NEW width \in Nat \ {0},
         NEW a, a = EmitExpr(e, width, Len(ir)),
         NEW b, b = EmitExpr(f, width, Len(ir) + Len(a.code)),
         NEW header, header = ir \o a.code \o b.code
  PROVE  /\ Sequence(header) /\ TypedCode(header)
         /\ a.value \in SSAValues /\ b.value \in SSAValues
<1>1. /\ Sequence(ir \o a.code) /\ TypedCode(ir \o a.code) /\ a.value \in SSAValues
  BY NextExprTyped
<1>2. Sequence(a.code)
  BY NextExpr DEF TInv
<1>3. /\ Len(ir) \in Nat /\ Len(a.code) \in Nat /\ path \in Seq(Blocks)
      /\ TypedBindings(values)
  BY <1>2, SequenceDomain DEF TInv, IInv, Shape
<1>4. Len(ir) + Len(a.code) \in Nat
  BY <1>3
<1>5. Sequence(b.code) /\ TypedCode(b.code) /\ b.value \in SSAValues
  BY <1>3, <1>4, EmitExprTyped
<1> QED
  BY <1>1, <1>5, SequenceConcat, TypedConcat

LEMMA BeginForTyped == ASSUME TInv, BeginFor PROVE TInv'
<1> DEFINE s       == prog[pc]
           width   == TypeOf[s.sym].width
           carried == CollectAssigned(prog, pc) \ {s.sym}
           init    == EmitExpr(s.init, width, Len(ir))
           step    == EmitExpr(s.step, width, Len(ir) + Len(init.code))
           header  == ir \o init.code \o step.code
           op      == Len(header) + 1
           body    == Append(path, Block(op, "body"))
           args    == [c \in carried |-> SSA(op, body, values[c].width, <<c>>)]
           iv      == SSA(op + 1, body, width, <<>>)
           before  == [c \in carried |-> values[c]]
           loop    == Operation("for", path, before, <<>>, s.tripCount)
           rebuild == Operation("iv", body, NoValues, <<init.value, step.value>>, s.stepIsAdd)
<1> DEFINE fits == /\ s.tripCount # NoTripCount
                   /\ s.tripCount <= MaxIndex
                   /\ HasValue(s.init)
                   /\ HasValue(s.step)
                   /\ carried \subseteq DOMAIN values
<1>1. CASE fits
  <2>1. /\ Statement({"for"})
        /\ ir' = Append(Append(header, loop), rebuild)
        /\ values' = Rebind(Bind(values, s.sym, iv), args)
        /\ path' = body
        /\ frames' = Append(frames, Frame("body", op, carried, values))
        /\ pc' = pc + 1 /\ UNCHANGED <<prog, outcome>>
    BY <1>1 DEF BeginFor
  <2>2. carried \subseteq DOMAIN values
    BY <1>1
  <2>3. /\ init = EmitExpr(s.init, width, Len(ir))
         /\ step = EmitExpr(s.step, width, Len(ir) + Len(init.code))
         /\ header = ir \o init.code \o step.code
    OBVIOUS
  <2>4. op = Len(header) + 1
    OBVIOUS
  <2>5. body = Append(path, Block(op, "body"))
    OBVIOUS
  <2>6. width = TypeOf[s.sym].width
    OBVIOUS
  <2> HIDE DEF carried, init, step, header, op, body, width
  <2>7. /\ outcome = "emitting" /\ s.sym \in Symbols /\ pc + 1 \in 1 .. Len(prog) + 1
        /\ s.init.type \in Types /\ s.step.type \in Types
    <3>1. Statement({"for"})
      BY <2>1, Zenon
    <3> QED
      BY <3>1, Listed
  <2>8. width \in Nat \ {0}
    BY <2>7, <2>6, SymbolWidth
  <2> HIDE DEF s
  <2>9. /\ Sequence(header) /\ TypedCode(header)
        /\ init.value \in SSAValues /\ step.value \in SSAValues
    BY <2>7, <2>8, <2>3, NextTwoExprsTyped
  <2>10. Len(header) \in Nat /\ op \in Nat /\ op + 1 \in Nat
    BY <2>9, <2>4, SequenceDomain
  <2>11. path \in Seq(Blocks) /\ Block(op, "body") \in Blocks
    BY <2>10 DEF TInv, IInv, Shape, Block, Blocks, Arms
  <2>12. body \in Seq(Blocks)
    BY <2>11, <2>5
  <2>13. TypedOperation(loop)
    <3>1. \A c \in DOMAIN before :
            before[c] \in SSAValues /\ before[c].width = TypeOf[c].width
      BY <2>2 DEF TInv, TypedBindings
    <3> HIDE DEF before
    <3>2. loop.args = before
      BY DEF Operation
    <3>3. Uses(loop) = {before[c] : c \in DOMAIN before}
      BY UsesOfArgs
    <3> HIDE DEF loop
    <3> QED
      BY <3>1, <3>2, <3>3 DEF TypedOperation
  <2>14. TypedOperation(rebuild)
    <3>1. Uses(rebuild) = {init.value, step.value}
      BY DEF Uses, Operation, NoValues
    <3>2. rebuild.op = "iv"
      BY DEF Operation
    <3> HIDE DEF rebuild
    <3> QED
      BY <2>9, <3>1, <3>2 DEF TypedOperation
  <2>15. TypedBindings(args)
    <3>1. Fresh(args, values, op, body)
      <4> HIDE DEF op, body
      <4> QED
        BY <2>2 DEF Fresh
    <3>2. TypedBindings(values)
      BY DEF TInv
    <3> HIDE DEF args
    <3> QED
      BY <3>1, <3>2, <2>10, <2>12, FreshTyped
  <2>16. iv \in SSAValues /\ iv.width = width
    BY <2>8, <2>10, <2>12, TypedResult
  <2> HIDE DEF loop, rebuild, args, iv, before, fits
  <2>17. TypedCode(ir')
    <3>1. Sequence(Append(header, loop)) /\ TypedCode(Append(header, loop))
      BY <2>9, <2>13, SequenceAppend, TypedAppend
    <3> QED
      BY <2>1, <2>14, <3>1, TypedAppend
  <2>18. TypedBindings(values')
    <3>1. TypedBindings(Bind(values, s.sym, iv))
      BY <2>7, <2>16, <2>6, BindTyped DEF TInv
    <3> QED
      BY <2>1, <2>15, <3>1, RebindTyped
  <2>19. IInv'
    BY BeginForInvariant DEF TInv
  <2> QED
    BY <2>1, <2>7, <2>11, <2>17, <2>18, <2>19, <2>5, OpenTyped, Zenon
<1>2. CASE ~fits
  BY <1>2, FailTyped DEF BeginFor
<1> QED
  BY <1>1, <1>2

-----------------------------------------------------------------------------
(***************************************************************************)
(* Closing a region.                                                       *)
(***************************************************************************)
\* The yield names every carried symbol's value at the symbol's width.
LEMMA YieldTyped ==
  ASSUME TInv, frames # <<>>
  PROVE  TypedCode(Append(ir, Yield))
<1> DEFINE args == [s \in Top.carried |-> values[s]]
<1>1. Top.carried \subseteq DOMAIN values
  <2>1. Len(frames) \in 1 .. Len(frames)
    BY Innermost DEF TInv
  <2> QED
    BY <2>1 DEF TInv, IInv, CarriedBound, Top
<1>2. \A s \in DOMAIN args : args[s] \in SSAValues /\ args[s].width = TypeOf[s].width
  BY <1>1 DEF TInv, TypedBindings
<1>3. Yield = Operation("yield", path, args, <<>>, Top.op)
  BY DEF Yield
<1> HIDE DEF args
<1>4. Uses(Yield) = {args[s] : s \in DOMAIN args} /\ Yield.args = args
  BY <1>3, UsesOfArgs DEF Operation
<1>5. TypedOperation(Yield)
  BY <1>2, <1>4 DEF TypedOperation
<1> QED
  BY <1>5, TypedAppend DEF TInv, IInv, Shape

LEMMA TopTyped == ASSUME TInv, frames # <<>> PROVE TypedBindings(Top.entry)
  BY Innermost DEF TInv, FramesFit, Top

LEMMA BeginElseTyped == ASSUME TInv, BeginElse PROVE TInv'
<1> DEFINE last == Len(frames)
           new  == Frame("else", Top.op, Top.carried, Top.entry)
<1>1. /\ Statement({"else"}) /\ frames # <<>>
      /\ ir' = Append(ir, Yield) /\ values' = Top.entry
      /\ path' = Append(Parent, Block(Top.op, "else"))
      /\ frames' = [frames EXCEPT ![last].arm = "else"]
      /\ pc' = pc + 1 /\ UNCHANGED <<prog, outcome>>
  BY DEF BeginElse, Yielding, Entry, Inside
<1>2. pc' \in 1 .. Len(prog) + 1
  BY <1>1, Listed
<1>3. IInv'
  BY BeginElseInvariant DEF TInv
<1>4. TypedCode(ir') /\ TypedBindings(values') /\ TypedBindings(Top.entry)
  BY <1>1, YieldTyped, TopTyped
<1>5. /\ last \in Nat \ {0} /\ DOMAIN frames = 1 .. last
      /\ Top = Frame(Top.arm, Top.op, Top.carried, Top.entry) /\ Top = frames[last]
      /\ Parent \in Seq(Blocks) /\ Len(Parent) = last - 1
      /\ \A k \in 1 .. last - 1 : path[k] = Parent[k]
  BY <1>1, Innermost DEF TInv, Top
<1>6. /\ DOMAIN frames' = 1 .. last
      /\ \A k \in 1 .. last : k # last => frames'[k] = frames[k]
      /\ frames'[last] = new
  <2>1. new = [Frame(Top.arm, Top.op, Top.carried, Top.entry) EXCEPT !.arm = "else"]
    BY DEF Frame
  <2>2. new = [Top EXCEPT !.arm = "else"]
    BY <2>1, <1>5
  <2>3. frames' = [frames EXCEPT ![last] = new]
    BY <1>1, <2>2 DEF Top
  <2>4. frames = [k \in 1 .. last |-> frames[k]]
    <3>1. Sequence(frames)
      BY DEF TInv, IInv, Shape
    <3> QED
      BY <3>1, <1>5 DEF Sequence
  <2> HIDE DEF new, last
  <2> QED
    BY <2>3, <2>4, <1>5
<1>7. new.arm = "else" /\ new.op = Top.op /\ new.entry = Top.entry
  BY DEF Frame
<1>8. /\ \A k \in 1 .. last - 1 : path'[k] = path[k]
      /\ path'[last] = Block(Top.op, "else")
  BY <1>1, <1>5
<1> HIDE DEF last, new
<1>9. ASSUME NEW k \in 1 .. last
      PROVE  /\ frames'[k].arm = path'[k].arm /\ frames'[k].op = path'[k].op
             /\ TypedBindings(frames'[k].entry)
  <2>1. CASE k = last
    BY <2>1, <1>4, <1>6, <1>7, <1>8 DEF Block
  <2>2. CASE k # last
    <3>1. k \in 1 .. last - 1
      BY <2>2, <1>5
    <3> QED
      BY <2>2, <3>1, <1>5, <1>6, <1>8 DEF TInv, FramesFit
  <2> QED
    BY <2>1, <2>2
<1>10. FramesFit'
  BY <1>6, <1>9 DEF FramesFit
<1> QED
  BY <1>1, <1>2, <1>3, <1>4, <1>10 DEF TInv

\* Both EndIf and EndFor: a result has the width of the symbol it replaces.
LEMMA LeaveTyped ==
  ASSUME TInv, NEW kinds, Statement(kinds), frames # <<>>, Leave
  PROVE  TInv'
<1> DEFINE last == Len(frames)
<1>1. /\ ir' = Append(ir, Yield) /\ path' = Parent
      /\ values' = Rebind(Top.entry, Results)
      /\ frames' = SubSeq(frames, 1, last - 1)
      /\ pc' = pc + 1 /\ UNCHANGED <<prog, outcome>>
  BY DEF Leave, Yielding, Restored, Entry
<1>2. pc' \in 1 .. Len(prog) + 1 /\ outcome = "emitting"
  BY <1>1, Listed
<1>3. IInv'
  BY <1>2, LeaveInvariant DEF TInv
<1>4. TypedCode(ir') /\ TypedBindings(Top.entry)
  BY <1>1, YieldTyped, TopTyped
<1>5. /\ last \in Nat \ {0} /\ DOMAIN frames = 1 .. last /\ Top = frames[last]
      /\ Parent \in Seq(Blocks) /\ Len(ir) + 1 \in Nat
      /\ \A k \in 1 .. last - 1 : path[k] = Parent[k]
  BY Innermost DEF TInv, Top
<1>6. /\ DOMAIN frames' = 1 .. last - 1
      /\ \A k \in 1 .. last - 1 : frames'[k] = frames[k]
  <2>1. Sequence(frames)
    BY DEF TInv, IInv, Shape
  <2> QED
    BY <2>1, <1>1, SequenceFront, SequenceDomain
<1>7. TypedBindings(Results)
  <2>1. Top.carried \subseteq DOMAIN Top.entry
    <3>1. last \in 1 .. last /\ last \in last .. last
      BY <1>5
    <3> QED
      BY <3>1, <1>5 DEF TInv, IInv, CarriedBound
  <2>2. Fresh(Results, Top.entry, Len(ir) + 1, Parent)
    BY <2>1 DEF Results, Fresh
  <2> QED
    BY <2>1, <2>2, <1>4, <1>5, FreshTyped
<1>8. TypedBindings(values')
  BY <1>1, <1>4, <1>7, RebindTyped
<1>9. FramesFit'
  <2>1. \A k \in 1 .. last - 1 : k \in 1 .. last
    BY <1>5
  <2> HIDE DEF last
  <2> QED
    BY <2>1, <1>1, <1>5, <1>6 DEF TInv, FramesFit
<1> QED
  BY <1>1, <1>2, <1>3, <1>4, <1>8, <1>9 DEF TInv

-----------------------------------------------------------------------------
(***************************************************************************)
(* The theorems.                                                           *)
(***************************************************************************)
LEMMA NextTyped == ASSUME TInv, [Next]_vars PROVE TInv'
<1>1. CASE EmitBinding
  BY <1>1, EmitBindingTyped
<1>2. CASE EmitReturn
  BY <1>2, EmitReturnTyped
<1>3. CASE EmitBlockBrace
  BY <1>3, Listed, QuietTyped DEF EmitBlockBrace
<1>4. CASE EmitUnsupported
  BY <1>4, FailTyped DEF EmitUnsupported
<1>5. CASE FallOffTheEnd
  BY <1>5, FailTyped DEF FallOffTheEnd
<1>6. CASE BeginIf
  BY <1>6, BeginIfTyped
<1>7. CASE BeginElse
  BY <1>7, BeginElseTyped
<1>8. CASE EndIf
  BY <1>8, LeaveTyped DEF EndIf, Inside
<1>9. CASE SkipFor
  BY <1>9, SkipForTyped
<1>10. CASE BeginFor
  BY <1>10, BeginForTyped
<1>11. CASE EndFor
  BY <1>11, LeaveTyped DEF EndFor, Inside
<1>12. CASE UNCHANGED vars
  <2>1. UNCHANGED <<prog, pc, values, ir, path, frames, outcome>>
    BY <1>12 DEF vars
  <2> QED
    BY <2>1, QuietTyped DEF TInv
<1> QED
  BY <1>1, <1>2, <1>3, <1>4, <1>5, <1>6, <1>7, <1>8, <1>9, <1>10, <1>11, <1>12 DEF Next

\* The bindings in force and the saved ones are typed all through the walk.
THEOREM TypedHolds == Spec => []TInv
<1>1. Init => TInv
  BY InitTyped
<1>2. TInv /\ [Next]_vars => TInv'
  BY NextTyped
<1> QED
  BY <1>1, <1>2, PTL DEF Spec

\* The walk's variables keep their types, whatever the listing: every
\* activation of emitIf and emitFor is the one of the block at its depth, and
\* every value an operation uses is a value of MLIR's, of some width.
THEOREM TypeCorrect == Spec => []TypeOK
<1>1. TInv => TypeOK
  <2> SUFFICES ASSUME TInv PROVE TypeOK
    OBVIOUS
  <2>1. path \in Paths /\ Len(frames) = Len(path)
    BY DEF TInv, IInv, Shape, Blocks, Paths
  <2>2. \A q \in DOMAIN ir : \A v \in Uses(ir[q]) : v \in SSAValues
    BY DEF TInv, TypedCode, TypedOperation
  <2> QED
    BY <2>1, <2>2 DEF TInv, TypeOK, TypedBindings, FramesFit
<1> QED
  BY <1>1, TypedHolds, PTL

\* What a branch or a loop body yields for a symbol has, whatever the listing,
\* the width the symbol was declared with, and so has what a loop starts from:
\* the types of the scf operation's results and arguments always match.
THEOREM YieldsFitResultsHolds == Spec => []YieldsFitResults
<1>1. TInv => YieldsFitResults
  BY DEF TInv, TypedCode, TypedOperation, YieldsFitResults
<1> QED
  BY <1>1, TypedHolds, PTL

-----------------------------------------------------------------------------
(***************************************************************************)
(* Whole modules.  Every scf region MLIRGen opened was closed by a yield   *)
(* of its own, which is the last operation of the region's block, and the  *)
(* function's block ends in the one return.                                *)
(*                                                                         *)
(* The blocks of a module c, and the ones the insertion point stands in    *)
(* when it is at p: Within(p, 0) is the function's.                        *)
(***************************************************************************)
In(c, b)   == {q \in DOMAIN c : c[q].path = b}
Ends(c, b) == {q \in In(c, b) : c[q].op \in {"yield", "return"}}

ArmsOf(op) == IF op = "if" THEN {"then", "else"} ELSE IF op = "for" THEN {"body"} ELSE {}
Child(c, q, arm) == Append(c[q].path, Block(q, arm))

Within(p, k) == SubSeq(p, 1, k)
Open(p, b) == \E k \in 1 .. Len(p) : Within(p, k) = b

\* The block ends in its one terminator, the yield of the operation q.
Closed(c, b, q) ==
  \E last \in Ends(c, b) :
    /\ Ends(c, b) = {last}
    /\ \A other \in In(c, b) : other <= last
    /\ c[last].attr = q

(***************************************************************************)
(* The inductive invariant.  Before the walk ends nothing need be complete *)
(* so it says of each block how far it has got.                            *)
(***************************************************************************)
\* Only operations emitted so far have blocks.
Made(b, n) == b \in Seq(Blocks) /\ \A j \in 1 .. Len(b) : b[j].op <= n
BlocksMade(c, p) == Made(p, Len(c)) /\ \A q \in DOMAIN c : Made(c[q].path, Len(c))

\* A block the walk stands in is that of an operation that has such an arm.
BlocksOwned(c, p) ==
  \A k \in 1 .. Len(p) :
    /\ p[k].op \in DOMAIN c
    /\ p[k].arm \in ArmsOf(c[p[k].op].op)
    /\ Within(p, k) = Child(c, p[k].op, p[k].arm)

\* It has no terminator yet;
StillOpen(c, p) == \A k \in 0 .. Len(p) : Ends(c, Within(p, k)) = {}

\* an else block is not begun before the then block is closed;
ThenFirst(c, p) ==
  \A q \in DOMAIN c :
    c[q].op = "if" /\ Open(p, Child(c, q, "then")) => In(c, Child(c, q, "else")) = {}

\* and every other block is closed, or is an else block that comes next.
Accounted(c, p) ==
  \A q \in DOMAIN c : \A arm \in ArmsOf(c[q].op) :
    \/ Closed(c, Child(c, q, arm), q)
    \/ Open(p, Child(c, q, arm))
    \/ arm = "else" /\ Open(p, Child(c, q, "then"))

Grown(c, p) ==
  /\ Sequence(c)
  /\ BlocksMade(c, p)
  /\ BlocksOwned(c, p)
  /\ StillOpen(c, p)
  /\ ThenFirst(c, p)
  /\ Accounted(c, p)

\* Once it ends every block is closed, the function's by the last operation.
Complete(c) ==
  /\ Ends(c, <<>>) = {Len(c)}
  /\ \A q \in DOMAIN c : \A arm \in ArmsOf(c[q].op) : Closed(c, Child(c, q, arm), q)

Whole == (outcome = "emitting" => Grown(ir, path)) /\ (outcome = "done" => Complete(ir))

-----------------------------------------------------------------------------
(***************************************************************************)
(* Paths.                                                                  *)
(***************************************************************************)
LEMMA PathAppend ==
  ASSUME NEW p \in Seq(Blocks), NEW b \in Blocks
  PROVE  /\ Len(p) \in Nat
         /\ Append(p, b) \in Seq(Blocks)
         /\ Len(Append(p, b)) = Len(p) + 1
         /\ Append(p, b)[Len(p) + 1] = b
         /\ \A k \in 1 .. Len(p) : Append(p, b)[k] = p[k]
         /\ Append(p, b) # p
  OBVIOUS

\* A prefix of a path is a path.
LEMMA PathPrefix ==
  ASSUME NEW p \in Seq(Blocks), NEW k \in 0 .. Len(p)
  PROVE  /\ Within(p, k) \in Seq(Blocks)
         /\ Len(Within(p, k)) = k
         /\ \A j \in 1 .. k : Within(p, k)[j] = p[j]
  BY DEF Within

\* Paths are equal if they agree everywhere.
LEMMA PathEqual ==
  ASSUME NEW p \in Seq(Blocks), NEW q \in Seq(Blocks), Len(p) = Len(q),
         \A k \in 1 .. Len(p) : p[k] = q[k]
  PROVE  p = q
  OBVIOUS

\* The innermost block a path stands in is the path itself.
LEMMA WholePrefix ==
  ASSUME NEW p \in Seq(Blocks)
  PROVE  Within(p, Len(p)) = p
<1>1. Len(p) \in Nat /\ Len(p) \in 0 .. Len(p)
  OBVIOUS
<1> QED
  BY <1>1, PathPrefix, PathEqual

\* Two paths that agree so far have the same prefixes.
LEMMA SamePrefix ==
  ASSUME NEW p \in Seq(Blocks), NEW q \in Seq(Blocks), NEW n \in Nat,
         n <= Len(p), n <= Len(q), \A j \in 1 .. n : p[j] = q[j],
         NEW k \in 0 .. n
  PROVE  Within(p, k) = Within(q, k)
<1>1. k \in 0 .. Len(p) /\ k \in 0 .. Len(q) /\ Len(p) \in Nat /\ Len(q) \in Nat
  OBVIOUS
<1>2. /\ Within(p, k) \in Seq(Blocks) /\ Within(q, k) \in Seq(Blocks)
      /\ Len(Within(p, k)) = k /\ Len(Within(q, k)) = k
      /\ \A j \in 1 .. k : Within(p, k)[j] = p[j]
      /\ \A j \in 1 .. k : Within(q, k)[j] = q[j]
  BY <1>1, PathPrefix
<1>3. \A j \in 1 .. k : Within(p, k)[j] = Within(q, k)[j]
  BY <1>2
<1> QED
  BY <1>2, <1>3, PathEqual

\* Different operations, or different arms, have different blocks.
LEMMA SameChild ==
  ASSUME NEW p \in Seq(Blocks), NEW q \in Seq(Blocks), NEW x \in Blocks, NEW y \in Blocks,
         Append(p, x) = Append(q, y)
  PROVE  x = y /\ p = q
<1>1. Len(p) = Len(q)
  BY PathAppend
<1>2. x = y
  BY <1>1, PathAppend
<1>3. \A k \in 1 .. Len(p) : p[k] = q[k]
  BY <1>1, PathAppend
<1> QED
  BY <1>1, <1>2, <1>3, PathEqual

\* Blocks and their two parts.
LEMMA BlockOf ==
  ASSUME NEW op \in Nat, NEW arm \in Arms
  PROVE  Block(op, arm) \in Blocks /\ Block(op, arm).op = op /\ Block(op, arm).arm = arm
  BY DEF Block, Blocks

LEMMA BlockParts ==
  ASSUME NEW b \in Blocks
  PROVE  b.op \in Nat /\ b.arm \in Arms /\ b = Block(b.op, b.arm)
  BY DEF Block, Blocks

\* Only the two scf operations have blocks.
LEMMA ArmsAre ==
  ASSUME NEW op, NEW arm \in ArmsOf(op)
  PROVE  arm \in Arms /\ op \in {"if", "for"}
  BY DEF ArmsOf, Arms

-----------------------------------------------------------------------------
(***************************************************************************)
(* More operations.                                                        *)
(***************************************************************************)
Extends(c, d) ==
  /\ Sequence(c)
  /\ Sequence(d)
  /\ Len(c) <= Len(d)
  /\ \A i \in 1 .. Len(c) : d[i] = c[i]

\* The operations d has behind those of c.
Added(c, d) == Len(c) + 1 .. Len(d)

\* What an extension keeps, and what it adds.
LEMMA ExtendsLengths ==
  ASSUME NEW c, NEW d, Extends(c, d)
  PROVE  /\ Len(c) \in Nat /\ DOMAIN c = 1 .. Len(c)
         /\ Len(d) \in Nat /\ DOMAIN d = 1 .. Len(d)
         /\ Len(c) <= Len(d)
  BY SequenceDomain DEF Extends

LEMMA ExtendsKeeps ==
  ASSUME NEW c, NEW d, Extends(c, d), NEW q \in DOMAIN c
  PROVE  q \in DOMAIN d /\ d[q] = c[q]
<1>1. q \in 1 .. Len(c) /\ q \in 1 .. Len(d) /\ DOMAIN d = 1 .. Len(d)
  BY ExtendsLengths
<1> QED
  BY <1>1 DEF Extends

LEMMA ExtendsBy ==
  ASSUME NEW c, NEW d, Extends(c, d), NEW q \in DOMAIN d
  PROVE  q \in DOMAIN c \/ q \in Added(c, d)
<1>1. q \in 1 .. Len(d) /\ DOMAIN c = 1 .. Len(c) /\ Len(c) \in Nat
  BY ExtendsLengths
<1> QED
  BY <1>1 DEF Added

\* One operation more.
LEMMA ExtendsAppend ==
  ASSUME NEW c, Sequence(c), NEW o, NEW d, d = Append(c, o)
  PROVE  /\ Extends(c, d) /\ Len(c) \in Nat /\ Len(d) = Len(c) + 1
         /\ Added(c, d) = {Len(c) + 1} /\ d[Len(c) + 1] = o
<1>1. /\ Sequence(d) /\ Len(d) = Len(c) + 1 /\ d[Len(c) + 1] = o
      /\ \A i \in 1 .. Len(c) : d[i] = c[i]
  BY SequenceAppend
<1>2. Len(c) \in Nat
  BY SequenceDomain
<1> QED
  BY <1>1, <1>2 DEF Extends, Added

\* A block none of them stands in is as it was.
LEMMA Elsewhere ==
  ASSUME NEW c, NEW d, Extends(c, d), NEW b, \A i \in Added(c, d) : d[i].path # b
  PROVE  /\ In(d, b) = In(c, b)
         /\ Ends(d, b) = Ends(c, b)
         /\ \A q : Closed(c, b, q) => Closed(d, b, q)
<1>0. \A q \in DOMAIN c : q \in DOMAIN d /\ d[q] = c[q]
  BY ExtendsKeeps
<1>1. In(d, b) = In(c, b)
  BY <1>0, ExtendsBy DEF In
<1>2. \A q \in In(c, b) : d[q] = c[q]
  BY <1>0 DEF In
<1>3. Ends(d, b) = Ends(c, b)
  BY <1>1, <1>2 DEF Ends
<1>4. \A q \in Ends(c, b) : q \in In(c, b)
  BY DEF Ends
<1>5. ASSUME NEW q, Closed(c, b, q) PROVE Closed(d, b, q)
  <2> PICK last \in Ends(c, b) : /\ Ends(c, b) = {last}
                                 /\ \A other \in In(c, b) : other <= last
                                 /\ c[last].attr = q
    BY <1>5 DEF Closed
  <2>1. d[last].attr = q
    BY <1>2, <1>4
  <2> QED
    BY <1>1, <1>3, <2>1 DEF Closed
<1> QED
  BY <1>1, <1>3, <1>5

\* A block that no terminator is added to.
LEMMA NoMoreEnds ==
  ASSUME NEW c, NEW d, Extends(c, d), NEW b,
         \A i \in Added(c, d) : d[i].op \notin {"yield", "return"}
  PROVE  Ends(d, b) = Ends(c, b)
<1>1. \A q \in DOMAIN c : q \in DOMAIN d /\ d[q] = c[q]
  BY ExtendsKeeps
<1>2. \A q \in Ends(d, b) : q \in DOMAIN c
  BY ExtendsBy DEF Ends, In
<1> QED
  BY <1>1, <1>2 DEF Ends, In

\* A block of an operation that is still to come is empty.
LEMMA NothingYet ==
  ASSUME NEW c, NEW p, Grown(c, p), NEW n \in Nat, Len(c) < n, NEW arm \in Arms
  PROVE  /\ In(c, Append(p, Block(n, arm))) = {}
         /\ Ends(c, Append(p, Block(n, arm))) = {}
<1> DEFINE b == Append(p, Block(n, arm))
<1>1. Len(c) \in Nat /\ p \in Seq(Blocks)
  BY SequenceDomain DEF Grown, BlocksMade, Made
<1>2. b[Len(p) + 1] = Block(n, arm) /\ Len(b) = Len(p) + 1 /\ Len(p) \in Nat
  BY <1>1, BlockOf, PathAppend
<1>3. Len(p) + 1 \in 1 .. Len(b) /\ b[Len(p) + 1].op = n
  BY <1>2, BlockOf
<1> HIDE DEF b
<1>4. ASSUME NEW q \in DOMAIN c, c[q].path = b PROVE FALSE
  <2>1. b[Len(p) + 1].op <= Len(c)
    BY <1>3, <1>4 DEF Grown, BlocksMade, Made
  <2> QED
    BY <2>1, <1>1, <1>3
<1>5. In(c, b) = {}
  BY <1>4 DEF In
<1> QED
  BY <1>5 DEF Ends, b

\* Paths stay made.
LEMMA MadeLater ==
  ASSUME NEW b, NEW n \in Nat, NEW m \in Nat, n <= m, Made(b, n)
  PROVE  Made(b, m)
<1> SUFFICES ASSUME NEW j \in 1 .. Len(b) PROVE b[j].op <= m
  BY DEF Made
<1>1. b[j].op <= n /\ b[j] \in Blocks
  BY DEF Made
<1>2. b[j].op \in Nat
  BY <1>1, BlockParts
<1> QED
  BY <1>1, <1>2

\* What the invariant says of the operation at q, and of its blocks.
LEMMA ChildOf ==
  ASSUME NEW c, NEW p, Grown(c, p), NEW q \in DOMAIN c, NEW arm \in Arms
  PROVE  /\ q \in Nat \ {0} /\ c[q].path \in Seq(Blocks)
         /\ Block(q, arm) \in Blocks
         /\ Child(c, q, arm) \in Seq(Blocks)
         /\ Len(Child(c, q, arm)) = Len(c[q].path) + 1
         /\ Len(c[q].path) \in Nat
         /\ Child(c, q, arm)[Len(c[q].path) + 1] = Block(q, arm)
<1>1. q \in Nat \ {0} /\ c[q].path \in Seq(Blocks)
  BY SequenceDomain DEF Grown, BlocksMade, Made
<1>2. Block(q, arm) \in Blocks
  BY <1>1, BlockOf
<1> QED
  BY <1>1, <1>2, PathAppend DEF Child

\* No block the walk stands in is closed yet.
LEMMA HereIsOpen ==
  ASSUME NEW c, NEW p, Grown(c, p)
  PROVE  /\ Sequence(c) /\ p \in Seq(Blocks) /\ Len(p) \in Nat
         /\ Ends(c, p) = {}
         /\ \A q : ~Closed(c, p, q)
<1>1. Sequence(c) /\ p \in Seq(Blocks)
  BY DEF Grown, BlocksMade, Made
<1>2. Len(p) \in Nat /\ Len(p) \in 0 .. Len(p)
  BY <1>1
<1>3. Ends(c, Within(p, Len(p))) = {}
  BY <1>2 DEF Grown, StillOpen
<1>4. Ends(c, p) = {}
  BY <1>1, <1>3, WholePrefix
<1> QED
  BY <1>1, <1>2, <1>4 DEF Closed

\* The blocks of an old operation are the same ones.
LEMMA ChildKept ==
  ASSUME NEW c, NEW d, Extends(c, d), NEW q \in DOMAIN c, NEW arm
  PROVE  Child(d, q, arm) = Child(c, q, arm)
  BY ExtendsKeeps DEF Child

\* A closed block stays closed when operations are added where the walk is,
LEMMA ClosedStays ==
  ASSUME NEW c, NEW p, Grown(c, p), NEW d, Extends(c, d),
         \A i \in Added(c, d) : d[i].path = p,
         NEW b, NEW q, Closed(c, b, q)
  PROVE  Closed(d, b, q)
<1>1. b # p
  BY HereIsOpen
<1> QED
  BY <1>1, Elsewhere

\* and an else block that is not begun stays empty.
LEMMA ThenStaysFirst ==
  ASSUME NEW c, NEW p, Grown(c, p), NEW d, Extends(c, d),
         \A i \in Added(c, d) : d[i].path = p,
         NEW q \in DOMAIN c, c[q].op = "if", Open(p, Child(c, q, "then"))
  PROVE  In(d, Child(c, q, "else")) = {}
<1>1. In(c, Child(c, q, "else")) = {}
  BY DEF Grown, ThenFirst
<1>2. "then" \in Arms /\ "else" \in Arms
  BY DEF Arms
<1>3. PICK k \in 1 .. Len(p) : Within(p, k) = Child(c, q, "then")
  BY DEF Open
<1>4. p \in Seq(Blocks) /\ Len(p) \in Nat /\ k \in 0 .. Len(p) /\ Len(Within(p, k)) = k
  BY HereIsOpen, PathPrefix
<1>5. Child(c, q, "else") # p
  <2> SUFFICES ASSUME Child(c, q, "else") = p PROVE FALSE
    OBVIOUS
  <2>1. Len(p) = Len(c[q].path) + 1 /\ k = Len(c[q].path) + 1
    BY <1>2, <1>3, <1>4, ChildOf
  <2>2. Within(p, k) = p
    BY <1>4, <2>1, WholePrefix
  <2>3. Append(c[q].path, Block(q, "then")) = Append(c[q].path, Block(q, "else"))
    BY <1>3, <2>2 DEF Child
  <2>4. Block(q, "then") = Block(q, "else")
    BY <1>2, <2>3, ChildOf, SameChild
  <2>5. q \in Nat
    BY <1>2, ChildOf
  <2> QED
    BY <1>2, <2>4, <2>5, BlockOf
<1> QED
  BY <1>1, <1>5, Elsewhere

\* The paths of the operations, old and new.
LEMMA MadeStays ==
  ASSUME NEW c, NEW p, Grown(c, p), NEW d, Extends(c, d),
         \A i \in Added(c, d) : d[i].path = p
  PROVE  Made(p, Len(d)) /\ \A q \in DOMAIN d : Made(d[q].path, Len(d))
<1>1. Len(c) \in Nat /\ Len(d) \in Nat /\ Len(c) <= Len(d)
  BY ExtendsLengths
<1>2. Made(p, Len(d))
  BY <1>1, MadeLater DEF Grown, BlocksMade
<1>3. ASSUME NEW q \in DOMAIN d PROVE Made(d[q].path, Len(d))
  <2>1. CASE q \in Added(c, d)
    BY <1>2, <2>1
  <2>2. CASE q \in DOMAIN c
    <3>1. Made(c[q].path, Len(c))
      BY <2>2 DEF Grown, BlocksMade
    <3>2. d[q] = c[q]
      BY <2>2, ExtendsKeeps
    <3> QED
      BY <3>1, <3>2, <1>1, MadeLater
  <2> QED
    BY <2>1, <2>2, ExtendsBy
<1> QED
  BY <1>2, <1>3

\* The blocks the walk stands in stay owned.
LEMMA OwnedStays ==
  ASSUME NEW c, NEW p, Grown(c, p), NEW d, Extends(c, d), NEW k \in 1 .. Len(p)
  PROVE  /\ p[k].op \in DOMAIN d
         /\ p[k].arm \in ArmsOf(d[p[k].op].op)
         /\ Within(p, k) = Child(d, p[k].op, p[k].arm)
<1>1. /\ p[k].op \in DOMAIN c
      /\ p[k].arm \in ArmsOf(c[p[k].op].op)
      /\ Within(p, k) = Child(c, p[k].op, p[k].arm)
  BY DEF Grown, BlocksOwned
<1>2. p[k].op \in DOMAIN d /\ d[p[k].op] = c[p[k].op]
  BY <1>1, ExtendsKeeps
<1>3. Child(d, p[k].op, p[k].arm) = Child(c, p[k].op, p[k].arm)
  BY <1>1, ChildKept
<1> QED
  BY <1>1, <1>2, <1>3

-----------------------------------------------------------------------------
(***************************************************************************)
(* How the module grows: by operations in the block the walk is in,        *)
(***************************************************************************)
LEMMA GrowHere ==
  ASSUME NEW c, NEW p, Grown(c, p), NEW d, Extends(c, d),
         \A i \in Added(c, d) : /\ d[i].path = p
                                /\ d[i].op \notin {"if", "for", "yield", "return"}
  PROVE  Grown(d, p)
<1>1. \A i \in Added(c, d) : d[i].path = p
  OBVIOUS
<1>2. \A i \in Added(c, d) : d[i].op \notin {"yield", "return"}
  OBVIOUS
<1>3. \A i \in Added(c, d) : ArmsOf(d[i].op) = {}
  BY DEF ArmsOf
<1>4. Sequence(d)
  BY DEF Extends
<1>5. BlocksMade(d, p)
  BY <1>1, MadeStays DEF BlocksMade
<1>6. BlocksOwned(d, p)
  BY OwnedStays DEF BlocksOwned
<1>7. StillOpen(d, p)
  BY <1>2, NoMoreEnds DEF StillOpen, Grown
<1>8. ThenFirst(d, p)
  <2> SUFFICES ASSUME NEW q \in DOMAIN d, d[q].op = "if", Open(p, Child(d, q, "then"))
               PROVE  In(d, Child(d, q, "else")) = {}
    BY DEF ThenFirst
  <2>1. q \notin Added(c, d)
    OBVIOUS
  <2>2. q \in DOMAIN c
    BY <2>1, ExtendsBy
  <2>3. c[q].op = "if" /\ Open(p, Child(c, q, "then"))
    BY <2>2, ExtendsKeeps, ChildKept
  <2>4. In(d, Child(c, q, "else")) = {}
    BY <1>1, <2>2, <2>3, ThenStaysFirst
  <2> QED
    BY <2>2, <2>4, ChildKept
<1>9. Accounted(d, p)
  <2> SUFFICES ASSUME NEW q \in DOMAIN d, NEW arm \in ArmsOf(d[q].op)
               PROVE  \/ Closed(d, Child(d, q, arm), q)
                      \/ Open(p, Child(d, q, arm))
                      \/ arm = "else" /\ Open(p, Child(d, q, "then"))
    BY DEF Accounted
  <2>1. q \in DOMAIN c
    BY <1>3, ExtendsBy
  <2>2. d[q] = c[q] /\ Child(d, q, arm) = Child(c, q, arm) /\ Child(d, q, "then") = Child(c, q, "then")
    BY <2>1, ExtendsKeeps, ChildKept
  <2>3. \/ Closed(c, Child(c, q, arm), q)
        \/ Open(p, Child(c, q, arm))
        \/ arm = "else" /\ Open(p, Child(c, q, "then"))
    BY <2>1, <2>2 DEF Grown, Accounted
  <2>4. Closed(c, Child(c, q, arm), q) => Closed(d, Child(c, q, arm), q)
    BY <1>1, ClosedStays
  <2> QED
    BY <2>2, <2>3, <2>4
<1> QED
  BY <1>4, <1>5, <1>6, <1>7, <1>8, <1>9 DEF Grown

\* A block the walk stands in is one of any path that begins likewise.
LEMMA OpenUnder ==
  ASSUME NEW p \in Seq(Blocks), NEW r \in Seq(Blocks), NEW n \in Nat,
         n <= Len(p), n <= Len(r), \A j \in 1 .. n : p[j] = r[j],
         NEW k \in 1 .. n
  PROVE  Open(r, Within(p, k))
<1>1. k \in 0 .. n /\ k \in 1 .. Len(r)
  OBVIOUS
<1>2. Within(p, k) = Within(r, k)
  BY <1>1, SamePrefix
<1> QED
  BY <1>1, <1>2 DEF Open

\* by an scf operation, whose first block the walk enters,
LEMMA GrowOpen ==
  ASSUME NEW c, NEW p, Grown(c, p),
         NEW o, o.path = p, o.op \in {"if", "for"},
         NEW d, d = Append(c, o),
         NEW arm, arm = IF o.op = "if" THEN "then" ELSE "body",
         NEW r, r = Append(p, Block(Len(c) + 1, arm))
  PROVE  Grown(d, r)
<1> DEFINE n == Len(c) + 1
           last == Len(p) + 1
<1>1. /\ Extends(c, d) /\ Len(c) \in Nat /\ Len(d) = n
      /\ Added(c, d) = {n} /\ d[n] = o
  BY ExtendsAppend DEF Grown
<1>2. n \in Nat /\ Len(c) < n /\ n \in DOMAIN d /\ n \notin DOMAIN c
  BY <1>1, ExtendsLengths
<1>3. \A i \in Added(c, d) : d[i].path = p
  BY <1>1
<1>4. \A i \in Added(c, d) : d[i].op \notin {"yield", "return"}
  BY <1>1
<1>5. /\ arm \in Arms /\ arm \in ArmsOf(o.op) /\ arm # "else"
      /\ "then" \in Arms /\ "else" \in Arms
  BY DEF Arms, ArmsOf
<1>6. p \in Seq(Blocks) /\ Len(p) \in Nat
  BY HereIsOpen
<1>7. Block(n, arm) \in Blocks /\ Block(n, arm).op = n /\ Block(n, arm).arm = arm
  BY <1>2, <1>5, BlockOf
<1>8. /\ r \in Seq(Blocks) /\ Len(r) = last /\ r[last] = Block(n, arm) /\ last \in Nat
      /\ last \in 1 .. Len(r) /\ Len(p) <= last
      /\ \A k \in 1 .. Len(p) : p[k] = r[k]
  BY <1>6, <1>7, PathAppend
<1>9. Extends(c, d)
  BY <1>1
<1>10. Len(p) <= Len(r) /\ Len(p) <= Len(p)
  BY <1>6, <1>8
<1>11. ASSUME NEW k \in 0 .. Len(p) PROVE Within(p, k) = Within(r, k)
  <2>1. r \in Seq(Blocks) /\ \A j \in 1 .. Len(p) : p[j] = r[j]
    BY <1>8
  <2>2. p \in Seq(Blocks) /\ Len(p) \in Nat
    BY <1>6
  <2> QED
    BY <2>1, <2>2, <1>10, <1>11, SamePrefix
<1>12. Within(r, last) = r
  BY <1>8, WholePrefix
<1>13. Child(d, n, arm) = r
  BY <1>1 DEF Child
<1>14. \A k \in 1 .. last : k \in 1 .. Len(p) \/ k = last
  BY <1>6
<1>15. \A k \in 0 .. last : k \in 0 .. Len(p) \/ k = last
  BY <1>6
<1>16. \A b : Open(p, b) => Open(r, b)
  <2> SUFFICES ASSUME NEW b, Open(p, b) PROVE Open(r, b)
    OBVIOUS
  <2>1. PICK k \in 1 .. Len(p) : Within(p, k) = b
    BY DEF Open
  <2> QED
    <3> HIDE DEF n, last
    <3>1. Open(r, Within(p, k))
      BY <1>6, <1>8, <1>10, OpenUnder
    <3> QED
      BY <2>1, <3>1
<1>17. Open(r, r)
  BY <1>8, <1>12 DEF Open
<1> HIDE DEF n, last
<1>18. BlocksMade(d, r)
  <2>1. Made(p, n) /\ \A q \in DOMAIN d : Made(d[q].path, n)
    BY <1>1, <1>3, MadeStays
  <2>2. ASSUME NEW k \in 1 .. last PROVE r[k].op <= n
    <3>1. CASE k = last
      BY <3>1, <1>2, <1>7, <1>8
    <3>2. CASE k \in 1 .. Len(p)
      BY <3>2, <1>8, <2>1 DEF Made
    <3> QED
      BY <3>1, <3>2, <1>14
  <2> QED
    BY <1>1, <1>8, <2>1, <2>2 DEF BlocksMade, Made
<1>19. BlocksOwned(d, r)
  <2> SUFFICES ASSUME NEW k \in 1 .. last
               PROVE  /\ r[k].op \in DOMAIN d
                      /\ r[k].arm \in ArmsOf(d[r[k].op].op)
                      /\ Within(r, k) = Child(d, r[k].op, r[k].arm)
    BY <1>8 DEF BlocksOwned
  <2>1. CASE k = last
    BY <2>1, <1>1, <1>2, <1>5, <1>7, <1>8, <1>12, <1>13
  <2>2. CASE k \in 1 .. Len(p)
    <3>1. /\ p[k].op \in DOMAIN d
          /\ p[k].arm \in ArmsOf(d[p[k].op].op)
          /\ Within(p, k) = Child(d, p[k].op, p[k].arm)
      BY <1>9, <2>2, OwnedStays
    <3>2. r[k] = p[k] /\ k \in 0 .. Len(p)
      BY <2>2, <1>8
    <3> QED
      BY <3>1, <3>2, <1>11
  <2> QED
    BY <2>1, <2>2, <1>14
<1>20. StillOpen(d, r)
  <2> SUFFICES ASSUME NEW k \in 0 .. last PROVE Ends(c, Within(r, k)) = {}
    <3>1. \A b : Ends(d, b) = Ends(c, b)
      BY <1>9, <1>4, NoMoreEnds
    <3>2. Len(r) = last
      BY <1>8
    <3> QED
      BY <3>1, <3>2 DEF StillOpen
  <2>1. CASE k = last
    <3>1. Ends(c, Append(p, Block(n, arm))) = {}
      BY <1>2, <1>5, NothingYet
    <3> QED
      BY <2>1, <3>1, <1>12 DEF n
  <2>2. CASE k \in 0 .. Len(p)
    BY <2>2, <1>11 DEF Grown, StillOpen
  <2> QED
    BY <2>1, <2>2, <1>15
<1>21. ThenFirst(d, r)
  <2> SUFFICES ASSUME NEW q \in DOMAIN d, d[q].op = "if", Open(r, Child(d, q, "then"))
               PROVE  In(d, Child(d, q, "else")) = {}
    BY DEF ThenFirst
  <2>1. CASE q = n
    <3> DEFINE b == Append(p, Block(n, "else"))
    <3>1. Child(d, q, "else") = b
      BY <2>1, <1>1 DEF Child
    <3>2. In(c, b) = {}
      BY <1>2, <1>5, NothingYet
    <3>3. b # p
      BY <1>2, <1>5, <1>6, BlockOf, PathAppend
    <3> HIDE DEF b
    <3>4. \A i \in Added(c, d) : d[i].path # b
      BY <1>3, <3>3
    <3>5. In(d, b) = In(c, b)
      BY <3>4, <1>9, Elsewhere
    <3> QED
      BY <3>1, <3>2, <3>5
  <2>2. CASE q \in DOMAIN c
    <3>1. /\ d[q] = c[q] /\ Child(d, q, "then") = Child(c, q, "then")
          /\ Child(d, q, "else") = Child(c, q, "else")
      BY <2>2, <1>1, ExtendsKeeps, ChildKept
    <3>2. PICK k \in 1 .. last : Within(r, k) = Child(c, q, "then")
      BY <3>1, <1>8 DEF Open
    <3>3. k # last
      <4> SUFFICES ASSUME k = last PROVE FALSE
        OBVIOUS
      <4>1. Append(p, Block(n, arm)) = Append(c[q].path, Block(q, "then"))
        BY <3>2, <1>12 DEF Child, n
      <4>2. /\ q \in Nat /\ c[q].path \in Seq(Blocks) /\ Block(q, "then") \in Blocks
        BY <2>2, <1>5, ChildOf
      <4>3. Block(n, arm) = Block(q, "then")
        BY <4>1, <4>2, <1>6, <1>7, SameChild
      <4>4. n = q
        BY <4>2, <4>3, <1>5, <1>7, BlockOf
      <4> QED
        BY <4>4, <2>2, <1>2
    <3>4. k \in 1 .. Len(p) /\ k \in 0 .. Len(p)
      BY <3>3, <1>6, <1>14
    <3>5. Open(p, Child(c, q, "then"))
      BY <3>2, <3>4, <1>11 DEF Open
    <3> QED
      BY <3>1, <3>5, <2>2, <1>1, <1>3, ThenStaysFirst
  <2> QED
    BY <2>1, <2>2, <1>1, ExtendsBy
<1>22. Accounted(d, r)
  <2> SUFFICES ASSUME NEW q \in DOMAIN d, NEW a \in ArmsOf(d[q].op)
               PROVE  \/ Closed(d, Child(d, q, a), q)
                      \/ Open(r, Child(d, q, a))
                      \/ a = "else" /\ Open(r, Child(d, q, "then"))
    BY DEF Accounted
  <2>1. CASE q = n
    <3>1. a = arm \/ (a = "else" /\ arm = "then")
      BY <2>1, <1>1 DEF ArmsOf
    <3> QED
      BY <2>1, <3>1, <1>13, <1>17
  <2>2. CASE q \in DOMAIN c
    <3>1. /\ d[q] = c[q] /\ Child(d, q, a) = Child(c, q, a)
          /\ Child(d, q, "then") = Child(c, q, "then")
      BY <2>2, <1>1, ExtendsKeeps, ChildKept
    <3>2. \/ Closed(c, Child(c, q, a), q)
          \/ Open(p, Child(c, q, a))
          \/ a = "else" /\ Open(p, Child(c, q, "then"))
      BY <2>2, <3>1 DEF Grown, Accounted
    <3>3. Closed(c, Child(c, q, a), q) => Closed(d, Child(c, q, a), q)
      BY <1>1, <1>3, ClosedStays
    <3> QED
      BY <3>1, <3>2, <3>3, <1>16
  <2> QED
    BY <2>1, <2>2, <1>1, ExtendsBy
<1>23. Sequence(d)
  BY <1>1 DEF Extends
<1> QED
  BY <1>18, <1>19, <1>20, <1>21, <1>22, <1>23 DEF Grown

(***************************************************************************)
(* and by the yield that closes the block the walk is in.                  *)
(***************************************************************************)
\* The step from c to d closes the innermost block of p; front is what
\* encloses it.
Finishes(c, p, d, front) ==
  /\ Grown(c, p)
  /\ p # <<>>
  /\ front = SubSeq(p, 1, Len(p) - 1)
  /\ \E o : /\ d = Append(c, o)
            /\ o.op = "yield" /\ o.path = p /\ o.attr = p[Len(p)].op

\* What encloses the block closed has the same blocks but the last.
LEMMA FinishesPath ==
  ASSUME NEW c, NEW p, NEW d, NEW front, Finishes(c, p, d, front)
  PROVE  /\ p \in Seq(Blocks) /\ Len(p) \in Nat \ {0} /\ Len(p) \in 1 .. Len(p)
         /\ front \in Seq(Blocks) /\ Len(front) = Len(p) - 1 /\ Len(front) \in Nat
         /\ \A k \in 1 .. Len(front) : p[k] = front[k]
         /\ \A k \in 0 .. Len(front) : Within(p, k) = Within(front, k) /\ Within(p, k) # p
<1>1. p \in Seq(Blocks) /\ p # <<>> /\ front = SubSeq(p, 1, Len(p) - 1)
  BY HereIsOpen DEF Finishes
<1>2. Len(p) \in Nat \ {0} /\ Len(p) - 1 \in 0 .. Len(p)
  BY <1>1
<1>3. front = Within(p, Len(p) - 1)
  BY <1>1 DEF Within
<1>4. /\ front \in Seq(Blocks) /\ Len(front) = Len(p) - 1
      /\ \A k \in 1 .. Len(p) - 1 : front[k] = p[k]
  <2> DEFINE m == Len(p) - 1
  <2>1. p \in Seq(Blocks) /\ m \in 0 .. Len(p) /\ front = Within(p, m)
    BY <1>1, <1>2, <1>3
  <2> HIDE DEF m
  <2>2. /\ front \in Seq(Blocks) /\ Len(front) = m
        /\ \A k \in 1 .. m : front[k] = p[k]
    BY <2>1, PathPrefix
  <2> QED
    BY <2>2 DEF m
<1>5. Len(front) \in Nat /\ Len(front) <= Len(p) /\ Len(front) <= Len(front)
  BY <1>2, <1>4
<1>6. \A k \in 1 .. Len(front) : p[k] = front[k]
  BY <1>4
<1>7. ASSUME NEW k \in 0 .. Len(front) PROVE Within(p, k) = Within(front, k) /\ Within(p, k) # p
  <2>1. Within(p, k) = Within(front, k)
    BY <1>1, <1>4, <1>5, <1>6, <1>7, SamePrefix
  <2>2. k \in 0 .. Len(p) /\ k # Len(p)
    BY <1>2, <1>4
  <2>3. Len(Within(p, k)) = k
    BY <1>1, <2>2, PathPrefix
  <2> QED
    BY <2>1, <2>2, <2>3
<1> QED
  BY <1>1, <1>2, <1>4, <1>5, <1>6, <1>7

\* The innermost block, and only that one, is the block closed.
LEMMA FinishesInnermost ==
  ASSUME NEW c, NEW p, NEW d, NEW front, Finishes(c, p, d, front)
  PROVE  /\ p[Len(p)].op \in DOMAIN c /\ p[Len(p)].arm \in Arms
         /\ c[p[Len(p)].op].op \in {"if", "for"}
         /\ p[Len(p)].arm \in ArmsOf(c[p[Len(p)].op].op)
         /\ p = Child(c, p[Len(p)].op, p[Len(p)].arm)
         /\ c[p[Len(p)].op].path = front
         /\ \A q \in DOMAIN c : \A arm \in Arms :
              p = Child(c, q, arm) => q = p[Len(p)].op /\ arm = p[Len(p)].arm
<1> DEFINE last == Len(p)
           q0   == p[last].op
           a0   == p[last].arm
<1>1. /\ p \in Seq(Blocks) /\ last \in 1 .. last /\ Grown(c, p)
      /\ front \in Seq(Blocks) /\ Len(front) = last - 1 /\ last \in Nat \ {0}
      /\ \A k \in 1 .. Len(front) : p[k] = front[k]
  <2>1. Grown(c, p)
    BY DEF Finishes
  <2>2. p \in Seq(Blocks) /\ last \in 1 .. last /\ last \in Nat \ {0}
    BY FinishesPath
  <2>3. /\ front \in Seq(Blocks) /\ Len(front) = last - 1
        /\ \A k \in 1 .. Len(front) : p[k] = front[k]
    BY FinishesPath
  <2> QED
    BY <2>1, <2>2, <2>3
<1>2. q0 \in DOMAIN c /\ a0 \in ArmsOf(c[q0].op) /\ Within(p, last) = Child(c, q0, a0)
  BY <1>1 DEF Grown, BlocksOwned
<1>3. p = Child(c, q0, a0)
  BY <1>1, <1>2, WholePrefix
<1>4. a0 \in Arms /\ c[q0].op \in {"if", "for"}
  BY <1>2, ArmsAre
<1>5. /\ c[q0].path \in Seq(Blocks) /\ Block(q0, a0) \in Blocks /\ q0 \in Nat
  BY <1>1, <1>2, <1>4, ChildOf
<1>6. ASSUME NEW q \in DOMAIN c, NEW arm \in Arms, p = Child(c, q, arm)
      PROVE  q = q0 /\ arm = a0
  <2>1. /\ c[q].path \in Seq(Blocks) /\ Block(q, arm) \in Blocks /\ q \in Nat
    BY <1>1, ChildOf, Zenon
  <2>2. Append(c[q0].path, Block(q0, a0)) = Append(c[q].path, Block(q, arm))
    BY <1>3, <1>6 DEF Child
  <2>3. Block(q0, a0) = Block(q, arm)
    BY <1>5, <2>1, <2>2, SameChild
  <2> QED
    BY <1>4, <1>5, <2>1, <2>3, BlockOf
<1>7. c[q0].path = front
  <2>1. p = Append(c[q0].path, Block(q0, a0))
    BY <1>3 DEF Child
  <2>2. /\ Len(p) = Len(c[q0].path) + 1 /\ Len(c[q0].path) \in Nat
        /\ \A k \in 1 .. Len(c[q0].path) : p[k] = c[q0].path[k]
    BY <1>5, <2>1, PathAppend
  <2>3. Len(c[q0].path) = Len(front)
    BY <1>1, <2>2
  <2>4. \A k \in 1 .. Len(front) : front[k] = c[q0].path[k]
    BY <1>1, <2>2, <2>3
  <2> QED
    BY <1>1, <1>5, <2>3, <2>4, PathEqual
<1> QED
  BY <1>2, <1>3, <1>4, <1>6, <1>7

\* The yield is the one operation added.
LEMMA FinishesModule ==
  ASSUME NEW c, NEW p, NEW d, NEW front, Finishes(c, p, d, front)
  PROVE  /\ Extends(c, d) /\ Len(c) \in Nat /\ Len(d) = Len(c) + 1
         /\ Added(c, d) = {Len(d)} /\ d[Len(d)].path = p /\ d[Len(d)].op = "yield"
         /\ d[Len(d)].attr = p[Len(p)].op
<1> PICK o : /\ d = Append(c, o)
             /\ o.op = "yield" /\ o.path = p /\ o.attr = p[Len(p)].op
  BY DEF Finishes
<1>1. Sequence(c)
  BY DEF Finishes, Grown
<1>2. Extends(c, d) /\ Len(c) \in Nat /\ Len(d) = Len(c) + 1
  BY <1>1, ExtendsAppend
<1>3. Added(c, d) = {Len(c) + 1}
  BY <1>1, ExtendsAppend
<1>4. d[Len(c) + 1] = o
  BY <1>1, SequenceAppend
<1> QED
  BY <1>2, <1>3, <1>4

\* The block is closed for good, by the operation it belongs to,
LEMMA FinishesBlock ==
  ASSUME NEW c, NEW p, NEW d, NEW front, Finishes(c, p, d, front)
  PROVE  Closed(d, p, p[Len(p)].op)
<1> DEFINE n == Len(d)
<1>1. /\ Extends(c, d) /\ Added(c, d) = {n} /\ d[n].path = p
      /\ d[n].op = "yield" /\ d[n].attr = p[Len(p)].op
  BY FinishesModule
<1>2. Len(c) \in Nat /\ n = Len(c) + 1
  BY FinishesModule
<1>3. Extends(c, d)
  BY <1>1
<1>4. n \in DOMAIN d /\ \A q \in DOMAIN d : q <= n
  BY <1>2, <1>3, ExtendsLengths
<1>5. Ends(c, p) = {}
  BY HereIsOpen DEF Finishes
<1>6. Ends(d, p) = {n}
  <2>1. n \in Ends(d, p)
    BY <1>1, <1>4 DEF Ends, In
  <2>2. ASSUME NEW q \in Ends(d, p), q # n PROVE FALSE
    <3>1. q \in DOMAIN d /\ d[q].path = p /\ d[q].op \in {"yield", "return"}
      BY DEF Ends, In
    <3>2. q \in DOMAIN c
      BY <3>1, <2>2, <1>1, <1>3, ExtendsBy
    <3>3. d[q] = c[q]
      BY <3>2, <1>3, ExtendsKeeps
    <3>4. q \in Ends(c, p)
      BY <3>1, <3>2, <3>3 DEF Ends, In
    <3> QED
      BY <3>4, <1>5
  <2> QED
    BY <2>1, <2>2
<1>7. \A q \in In(d, p) : q <= n
  BY <1>4 DEF In
<1> HIDE DEF n
<1> QED
  BY <1>1, <1>6, <1>7 DEF Closed

\* The enclosing blocks are left as they were, and so is what the invariant
\* says of every operation's blocks, but for the block closed.
LEMMA FinishesOnly ==
  ASSUME NEW c, NEW p, NEW d, NEW front, Finishes(c, p, d, front)
  PROVE  /\ Sequence(d)
         /\ Made(front, Len(d)) /\ \A q \in DOMAIN d : Made(d[q].path, Len(d))
         /\ \A k \in 0 .. Len(front) : Ends(d, Within(front, k)) = {}
         /\ \A k \in 1 .. Len(front) : /\ front[k].op \in DOMAIN d
                                       /\ front[k].arm \in ArmsOf(d[front[k].op].op)
                                       /\ Within(front, k) = Child(d, front[k].op, front[k].arm)
<1>1. Extends(c, d) /\ Added(c, d) = {Len(d)} /\ d[Len(d)].path = p
  BY FinishesModule
<1>2. Extends(c, d) /\ Grown(c, p) /\ \A i \in Added(c, d) : d[i].path = p
  BY <1>1 DEF Finishes
<1>3. /\ front \in Seq(Blocks) /\ \A k \in 1 .. Len(front) : p[k] = front[k]
      /\ Len(front) = Len(p) - 1 /\ Len(p) \in Nat \ {0}
  BY FinishesPath
<1>4. \A k \in 1 .. Len(front) : k \in 1 .. Len(p) /\ k \in 0 .. Len(front)
  BY <1>3
<1>5. \A k \in 0 .. Len(front) : k \in 0 .. Len(p)
  BY <1>3
<1>6. \A k \in 0 .. Len(front) : Within(p, k) = Within(front, k) /\ Within(p, k) # p
  BY FinishesPath
<1>7. Made(p, Len(d)) /\ \A q \in DOMAIN d : Made(d[q].path, Len(d))
  BY <1>2, MadeStays
<1>8. Made(front, Len(d))
  BY <1>3, <1>4, <1>7 DEF Made
<1>9. ASSUME NEW k \in 0 .. Len(front) PROVE Ends(d, Within(front, k)) = {}
  <2>1. Ends(c, Within(front, k)) = {}
    BY <1>2, <1>5, <1>6 DEF Grown, StillOpen
  <2>2. \A i \in Added(c, d) : d[i].path # Within(front, k)
    BY <1>2, <1>6
  <2>3. Ends(d, Within(front, k)) = Ends(c, Within(front, k))
    BY <1>2, <2>2, Elsewhere
  <2> QED
    BY <2>1, <2>3
<1>10. ASSUME NEW k \in 1 .. Len(front)
       PROVE  /\ front[k].op \in DOMAIN d
              /\ front[k].arm \in ArmsOf(d[front[k].op].op)
              /\ Within(front, k) = Child(d, front[k].op, front[k].arm)
  <2>1. k \in 1 .. Len(p) /\ p[k] = front[k] /\ Within(p, k) = Within(front, k)
    BY <1>3, <1>4, <1>6
  <2>2. /\ p[k].op \in DOMAIN d
        /\ p[k].arm \in ArmsOf(d[p[k].op].op)
        /\ Within(p, k) = Child(d, p[k].op, p[k].arm)
    BY <1>2, <2>1, OwnedStays
  <2> QED
    BY <2>1, <2>2
<1>11. Sequence(d)
  BY <1>2 DEF Extends
<1> QED
  BY <1>7, <1>8, <1>9, <1>10, <1>11

\* The block at depth k of p, if it is not the innermost one, encloses it.
LEMMA FinishesOpen ==
  ASSUME NEW c, NEW p, NEW d, NEW front, Finishes(c, p, d, front), NEW b
  PROVE  /\ Open(front, b) => Open(p, b)
         /\ Open(p, b) => Open(front, b) \/ p = b
<1>1. /\ p \in Seq(Blocks) /\ Len(p) \in Nat \ {0} /\ Len(front) = Len(p) - 1
  BY FinishesPath
<1>2. \A k \in 0 .. Len(front) : Within(p, k) = Within(front, k)
  BY FinishesPath
<1>3. \A k \in 1 .. Len(front) : k \in 0 .. Len(front) /\ k \in 1 .. Len(p)
  BY <1>1
<1>4. \A k \in 1 .. Len(p) : k \in 1 .. Len(front) \/ k = Len(p)
  BY <1>1
<1>5. Within(p, Len(p)) = p
  BY <1>1, WholePrefix
<1>6. Open(front, b) => Open(p, b)
  BY <1>2, <1>3 DEF Open
<1>7. ASSUME Open(p, b) PROVE Open(front, b) \/ p = b
  <2>1. PICK k \in 1 .. Len(p) : Within(p, k) = b
    BY <1>7 DEF Open
  <2>2. CASE k = Len(p)
    BY <2>1, <2>2, <1>5
  <2>3. CASE k \in 1 .. Len(front)
    BY <2>1, <2>3, <1>2, <1>3 DEF Open
  <2> QED
    BY <2>2, <2>3, <1>4
<1> QED
  BY <1>6, <1>7

\* An else block that is not begun stays empty.
LEMMA FinishesThen ==
  ASSUME NEW c, NEW p, NEW d, NEW front, Finishes(c, p, d, front),
         NEW q \in DOMAIN d, d[q].op = "if", Open(p, Child(d, q, "then"))
  PROVE  In(d, Child(d, q, "else")) = {}
<1>1. Extends(c, d) /\ Added(c, d) = {Len(d)} /\ d[Len(d)].path = p
  BY FinishesModule
<1>2. d[Len(d)].op = "yield"
  BY FinishesModule
<1>3. Extends(c, d) /\ Grown(c, p) /\ \A i \in Added(c, d) : d[i].path = p
  BY <1>1 DEF Finishes
<1>4. q \in DOMAIN c
  BY <1>1, <1>2, <1>3, ExtendsBy
<1>5. d[q] = c[q]
  BY <1>3, <1>4, ExtendsKeeps
<1>6. Child(d, q, "then") = Child(c, q, "then") /\ Child(d, q, "else") = Child(c, q, "else")
  BY <1>3, <1>4, ChildKept
<1>7. c[q].op = "if" /\ Open(p, Child(c, q, "then"))
  BY <1>5, <1>6
<1> QED
  BY <1>3, <1>4, <1>6, <1>7, ThenStaysFirst

\* Only the block closed, and an else block behind it, change their state.
LEMMA FinishesAccounts ==
  ASSUME NEW c, NEW p, NEW d, NEW front, Finishes(c, p, d, front),
         NEW q \in DOMAIN d, NEW arm \in ArmsOf(d[q].op)
  PROVE  \/ Closed(d, Child(d, q, arm), q)
         \/ Open(front, Child(d, q, arm))
         \/ arm = "else" /\ Open(front, Child(d, q, "then"))
         \/ arm = "else" /\ q = p[Len(p)].op /\ p[Len(p)].arm = "then"
<1>1. Extends(c, d) /\ Added(c, d) = {Len(d)} /\ d[Len(d)].path = p
  BY FinishesModule
<1>2. ArmsOf(d[Len(d)].op) = {}
  BY FinishesModule DEF ArmsOf
<1>3. Extends(c, d) /\ Grown(c, p) /\ \A i \in Added(c, d) : d[i].path = p
  BY <1>1 DEF Finishes
<1>4. q \in DOMAIN c
  BY <1>1, <1>2, <1>3, ExtendsBy
<1>5. d[q] = c[q]
  BY <1>3, <1>4, ExtendsKeeps
<1>6. Child(d, q, arm) = Child(c, q, arm) /\ Child(d, q, "then") = Child(c, q, "then")
  BY <1>3, <1>4, ChildKept
<1>7. \/ Closed(c, Child(c, q, arm), q)
      \/ Open(p, Child(c, q, arm))
      \/ arm = "else" /\ Open(p, Child(c, q, "then"))
  BY <1>3, <1>4, <1>5 DEF Grown, Accounted
<1>8. CASE Closed(c, Child(c, q, arm), q)
  BY <1>3, <1>6, <1>8, ClosedStays
<1>9. CASE Open(p, Child(c, q, arm))
  <2>1. Open(front, Child(c, q, arm)) \/ p = Child(c, q, arm)
    BY <1>9, FinishesOpen
  <2>2. ASSUME p = Child(c, q, arm) PROVE Closed(d, Child(d, q, arm), q)
    <3>1. arm \in Arms
      BY ArmsAre
    <3>2. q = p[Len(p)].op
      BY <1>4, <2>2, <3>1, FinishesInnermost
    <3>3. Closed(d, p, p[Len(p)].op)
      BY FinishesBlock
    <3> QED
      BY <3>2, <3>3, <2>2, <1>6
  <2> QED
    BY <2>1, <2>2, <1>6
<1>10. CASE arm = "else" /\ Open(p, Child(c, q, "then"))
  <2>1. Open(front, Child(c, q, "then")) \/ p = Child(c, q, "then")
    BY <1>10, FinishesOpen
  <2>2. ASSUME p = Child(c, q, "then") PROVE q = p[Len(p)].op /\ p[Len(p)].arm = "then"
    <3>1. "then" \in Arms
      BY DEF Arms
    <3> QED
      BY <1>4, <2>2, <3>1, FinishesInnermost
  <2> QED
    BY <2>1, <2>2, <1>6, <1>10
<1> QED
  BY <1>7, <1>8, <1>9, <1>10

\* Past the last block of a region the walk goes on where it was before,
LEMMA GrowLeave ==
  ASSUME NEW c, NEW p, NEW d, NEW front, Finishes(c, p, d, front), p[Len(p)].arm # "then"
  PROVE  Grown(d, front)
<1>1. /\ Sequence(d) /\ Made(front, Len(d)) /\ \A q \in DOMAIN d : Made(d[q].path, Len(d))
  BY FinishesOnly
<1>2. \A k \in 0 .. Len(front) : Ends(d, Within(front, k)) = {}
  BY FinishesOnly
<1>3. \A k \in 1 .. Len(front) : /\ front[k].op \in DOMAIN d
                                 /\ front[k].arm \in ArmsOf(d[front[k].op].op)
                                 /\ Within(front, k) = Child(d, front[k].op, front[k].arm)
  BY FinishesOnly
<1>4. ThenFirst(d, front)
  BY FinishesOpen, FinishesThen DEF ThenFirst
<1>5. Accounted(d, front)
  BY FinishesAccounts DEF Accounted
<1> QED
  BY <1>1, <1>2, <1>3, <1>4, <1>5 DEF Grown, BlocksMade, BlocksOwned, StillOpen

\* and past a then block in the else block.
LEMMA GrowElse ==
  ASSUME NEW c, NEW p, NEW d, NEW front, Finishes(c, p, d, front), p[Len(p)].arm = "then",
         NEW r, r = Append(front, Block(p[Len(p)].op, "else"))
  PROVE  Grown(d, r)
<1> DEFINE q0   == p[Len(p)].op
           last == Len(front) + 1
<1>1. Extends(c, d) /\ Added(c, d) = {Len(d)} /\ d[Len(d)].path = p
  BY FinishesModule
<1>2. Extends(c, d) /\ Grown(c, p) /\ \A i \in Added(c, d) : d[i].path = p
  BY <1>1 DEF Finishes
<1>3. /\ q0 \in DOMAIN c /\ p = Child(c, q0, "then") /\ c[q0].path = front
      /\ "then" \in ArmsOf(c[q0].op)
  BY FinishesInnermost
<1>4. "then" \in Arms /\ "else" \in Arms /\ c[q0].op = "if"
  BY <1>3 DEF Arms, ArmsOf
<1>5. q0 \in DOMAIN d /\ d[q0] = c[q0]
  BY <1>2, <1>3, ExtendsKeeps
<1>6. q0 \in Nat /\ q0 <= Len(d) /\ "else" \in ArmsOf(d[q0].op)
  <2>1. DOMAIN d = 1 .. Len(d) /\ Len(d) \in Nat
    BY <1>2, ExtendsLengths
  <2> QED
    BY <2>1, <1>4, <1>5 DEF ArmsOf
<1>7. Block(q0, "else") \in Blocks /\ Block(q0, "else").op = q0 /\ Block(q0, "else").arm = "else"
  BY <1>4, <1>6, BlockOf
<1>8. front \in Seq(Blocks) /\ Len(front) \in Nat
  BY FinishesPath
<1>9. r = Append(front, Block(q0, "else")) /\ r = Child(d, q0, "else")
  BY <1>3, <1>5 DEF Child
<1> HIDE DEF q0
<1>10. /\ r \in Seq(Blocks) /\ Len(r) = last /\ r[last] = Block(q0, "else")
       /\ \A k \in 1 .. Len(front) : front[k] = r[k]
  BY <1>7, <1>8, <1>9, PathAppend
<1>11. /\ last \in Nat /\ last \in 1 .. last /\ Len(front) <= last
       /\ \A k \in 1 .. last : k \in 1 .. Len(front) \/ k = last
       /\ \A k \in 0 .. last : k \in 0 .. Len(front) \/ k = last
       /\ \A k \in 1 .. Len(front) : k \in 0 .. Len(front) /\ k \in 1 .. last
  BY <1>8
<1> HIDE DEF last
<1>12. ASSUME NEW k \in 0 .. Len(front) PROVE Within(front, k) = Within(r, k)
  <2>1. /\ front \in Seq(Blocks) /\ Len(front) \in Nat /\ Len(front) <= Len(front)
        /\ r \in Seq(Blocks) /\ \A j \in 1 .. Len(front) : front[j] = r[j]
    BY <1>8, <1>10
  <2>2. Len(front) <= Len(r)
    BY <1>10, <1>11
  <2> QED
    BY <2>1, <2>2, <1>12, SamePrefix
<1>13. Within(r, last) = r
  BY <1>10, WholePrefix
<1>14. Open(r, r) /\ \A b : Open(front, b) => Open(r, b)
  BY <1>10, <1>11, <1>12, <1>13 DEF Open
<1>15. \A b : Open(r, b) => Open(front, b) \/ r = b
  BY <1>10, <1>11, <1>12, <1>13 DEF Open
<1>16. Open(p, p)
  <2>1. p \in Seq(Blocks) /\ Len(p) \in 1 .. Len(p)
    BY FinishesPath
  <2> QED
    BY <2>1, WholePrefix DEF Open
<1>17. In(d, r) = {}
  <2>1. d[q0].op = "if" /\ Open(p, Child(d, q0, "then"))
    BY <1>2, <1>3, <1>4, <1>5, <1>16, ChildKept DEF q0
  <2> QED
    BY <2>1, <1>5, <1>9, FinishesThen
<1>18. BlocksMade(d, r)
  <2>1. Made(front, Len(d)) /\ \A q \in DOMAIN d : Made(d[q].path, Len(d))
    BY FinishesOnly
  <2>2. ASSUME NEW k \in 1 .. last PROVE r[k].op <= Len(d)
    <3>1. CASE k = last
      BY <3>1, <1>6, <1>7, <1>10 DEF q0
    <3>2. CASE k \in 1 .. Len(front)
      BY <3>2, <1>10, <2>1 DEF Made
    <3> QED
      BY <3>1, <3>2, <1>11
  <2> QED
    BY <1>10, <2>1, <2>2 DEF BlocksMade, Made
<1>19. BlocksOwned(d, r)
  <2> SUFFICES ASSUME NEW k \in 1 .. last
               PROVE  /\ r[k].op \in DOMAIN d
                      /\ r[k].arm \in ArmsOf(d[r[k].op].op)
                      /\ Within(r, k) = Child(d, r[k].op, r[k].arm)
    BY <1>10 DEF BlocksOwned
  <2>1. CASE k = last
    <3>1. r[k].op = q0 /\ r[k].arm = "else" /\ Within(r, k) = r
      BY <2>1, <1>7, <1>10, <1>13
    <3> QED
      BY <3>1, <1>5, <1>6, <1>9 DEF q0
  <2>2. CASE k \in 1 .. Len(front)
    <3>1. /\ front[k].op \in DOMAIN d
          /\ front[k].arm \in ArmsOf(d[front[k].op].op)
          /\ Within(front, k) = Child(d, front[k].op, front[k].arm)
      BY <2>2, FinishesOnly
    <3>2. r[k] = front[k] /\ Within(front, k) = Within(r, k)
      BY <2>2, <1>10, <1>11, <1>12
    <3> QED
      BY <3>1, <3>2
  <2> QED
    BY <2>1, <2>2, <1>11
<1>20. StillOpen(d, r)
  <2>1. \A k \in 0 .. Len(front) : Ends(d, Within(front, k)) = {}
    BY FinishesOnly
  <2>2. Ends(d, r) = {}
    BY <1>17 DEF Ends
  <2> QED
    BY <2>1, <2>2, <1>10, <1>11, <1>12, <1>13 DEF StillOpen
<1>21. ThenFirst(d, r)
  <2> SUFFICES ASSUME NEW q \in DOMAIN d, d[q].op = "if", Open(r, Child(d, q, "then"))
               PROVE  In(d, Child(d, q, "else")) = {}
    BY DEF ThenFirst
  <2>1. r # Child(d, q, "then")
    <3> SUFFICES ASSUME r = Child(d, q, "then") PROVE FALSE
      OBVIOUS
    <3>1. Made(d[q].path, Len(d)) /\ DOMAIN d = 1 .. Len(d) /\ Len(d) \in Nat
      BY <1>2, FinishesOnly, ExtendsLengths
    <3>2. d[q].path \in Seq(Blocks) /\ q \in Nat
      BY <3>1 DEF Made
    <3>3. Block(q, "then") \in Blocks /\ Block(q, "then").arm = "then"
      BY <3>2, <1>4, BlockOf
    <3>4. Append(front, Block(q0, "else")) = Append(d[q].path, Block(q, "then"))
      BY <1>9 DEF Child
    <3>5. Block(q0, "else") = Block(q, "then")
      BY <3>2, <3>3, <3>4, <1>7, <1>8, SameChild
    <3> QED
      BY <3>3, <3>5, <1>7
  <2>2. Open(p, Child(d, q, "then"))
    BY <2>1, <1>15, FinishesOpen
  <2> QED
    BY <2>2, FinishesThen
<1>22. Accounted(d, r)
  <2> SUFFICES ASSUME NEW q \in DOMAIN d, NEW a \in ArmsOf(d[q].op)
               PROVE  \/ Closed(d, Child(d, q, a), q)
                      \/ Open(r, Child(d, q, a))
                      \/ a = "else" /\ Open(r, Child(d, q, "then"))
    BY DEF Accounted
  <2>1. \/ Closed(d, Child(d, q, a), q)
        \/ Open(front, Child(d, q, a))
        \/ a = "else" /\ Open(front, Child(d, q, "then"))
        \/ a = "else" /\ q = q0
    BY FinishesAccounts DEF q0
  <2> QED
    BY <2>1, <1>9, <1>14
<1>23. Sequence(d)
  BY FinishesOnly
<1> QED
  BY <1>18, <1>19, <1>20, <1>21, <1>22, <1>23 DEF Grown

-----------------------------------------------------------------------------
(***************************************************************************)
(* The code of an expression: computations, all where the walk is.         *)
(***************************************************************************)
Plain(code, p) ==
  /\ Sequence(code)
  /\ \A k \in DOMAIN code : code[k].path = p /\ code[k].op \in {"compute", "coerce"}

\* Code of none, one and more operations.
LEMMA PlainNone == ASSUME NEW p PROVE Plain(<<>>, p)
<1>1. Sequence(<<>>)
  BY SoundNone
<1> QED
  BY <1>1 DEF Plain

LEMMA PlainOne ==
  ASSUME NEW o, NEW p, o.path = p, o.op \in {"compute", "coerce"}
  PROVE  Plain(<<o>>, p)
<1>1. <<o>> \in Seq({o}) /\ DOMAIN <<o>> = {1} /\ <<o>>[1] = o
  OBVIOUS
<1>2. Sequence(<<o>>)
  BY <1>1, SequenceOf
<1> QED
  BY <1>1, <1>2 DEF Plain

\* Several operations more.
LEMMA ExtendsConcat ==
  ASSUME NEW c, Sequence(c), NEW s, Sequence(s), NEW d, d = c \o s
  PROVE  Extends(c, d)
<1>1. Len(c) \in Nat /\ Len(s) \in Nat
  BY SequenceDomain
<1>2. Sequence(d) /\ Len(d) = Len(c) + Len(s)
  BY SequenceConcat
<1>3. \A i \in 1 .. Len(c) : d[i] = c[i]
  BY SequenceConcat
<1> QED
  BY <1>1, <1>2, <1>3 DEF Extends

\* What d adds to c is taken from s.
AddsFrom(s, c, d) == \A i \in Added(c, d) : \E k \in DOMAIN s : d[i] = s[k]

LEMMA ConcatAdds ==
  ASSUME NEW c, Sequence(c), NEW s, Sequence(s), NEW d, d = c \o s
  PROVE  AddsFrom(s, c, d)
<1>1. Len(c) \in Nat /\ Len(s) \in Nat /\ DOMAIN s = 1 .. Len(s)
  BY SequenceDomain
<1>2. Len(d) = Len(c) + Len(s)
  BY SequenceConcat
<1>3. \A j \in 1 .. Len(s) : d[Len(c) + j] = s[j]
  BY SequenceConcat
<1> SUFFICES ASSUME NEW i \in Added(c, d) PROVE \E k \in DOMAIN s : d[i] = s[k]
  BY DEF AddsFrom
<1>4. i - Len(c) \in DOMAIN s /\ Len(c) + (i - Len(c)) = i
  BY <1>1, <1>2 DEF Added
<1>5. d[Len(c) + (i - Len(c))] = s[i - Len(c)]
  BY <1>1, <1>3, <1>4
<1> QED
  BY <1>4, <1>5

LEMMA PlainConcat ==
  ASSUME NEW p, NEW s, Plain(s, p), NEW t, Plain(t, p), NEW r, r = s \o t
  PROVE  Plain(r, p)
<1>1. Sequence(s) /\ Sequence(t)
  BY DEF Plain
<1>2. Extends(s, r)
  BY <1>1, ExtendsConcat
<1>3. Sequence(r)
  BY <1>2 DEF Extends
<1>4. ASSUME NEW k \in DOMAIN r PROVE r[k].path = p /\ r[k].op \in {"compute", "coerce"}
  <2>1. CASE k \in DOMAIN s
    BY <2>1, <1>2, ExtendsKeeps DEF Plain
  <2>2. CASE k \in Added(s, r)
    <3>1. AddsFrom(t, s, r)
      BY <1>1, ConcatAdds
    <3> QED
      BY <2>2, <3>1 DEF Plain, AddsFrom
  <2> QED
    BY <2>1, <2>2, <1>2, ExtendsBy
<1> QED
  BY <1>3, <1>4 DEF Plain

\* coerce and emit(Expr&) emit nothing but computations.
LEMMA CoercePlain ==
  ASSUME NEW v, NEW type, NEW width, NEW n
  PROVE  Plain(Coerce(v, type, width, n).code, path)
<1> DEFINE r == Coerce(v, type, width, n)
           attr == [isSigned |-> type.isSigned, width |-> width]
           o == Operation("coerce", path, NoValues, <<v>>, attr)
<1>1. CASE v.width = width
  <2>1. r.code = <<>>
    BY <1>1 DEF Coerce
  <2> QED
    BY <2>1, PlainNone
<1>2. CASE v.width # width
  <2>1. r.code = <<o>>
    BY <1>2 DEF Coerce
  <2>2. o.path = path /\ o.op = "coerce"
    <3> HIDE DEF attr
    <3> QED
      BY DEF Operation
  <2> HIDE DEF o, r
  <2>3. Plain(<<o>>, path)
    BY <2>2, PlainOne
  <2> QED
    BY <2>1, <2>3 DEF r
<1> QED
  BY <1>1, <1>2

LEMMA EmitExprPlain ==
  ASSUME NEW e, NEW width, NEW n
  PROVE  Plain(EmitExpr(e, width, n).code, path)
<1> DEFINE r == EmitExpr(e, width, n)
<1>1. CASE e.op = "name" /\ e.args[1] \in DOMAIN values
  <2>1. r = Coerce(values[e.args[1]], e.type, width, n)
    BY <1>1 DEF EmitExpr
  <2> QED
    BY <2>1, CoercePlain
<1>2. CASE ~(e.op = "name" /\ e.args[1] \in DOMAIN values)
  <2> DEFINE args == [s \in Reads(e) \cap DOMAIN values |-> values[s]]
             o    == Operation("compute", path, args, <<>>, e)
             made == SSA(n + 1, path, e.type.width, <<>>)
             fit  == Coerce(made, e.type, width, n + 1)
  <2>1. r.code = <<o>> \o fit.code
    BY <1>2 DEF EmitExpr
  <2>2. o.path = path /\ o.op = "compute"
    <3> HIDE DEF args
    <3> QED
      BY DEF Operation
  <2>3. Plain(fit.code, path)
    <3> HIDE DEF made
    <3> QED
      BY CoercePlain
  <2> HIDE DEF o, fit, r
  <2>4. Plain(<<o>>, path)
    BY <2>2, PlainOne
  <2>5. Plain(r.code, path)
    BY <2>1, <2>3, <2>4, PlainConcat
  <2> QED
    BY <2>5 DEF r
<1> QED
  BY <1>1, <1>2

\* The code of an expression leaves every block as it was.
LEMMA GrowPlain ==
  ASSUME NEW c, NEW p, Grown(c, p), NEW s, Plain(s, p), NEW d, d = c \o s
  PROVE  Grown(d, p)
<1>1. Sequence(c) /\ Sequence(s)
  BY DEF Grown, Plain
<1>2. AddsFrom(s, c, d)
  BY <1>1, ConcatAdds
<1>3. \A i \in Added(c, d) : d[i].path = p /\ d[i].op \in {"compute", "coerce"}
  BY <1>2 DEF Plain, AddsFrom
<1>4. \A i \in Added(c, d) : /\ d[i].path = p
                             /\ d[i].op \notin {"if", "for", "yield", "return"}
  BY <1>3
<1>5. Extends(c, d)
  BY <1>1, ExtendsConcat
<1> QED
  BY <1>4, <1>5, GrowHere

-----------------------------------------------------------------------------
(***************************************************************************)
(* The steps of the walk.                                                  *)
(***************************************************************************)
LEMMA InitWhole == Init => Whole
<1> SUFFICES ASSUME Init PROVE Grown(<<>>, <<>>)
  BY DEF Init, Whole
<1>1. /\ Sequence(<<>>) /\ DOMAIN <<>> = {} /\ Len(<<>>) = 0 /\ <<>> \in Seq(Blocks)
      /\ 1 .. Len(<<>>) = {}
  BY SoundNone
<1>2. \A b : Ends(<<>>, b) = {}
  BY <1>1 DEF Ends, In
<1> QED
  BY <1>1, <1>2
  DEF Grown, BlocksMade, Made, BlocksOwned, StillOpen, ThenFirst, Accounted

\* emit(VarDecl), emit(Assign).
LEMMA EmitBindingWhole == ASSUME Grown(ir, path), EmitBinding PROVE Whole'
<1> DEFINE s == prog[pc]
           e == EmitExpr(s.expr, TypeOf[s.sym].width, Len(ir))
<1>1. CASE HasValue(s.expr)
  <2>1. ir' = ir \o e.code /\ path' = path /\ outcome' = "emitting"
    BY <1>1 DEF EmitBinding, Statement
  <2>2. Plain(e.code, path)
    BY EmitExprPlain
  <2> HIDE DEF e
  <2>3. Grown(ir', path)
    BY <2>1, <2>2, GrowPlain
  <2> QED
    BY <2>1, <2>3, Zenon DEF Whole
<1>2. CASE ~HasValue(s.expr)
  BY <1>2 DEF EmitBinding, Fail, Whole
<1> QED
  BY <1>1, <1>2

\* The return ends the function's block; no other one is left open.
LEMMA GrowReturn ==
  ASSUME NEW c, Grown(c, <<>>), NEW o, o.path = <<>>, o.op = "return",
         NEW d, d = Append(c, o)
  PROVE  Complete(d)
<1> DEFINE n == Len(d)
<1>1. Sequence(c) /\ Ends(c, <<>>) = {}
  BY HereIsOpen
<1>2. Extends(c, d) /\ Len(c) \in Nat /\ n = Len(c) + 1
  BY <1>1, ExtendsAppend
<1>3. Added(c, d) = {n}
  BY <1>1, ExtendsAppend
<1>4. d[n] = o
  BY <1>1, <1>2, SequenceAppend
<1>5. n \in DOMAIN d
  BY <1>2, ExtendsLengths
<1>6. Extends(c, d) /\ \A i \in Added(c, d) : d[i].path = <<>>
  BY <1>2, <1>3, <1>4
<1>7. Ends(d, <<>>) = {n}
  <2>1. n \in Ends(d, <<>>)
    BY <1>4, <1>5 DEF Ends, In
  <2>2. ASSUME NEW q \in Ends(d, <<>>), q # n PROVE FALSE
    <3>1. q \in DOMAIN d /\ d[q].path = <<>> /\ d[q].op \in {"yield", "return"}
      BY DEF Ends, In
    <3>2. q \in DOMAIN c
      BY <3>1, <2>2, <1>3, <1>6, ExtendsBy
    <3>3. d[q] = c[q]
      BY <3>2, <1>6, ExtendsKeeps
    <3>4. q \in Ends(c, <<>>)
      BY <3>1, <3>2, <3>3 DEF Ends, In
    <3> QED
      BY <3>4, <1>1
  <2> QED
    BY <2>1, <2>2
<1> HIDE DEF n
<1>8. ASSUME NEW q \in DOMAIN d, NEW arm \in ArmsOf(d[q].op)
      PROVE  Closed(d, Child(d, q, arm), q)
  <2>1. ArmsOf(d[n].op) = {}
    BY <1>4 DEF ArmsOf
  <2>2. q \in DOMAIN c
    BY <2>1, <1>3, <1>6, ExtendsBy
  <2>3. d[q] = c[q]
    BY <2>2, <1>6, ExtendsKeeps
  <2>4. Child(d, q, arm) = Child(c, q, arm)
    BY <2>2, <1>6, ChildKept
  <2>5. \A b : ~Open(<<>>, b)
    BY DEF Open
  <2>6. Closed(c, Child(c, q, arm), q)
    BY <2>2, <2>3, <2>5 DEF Grown, Accounted
  <2> QED
    BY <2>4, <2>6, <1>6, ClosedStays
<1> QED
  BY <1>7, <1>8 DEF Complete, n

\* The return ends the walk, and only outside every region.
LEMMA EmitReturnWhole == ASSUME IInv, Grown(ir, path), EmitReturn PROVE Whole'
<1> DEFINE s == prog[pc]
           e == EmitExpr(s.expr, ReturnType.width, Len(ir))
           o == Operation("return", path, NoValues, <<e.value>>, ReturnType)
<1>1. CASE HasValue(s.expr) /\ frames = <<>>
  <2>1. ir' = Append(ir \o e.code, o) /\ outcome' = "done"
    BY <1>1 DEF EmitReturn
  <2>2. path = <<>>
    <3>1. Len(path) = 0 /\ path \in Seq(Blocks)
      BY <1>1 DEF IInv, Shape
    <3> QED
      BY <3>1
  <2>3. Plain(e.code, path)
    BY EmitExprPlain
  <2>4. o.op = "return" /\ o.path = path
    <3> HIDE DEF e
    <3> QED
      BY DEF Operation
  <2> HIDE DEF e, o
  <2>5. Grown(ir \o e.code, path)
    BY <2>3, GrowPlain
  <2>6. Complete(ir')
    <3> DEFINE c == ir \o e.code
    <3>1. Grown(c, <<>>) /\ o.path = <<>> /\ o.op = "return" /\ ir' = Append(c, o)
      BY <2>1, <2>2, <2>4, <2>5
    <3> HIDE DEF c
    <3> QED
      BY <3>1, GrowReturn
  <2> QED
    BY <2>1, <2>6 DEF Whole
<1>2. CASE ~(HasValue(s.expr) /\ frames = <<>>)
  BY <1>2 DEF EmitReturn, Fail, Whole
<1> QED
  BY <1>1, <1>2

\* emitIf enters the then block.
LEMMA BeginIfWhole == ASSUME Grown(ir, path), BeginIf PROVE Whole'
<1> DEFINE s       == prog[pc]
           cond    == EmitExpr(s.expr, s.expr.type.width, Len(ir))
           carried == CollectAssigned(prog, pc)
           op      == Len(ir) + Len(cond.code) + 1
           widths  == [c \in carried |-> values[c].width]
           o       == Operation("if", path, NoValues, <<cond.value>>, widths)
<1>1. CASE HasValue(s.expr) /\ carried \subseteq DOMAIN values
  <2>1. /\ ir' = Append(ir \o cond.code, o) /\ path' = Append(path, Block(op, "then"))
        /\ outcome' = "emitting"
    BY <1>1 DEF BeginIf, Statement
  <2>2. Plain(cond.code, path)
    BY EmitExprPlain
  <2>3. o.op = "if" /\ o.path = path
    <3> HIDE DEF cond, widths
    <3> QED
      BY DEF Operation
  <2>4. op = Len(ir) + Len(cond.code) + 1
    OBVIOUS
  <2> HIDE DEF cond, carried, op, widths, o
  <2> DEFINE c == ir \o cond.code
  <2>5. Grown(c, path)
    BY <2>2, GrowPlain
  <2>6. op = Len(c) + 1
    <3>1. Sequence(ir) /\ Sequence(cond.code)
      BY <2>2 DEF Grown, Plain
    <3>2. Len(c) = Len(ir) + Len(cond.code)
      BY <3>1, SequenceConcat
    <3> QED
      BY <2>4, <3>2
  <2>7. ir' = Append(c, o) /\ path' = Append(path, Block(Len(c) + 1, "then"))
    BY <2>1, <2>6
  <2> HIDE DEF c
  <2>8. Grown(ir', path')
    <3>1. "then" = IF o.op = "if" THEN "then" ELSE "body"
      BY <2>3
    <3> QED
      BY <2>3, <2>5, <2>7, <3>1, GrowOpen
  <2> QED
    BY <2>1, <2>8, Zenon DEF Whole
<1>2. CASE ~(HasValue(s.expr) /\ carried \subseteq DOMAIN values)
  BY <1>2 DEF BeginIf, Fail, Whole
<1> QED
  BY <1>1, <1>2

\* The induction variable is rebuilt in the block just entered.
LEMMA GrowLoop ==
  ASSUME NEW h, NEW p, Grown(h, p),
         NEW loop, loop.op = "for", loop.path = p,
         NEW body, body = Append(p, Block(Len(h) + 1, "body")),
         NEW rebuild, rebuild.op = "iv", rebuild.path = body,
         NEW d, d = Append(Append(h, loop), rebuild)
  PROVE  Grown(d, body)
<1> DEFINE c == Append(h, loop)
<1>1. Grown(c, body)
  <2>1. "body" = IF loop.op = "if" THEN "then" ELSE "body"
    OBVIOUS
  <2>2. loop.op \in {"if", "for"} /\ c = Append(h, loop)
    OBVIOUS
  <2> HIDE DEF c
  <2> QED
    BY <2>1, <2>2, GrowOpen
<1>2. d = Append(c, rebuild)
  OBVIOUS
<1> HIDE DEF c
<1>3. Sequence(c)
  BY <1>1 DEF Grown
<1>4. Extends(c, d) /\ Len(d) = Len(c) + 1 /\ Len(c) \in Nat
  <2>1. /\ Extends(c, Append(c, rebuild)) /\ Len(c) \in Nat
        /\ Len(Append(c, rebuild)) = Len(c) + 1
    BY <1>3, ExtendsAppend
  <2> QED
    BY <1>2, <2>1
<1>5. Added(c, d) = {Len(c) + 1}
  BY <1>4 DEF Added
<1>6. d[Len(c) + 1] = rebuild
  BY <1>2, <1>3, SequenceAppend
<1>7. \A i \in Added(c, d) : /\ d[i].path = body
                             /\ d[i].op \notin {"if", "for", "yield", "return"}
  BY <1>5, <1>6
<1>8. Extends(c, d)
  BY <1>4
<1> QED
  BY <1>1, <1>7, <1>8, GrowHere

\* emitFor enters the body, behind its header.
LEMMA BeginForWhole == ASSUME Grown(ir, path), BeginFor PROVE Whole'
<1> DEFINE s       == prog[pc]
           width   == TypeOf[s.sym].width
           carried == CollectAssigned(prog, pc) \ {s.sym}
           init    == EmitExpr(s.init, width, Len(ir))
           step    == EmitExpr(s.step, width, Len(ir) + Len(init.code))
           header  == ir \o init.code \o step.code
           op      == Len(header) + 1
           body    == Append(path, Block(op, "body"))
           before  == [c \in carried |-> values[c]]
           loop    == Operation("for", path, before, <<>>, s.tripCount)
           rebuild == Operation("iv", body, NoValues, <<init.value, step.value>>, s.stepIsAdd)
           fits    == /\ s.tripCount # NoTripCount
                      /\ s.tripCount <= MaxIndex
                      /\ HasValue(s.init)
                      /\ HasValue(s.step)
                      /\ carried \subseteq DOMAIN values
<1>1. CASE fits
  <2>1. /\ ir' = Append(Append(header, loop), rebuild) /\ path' = body
        /\ outcome' = "emitting"
    BY <1>1 DEF BeginFor, Statement
  <2>2. Plain(init.code, path)
    BY EmitExprPlain
  <2>3. Plain(step.code, path)
    <3> DEFINE n == Len(ir) + Len(init.code)
    <3> HIDE DEF n
    <3>1. Plain(EmitExpr(s.step, width, n).code, path)
      BY EmitExprPlain
    <3> QED
      BY <3>1 DEF n
  <2>4. loop.op = "for" /\ loop.path = path
    <3> HIDE DEF before
    <3> QED
      BY DEF Operation
  <2>5. rebuild.op = "iv" /\ rebuild.path = body
    <3> HIDE DEF init, step, body
    <3> QED
      BY DEF Operation
  <2> HIDE DEF init, step, loop, rebuild
  <2>6. Grown(header, path)
    <3> DEFINE c == ir \o init.code
    <3>1. Grown(c, path)
      BY <2>2, GrowPlain
    <3>2. header = c \o step.code
      OBVIOUS
    <3> HIDE DEF c, header
    <3> QED
      BY <2>3, <3>1, <3>2, GrowPlain
  <2>7. body = Append(path, Block(Len(header) + 1, "body"))
    OBVIOUS
  <2> HIDE DEF header, body, op
  <2>8. Grown(ir', body)
    BY <2>1, <2>4, <2>5, <2>6, <2>7, GrowLoop
  <2> QED
    BY <2>1, <2>8 DEF Whole
<1>2. CASE ~fits
  BY <1>2 DEF BeginFor, Fail, Whole
<1> QED
  BY <1>1, <1>2

\* The yield closes the block at the innermost frame's depth.
LEMMA YieldCloses ==
  ASSUME TInv, Grown(ir, path), frames # <<>>, ir' = Append(ir, Yield)
  PROVE  /\ Finishes(ir, path, ir', Parent)
         /\ path[Len(path)].op = Top.op /\ path[Len(path)].arm = Top.arm
<1>1. Len(path) = Len(frames) /\ Len(frames) \in DOMAIN frames /\ Len(frames) \in Nat \ {0}
  BY Innermost DEF TInv
<1>2. path[Len(path)].op = Top.op /\ path[Len(path)].arm = Top.arm
  BY <1>1 DEF TInv, FramesFit, Top
<1>3. path # <<>>
  BY <1>1
<1>4. Yield.op = "yield" /\ Yield.path = path /\ Yield.attr = Top.op
  <2> DEFINE args == [s \in Top.carried |-> values[s]]
  <2>1. Yield = Operation("yield", path, args, <<>>, Top.op)
    BY DEF Yield
  <2> HIDE DEF args
  <2> QED
    BY <2>1 DEF Operation
<1>5. Parent = SubSeq(path, 1, Len(path) - 1)
  BY DEF Parent
<1>6. Finishes(ir, path, ir', Parent)
  BY <1>2, <1>3, <1>4, <1>5 DEF Finishes
<1> QED
  BY <1>2, <1>6

\* emitIf goes from the then block to the else block.
LEMMA BeginElseWhole == ASSUME TInv, Grown(ir, path), BeginElse PROVE Whole'
<1>1. /\ frames # <<>> /\ Top.arm = "then" /\ outcome' = "emitting"
      /\ ir' = Append(ir, Yield) /\ path' = Append(Parent, Block(Top.op, "else"))
  BY DEF BeginElse, Yielding, Statement, Inside
<1>2. /\ Finishes(ir, path, ir', Parent)
      /\ path[Len(path)].op = Top.op /\ path[Len(path)].arm = Top.arm
  BY <1>1, YieldCloses
<1>3. path' = Append(Parent, Block(path[Len(path)].op, "else")) /\ path[Len(path)].arm = "then"
  BY <1>1, <1>2
<1>4. Grown(ir', path')
  BY <1>2, <1>3, GrowElse
<1> QED
  BY <1>1, <1>4 DEF Whole

\* emitIf and emitFor leave the last block.
LEMMA LeaveWhole ==
  ASSUME TInv, Grown(ir, path), outcome = "emitting", NEW arm, arm # "then", Inside(arm), Leave
  PROVE  Whole'
<1>1. /\ frames # <<>> /\ Top.arm = arm /\ outcome' = "emitting"
      /\ ir' = Append(ir, Yield) /\ path' = Parent
  BY DEF Leave, Yielding, Inside
<1>2. Finishes(ir, path, ir', Parent) /\ path[Len(path)].arm = Top.arm
  BY <1>1, YieldCloses
<1>3. Grown(ir', Parent)
  BY <1>1, <1>2, GrowLeave
<1> QED
  BY <1>1, <1>3 DEF Whole

\* Every step of the walk.
LEMMA NextWhole == ASSUME TInv, Whole, [Next]_vars PROVE Whole'
<1> USE DEF Statement
<1>1. CASE EmitBinding
  BY <1>1, EmitBindingWhole DEF Whole, EmitBinding
<1>2. CASE EmitReturn
  BY <1>2, EmitReturnWhole DEF Whole, EmitReturn, TInv
<1>3. CASE EmitBlockBrace
  BY <1>3 DEF Whole, EmitBlockBrace
<1>4. CASE EmitUnsupported
  BY <1>4 DEF Whole, EmitUnsupported, Fail
<1>5. CASE FallOffTheEnd
  BY <1>5 DEF Whole, FallOffTheEnd, Fail
<1>6. CASE BeginIf
  BY <1>6, BeginIfWhole DEF Whole, BeginIf
<1>7. CASE BeginElse
  BY <1>7, BeginElseWhole DEF Whole, BeginElse
<1>8. CASE EndIf
  BY <1>8, LeaveWhole DEF Whole, EndIf
<1>9. CASE SkipFor
  BY <1>9, Zenon DEF Whole, SkipFor
<1>10. CASE BeginFor
  BY <1>10, BeginForWhole DEF Whole, BeginFor
<1>11. CASE EndFor
  BY <1>11, LeaveWhole DEF Whole, EndFor
<1>12. CASE UNCHANGED vars
  BY <1>12 DEF Whole, vars
<1> QED
  BY <1>1, <1>2, <1>3, <1>4, <1>5, <1>6, <1>7, <1>8, <1>9, <1>10, <1>11, <1>12 DEF Next

-----------------------------------------------------------------------------
\* Every block of the module being built is accounted for all through the
\* walk, whatever the listing: the insertion point is in it, or it is closed
\* for good, or it is an else block the walk has yet to come to.
THEOREM EveryBlockAccounted == Spec => []Whole
<1>1. Init => Whole
  BY InitWhole
<1>2. TInv /\ Whole /\ [Next]_vars => Whole'
  BY NextWhole
<1> QED
  BY <1>1, <1>2, TypedHolds, PTL DEF Spec

\* A module that is handed on is whole, whatever the listing: both branches
\* of each scf.if and the body of each scf.for end in their own one yield,
\* with nothing behind it, and the function in its one return.
THEOREM ModuleIsCompleteHolds == Spec => []ModuleIsComplete
<1>1. Whole => ModuleIsComplete
  <2> SUFFICES ASSUME Complete(ir) PROVE outcome = "done" => ModuleIsComplete
    BY DEF Whole, ModuleIsComplete
  <2>1. \A b : InBlock(b) = In(ir, b) /\ Terminators(b) = Ends(ir, b)
    BY DEF InBlock, Terminators, In, Ends
  <2>2. Terminators(<<>>) = {Len(ir)}
    BY <2>1 DEF Complete
  <2>3. ASSUME NEW q \in DOMAIN ir, NEW arm \in ArmsOf(ir[q].op)
        PROVE  \E last \in Terminators(Append(ir[q].path, Block(q, arm))) :
                 /\ Terminators(Append(ir[q].path, Block(q, arm))) = {last}
                 /\ \A other \in InBlock(Append(ir[q].path, Block(q, arm))) : other <= last
                 /\ ir[last].attr = q
    BY <2>1 DEF Complete, Closed, Child
  <2>4. \A op : /\ op = "if" => "then" \in ArmsOf(op) /\ "else" \in ArmsOf(op)
                /\ op = "for" => "body" \in ArmsOf(op)
    BY DEF ArmsOf
  <2> QED
    BY <2>2, <2>3, <2>4 DEF ModuleIsComplete
<1> QED
  BY <1>1, EveryBlockAccounted, PTL

-----------------------------------------------------------------------------
(***************************************************************************)
(* hwgen.                                                                  *)
(***************************************************************************)

\* An enumeration of a finite set is a sequence that has each element.
LEMMA Enumerated ==
  ASSUME NEW S, IsFiniteSet(S)
  PROVE  /\ DOMAIN Orders!SetToSeq(S) = 1 .. Cardinality(S)
         /\ Cardinality(S) \in Nat
         /\ \A s \in S : \E i \in 1 .. Cardinality(S) : Orders!SetToSeq(S)[i] = s
         /\ \A i \in 1 .. Cardinality(S) : Orders!SetToSeq(S)[i] \in S
<1> DEFINE n == Cardinality(S)
           f == Orders!SetToSeq(S)
           Injective(g) == \A a, b \in DOMAIN g : g[a] = g[b] => a = b
<1>1. n \in Nat /\ ExistsBijection(1 .. n, S)
  BY FS_CardinalityType
<1>2. PICK b \in Bijection(1 .. n, S) : TRUE
  BY <1>1 DEF ExistsBijection
<1>3. b \in [1 .. n -> S] /\ Injective(b)
  BY <1>2 DEF Bijection, Injection, Surjection, IsInjective
<1>4. f = CHOOSE g \in [1 .. n -> S] : Injective(g)
  <2>1. Orders!Cardinality(S) = n
    BY DEF Orders!Cardinality, Cardinality
  <2> QED
    BY <2>1 DEF Orders!SetToSeq, Orders!IsInjective
<1> HIDE DEF Injective
<1>5. f \in [1 .. n -> S] /\ Injective(f)
  BY <1>3, <1>4
<1> HIDE DEF f
<1>6. f \in Injection(1 .. n, S)
  BY <1>5 DEF Injection, IsInjective, Injective
<1>7. f \in Surjection(1 .. n, S)
  <2>1. Cardinality(1 .. n) = n
    BY <1>1, FS_Interval
  <2> QED
    BY <1>6, <2>1, FS_Injection
<1>8. \A s \in S : \E i \in 1 .. n : f[i] = s
  BY <1>7 DEF Surjection
<1> QED
  BY <1>1, <1>5, <1>8 DEF f

-----------------------------------------------------------------------------
(***************************************************************************)
(* What MLIRGen's list says of itself.  `lowered` has one entry per value, *)
(* found by all of the value's fields, so a use has to name its value      *)
(* exactly as the operation that makes it does; and the pass follows the   *)
(* nesting by what it meets in the list, so the list has to be the nesting *)
(* written out.                                                            *)
(***************************************************************************)
Here(p)    == p[Len(p)]
Outside(p) == SubSeq(p, 1, Len(p) - 1)

\* Where the walk stands behind o, the n-th operation.
After(o, n) ==
  CASE o.op = "if"    -> Append(o.path, Block(n, "then"))
    [] o.op = "for"   -> Append(o.path, Block(n, "body"))
    [] o.op = "yield" -> IF Here(o.path).arm = "then"
                         THEN Append(Outside(o.path), Block(Here(o.path).op, "else"))
                         ELSE Outside(o.path)
    [] OTHER -> o.path

\* The place of the q-th operation of c, or of the next one, at p.
Place(c, p, q) == IF q = Len(c) + 1 THEN p ELSE c[q].path
Walks(c, p) ==
  /\ Place(c, p, 1) = <<>>
  /\ \A q \in DOMAIN c : Place(c, p, q + 1) = After(c[q], q)

\* The q-th operation as the walk writes it; a yield is its block's.
Formed(c, o, q) ==
  /\ o.path \in Seq(Blocks)
  /\ o.op = "coerce" => o.attr.width \in Nat \ {0}
  /\ o.op = "compute" => o.attr.type \in Types
  /\ o.op \in {"if", "return"} => 1 \in DOMAIN o.operands
  /\ o.op = "return" => o.path = <<>>
  /\ o.op = "if" => DOMAIN o.attr \subseteq Symbols
  /\ o.op = "yield" =>
       /\ o.path # <<>> /\ o.attr = Here(o.path).op /\ o.attr \in 1 .. q - 1
       /\ DOMAIN o.args \subseteq Symbols
       /\ Here(o.path).arm # "body" => DOMAIN o.args = DOMAIN c[o.attr].attr

\* v is what c's operation at v.at makes.  Of loops nothing is said.
Makes(c, v) ==
  LET o == c[v.at]
  IN  CASE o.op = "coerce"  -> v = SSA(v.at, o.path, o.attr.width, <<>>)
        [] o.op = "compute" -> v = SSA(v.at, o.path, o.attr.type.width, <<>>)
        [] o.op = "yield"   ->
             \/ Here(o.path).arm = "body"
             \/ /\ Here(o.path).arm = "else"
                /\ \E s \in DOMAIN o.args :
                     v = SSA(v.at, c[o.attr].path, o.args[s].width, <<s>>)
        [] OTHER -> o.op \in {"for", "iv"}

Named(c, v) ==
  \/ \E s \in Params : v = Argument(s)
  \/ v.at \in DOMAIN c /\ Makes(c, v)

AllNamed(c, m) == \A s \in DOMAIN m : Named(c, m[s])

Built(c, p) ==
  /\ Sequence(c) /\ p \in Seq(Blocks) /\ Walks(c, p)
  /\ \A q \in DOMAIN c : Formed(c, c[q], q) /\ \A v \in Uses(c[q]) : Named(c, v)

-----------------------------------------------------------------------------
(***************************************************************************)
(* One operation more.                                                     *)
(***************************************************************************)
\* A name means the same later on.
LEMMA NamedLater ==
  ASSUME NEW c, NEW d, Extends(c, d), NEW v, Named(c, v),
         \A q \in DOMAIN c : c[q].op = "yield" => c[q].attr \in DOMAIN c
  PROVE  Named(d, v)
<1>1. CASE \E s \in Params : v = Argument(s)
  BY <1>1 DEF Named
<1>2. CASE v.at \in DOMAIN c /\ Makes(c, v)
  <2>1. v.at \in DOMAIN d /\ d[v.at] = c[v.at]
    BY <1>2, ExtendsKeeps
  <2>2. c[v.at].op = "yield" => d[c[v.at].attr] = c[c[v.at].attr]
    BY <1>2, ExtendsKeeps
  <2>3. Makes(d, v)
    BY <1>2, <2>1, <2>2 DEF Makes
  <2> QED
    BY <2>1, <2>3 DEF Named
<1> QED
  BY <1>1, <1>2 DEF Named

LEMMA YieldsBehind ==
  ASSUME NEW c, NEW p, Built(c, p), NEW q \in DOMAIN c, c[q].op = "yield"
  PROVE  c[q].attr \in DOMAIN c
<1>1. c[q].attr \in 1 .. q - 1
  BY DEF Built, Formed
<1>2. DOMAIN c = 1 .. Len(c) /\ Len(c) \in Nat
  BY SequenceDomain DEF Built
<1> QED
  BY <1>1, <1>2

LEMMA FormedLater ==
  ASSUME NEW c, NEW d, Extends(c, d), NEW o, NEW q \in 1 .. Len(c) + 1, Formed(c, o, q)
  PROVE  Formed(d, o, q)
<1>1. o.op = "yield" => o.attr \in DOMAIN c
  BY ExtendsLengths DEF Formed
<1>2. o.op = "yield" => d[o.attr] = c[o.attr]
  BY <1>1, ExtendsKeeps
<1> QED
  BY <1>2 DEF Formed

\* o is put behind c, where the walk stands, and makes d of it.
Puts(c, p, o, d, r) ==
  /\ Built(c, p) /\ o.path = p /\ Formed(c, o, Len(c) + 1)
  /\ \A v \in Uses(o) : Named(c, v)
  /\ d = Append(c, o)
  /\ r = After(o, Len(c) + 1) /\ r \in Seq(Blocks)

LEMMA BuildOne ==
  ASSUME NEW c, NEW p, NEW o, NEW d, NEW r, Puts(c, p, o, d, r)
  PROVE  /\ Built(d, r) /\ Extends(c, d) /\ Len(d) = Len(c) + 1 /\ Len(c) \in Nat
         /\ d[Len(c) + 1] = o
         /\ \A v : Named(c, v) => Named(d, v)
<1> USE DEF Puts
<1>1. /\ Extends(c, d) /\ Len(c) \in Nat /\ Len(d) = Len(c) + 1
      /\ Added(c, d) = {Len(c) + 1} /\ d[Len(c) + 1] = o
  BY ExtendsAppend DEF Built
<1>2. DOMAIN c = 1 .. Len(c) /\ DOMAIN d = 1 .. Len(c) + 1
  BY <1>1, ExtendsLengths
<1>3. \A q \in DOMAIN c : d[q] = c[q]
  BY <1>1, ExtendsKeeps
<1>4. \A v : Named(c, v) => Named(d, v)
  BY <1>1, YieldsBehind, NamedLater
<1>5. ASSUME NEW q \in DOMAIN d
      PROVE  Formed(d, d[q], q) /\ \A v \in Uses(d[q]) : Named(d, v)
  <2>1. CASE q = Len(c) + 1
    <3>1. Formed(d, o, q)
      BY <1>1, <2>1, FormedLater
    <3> QED
      BY <1>1, <1>4, <2>1, <3>1
  <2>2. CASE q \in DOMAIN c
    <3>1. Formed(c, c[q], q) /\ \A v \in Uses(c[q]) : Named(c, v)
      BY <2>2 DEF Built
    <3>2. q \in 1 .. Len(c) + 1
      BY <1>1, <1>2, <2>2
    <3>3. Formed(d, c[q], q)
      BY <1>1, <3>1, <3>2, FormedLater
    <3> QED
      BY <1>3, <1>4, <2>2, <3>1, <3>3
  <2> QED
    BY <1>1, <1>2, <2>1, <2>2
<1>6. Walks(d, r)
  <2>1. Place(d, r, 1) = <<>>
    <3>1. CASE c = <<>>
      <4>1. Len(c) = 0
        BY <3>1
      <4>2. p = <<>>
        BY <4>1 DEF Built, Walks, Place
      <4> QED
        BY <1>1, <4>1, <4>2 DEF Place
    <3>2. CASE c # <<>>
      <4>1. Len(c) # 0
        BY <1>1, <3>2 DEF Extends, Sequence
      <4>2. c[1].path = <<>> /\ 1 \in DOMAIN c
        BY <1>1, <1>2, <4>1 DEF Built, Walks, Place
      <4> QED
        BY <1>1, <1>3, <4>1, <4>2 DEF Place
    <3> QED
      BY <3>1, <3>2
  <2>2. ASSUME NEW q \in DOMAIN d PROVE Place(d, r, q + 1) = After(d[q], q)
    <3>1. CASE q = Len(c) + 1
      BY <1>1, <3>1 DEF Place
    <3>2. CASE q \in DOMAIN c
      <4>1. Place(c, p, q + 1) = After(c[q], q) /\ d[q] = c[q]
        BY <1>3, <3>2 DEF Built, Walks
      <4>2. Place(d, r, q + 1) = Place(c, p, q + 1)
        <5>1. CASE q = Len(c)
          BY <1>1, <5>1 DEF Place
        <5>2. CASE q # Len(c)
          <6>1. q + 1 \in DOMAIN c /\ q + 1 # Len(c) + 1 /\ q + 1 # Len(d) + 1
            BY <1>1, <1>2, <3>2, <5>2
          <6> QED
            BY <1>3, <6>1 DEF Place
        <5> QED
          BY <5>1, <5>2
      <4> QED
        BY <4>1, <4>2
    <3> QED
      BY <1>1, <1>2, <3>1, <3>2
  <2> QED
    BY <2>1, <2>2 DEF Walks
<1> QED
  BY <1>1, <1>4, <1>5, <1>6 DEF Built, Extends

-----------------------------------------------------------------------------
(***************************************************************************)
(* coerce and emit(Expr&), behind a module c.                              *)
(***************************************************************************)
LEMMA ConcatOne == ASSUME NEW c, Sequence(c), NEW o PROVE c \o <<o>> = Append(c, o)
<1> DEFINE S == {c[i] : i \in DOMAIN c} \cup {o}
<1>1. c \in Seq(S) /\ o \in S
  BY DEF Sequence
<1> HIDE DEF S
<1> QED
  BY <1>1

LEMMA ConcatNone == ASSUME NEW c, Sequence(c) PROVE c \o <<>> = c
<1> DEFINE S == {c[i] : i \in DOMAIN c}
<1>1. c \in Seq(S)
  BY DEF Sequence
<1> HIDE DEF S
<1> QED
  BY <1>1

LEMMA ConcatTwice ==
  ASSUME NEW c, Sequence(c), NEW s, Sequence(s), NEW t, Sequence(t)
  PROVE  c \o (s \o t) = (c \o s) \o t
<1> DEFINE S == {c[i] : i \in DOMAIN c} \cup {s[i] : i \in DOMAIN s} \cup {t[i] : i \in DOMAIN t}
<1>1. c \in Seq(S) /\ s \in Seq(S) /\ t \in Seq(S)
  BY DEF Sequence
<1> HIDE DEF S
<1> QED
  BY <1>1

\* What d makes of c: it was built behind c, at p, and has a name for v.
Behind(c, d, p, v) ==
  /\ Built(d, p) /\ Extends(c, d)
  /\ Named(d, v)
  /\ \A u : Named(c, u) => Named(d, u)

LEMMA CoerceBuilt ==
  ASSUME NEW c, Built(c, path), NEW v, Named(c, v), NEW type, NEW width \in Nat \ {0},
         NEW r, r = Coerce(v, type, width, Len(c))
  PROVE  Sequence(r.code) /\ Behind(c, c \o r.code, path, r.value)
<1>1. Sequence(c) /\ path \in Seq(Blocks)
  BY DEF Built
<1>2. CASE v.width = width
  <2>1. r.code = <<>> /\ r.value = v
    BY <1>2 DEF Coerce
  <2>2. c \o r.code = c
    BY <1>1, <2>1, ConcatNone
  <2>3. Sequence(r.code)
    BY <2>1, SoundNone
  <2>4. Extends(c, c)
    BY <1>1, SequenceDomain DEF Extends
  <2> QED
    BY <2>1, <2>2, <2>3, <2>4 DEF Behind
<1>3. CASE v.width # width
  <2> DEFINE attr == [isSigned |-> type.isSigned, width |-> width]
             o    == Operation("coerce", path, NoValues, <<v>>, attr)
             d    == Append(c, o)
             u    == SSA(Len(c) + 1, path, width, <<>>)
  <2>1. r.code = <<o>> /\ r.value = u
    BY <1>3 DEF Coerce
  <2>2. attr.width = width
    OBVIOUS
  <2> HIDE DEF attr
  <2>3. o.op = "coerce" /\ o.path = path /\ o.attr = attr /\ Uses(o) = {v}
    BY UsesOfOne DEF Operation
  <2> HIDE DEF o
  <2>4. Formed(c, o, Len(c) + 1)
    BY <1>1, <2>2, <2>3 DEF Formed
  <2>5. After(o, Len(c) + 1) = path
    BY <2>3 DEF After
  <2>6. /\ Built(d, path) /\ Extends(c, d) /\ Len(d) = Len(c) + 1 /\ Len(c) \in Nat
        /\ d[Len(c) + 1] = o /\ \A w : Named(c, w) => Named(d, w)
    <3>1. Puts(c, path, o, d, path)
      BY <1>1, <2>3, <2>4, <2>5 DEF Puts
    <3> QED
      BY <3>1, BuildOne
  <2>7. Sequence(<<o>>) /\ c \o <<o>> = d
    <3>1. <<o>> \in Seq({o})
      OBVIOUS
    <3> QED
      BY <1>1, <3>1, SequenceOf, ConcatOne
  <2>8. Named(d, u)
    <3>1. u.at = Len(c) + 1 /\ u.at \in DOMAIN d
      BY <2>6, ExtendsLengths DEF SSA
    <3>2. Makes(d, u)
      BY <2>2, <2>3, <2>6, <3>1 DEF Makes
    <3> QED
      BY <3>1, <3>2 DEF Named
  <2> HIDE DEF d, u
  <2> QED
    BY <2>1, <2>6, <2>7, <2>8 DEF Behind
<1> QED
  BY <1>2, <1>3

LEMMA ExprBuilt ==
  ASSUME NEW c, Built(c, path), AllNamed(c, values), NEW e, e.type \in Types,
         NEW width \in Nat \ {0}, NEW r, r = EmitExpr(e, width, Len(c))
  PROVE  Sequence(r.code) /\ Behind(c, c \o r.code, path, r.value)
<1>1. CASE e.op = "name" /\ e.args[1] \in DOMAIN values
  <2>1. r = Coerce(values[e.args[1]], e.type, width, Len(c))
    BY <1>1 DEF EmitExpr
  <2>2. Named(c, values[e.args[1]])
    BY <1>1 DEF AllNamed
  <2> QED
    BY <2>1, <2>2, CoerceBuilt
<1>2. CASE ~(e.op = "name" /\ e.args[1] \in DOMAIN values)
  <2> DEFINE n    == Len(c)
             args == [s \in Reads(e) \cap DOMAIN values |-> values[s]]
             o    == Operation("compute", path, args, <<>>, e)
             d    == Append(c, o)
             made == SSA(n + 1, path, e.type.width, <<>>)
             fit  == Coerce(made, e.type, width, n + 1)
  <2>1. r.code = <<o>> \o fit.code /\ r.value = fit.value
    BY <1>2 DEF EmitExpr
  <2>2. Sequence(c) /\ path \in Seq(Blocks)
    BY DEF Built
  <2>3. \A k \in DOMAIN args : Named(c, args[k])
    BY DEF AllNamed
  <2> HIDE DEF args
  <2>4. o.op = "compute" /\ o.path = path /\ o.attr = e
    BY DEF Operation
  <2>5. Uses(o) = {args[k] : k \in DOMAIN args}
    BY UsesOfArgs
  <2>6. \A v \in Uses(o) : Named(c, v)
    BY <2>3, <2>5
  <2> HIDE DEF o
  <2>7. Formed(c, o, n + 1)
    BY <2>2, <2>4 DEF Formed
  <2>8. After(o, n + 1) = path
    BY <2>4 DEF After
  <2>9. /\ Built(d, path) /\ Extends(c, d) /\ Len(d) = n + 1 /\ n \in Nat
        /\ d[n + 1] = o /\ \A w : Named(c, w) => Named(d, w)
    <3>1. Puts(c, path, o, d, path)
      BY <2>2, <2>4, <2>6, <2>7, <2>8 DEF Puts
    <3> QED
      BY <3>1, BuildOne
  <2>10. Named(d, made)
    <3>1. made.at = n + 1 /\ made.at \in DOMAIN d
      <4>1. made.at = n + 1
        BY DEF SSA
      <4>2. Len(d) = n + 1 /\ n \in Nat /\ DOMAIN d = 1 .. Len(d)
        BY <2>9, ExtendsLengths
      <4> HIDE DEF made, d, n
      <4> QED
        BY <4>1, <4>2
    <3>2. Makes(d, made)
      BY <2>4, <2>9, <3>1 DEF Makes
    <3> QED
      BY <3>1, <3>2 DEF Named
  <2>11. fit = Coerce(made, e.type, width, Len(d))
    BY <2>9
  <2>12. Sequence(<<o>>) /\ c \o <<o>> = d
    <3>1. <<o>> \in Seq({o})
      OBVIOUS
    <3> QED
      BY <2>2, <3>1, SequenceOf, ConcatOne
  <2> HIDE DEF d, made, fit, n
  <2>13. Sequence(fit.code) /\ Behind(d, d \o fit.code, path, fit.value)
    BY <2>9, <2>10, <2>11, CoerceBuilt
  <2>14. c \o r.code = d \o fit.code /\ Sequence(r.code)
    <3> DEFINE one == <<o>>
    <3>1. Sequence(one) /\ c \o one = d /\ r.code = one \o fit.code
      BY <2>1, <2>12
    <3> HIDE DEF one
    <3>2. c \o (one \o fit.code) = (c \o one) \o fit.code
      <4> DEFINE t == fit.code
      <4>1. Sequence(t)
        BY <2>13
      <4> HIDE DEF t
      <4>2. Sequence(one)
        BY <3>1
      <4>3. Sequence(c)
        BY <2>2
      <4>4. c \o (one \o t) = (c \o one) \o t
        BY <4>1, <4>2, <4>3, ConcatTwice
      <4> QED
        BY <4>4 DEF t
    <3>3. Sequence(r.code)
      BY <2>13, <3>1, SequenceConcat
    <3> QED
      BY <3>1, <3>2, <3>3, Zenon
  <2>15. Extends(c, d \o fit.code)
    BY <2>9, <2>13 DEF Behind, Extends
  <2> QED
    BY <2>1, <2>9, <2>13, <2>14, <2>15 DEF Behind
<1> QED
  BY <1>1, <1>2

-----------------------------------------------------------------------------
(***************************************************************************)
(* The invariant of the walk.  What was saved before a region is named     *)
(* again behind it, so that it has to be named all the while.              *)
(***************************************************************************)
Remembered(c, m, fs) ==
  /\ AllNamed(c, m)
  /\ \A k \in 1 .. Len(fs) :
       /\ AllNamed(c, fs[k].entry)
       /\ fs[k].op \in DOMAIN c
       /\ fs[k].arm # "body" => DOMAIN c[fs[k].op].attr = fs[k].carried

Written ==
  /\ outcome # "failed" => Built(ir, path) /\ Remembered(ir, values, frames)
  /\ outcome = "done" => ir # <<>> /\ ir[Len(ir)].op = "return"

Compiled == TInv /\ Whole /\ Written

LEMMA RememberedLater ==
  ASSUME NEW c, NEW d, Extends(c, d), \A v : Named(c, v) => Named(d, v),
         NEW m, NEW fs, Remembered(c, m, fs)
  PROVE  Remembered(d, m, fs)
<1>1. \A q \in DOMAIN c : q \in DOMAIN d /\ d[q] = c[q]
  BY ExtendsKeeps
<1> QED
  BY <1>1 DEF Remembered, AllNamed

LEMMA InitWritten == Init => Written
<1> SUFFICES ASSUME Init PROVE Written
  OBVIOUS
<1>1. ir = <<>> /\ path = <<>> /\ frames = <<>> /\ outcome = "emitting"
  BY DEF Init
<1>2. Sequence(<<>>) /\ DOMAIN <<>> = {} /\ Len(<<>>) = 0 /\ <<>> \in Seq(Blocks)
  BY SoundNone
<1>3. Built(ir, path)
  BY <1>1, <1>2 DEF Built, Walks, Place
<1>4. AllNamed(ir, values)
  BY DEF Init, AllNamed, Named, Argument
<1> QED
  BY <1>1, <1>2, <1>3, <1>4 DEF Written, Remembered

LEMMA FailWritten == ASSUME Fail PROVE Written'
  BY DEF Fail, Written

\* Code behind the module, and what stays remembered.
LEMMA MoreWritten ==
  ASSUME Written, outcome = "emitting", outcome' = "emitting",
         NEW d, ir' = d, Extends(ir, d), \A v : Named(ir, v) => Named(d, v),
         Built(d, path'), Remembered(d, values', frames')
  PROVE  Written'
  BY DEF Written

\* The code behind the next expression.
LEMMA NextExprBuilt ==
  ASSUME TInv, Written, outcome # "failed", NEW e, e.type \in Types,
         NEW width \in Nat \ {0}, NEW r, r = EmitExpr(e, width, Len(ir))
  PROVE  /\ Sequence(r.code) /\ Behind(ir, ir \o r.code, path, r.value)
         /\ Remembered(ir \o r.code, values, frames)
<1>1. Built(ir, path) /\ Remembered(ir, values, frames)
  BY DEF Written
<1>2. Sequence(r.code) /\ Behind(ir, ir \o r.code, path, r.value)
  BY <1>1, ExprBuilt DEF Remembered
<1> QED
  BY <1>1, <1>2, RememberedLater DEF Behind

LEMMA EmitBindingWritten == ASSUME TInv, Written, EmitBinding PROVE Written'
<1> DEFINE s == prog[pc]
           e == EmitExpr(s.expr, TypeOf[s.sym].width, Len(ir))
           d == ir \o e.code
<1>1. CASE HasValue(s.expr)
  <2>1. /\ Statement({"decl", "assign"}) /\ values' = Bind(values, s.sym, e.value)
        /\ ir' = d /\ UNCHANGED <<prog, path, frames, outcome>>
    BY <1>1 DEF EmitBinding
  <2>2. e = EmitExpr(s.expr, TypeOf[s.sym].width, Len(ir)) /\ d = ir \o e.code
    OBVIOUS
  <2> HIDE DEF e, d
  <2>3. outcome = "emitting" /\ s.sym \in Symbols /\ s.expr.type \in Types
    BY <2>1, Listed
  <2>4. TypeOf[s.sym].width \in Nat \ {0}
    BY <2>3, SymbolWidth
  <2> HIDE DEF s
  <2>5. Behind(ir, d, path, e.value) /\ Remembered(d, values, frames)
    BY <2>2, <2>3, <2>4, NextExprBuilt
  <2>6. AllNamed(d, values')
    BY <2>1, <2>5 DEF AllNamed, Bind, Behind, Remembered
  <2>7. Remembered(d, values', frames')
    BY <2>1, <2>5, <2>6 DEF Remembered
  <2> QED
    BY <2>1, <2>3, <2>5, <2>7, MoreWritten, Zenon DEF Behind
<1>2. CASE ~HasValue(s.expr)
  BY <1>2, FailWritten DEF EmitBinding
<1> QED
  BY <1>1, <1>2

LEMMA EmitReturnWritten == ASSUME TInv, Written, EmitReturn PROVE Written'
<1> DEFINE s == prog[pc]
           e == EmitExpr(s.expr, ReturnType.width, Len(ir))
           c == ir \o e.code
           o == Operation("return", path, NoValues, <<e.value>>, ReturnType)
<1>1. CASE HasValue(s.expr) /\ frames = <<>>
  <2>1. /\ Statement({"return"}) /\ ir' = Append(c, o) /\ outcome' = "done"
        /\ UNCHANGED <<prog, pc, values, path, frames>>
    BY <1>1 DEF EmitReturn
  <2>2. e = EmitExpr(s.expr, ReturnType.width, Len(ir)) /\ c = ir \o e.code
    OBVIOUS
  <2> HIDE DEF e, c
  <2>3. outcome = "emitting" /\ s.expr.type \in Types
    BY <2>1, Listed
  <2>4. ReturnType.width \in Nat \ {0}
    BY ProgramAssumption DEF Types
  <2> HIDE DEF s
  <2>5. Behind(ir, c, path, e.value) /\ Remembered(c, values, frames)
    BY <2>2, <2>3, <2>4, NextExprBuilt
  <2>6. path = <<>>
    BY <1>1 DEF TInv, IInv, Shape
  <2>7. /\ o.op = "return" /\ o.path = path /\ Uses(o) = {e.value} /\ 1 \in DOMAIN o.operands
    BY UsesOfOne DEF Operation
  <2> HIDE DEF o
  <2>8. Formed(c, o, Len(c) + 1) /\ After(o, Len(c) + 1) = path /\ path \in Seq(Blocks)
    BY <2>6, <2>7 DEF Formed, After
  <2>9. /\ Built(ir', path) /\ Extends(c, ir') /\ Len(ir') = Len(c) + 1 /\ Len(c) \in Nat
        /\ ir'[Len(c) + 1] = o /\ \A v : Named(c, v) => Named(ir', v)
    <3>1. Puts(c, path, o, ir', path)
      BY <2>1, <2>5, <2>7, <2>8 DEF Behind, Puts
    <3> QED
      BY <3>1, BuildOne
  <2>10. Remembered(ir', values, frames)
    BY <2>5, <2>9, RememberedLater
  <2>11. ir' # <<>> /\ ir'[Len(ir')].op = "return"
    BY <2>7, <2>9
  <2> QED
    BY <2>1, <2>9, <2>10, <2>11 DEF Written
<1>2. CASE ~(HasValue(s.expr) /\ frames = <<>>)
  BY <1>2, FailWritten DEF EmitReturn
<1> QED
  BY <1>1, <1>2

\* A frame more, for the region just entered.
LEMMA RememberedOpen ==
  ASSUME NEW c, NEW m, NEW fs, Sequence(fs), Remembered(c, values, fs), AllNamed(c, m),
         NEW f, AllNamed(c, f.entry), f.op \in DOMAIN c,
         f.arm # "body" => DOMAIN c[f.op].attr = f.carried
  PROVE  Remembered(c, m, Append(fs, f))
<1>1. /\ Len(Append(fs, f)) = Len(fs) + 1 /\ Len(fs) \in Nat
      /\ \A i \in 1 .. Len(fs) : Append(fs, f)[i] = fs[i]
      /\ Append(fs, f)[Len(fs) + 1] = f
  BY SequenceAppend, SequenceDomain
<1> DEFINE gs == Append(fs, f)
<1> HIDE DEF gs
<1>2. ASSUME NEW k \in 1 .. Len(fs) + 1 PROVE gs[k] = f \/ (k \in 1 .. Len(fs) /\ gs[k] = fs[k])
  BY <1>1 DEF gs
<1>3. Len(gs) = Len(fs) + 1
  BY <1>1 DEF gs
<1>4. Remembered(c, m, gs)
  BY <1>2, <1>3 DEF Remembered
<1> QED
  BY <1>4 DEF gs

LEMMA BeginIfWritten == ASSUME TInv, TInv', Written, BeginIf PROVE Written'
<1> DEFINE s       == prog[pc]
           cond    == EmitExpr(s.expr, s.expr.type.width, Len(ir))
           carried == CollectAssigned(prog, pc)
           op      == Len(ir) + Len(cond.code) + 1
           widths  == [x \in carried |-> values[x].width]
           c       == ir \o cond.code
           o       == Operation("if", path, NoValues, <<cond.value>>, widths)
           f       == Frame("then", op, carried, values)
<1>1. CASE HasValue(s.expr) /\ carried \subseteq DOMAIN values
  <2>1. /\ Statement({"if"}) /\ ir' = Append(c, o)
        /\ path' = Append(path, Block(op, "then")) /\ frames' = Append(frames, f)
        /\ UNCHANGED <<prog, values, outcome>>
    BY <1>1 DEF BeginIf
  <2>2. cond = EmitExpr(s.expr, s.expr.type.width, Len(ir)) /\ c = ir \o cond.code
    OBVIOUS
  <2>3. op = Len(ir) + Len(cond.code) + 1 /\ DOMAIN widths = carried
    OBVIOUS
  <2>4. f.op = op /\ f.arm = "then" /\ f.carried = carried /\ f.entry = values
    BY DEF Frame
  <2> HIDE DEF cond, c, widths, op, f
  <2>5. /\ o.op = "if" /\ o.path = path /\ Uses(o) = {cond.value} /\ o.attr = widths
        /\ 1 \in DOMAIN o.operands
    BY UsesOfOne DEF Operation
  <2> HIDE DEF o
  <2>6. outcome = "emitting" /\ s.expr.type \in Types
    BY <2>1, Listed
  <2>7. s.expr.type.width \in Nat \ {0}
    BY <2>6 DEF Types
  <2> HIDE DEF s
  <2>8. /\ Sequence(cond.code) /\ Behind(ir, c, path, cond.value)
        /\ Remembered(c, values, frames)
    BY <2>2, <2>6, <2>7, NextExprBuilt
  <2>9. op = Len(c) + 1
    <3>1. Sequence(ir)
      BY DEF TInv, IInv, Shape
    <3> QED
      BY <2>2, <2>3, <2>8, <3>1, SequenceConcat
  <2>10. path \in Seq(Blocks) /\ path' \in Seq(Blocks)
    BY DEF TInv, IInv, Shape
  <2>11. Formed(c, o, Len(c) + 1)
    <3>1. carried \subseteq Symbols
      BY <1>1 DEF TInv, TypedBindings
    <3> QED
      BY <2>3, <2>5, <2>10, <3>1 DEF Formed
  <2>12. After(o, Len(c) + 1) = path'
    BY <2>1, <2>5, <2>9 DEF After
  <2>13. /\ Built(ir', path') /\ Extends(c, ir') /\ Len(ir') = Len(c) + 1 /\ Len(c) \in Nat
         /\ ir'[Len(c) + 1] = o /\ \A v : Named(c, v) => Named(ir', v)
    <3>1. Puts(c, path, o, ir', path')
      BY <2>1, <2>5, <2>8, <2>10, <2>11, <2>12 DEF Behind, Puts
    <3> QED
      BY <3>1, BuildOne
  <2>14. Remembered(ir', values, frames)
    BY <2>8, <2>13, RememberedLater
  <2>15. op \in DOMAIN ir' /\ ir'[op] = o
    BY <2>9, <2>13, ExtendsLengths
  <2>16. Remembered(ir', values', frames')
    <3>1. Sequence(frames) /\ AllNamed(ir', values)
      BY <2>14 DEF TInv, IInv, Shape, Remembered
    <3>2. DOMAIN ir'[f.op].attr = f.carried
      BY <2>3, <2>4, <2>5, <2>15
    <3>3. f.op \in DOMAIN ir' /\ AllNamed(ir', f.entry)
      BY <2>4, <2>15, <3>1
    <3>4. Remembered(ir', values, Append(frames, f))
      BY <2>14, <3>1, <3>2, <3>3, RememberedOpen
    <3> QED
      BY <2>1, <3>4
  <2> QED
    BY <2>1, <2>6, <2>13, <2>16, Zenon DEF Written
<1>2. CASE ~(HasValue(s.expr) /\ carried \subseteq DOMAIN values)
  BY <1>2, FailWritten DEF BeginIf
<1> QED
  BY <1>1, <1>2

\* A loop's header: two expressions one behind the other.
LEMMA NextTwoBuilt ==
  ASSUME TInv, Written, outcome # "failed", NEW e, NEW f, e.type \in Types, f.type \in Types,
         NEW width \in Nat \ {0},
         NEW a, a = EmitExpr(e, width, Len(ir)),
         NEW b, b = EmitExpr(f, width, Len(ir) + Len(a.code)),
         NEW header, header = ir \o a.code \o b.code
  PROVE  /\ Built(header, path) /\ Remembered(header, values, frames)
         /\ Named(header, a.value) /\ Named(header, b.value)
<1> DEFINE c == ir \o a.code
<1>1. Sequence(a.code) /\ Behind(ir, c, path, a.value) /\ Remembered(c, values, frames)
  BY NextExprBuilt
<1>2. Len(c) = Len(ir) + Len(a.code)
  <2>1. Sequence(ir)
    BY DEF TInv, IInv, Shape
  <2> QED
    BY <1>1, <2>1, SequenceConcat
<1>3. header = c \o b.code /\ b = EmitExpr(f, width, Len(c))
  BY <1>2
<1> HIDE DEF c
<1>4. Built(c, path) /\ AllNamed(c, values)
  BY <1>1 DEF Behind, Remembered
<1>5. Behind(c, header, path, b.value)
  BY <1>3, <1>4, ExprBuilt
<1>6. Remembered(header, values, frames)
  BY <1>1, <1>5, RememberedLater DEF Behind
<1> QED
  BY <1>1, <1>5, <1>6 DEF Behind

LEMMA UsesOfTwo ==
  ASSUME NEW op, NEW p, NEW v, NEW w, NEW attr
  PROVE  /\ Uses(Operation(op, p, NoValues, <<v, w>>, attr)) = {v, w}
         /\ Operation(op, p, NoValues, <<v, w>>, attr).op = op
         /\ Operation(op, p, NoValues, <<v, w>>, attr).path = p
  BY DEF Uses, Operation, NoValues

\* The values of a loop have names, whatever they are.
LEMMA LoopNamed ==
  ASSUME NEW c, NEW n \in DOMAIN c, c[n].op \in {"for", "iv"}, NEW p, NEW width, NEW of
  PROVE  Named(c, SSA(n, p, width, of))
<1> DEFINE v == SSA(n, p, width, of)
<1>1. v.at = n
  BY DEF SSA
<1> HIDE DEF v
<1>2. Makes(c, v)
  BY <1>1 DEF Makes
<1>3. Named(c, v)
  BY <1>1, <1>2 DEF Named
<1> QED
  BY <1>3 DEF v

LEMMA BeginForWritten == ASSUME TInv, TInv', Written, BeginFor PROVE Written'
<1> DEFINE s       == prog[pc]
           width   == TypeOf[s.sym].width
           carried == CollectAssigned(prog, pc) \ {s.sym}
           init    == EmitExpr(s.init, width, Len(ir))
           step    == EmitExpr(s.step, width, Len(ir) + Len(init.code))
           header  == ir \o init.code \o step.code
           op      == Len(header) + 1
           body    == Append(path, Block(op, "body"))
           args    == [c \in carried |-> SSA(op, body, values[c].width, <<c>>)]
           iv      == SSA(op + 1, body, width, <<>>)
           before  == [c \in carried |-> values[c]]
           loop    == Operation("for", path, before, <<>>, s.tripCount)
           rebuild == Operation("iv", body, NoValues, <<init.value, step.value>>, s.stepIsAdd)
           f       == Frame("body", op, carried, values)
           fits    == /\ s.tripCount # NoTripCount
                      /\ s.tripCount <= MaxIndex
                      /\ HasValue(s.init)
                      /\ HasValue(s.step)
                      /\ carried \subseteq DOMAIN values
<1>1. CASE fits
  <2>1. /\ Statement({"for"}) /\ ir' = Append(Append(header, loop), rebuild)
        /\ values' = Rebind(Bind(values, s.sym, iv), args) /\ path' = body
        /\ frames' = Append(frames, f) /\ UNCHANGED outcome
    BY <1>1 DEF BeginFor
  <2>2. loop.op = "for" /\ loop.path = path /\ Uses(loop) = {before[c] : c \in DOMAIN before}
    <3> HIDE DEF before
    <3> QED
      BY UsesOfArgs DEF Operation
  <2>3. DOMAIN before = carried /\ \A c \in carried : before[c] = values[c]
    OBVIOUS
  <2>4. rebuild.op = "iv" /\ rebuild.path = body /\ Uses(rebuild) = {init.value, step.value}
    <3> HIDE DEF init, step, body
    <3> QED
      BY UsesOfTwo
  <2>5. /\ init = EmitExpr(s.init, width, Len(ir))
        /\ step = EmitExpr(s.step, width, Len(ir) + Len(init.code))
        /\ header = ir \o init.code \o step.code
    OBVIOUS
  <2>6. outcome = "emitting" /\ s.sym \in Symbols /\ s.init.type \in Types /\ s.step.type \in Types
    <3>1. Statement({"for"})
      BY <2>1
    <3>2. /\ outcome = "emitting" /\ prog[pc].sym \in Symbols
          /\ {prog[pc].init.type, prog[pc].step.type} \subseteq Types
      BY <3>1, Listed
    <3> QED
      BY <3>2, Zenon
  <2>7. width \in Nat \ {0}
    BY <2>6, SymbolWidth
  <2>8. f.op = op /\ f.arm = "body" /\ f.entry = values
    BY DEF Frame
  <2>9. op = Len(header) + 1 /\ body = Append(path, Block(op, "body"))
    BY Zenon
  <2>10. /\ DOMAIN args = carried
         /\ \A c \in carried : args[c] = SSA(op, body, values[c].width, <<c>>)
         /\ iv = SSA(op + 1, body, width, <<>>)
    OBVIOUS
  <2>11. carried \subseteq DOMAIN values
    BY <1>1
  <2> HIDE DEF loop, rebuild, before, args, iv, f, init, step, header, op, body, width, carried, s
  <2>12. /\ Built(header, path) /\ Remembered(header, values, frames)
         /\ Named(header, init.value) /\ Named(header, step.value)
    BY <2>5, <2>6, <2>7, NextTwoBuilt
  <2>13. path \in Seq(Blocks) /\ body \in Seq(Blocks) /\ Sequence(frames)
    BY <2>1 DEF TInv, IInv, Shape
  <2> DEFINE mid == Append(header, loop)
  <2>27. mid = Append(header, loop) /\ ir' = Append(mid, rebuild)
    BY <2>1
  <2> HIDE DEF mid
  <2>14. \A v \in Uses(loop) : Named(header, v)
    BY <2>2, <2>3, <2>11, <2>12 DEF Remembered, AllNamed
  <2>15. Formed(header, loop, Len(header) + 1) /\ After(loop, Len(header) + 1) = body
    BY <2>2, <2>9, <2>13 DEF Formed, After
  <2>16. /\ Built(mid, body) /\ Extends(header, mid) /\ Len(mid) = Len(header) + 1
         /\ Len(header) \in Nat /\ mid[Len(header) + 1] = loop
         /\ \A v : Named(header, v) => Named(mid, v)
    <3>1. Puts(header, path, loop, mid, body)
      BY <2>2, <2>12, <2>13, <2>14, <2>15, <2>27 DEF Puts
    <3> QED
      BY <3>1, BuildOne
  <2>18. Formed(mid, rebuild, Len(mid) + 1) /\ After(rebuild, Len(mid) + 1) = body
    BY <2>4, <2>13 DEF Formed, After
  <2>19. \A v \in Uses(rebuild) : Named(mid, v)
    BY <2>4, <2>12, <2>16
  <2>20. /\ Built(ir', body) /\ Extends(mid, ir') /\ Len(ir') = Len(mid) + 1
         /\ ir'[Len(mid) + 1] = rebuild /\ \A v : Named(mid, v) => Named(ir', v)
    <3>1. Puts(mid, body, rebuild, ir', body)
      BY <2>4, <2>13, <2>16, <2>27, <2>18, <2>19 DEF Puts
    <3> QED
      BY <3>1, BuildOne
  <2>21. /\ op \in DOMAIN ir' /\ ir'[op] = loop
         /\ op + 1 \in DOMAIN ir' /\ ir'[op + 1] = rebuild
    <3>1. op \in DOMAIN mid /\ mid[op] = loop
      BY <2>9, <2>16, ExtendsLengths
    <3>2. op \in DOMAIN ir' /\ ir'[op] = mid[op]
      BY <2>20, <3>1, ExtendsKeeps
    <3>3. op + 1 \in DOMAIN ir'
      BY <2>9, <2>16, <2>20, ExtendsLengths
    <3> QED
      BY <2>9, <2>16, <2>20, <3>1, <3>2, <3>3
  <2>22. \A v : Named(header, v) => Named(ir', v)
    BY <2>16, <2>20
  <2>23. Extends(header, ir')
    BY <2>16, <2>20 DEF Extends
  <2>24. Remembered(ir', values, frames)
    BY <2>12, <2>22, <2>23, RememberedLater
  <2>25. AllNamed(ir', values')
    <3> SUFFICES ASSUME NEW t \in DOMAIN values' PROVE Named(ir', values'[t])
      BY DEF AllNamed
    <3>1. CASE t \in carried
      <4>1. values'[t] = SSA(op, body, values[t].width, <<t>>)
        BY <2>1, <2>10, <3>1 DEF Rebind
      <4> QED
        BY <2>2, <2>21, <4>1, LoopNamed
    <3>2. CASE t \notin carried /\ t = s.sym
      <4>1. values'[t] = SSA(op + 1, body, width, <<>>)
        BY <2>1, <2>10, <3>2 DEF Rebind, Bind
      <4> QED
        BY <2>4, <2>21, <4>1, LoopNamed
    <3>3. CASE t \notin carried /\ t # s.sym
      <4>1. t \in DOMAIN values /\ values'[t] = values[t]
        BY <2>1, <2>10, <3>3 DEF Rebind, Bind
      <4> QED
        BY <2>24, <4>1 DEF Remembered, AllNamed
    <3> QED
      BY <3>1, <3>2, <3>3
  <2>26. Remembered(ir', values', frames')
    <3>1. f.op \in DOMAIN ir' /\ AllNamed(ir', f.entry)
      BY <2>8, <2>21, <2>24 DEF Remembered
    <3>2. Remembered(ir', values', Append(frames, f))
      BY <2>8, <2>13, <2>24, <2>25, <3>1, RememberedOpen, Zenon
    <3> QED
      BY <2>1, <3>2
  <2> QED
    BY <2>1, <2>6, <2>20, <2>26, Zenon DEF Written
<1>2. CASE ~fits
  BY <1>2, FailWritten DEF BeginFor
<1> QED
  BY <1>1, <1>2

-----------------------------------------------------------------------------
\* A region is closed.
LEMMA YieldParts ==
  /\ Yield.op = "yield" /\ Yield.path = path /\ Yield.attr = Top.op
  /\ DOMAIN Yield.args = Top.carried /\ \A s \in Top.carried : Yield.args[s] = values[s]
  /\ Uses(Yield) = {values[s] : s \in Top.carried}
<1> DEFINE args == [s \in Top.carried |-> values[s]]
<1>1. Yield = Operation("yield", path, args, <<>>, Top.op)
  BY DEF Yield
<1>2. DOMAIN args = Top.carried /\ \A s \in Top.carried : args[s] = values[s]
  OBVIOUS
<1> HIDE DEF args
<1>3. Uses(Yield) = {args[s] : s \in DOMAIN args}
  BY <1>1, UsesOfArgs
<1>4. Yield.args = args
  BY <1>1 DEF Operation
<1>5. Yield.op = "yield" /\ Yield.path = path /\ Yield.attr = Top.op
  BY <1>1 DEF Operation
<1>6. Uses(Yield) = {values[s] : s \in Top.carried}
  BY <1>2, <1>3
<1> QED
  BY <1>2, <1>4, <1>5, <1>6

LEMMA YieldBuilt ==
  ASSUME TInv, Whole, Written, outcome = "emitting", frames # <<>>,
         NEW d, d = Append(ir, Yield), NEW r, r = After(Yield, Len(ir) + 1), r \in Seq(Blocks)
  PROVE  /\ Built(d, r) /\ Extends(ir, d) /\ Remembered(d, values, frames)
         /\ Len(ir) \in Nat /\ Len(d) = Len(ir) + 1 /\ d[Len(ir) + 1] = Yield
         /\ Here(path) = path[Len(path)] /\ Here(path).op = Top.op /\ Here(path).arm = Top.arm
         /\ Top.op \in DOMAIN ir /\ ir[Top.op].path = Parent
<1>1. Built(ir, path) /\ Remembered(ir, values, frames) /\ Grown(ir, path)
  BY DEF Written, Whole
<1>2. /\ Finishes(ir, path, d, Parent)
      /\ path[Len(path)].op = Top.op /\ path[Len(path)].arm = Top.arm
  <2>1. Len(path) = Len(frames) /\ Len(frames) \in DOMAIN frames /\ Len(frames) \in Nat \ {0}
    BY Innermost DEF TInv
  <2>2. path[Len(path)].op = Top.op /\ path[Len(path)].arm = Top.arm
    BY <2>1 DEF TInv, FramesFit, Top
  <2>3. path # <<>>
    BY <2>1
  <2> QED
    BY <1>1, <2>2, <2>3, YieldParts DEF Finishes, Parent
<1>3. Here(path) = path[Len(path)] /\ Here(path).op = Top.op /\ Here(path).arm = Top.arm
  BY <1>2 DEF Here
<1>4. path[Len(path)].op \in DOMAIN ir /\ ir[path[Len(path)].op].path = Parent
  BY <1>2, FinishesInnermost
<1>5. /\ Len(frames) \in 1 .. Len(frames)
      /\ Top.carried \subseteq DOMAIN values /\ Top.carried \subseteq Symbols
  <2>1. Len(frames) \in 1 .. Len(frames)
    BY Innermost DEF TInv
  <2> QED
    BY <2>1 DEF TInv, IInv, CarriedBound, Top, TypedBindings
<1>6. Top.arm # "body" => DOMAIN ir[Top.op].attr = Top.carried
  BY <1>1, <1>5 DEF Remembered, Top
<1>7. Top.op \in 1 .. Len(ir) /\ Len(ir) \in Nat
  <2>1. Sequence(ir)
    BY <1>1 DEF Built
  <2> QED
    BY <1>2, <1>4, <2>1, SequenceDomain
<1>8. Formed(ir, Yield, Len(ir) + 1)
  <2>1. path \in Seq(Blocks) /\ path # <<>>
    BY <1>1, <1>2 DEF Built, Finishes
  <2>2. Top.op \in 1 .. Len(ir) + 1 - 1
    BY <1>7
  <2> QED
    BY <2>1, <2>2, <1>3, <1>5, <1>6, YieldParts DEF Formed
<1>9. \A v \in Uses(Yield) : Named(ir, v)
  BY <1>1, <1>5, YieldParts DEF Remembered, AllNamed
<1>10. /\ Built(d, r) /\ Extends(ir, d) /\ Len(d) = Len(ir) + 1 /\ Len(ir) \in Nat
       /\ d[Len(ir) + 1] = Yield /\ \A v : Named(ir, v) => Named(d, v)
  <2>1. Puts(ir, path, Yield, d, r)
    BY <1>1, <1>8, <1>9, YieldParts DEF Puts
  <2> QED
    BY <2>1, BuildOne
<1>11. Remembered(d, values, frames)
  BY <1>1, <1>10, RememberedLater
<1> QED
  BY <1>2, <1>3, <1>4, <1>10, <1>11

LEMMA BeginElseWritten == ASSUME TInv, TInv', Whole, Written, BeginElse PROVE Written'
<1> DEFINE last == Len(frames)
           new  == [Top EXCEPT !.arm = "else"]
<1>1. /\ outcome = "emitting" /\ outcome' = "emitting" /\ frames # <<>> /\ Top.arm = "then"
      /\ ir' = Append(ir, Yield) /\ values' = Top.entry
      /\ path' = Append(Parent, Block(Top.op, "else"))
      /\ frames' = [frames EXCEPT ![last].arm = "else"]
  BY DEF BeginElse, Statement, Inside, Yielding, Entry
<1>2. path' \in Seq(Blocks)
  BY DEF TInv, IInv, Shape
<1>3. Here(path).op = Top.op /\ Here(path).arm = Top.arm
  <2>1. Len(path) = Len(frames) /\ Len(frames) \in DOMAIN frames
    BY <1>1, Innermost DEF TInv
  <2> QED
    BY <2>1 DEF TInv, FramesFit, Top, Here
<1>4. After(Yield, Len(ir) + 1) = path'
  BY <1>1, <1>3, YieldParts DEF After, Outside, Parent
<1>5. /\ Built(ir', path') /\ Remembered(ir', values, frames)
  BY <1>1, <1>2, <1>4, YieldBuilt
<1>6. /\ last \in Nat \ {0} /\ DOMAIN frames = 1 .. last /\ last \in 1 .. last
      /\ Top = Frame(Top.arm, Top.op, Top.carried, Top.entry) /\ Top = frames[last]
  BY <1>1, Innermost DEF TInv, Top
<1>7. new.arm = "else" /\ new.op = Top.op /\ new.carried = Top.carried /\ new.entry = Top.entry
  <2>1. [Frame(Top.arm, Top.op, Top.carried, Top.entry) EXCEPT !.arm = "else"]
        = Frame("else", Top.op, Top.carried, Top.entry)
    BY DEF Frame
  <2>2. new = Frame("else", Top.op, Top.carried, Top.entry)
    BY <1>6, <2>1
  <2> HIDE DEF new
  <2> QED
    BY <2>2 DEF Frame
<1>8. Len(frames') = last /\ \A k \in 1 .. last : frames'[k] = IF k = last THEN new ELSE frames[k]
  <2>1. frames' = [frames EXCEPT ![last] = new]
    BY <1>1 DEF Top
  <2>2. frames = [k \in 1 .. last |-> frames[k]]
    <3>1. Sequence(frames)
      BY DEF TInv, IInv, Shape
    <3> QED
      BY <3>1, <1>6 DEF Sequence
  <2> HIDE DEF new, last
  <2>3. DOMAIN frames' = 1 .. last /\ \A k \in 1 .. last : frames'[k] = IF k = last THEN new ELSE frames[k]
    BY <2>1, <2>2, <1>6
  <2>4. Sequence(frames')
    BY DEF TInv, IInv, Shape
  <2>5. Len(frames') \in Nat /\ DOMAIN frames' = 1 .. Len(frames')
    BY <2>4, SequenceDomain
  <2>6. Len(frames') = last
    BY <2>3, <2>5, <1>6
  <2> QED
    BY <2>3, <2>6
<1>15. last = Len(frames)
  OBVIOUS
<1> HIDE DEF new, last
<1>9. Remembered(ir', Top.entry, frames')
  <2>1. AllNamed(ir', Top.entry)
    BY <1>5, <1>6, <1>15 DEF Remembered
  <2>2. ASSUME NEW k \in 1 .. last
        PROVE  /\ AllNamed(ir', frames'[k].entry)
               /\ frames'[k].op \in DOMAIN ir'
               /\ frames'[k].arm # "body" => DOMAIN ir'[frames'[k].op].attr = frames'[k].carried
    <3>1. /\ AllNamed(ir', frames[k].entry)
          /\ frames[k].op \in DOMAIN ir'
          /\ frames[k].arm # "body" => DOMAIN ir'[frames[k].op].attr = frames[k].carried
      BY <1>5, <1>15 DEF Remembered
    <3>2. CASE k = last
      <4>1. frames'[k] = new /\ frames[k] = Top
        BY <3>2, <1>6, <1>8
      <4> QED
        BY <3>1, <4>1, <1>1, <1>7
    <3>3. CASE k # last
      BY <3>1, <3>3, <1>8
    <3> QED
      BY <3>2, <3>3
  <2> QED
    BY <2>1, <2>2, <1>8 DEF Remembered
<1> QED
  BY <1>1, <1>5, <1>9 DEF Written

\* Both EndIf and EndFor: the results are named after the yield.
LEMMA LeaveWritten ==
  ASSUME TInv, TInv', Whole, Written, outcome = "emitting",
         NEW arm \in {"else", "body"}, Inside(arm), Leave
  PROVE  Written'
<1>1. /\ frames # <<>> /\ Top.arm = arm /\ UNCHANGED outcome
      /\ ir' = Append(ir, Yield) /\ path' = Parent
      /\ values' = Rebind(Top.entry, Results) /\ frames' = SubSeq(frames, 1, Len(frames) - 1)
  BY DEF Leave, Inside, Yielding, Restored, Entry
<1>2. path' \in Seq(Blocks)
  BY DEF TInv, IInv, Shape
<1>3. Here(path).op = Top.op /\ Here(path).arm = Top.arm
  <2>1. Len(path) = Len(frames) /\ Len(frames) \in DOMAIN frames
    BY <1>1, Innermost DEF TInv
  <2> QED
    BY <2>1 DEF TInv, FramesFit, Top, Here
<1>4. After(Yield, Len(ir) + 1) = path'
  BY <1>1, <1>3, YieldParts DEF After, Outside, Parent
<1>5. /\ Built(ir', path') /\ Extends(ir, ir') /\ Remembered(ir', values, frames)
      /\ Len(ir) \in Nat /\ Len(ir') = Len(ir) + 1 /\ ir'[Len(ir) + 1] = Yield
      /\ Top.op \in DOMAIN ir /\ ir[Top.op].path = Parent
  BY <1>1, <1>2, <1>4, YieldBuilt
<1>6. Len(ir) + 1 \in DOMAIN ir' /\ ir'[Top.op].path = Parent
  <2>1. Len(ir) + 1 \in DOMAIN ir'
    BY <1>5, ExtendsLengths
  <2> QED
    BY <2>1, <1>5, ExtendsKeeps
<1>7. /\ Len(frames) \in Nat \ {0} /\ Len(frames) \in 1 .. Len(frames)
      /\ Len(frames) \in Len(frames) .. Len(frames)
  BY <1>1, Innermost DEF TInv
<1>8. Top.carried \subseteq DOMAIN values /\ Top.carried \subseteq DOMAIN Top.entry
  BY <1>7 DEF TInv, IInv, CarriedBound, Top
<1>9. \A s \in Top.carried : values[s].width = Top.entry[s].width
  <2>1. TypedBindings(Top.entry) /\ TypedBindings(values)
    BY <1>1, TopTyped DEF TInv
  <2> QED
    BY <2>1, <1>8 DEF TypedBindings
<1>10. ASSUME NEW s \in Top.carried
       PROVE  Named(ir', SSA(Len(ir) + 1, Parent, Top.entry[s].width, <<s>>))
  <2> DEFINE v == SSA(Len(ir) + 1, Parent, Top.entry[s].width, <<s>>)
  <2>1. v.at = Len(ir) + 1
    BY DEF SSA
  <2>2. v = SSA(v.at, ir'[Yield.attr].path, Yield.args[s].width, <<s>>)
    BY <2>1, <1>6, <1>9, YieldParts
  <2> HIDE DEF v
  <2>3. Makes(ir', v)
    BY <2>1, <2>2, <1>1, <1>3, <1>5, YieldParts DEF Makes
  <2>4. Named(ir', v)
    BY <2>1, <2>3, <1>6 DEF Named
  <2> QED
    BY <2>4 DEF v
<1>11. AllNamed(ir', values')
  <2>1. AllNamed(ir', Top.entry)
    BY <1>5, <1>7 DEF Remembered, Top
  <2>2. DOMAIN Results = Top.carried
        /\ \A s \in Top.carried : Results[s] = SSA(Len(ir) + 1, Parent, Top.entry[s].width, <<s>>)
    BY DEF Results
  <2>3. \A s \in DOMAIN Results : Named(ir', Results[s])
    BY <2>2, <1>10
  <2> QED
    BY <2>1, <2>3, <1>1 DEF AllNamed, Rebind
<1>12. /\ Len(frames') = Len(frames) - 1
       /\ \A k \in 1 .. Len(frames) - 1 : frames'[k] = frames[k]
  <2>1. Sequence(frames)
    BY DEF TInv, IInv, Shape
  <2> QED
    BY <1>1, <2>1, SequenceFront
<1>13. \A k \in 1 .. Len(frames) - 1 : k \in 1 .. Len(frames)
  BY <1>7
<1>14. Remembered(ir', values', frames')
  BY <1>5, <1>11, <1>12, <1>13 DEF Remembered
<1> QED
  BY <1>1, <1>5, <1>14 DEF Written

LEMMA NextWritten == ASSUME TInv, TInv', Whole, Written, [Next]_vars PROVE Written'
<1>1. CASE EmitBinding
  BY <1>1, EmitBindingWritten
<1>2. CASE EmitReturn
  BY <1>2, EmitReturnWritten
<1>3. CASE EmitBlockBrace
  BY <1>3 DEF EmitBlockBrace, Written
<1>4. CASE EmitUnsupported
  BY <1>4, FailWritten DEF EmitUnsupported
<1>5. CASE FallOffTheEnd
  BY <1>5, FailWritten DEF FallOffTheEnd
<1>6. CASE BeginIf
  BY <1>6, BeginIfWritten
<1>7. CASE BeginElse
  BY <1>7, BeginElseWritten
<1>8. CASE EndIf
  BY <1>8, LeaveWritten DEF EndIf, Statement
<1>9. CASE SkipFor
  BY <1>9 DEF SkipFor, Written
<1>10. CASE BeginFor
  BY <1>10, BeginForWritten
<1>11. CASE EndFor
  BY <1>11, LeaveWritten DEF EndFor, Statement
<1>12. CASE UNCHANGED vars
  BY <1>12 DEF Written, vars
<1> QED
  BY <1>1, <1>2, <1>3, <1>4, <1>5, <1>6, <1>7, <1>8, <1>9, <1>10, <1>11, <1>12 DEF Next

\* The machines behind MLIRGen leave what it made alone.
allVars == <<vars, interpreterVars, hwVars, runVars>>

LEMMA OnlyEmitWrites == ASSUME [DNext]_allVars PROVE [Next]_vars
<1>1. CASE DEmit
  BY <1>1 DEF DEmit
<1>2. CASE DLower
  BY <1>2 DEF DLower
<1>3. CASE DStart
  BY <1>3 DEF DStart
<1>4. CASE DInterpret
  BY <1>4 DEF DInterpret
<1>5. CASE DExecute
  BY <1>5 DEF DExecute
<1> QED
  BY <1>1, <1>2, <1>3, <1>4, <1>5 DEF DNext, allVars

LEMMA NextCompiled == ASSUME Compiled, [DNext]_allVars PROVE Compiled'
<1>1. [Next]_vars
  BY OnlyEmitWrites
<1>2. TInv'
  BY <1>1, NextTyped DEF Compiled
<1>3. Whole'
  BY <1>1, NextWhole DEF Compiled
<1>4. Written'
  BY <1>1, <1>2, NextWritten DEF Compiled
<1> QED
  BY <1>2, <1>3, <1>4 DEF Compiled

\* The module the passes behind MLIRGen are given, whatever the listing:
\* each use names a value exactly as the operation that makes it, and the
\* list of operations is the nesting of the regions written out.
THEOREM CompiledHolds == DSpec => []Compiled
<1>1. DInit => Compiled
  BY InitTyped, InitWhole, InitWritten DEF DInit, Compiled
<1>2. Compiled /\ [DNext]_allVars => Compiled'
  BY NextCompiled
<1> QED
  BY <1>1, <1>2, PTL DEF DSpec, allVars

-----------------------------------------------------------------------------
(***************************************************************************)
(* The inductive invariant of the lowering.  Everything made before `next` *)
(* is in the map, and `arms` is where `next` stands.                       *)
(***************************************************************************)
Entered(map, n) == \A v : Named(ir, v) /\ v.at < n => v \in DOMAIN map

\* The map's nodes are among the first m.
EntriesFit(map, m) == \A v \in DOMAIN map : v \in SSAValues /\ map[v] \in 1 .. m

NodesFit(nodes) ==
  /\ Sequence(nodes)
  /\ \A n \in DOMAIN nodes : \A s \in DOMAIN nodes[n].ins : nodes[n].ins[s] \in 1 .. n - 1

\* One value per result of the scf.if, or none yet.
ArmFits(a, m) ==
  /\ a = [op |-> a.op, cond |-> a.cond, thenVals |-> a.thenVals]
  /\ a.op \in DOMAIN ir /\ ir[a.op].op = "if"
  /\ a.cond \in 1 .. m
  /\ \/ a.thenVals = <<>>
     \/ \E f : /\ a.thenVals = <<f>> /\ DOMAIN f = DOMAIN ir[a.op].attr
               /\ \A s \in DOMAIN f : f[s] \in 1 .. m

ArmsFit(as, m) == Sequence(as) /\ \A k \in 1 .. Len(as) : ArmFits(as[k], m)

\* The activation of the block b.
StandsIn(a, b) == b.op = a.op /\ b.arm = IF a.thenVals = <<>> THEN "then" ELSE "else"
Stands(as, p) == Len(as) = Len(p) /\ \A k \in 1 .. Len(as) : StandsIn(as[k], p[k])

Lows ==
  status = "lowering" =>
    next \in 1 .. Len(ir) /\ Stands(arms, ir[next].path) /\ Entered(lowered, next)

HWInv ==
  /\ status \in {"waiting", "lowering", "done", "refused"}
  /\ status = "waiting" => next = 1 /\ lowered = NoValues /\ net = <<>> /\ arms = <<>>
  /\ status # "waiting" => outcome = "done"
  /\ next \in 1 .. Len(ir) + 1
  /\ NodesFit(net)
  /\ EntriesFit(lowered, Len(net))
  /\ ArmsFit(arms, Len(net))
  /\ status = "done" => returned # <<>> /\ arms = <<>>
  /\ Lows

LEMMA InitHW == ASSUME Init, HWInit PROVE HWInv
<1>1. Sequence(<<>>) /\ DOMAIN <<>> = {} /\ Len(<<>>) = 0
  BY SoundNone
<1>2. ir = <<>> /\ next = 1 /\ lowered = NoValues /\ net = <<>> /\ arms = <<>> /\ status = "waiting"
  BY DEF Init, HWInit
<1>3. DOMAIN NoValues = {}
  BY DEF NoValues
<1>4. NodesFit(net) /\ ArmsFit(arms, Len(net)) /\ EntriesFit(lowered, Len(net))
  BY <1>1, <1>2, <1>3 DEF NodesFit, ArmsFit, EntriesFit
<1>5. next \in 1 .. Len(ir) + 1
  BY <1>1, <1>2
<1> QED
  BY <1>2, <1>4, <1>5 DEF HWInv, Lows

\* The operation lowered next: where it stands, and that its uses are found.
LEMMA NextUses ==
  ASSUME Compiled, HWInv, status = "lowering"
  PROVE  /\ outcome = "done" /\ Built(ir, path) /\ ir[Len(ir)].op = "return"
         /\ Len(ir) \in Nat /\ DOMAIN ir = 1 .. Len(ir) /\ next \in 1 .. Len(ir)
         /\ Formed(ir, ir[next], next) /\ Uses(ir[next]) \subseteq SSAValues
         /\ IsMapped(Uses(ir[next]))
         /\ Len(net) \in Nat
<1>1. outcome = "done" /\ next \in 1 .. Len(ir)
  BY DEF HWInv, Lows
<1>2. Built(ir, path) /\ ir[Len(ir)].op = "return"
  BY <1>1 DEF Compiled, Written
<1>3. Len(ir) \in Nat /\ DOMAIN ir = 1 .. Len(ir)
  BY <1>2, SequenceDomain DEF Built
<1>4. next \in DOMAIN ir
  BY <1>1, <1>3
<1>5. Formed(ir, ir[next], next) /\ \A v \in Uses(ir[next]) : Named(ir, v)
  BY <1>2, <1>4 DEF Built
<1>6. Uses(ir[next]) \subseteq SSAValues
  BY <1>4 DEF Compiled, TInv, TypedCode, TypedOperation
<1>7. ASSUME NEW v \in Uses(ir[next]) PROVE v \in DOMAIN lowered
  <2>1. Placed(v, 0 + next, ir[next].path, Len(ir[next].path))
    BY <1>4 DEF Compiled, TInv, IInv, Sound
  <2>2. v.at < next
    BY <2>1, <1>1 DEF Placed
  <2> QED
    BY <2>2, <1>5 DEF HWInv, Lows, Entered
<1>8. IsMapped(Uses(ir[next]))
  BY <1>7 DEF IsMapped
<1>9. Len(net) \in Nat
  BY SequenceDomain DEF HWInv, NodesFit
<1> QED
  BY <1>1, <1>2, <1>3, <1>5, <1>6, <1>8, <1>9

LEMMA NextPlace ==
  ASSUME Compiled, HWInv, status = "lowering", ir[next].op # "return"
  PROVE  next + 1 \in 1 .. Len(ir) /\ ir[next + 1].path = After(ir[next], next)
<1>1. next + 1 \in 1 .. Len(ir) /\ next \in DOMAIN ir /\ next + 1 # Len(ir) + 1
  BY NextUses
<1>2. Place(ir, path, next + 1) = After(ir[next], next)
  BY <1>1, NextUses DEF Built, Walks
<1> QED
  BY <1>1, <1>2 DEF Place

\* The map behind an operation, if all it makes was entered.
LEMMA EnteredOne ==
  ASSUME Compiled, HWInv, status = "lowering",
         NEW map, DOMAIN lowered \subseteq DOMAIN map,
         \A v : v.at = next /\ Makes(ir, v) => v \in DOMAIN map
  PROVE  Entered(map, next + 1)
<1> SUFFICES ASSUME NEW v, Named(ir, v), v.at < next + 1 PROVE v \in DOMAIN map
  BY DEF Entered
<1>1. next \in Nat \ {0}
  BY NextUses
<1>2. CASE \E s \in Params : v = Argument(s)
  <2>1. v.at = 0
    BY <1>2 DEF Argument, SSA
  <2>2. v.at < next
    BY <2>1, <1>1
  <2> QED
    BY <2>2 DEF HWInv, Lows, Entered
<1>3. CASE v.at \in DOMAIN ir /\ Makes(ir, v)
  <2>1. v.at \in Nat
    BY <1>3, NextUses
  <2>2. v.at < next \/ v.at = next
    BY <2>1, <1>1
  <2> QED
    BY <2>2, <1>3 DEF HWInv, Lows, Entered
<1> QED
  BY <1>2, <1>3 DEF Named

\* What was bounded by the nodes of before is bounded by more of them.
LEMMA EntriesFitMore ==
  ASSUME NEW map, NEW m \in Nat, NEW n \in Nat, m <= n, EntriesFit(map, m)
  PROVE  EntriesFit(map, n)
  BY DEF EntriesFit

LEMMA ArmsFitMore ==
  ASSUME NEW as, NEW m \in Nat, NEW n \in Nat, m <= n, ArmsFit(as, m)
  PROVE  ArmsFit(as, n)
<1>1. \A i : i \in 1 .. m => i \in 1 .. n
  OBVIOUS
<1> QED
  BY <1>1 DEF ArmsFit, ArmFits

\* One node more.
LEMMA NodesFitOne ==
  ASSUME NEW nodes, NodesFit(nodes), NEW o,
         \A s \in DOMAIN o.ins : o.ins[s] \in 1 .. Len(nodes)
  PROVE  NodesFit(Append(nodes, o)) /\ Len(Append(nodes, o)) = Len(nodes) + 1 /\ Len(nodes) \in Nat
<1>1. /\ Sequence(Append(nodes, o)) /\ Len(Append(nodes, o)) = Len(nodes) + 1
      /\ \A i \in 1 .. Len(nodes) : Append(nodes, o)[i] = nodes[i]
      /\ Append(nodes, o)[Len(nodes) + 1] = o
  BY SequenceAppend DEF NodesFit
<1> DEFINE more == Append(nodes, o)
<1> HIDE DEF more
<1>2. Len(nodes) \in Nat /\ DOMAIN nodes = 1 .. Len(nodes)
  BY SequenceDomain DEF NodesFit
<1>3. Sequence(more) /\ Len(more) = Len(nodes) + 1 /\ DOMAIN more = 1 .. Len(nodes) + 1
  BY <1>1, SequenceDomain DEF more
<1>4. ASSUME NEW n \in DOMAIN more, NEW s \in DOMAIN more[n].ins
      PROVE  more[n].ins[s] \in 1 .. n - 1
  <2>1. CASE n = Len(nodes) + 1
    <3>1. more[n] = o
      BY <1>1, <2>1 DEF more
    <3>2. n - 1 = Len(nodes)
      BY <1>2, <2>1
    <3> QED
      BY <3>1, <3>2, <1>4
  <2>2. CASE n # Len(nodes) + 1
    <3>1. n \in DOMAIN nodes /\ more[n] = nodes[n]
      BY <1>1, <1>2, <1>3, <2>2 DEF more
    <3> QED
      BY <3>1, <1>4 DEF NodesFit
  <2> QED
    BY <2>1, <2>2
<1> QED
  BY <1>2, <1>3, <1>4 DEF NodesFit, more

-----------------------------------------------------------------------------
(***************************************************************************)
(* Each step.  The module stays as it is.                                  *)
(***************************************************************************)
LEMMA StepKeeps ==
  ASSUME UNCHANGED vars, outcome = "done",
         status' \in {"lowering", "done", "refused"},
         next' \in 1 .. Len(ir) + 1,
         NodesFit(net'), EntriesFit(lowered', Len(net')), ArmsFit(arms', Len(net')),
         status' = "done" => returned' # <<>> /\ arms' = <<>>,
         status' = "lowering" => /\ next' \in 1 .. Len(ir)
                                 /\ Stands(arms', ir[next'].path)
                                 /\ Entered(lowered', next')
  PROVE  HWInv'
<1>1. ir' = ir /\ outcome' = "done"
  BY DEF vars
<1>2. ArmsFit(arms, Len(net))'
  BY <1>1 DEF ArmsFit, ArmFits
<1>3. Lows'
  BY <1>1 DEF Lows, Entered
<1>4. NodesFit(net)' /\ EntriesFit(lowered, Len(net))'
  BY DEF NodesFit, EntriesFit
<1> QED
  BY <1>1, <1>2, <1>3, <1>4 DEF HWInv

LEMMA ArgumentParts ==
  ASSUME NEW s \in Params
  PROVE  Argument(s).at = 0 /\ Argument(s).of[1] = s /\ Argument(s) \in SSAValues
<1>1. s \in Symbols /\ <<>> \in Seq(Blocks)
  BY ProgramAssumption
<1>2. TypeOf[s].width \in Nat \ {0}
  BY <1>1, SymbolWidth
<1>3. SSA(0, <<>>, TypeOf[s].width, <<s>>) \in SSAValues
  BY <1>1, <1>2, TypedResult
<1> QED
  BY <1>3 DEF Argument, SSA

LEMMA RunHWKeeps == ASSUME Compiled, HWInv, RunHW, UNCHANGED vars PROVE HWInv'
<1> DEFINE n == Cardinality(Params)
<1>1. /\ outcome = "done" /\ next = 1 /\ arms = <<>>
      /\ net' = [i \in DOMAIN Ports |-> Node("port", NoValues, Ports[i])]
      /\ lowered' = [v \in {Argument(s) : s \in Params} |->
                       CHOOSE i \in DOMAIN Ports : Ports[i] = v.of[1]]
      /\ status' = "lowering" /\ UNCHANGED <<next, arms, returned>>
  BY DEF RunHW, HWInv
<1>2. /\ DOMAIN Ports = 1 .. n /\ n \in Nat
      /\ \A s \in Params : \E i \in 1 .. n : Ports[i] = s
  <2>1. IsFiniteSet(Params)
    BY SymbolsAssumption, ProgramAssumption, FS_Subset
  <2> QED
    BY <2>1, Enumerated DEF Ports
<1> HIDE DEF n
<1>3. NodesFit(net') /\ Len(net') = n
  <2> DEFINE node(i) == Node("port", NoValues, Ports[i])
  <2>1. \A i : DOMAIN node(i).ins = {}
    BY DEF Node, NoValues
  <2>2. net' = [i \in 1 .. n |-> node(i)]
    BY <1>1, <1>2
  <2> HIDE DEF node
  <2>3. net' \in Seq({node(i) : i \in 1 .. n}) /\ DOMAIN net' = 1 .. n /\ Len(net') = n
    BY <1>2, <2>2
  <2>4. Sequence(net')
    BY <2>3, SequenceOf
  <2>5. \A i \in DOMAIN net' : DOMAIN net'[i].ins = {}
    BY <2>1, <2>2, <2>3
  <2> QED
    BY <2>3, <2>4, <2>5 DEF NodesFit
<1>4. EntriesFit(lowered', n)
  <2> SUFFICES ASSUME NEW v \in DOMAIN lowered' PROVE v \in SSAValues /\ lowered'[v] \in 1 .. n
    BY DEF EntriesFit
  <2>1. PICK s \in Params : v = Argument(s)
    BY <1>1
  <2>2. v.of[1] = s /\ v \in SSAValues
    BY <2>1, ArgumentParts
  <2>3. \E i \in DOMAIN Ports : Ports[i] = v.of[1]
    BY <1>2, <2>2
  <2>4. lowered'[v] = CHOOSE i \in DOMAIN Ports : Ports[i] = v.of[1]
    BY <1>1
  <2>5. lowered'[v] \in DOMAIN Ports
    BY <2>3, <2>4
  <2> QED
    BY <1>2, <2>2, <2>5
<1>5. Built(ir, path) /\ ir # <<>> /\ Sequence(ir) /\ Len(ir) \in Nat /\ DOMAIN ir = 1 .. Len(ir)
  BY <1>1, SequenceDomain DEF Compiled, Written, Built
<1>6. Len(ir) # 0
  BY <1>5 DEF Sequence
<1>7. Stands(arms', ir[1].path)
  <2>1. ir[1].path = <<>>
    BY <1>5, <1>6 DEF Built, Walks, Place
  <2>2. Len(<<>>) = 0 /\ 1 .. 0 = {}
    OBVIOUS
  <2> QED
    BY <1>1, <2>1, <2>2 DEF Stands
<1>8. Entered(lowered', 1)
  <2> SUFFICES ASSUME NEW v, Named(ir, v), v.at < 1 PROVE v \in DOMAIN lowered'
    BY DEF Entered
  <2>1. v.at \notin DOMAIN ir
    BY <1>5
  <2>2. \E s \in Params : v = Argument(s)
    BY <2>1 DEF Named
  <2> QED
    BY <1>1, <2>2
<1>9. ArmsFit(arms', n)
  BY <1>1, SoundNone DEF ArmsFit
<1>10. 1 \in 1 .. Len(ir) /\ 1 \in 1 .. Len(ir) + 1
  BY <1>5, <1>6
<1> QED
  BY <1>1, <1>3, <1>4, <1>7, <1>8, <1>9, <1>10, StepKeeps

\* A step that gives up, or ends the pass, with all it has built.
LEMMA StopKeeps ==
  ASSUME Compiled, HWInv, status = "lowering", UNCHANGED <<next, lowered, net, arms>>,
         UNCHANGED vars,
         status' = "refused" \/ (status' = "done" /\ returned' # <<>> /\ arms = <<>>)
  PROVE  HWInv'
<1>1. outcome = "done" /\ next' \in 1 .. Len(ir) + 1
  BY DEF HWInv
<1>2. NodesFit(net') /\ EntriesFit(lowered', Len(net')) /\ ArmsFit(arms', Len(net'))
  BY DEF HWInv
<1>3. /\ status' \in {"lowering", "done", "refused"} /\ status' # "lowering"
      /\ status' = "done" => returned' # <<>> /\ arms' = <<>>
  OBVIOUS
<1> QED
  BY <1>1, <1>2, <1>3, StepKeeps

\* emitOutput is met outside every scf.if.
LEMMA LowerReturnKeeps == ASSUME Compiled, HWInv, LowerReturn, UNCHANGED vars PROVE HWInv'
<1>1. status = "lowering" /\ ir[next].op = "return"
  BY DEF LowerReturn, Lowering
<1>2. IsMapped({ir[next].operands[1]})
  <2>1. 1 \in DOMAIN ir[next].operands /\ IsMapped(Uses(ir[next]))
    BY <1>1, NextUses DEF Formed
  <2>2. ir[next].operands[1] \in Uses(ir[next])
    BY <2>1 DEF Uses
  <2> QED
    BY <2>1, <2>2 DEF IsMapped
<1>3. /\ status' = "done" /\ UNCHANGED <<next, lowered, net, arms>>
      /\ returned' = <<lowered[ir[next].operands[1]]>>
  BY <1>2 DEF LowerReturn
<1>4. returned' # <<>>
  BY <1>3
<1>5. arms = <<>>
  <2>1. ir[next].path = <<>>
    BY <1>1, NextUses DEF Formed
  <2>2. Len(arms) = Len(<<>>) /\ Sequence(arms)
    BY <1>1, <2>1 DEF HWInv, Lows, Stands, ArmsFit
  <2>3. Len(arms) = 0
    BY <2>2
  <2> QED
    BY <2>2, <2>3 DEF Sequence
<1> QED
  BY <1>1, <1>3, <1>4, <1>5, StopKeeps

LEMMA LowerOpKeeps == ASSUME Compiled, HWInv, LowerOp, UNCHANGED vars PROVE HWInv'
<1> DEFINE o     == ir[next]
           map   == IF o.op = "coerce" THEN o.operands ELSE o.args
           width == IF o.op = "coerce" THEN o.attr.width ELSE o.attr.type.width
           node  == Node(o.op, Lowered(map), o.attr)
           v     == SSA(next, o.path, width, <<>>)
<1>1. status = "lowering" /\ o.op \in {"compute", "coerce"}
  BY DEF LowerOp, Lowering
<1>2. /\ outcome = "done" /\ next \in 1 .. Len(ir) /\ Len(ir) \in Nat /\ IsMapped(Uses(o))
      /\ Formed(ir, o, next) /\ Len(net) \in Nat
  BY <1>1, NextUses
<1>3. /\ net' = Append(net, node) /\ next' = next + 1
      /\ lowered' = Bind(lowered, v, Len(net) + 1)
      /\ UNCHANGED <<arms, returned, status>>
  BY <1>2 DEF LowerOp
<1>4. next + 1 \in 1 .. Len(ir) /\ ir[next + 1].path = o.path
  <2>1. o.op # "return" /\ After(o, next) = o.path
    BY <1>1 DEF After
  <2> QED
    BY <1>1, <2>1, NextPlace
<1>5. \A s \in DOMAIN map : map[s] \in Uses(o)
  BY DEF Uses
<1>6. width \in Nat \ {0} /\ o.path \in Seq(Blocks)
  BY <1>1, <1>2 DEF Formed, Types
<1>7. node.ins = Lowered(map)
  BY DEF Node
<1>8. v = SSA(next, o.path, width, <<>>)
  OBVIOUS
<1>9. \A u : u.at = next /\ Makes(ir, u) => u = v
  <2> SUFFICES ASSUME NEW u, u.at = next, Makes(ir, u) PROVE u = v
    OBVIOUS
  <2> QED
    BY <1>1 DEF Makes
<1> HIDE DEF node, map, width, v
<1>10. \A s \in DOMAIN node.ins : node.ins[s] \in 1 .. Len(net)
  <2>1. \A s \in DOMAIN map : lowered[map[s]] \in 1 .. Len(net)
    BY <1>2, <1>5 DEF IsMapped, HWInv, EntriesFit
  <2> QED
    BY <1>7, <2>1 DEF Lowered
<1>11. NodesFit(net') /\ Len(net') = Len(net) + 1
  BY <1>3, <1>10, NodesFitOne DEF HWInv
<1>12. DOMAIN lowered' = DOMAIN lowered \cup {v}
       /\ \A u \in DOMAIN lowered' : lowered'[u] = IF u = v THEN Len(net) + 1 ELSE lowered[u]
  BY <1>3 DEF Bind
<1>13. EntriesFit(lowered', Len(net'))
  <2>1. v \in SSAValues
    BY <1>2, <1>6, <1>8, TypedResult
  <2>2. EntriesFit(lowered, Len(net))
    BY DEF HWInv
  <2>3. EntriesFit(lowered, Len(net) + 1)
    BY <1>2, <2>2, EntriesFitMore
  <2>4. Len(net) + 1 \in 1 .. Len(net) + 1
    BY <1>2
  <2> QED
    BY <1>11, <1>12, <2>1, <2>3, <2>4 DEF EntriesFit
<1>14. ArmsFit(arms', Len(net'))
  BY <1>2, <1>3, <1>11, ArmsFitMore DEF HWInv
<1>15. Entered(lowered', next + 1)
  BY <1>1, <1>9, <1>12, EnteredOne
<1>16. Stands(arms', ir[next'].path)
  BY <1>1, <1>3, <1>4 DEF HWInv, Lows
<1>17. status' = "lowering" /\ next' \in 1 .. Len(ir) /\ next' \in 1 .. Len(ir) + 1
  BY <1>1, <1>2, <1>3, <1>4
<1> HIDE DEF o
<1> QED
  BY <1>2, <1>3, <1>11, <1>13, <1>14, <1>15, <1>16, <1>17, StepKeeps

LEMMA RefuseForKeeps == ASSUME Compiled, HWInv, RefuseFor, UNCHANGED vars PROVE HWInv'
  BY StopKeeps DEF RefuseFor, Refuse, Lowering

\* The places in a path one deeper.
LEMMA LowerIfKeeps == ASSUME Compiled, HWInv, LowerIf, UNCHANGED vars PROVE HWInv'
<1> DEFINE o    == ir[next]
           cond == o.operands[1]
           a    == [op |-> next, cond |-> lowered[cond], thenVals |-> <<>>]
           b    == Block(next, "then")
<1>1. status = "lowering" /\ o.op = "if"
  BY DEF LowerIf, Lowering
<1>2. /\ outcome = "done" /\ next \in 1 .. Len(ir) /\ Len(ir) \in Nat /\ IsMapped(Uses(o))
      /\ Formed(ir, o, next) /\ Len(net) \in Nat /\ DOMAIN ir = 1 .. Len(ir)
  BY <1>1, NextUses
<1>3. cond \in DOMAIN lowered
  BY <1>1, <1>2 DEF Formed, Uses, IsMapped
<1>4. /\ arms' = Append(arms, a) /\ next' = next + 1
      /\ UNCHANGED <<lowered, net, returned, status>>
  BY <1>3 DEF LowerIf, IsMapped
<1>5. next + 1 \in 1 .. Len(ir) /\ ir[next + 1].path = Append(o.path, b) /\ o.path \in Seq(Blocks)
  <2>1. o.op # "return" /\ After(o, next) = Append(o.path, b) /\ o.path \in Seq(Blocks)
    BY <1>1, <1>2 DEF After, Formed
  <2> QED
    BY <1>1, <2>1, NextPlace
<1>6. lowered[cond] \in 1 .. Len(net)
  BY <1>3 DEF HWInv, EntriesFit
<1>7. ArmFits(a, Len(net)) /\ StandsIn(a, b)
  BY <1>1, <1>2, <1>6 DEF ArmFits, StandsIn, Block
<1>8. \A u : u.at = next => ~Makes(ir, u)
  BY <1>1 DEF Makes
<1>9. b \in Blocks
  BY <1>2, BlockOf DEF Arms
<1> HIDE DEF a, cond, b
<1>10. /\ Sequence(arms') /\ Len(arms') = Len(arms) + 1 /\ Len(arms) \in Nat
       /\ \A k \in 1 .. Len(arms) : arms'[k] = arms[k]
       /\ arms'[Len(arms) + 1] = a
  BY <1>4, SequenceAppend, SequenceDomain DEF HWInv, ArmsFit
<1>11. \A k \in 1 .. Len(arms) + 1 : k \in 1 .. Len(arms) \/ k = Len(arms) + 1
  BY <1>10
<1>12. ArmsFit(arms', Len(net'))
  BY <1>4, <1>7, <1>10, <1>11 DEF HWInv, ArmsFit
<1>13. Stands(arms', ir[next'].path)
  <2>1. Stands(arms, o.path)
    BY <1>1 DEF HWInv, Lows
  <2>2. /\ Len(Append(o.path, b)) = Len(o.path) + 1
        /\ Append(o.path, b)[Len(o.path) + 1] = b
        /\ \A k \in 1 .. Len(o.path) : Append(o.path, b)[k] = o.path[k]
    BY <1>5, <1>9, PathAppend
  <2>3. Stands(arms', Append(o.path, b))
    BY <1>7, <1>10, <1>11, <2>1, <2>2 DEF Stands
  <2> QED
    BY <1>4, <1>5, <2>3
<1>14. Entered(lowered', next + 1)
  BY <1>1, <1>4, <1>8, EnteredOne
<1>15. status' = "lowering" /\ next' \in 1 .. Len(ir) /\ next' \in 1 .. Len(ir) + 1
  BY <1>1, <1>2, <1>4, <1>5
<1>16. NodesFit(net') /\ EntriesFit(lowered', Len(net'))
  BY <1>4, Zenon DEF HWInv
<1> HIDE DEF o
<1> QED
  BY <1>2, <1>4, <1>12, <1>13, <1>14, <1>15, <1>16, StepKeeps

\* A yield is met in the arm of the innermost activation, which has not
\* taken it yet.
LEMMA YieldStands ==
  ASSUME Compiled, HWInv, status = "lowering", ir[next].op = "yield"
  PROVE  /\ Len(arms) \in Nat \ {0} /\ Sequence(arms) /\ Len(ir[next].path) = Len(arms)
         /\ Stands(arms, ir[next].path)
         /\ ArmFits(Arm, Len(net)) /\ Arm = arms[Len(arms)]
         /\ Here(ir[next].path).op = Arm.op /\ ir[next].attr = Arm.op
         /\ Here(ir[next].path).arm = IF Arm.thenVals = <<>> THEN "then" ELSE "else"
         /\ DOMAIN Wanted = DOMAIN ir[Arm.op].attr /\ DOMAIN Wanted \subseteq Symbols
         /\ Outside(ir[next].path) \in Seq(Blocks)
         /\ Len(Outside(ir[next].path)) = Len(arms) - 1
         /\ \A k \in 1 .. Len(arms) - 1 : Outside(ir[next].path)[k] = ir[next].path[k]
         /\ \A s \in DOMAIN Wanted : /\ Wanted[s] \in SSAValues /\ Wanted[s] \in DOMAIN lowered
                                     /\ lowered[Wanted[s]] \in 1 .. Len(net)
<1> DEFINE o == ir[next]
           n == Len(arms)
<1>1. /\ Formed(ir, o, next) /\ Uses(o) \subseteq SSAValues /\ IsMapped(Uses(o))
  BY NextUses
<1>2. o.path \in Seq(Blocks) /\ o.path # <<>> /\ o.op = "yield"
  BY <1>1 DEF Formed
<1>3. Stands(arms, o.path) /\ Sequence(arms) /\ ArmsFit(arms, Len(net))
  BY DEF HWInv, Lows, ArmsFit
<1>4. n = Len(o.path) /\ n \in Nat \ {0} /\ n \in 1 .. n
  <2>1. Len(o.path) \in Nat \ {0}
    BY <1>2
  <2> QED
    BY <1>3, <2>1 DEF Stands
<1>5. Arm = arms[n] /\ ArmFits(Arm, Len(net)) /\ StandsIn(Arm, o.path[n])
  BY <1>3, <1>4 DEF Stands, ArmsFit, Arm
<1>6. Here(o.path) = o.path[n]
  BY <1>4 DEF Here
<1>7. Here(o.path).op = Arm.op /\ Here(o.path).arm = IF Arm.thenVals = <<>> THEN "then" ELSE "else"
  BY <1>5, <1>6 DEF StandsIn
<1>8. /\ o.attr = Arm.op /\ DOMAIN o.args = DOMAIN ir[Arm.op].attr
      /\ DOMAIN o.args \subseteq Symbols
  BY <1>1, <1>2, <1>7 DEF Formed
<1>9. /\ Outside(o.path) \in Seq(Blocks) /\ Len(Outside(o.path)) = n - 1
      /\ \A k \in 1 .. n - 1 : Outside(o.path)[k] = o.path[k]
  <2> DEFINE p == o.path
             m == n - 1
  <2>1. p \in Seq(Blocks) /\ m \in 0 .. Len(p) /\ Outside(p) = Within(p, m)
    BY <1>2, <1>4 DEF Outside, Within
  <2> HIDE DEF p, m
  <2>2. /\ Outside(p) \in Seq(Blocks) /\ Len(Outside(p)) = m
        /\ \A k \in 1 .. m : Outside(p)[k] = p[k]
    BY <2>1, PathPrefix
  <2> QED
    BY <2>2 DEF p, m
<1>10. \A s \in DOMAIN o.args : o.args[s] \in Uses(o)
  BY DEF Uses
<1>11. \A s \in DOMAIN o.args : /\ o.args[s] \in SSAValues /\ o.args[s] \in DOMAIN lowered
                                /\ lowered[o.args[s]] \in 1 .. Len(net)
  BY <1>1, <1>10 DEF IsMapped, HWInv, EntriesFit
<1>12. Wanted = o.args
  BY DEF Wanted
<1> HIDE DEF o
<1>13. /\ DOMAIN Wanted = DOMAIN ir[Arm.op].attr /\ DOMAIN Wanted \subseteq Symbols
       /\ \A s \in DOMAIN Wanted : /\ Wanted[s] \in SSAValues /\ Wanted[s] \in DOMAIN lowered
                                   /\ lowered[Wanted[s]] \in 1 .. Len(net)
  BY <1>8, <1>11, <1>12
<1> QED
  BY <1>3, <1>4, <1>5, <1>7, <1>8, <1>9, <1>13 DEF o

LEMMA ThenYieldKeeps == ASSUME Compiled, HWInv, ThenYield, UNCHANGED vars PROVE HWInv'
<1> DEFINE o   == ir[next]
           n   == Len(arms)
           f   == Lowered(Wanted)
           a   == [op |-> Arm.op, cond |-> Arm.cond, thenVals |-> <<f>>]
           b   == Block(Arm.op, "else")
           out == Outside(o.path)
<1>1. status = "lowering" /\ o.op = "yield" /\ Arm.thenVals = <<>>
  BY DEF ThenYield, Lowering
<1>2. /\ outcome = "done" /\ next \in 1 .. Len(ir) /\ Len(ir) \in Nat /\ IsMapped(Uses(o))
      /\ DOMAIN ir = 1 .. Len(ir) /\ Len(net) \in Nat
  BY <1>1, NextUses
<1>3. /\ n \in Nat \ {0} /\ Sequence(arms) /\ Len(o.path) = n /\ Stands(arms, o.path)
      /\ ArmFits(Arm, Len(net)) /\ Arm = arms[n]
      /\ Here(o.path).op = Arm.op /\ Here(o.path).arm = "then"
      /\ DOMAIN Wanted = DOMAIN ir[Arm.op].attr
      /\ out \in Seq(Blocks) /\ Len(out) = n - 1 /\ \A k \in 1 .. n - 1 : out[k] = o.path[k]
      /\ \A s \in DOMAIN Wanted : lowered[Wanted[s]] \in 1 .. Len(net)
  BY <1>1, YieldStands
<1>4. /\ arms' = [arms EXCEPT ![n].thenVals = <<f>>] /\ next' = next + 1
      /\ UNCHANGED <<lowered, net, returned, status>>
  BY <1>2 DEF ThenYield
<1>5. next + 1 \in 1 .. Len(ir) /\ ir[next + 1].path = Append(out, b)
  <2>1. o.op # "return" /\ After(o, next) = Append(out, b)
    BY <1>1, <1>3 DEF After
  <2> QED
    BY <1>1, <2>1, NextPlace
<1>6. \A u : u.at = next => ~Makes(ir, u)
  BY <1>1, <1>3 DEF Makes
<1>7. b \in Blocks /\ StandsIn(a, b)
  <2>1. Arm.op \in Nat
    <3>1. DOMAIN ir = 1 .. Len(ir) /\ Len(ir) \in Nat /\ ArmFits(Arm, Len(net))
      BY <1>2, <1>3, Zenon
    <3> QED
      BY <3>1 DEF ArmFits
  <2>2. Block(Arm.op, "else") \in Blocks
    BY <2>1, BlockOf DEF Arms
  <2>3. b.op = Arm.op /\ b.arm = "else"
    BY DEF Block
  <2>4. a.op = Arm.op /\ a.thenVals # <<>>
    OBVIOUS
  <2> HIDE DEF a, b
  <2> QED
    BY <2>2, <2>3, <2>4 DEF StandsIn, b
<1>8. ArmFits(a, Len(net))
  <2>1. DOMAIN f = DOMAIN Wanted /\ \A s \in DOMAIN f : f[s] = lowered[Wanted[s]]
    BY DEF Lowered
  <2>2. a.thenVals = <<f>> /\ a.op = Arm.op /\ a.cond = Arm.cond
    OBVIOUS
  <2>3. a = [op |-> a.op, cond |-> a.cond, thenVals |-> a.thenVals]
    BY Zenon
  <2> HIDE DEF f, a
  <2>4. DOMAIN f = DOMAIN ir[a.op].attr /\ \A s \in DOMAIN f : f[s] \in 1 .. Len(net)
    BY <1>3, <2>1, <2>2
  <2> QED
    BY <1>3, <2>2, <2>3, <2>4 DEF ArmFits
<1>9. /\ Sequence(arms') /\ Len(arms') = n /\ arms'[n] = a
      /\ \A k \in 1 .. n - 1 : arms'[k] = arms[k]
  <2>1. DOMAIN arms = 1 .. n
    BY <1>3, SequenceDomain
  <2>2. Arm = [op |-> Arm.op, cond |-> Arm.cond, thenVals |-> Arm.thenVals]
    BY <1>3 DEF ArmFits
  <2>3. [[op |-> Arm.op, cond |-> Arm.cond, thenVals |-> Arm.thenVals] EXCEPT !.thenVals = <<f>>] = a
    <3> DEFINE x == Arm.op
               y == Arm.cond
               v == Arm.thenVals
    <3> HIDE DEF f, x, y, v
    <3>1. [[op |-> x, cond |-> y, thenVals |-> v] EXCEPT !.thenVals = <<f>>]
            = [op |-> x, cond |-> y, thenVals |-> <<f>>]
      OBVIOUS
    <3> QED
      BY <3>1 DEF x, y, v
  <2>4. [arms[n] EXCEPT !.thenVals = <<f>>] = a
    BY <1>3, <2>2, <2>3
  <2>5. arms' = [arms EXCEPT ![n] = a]
    BY <1>4, <2>4
  <2> HIDE DEF f, a
  <2>6. arms = [k \in 1 .. n |-> arms[k]]
    <3>1. Sequence(arms)
      BY <1>3, Zenon
    <3> QED
      BY <2>1, <3>1 DEF Sequence
  <2> HIDE DEF n
  <2>7. arms' = [k \in 1 .. n |-> IF k = n THEN a ELSE arms[k]]
    BY <2>5, <2>6
  <2>8. arms' \in Seq({arms[k] : k \in 1 .. n} \cup {a}) /\ DOMAIN arms' = 1 .. n /\ Len(arms') = n
    <3> DEFINE S == {arms[k] : k \in 1 .. n} \cup {a}
    <3>1. \A k \in 1 .. n : (IF k = n THEN a ELSE arms[k]) \in S
      OBVIOUS
    <3>2. n \in Nat
      BY <1>3
    <3> HIDE DEF S
    <3>3. arms' \in Seq(S) /\ DOMAIN arms' = 1 .. n /\ Len(arms') = n
      BY <2>7, <3>1, <3>2
    <3> QED
      BY <3>3 DEF S
  <2>9. Sequence(arms')
    BY <2>8, SequenceOf
  <2> QED
    BY <1>3, <2>7, <2>8, <2>9
<1> HIDE DEF a, b, f, out, n
<1>10. n = Len(arms) /\ \A k \in 1 .. n : k \in 1 .. n - 1 \/ k = n
  BY <1>3 DEF n
<1>11. ArmsFit(arms', Len(net'))
  BY <1>4, <1>8, <1>9, <1>10 DEF HWInv, ArmsFit
<1>12. Stands(arms', ir[next'].path)
  <2>1. /\ Len(Append(out, b)) = Len(out) + 1
        /\ Append(out, b)[Len(out) + 1] = b
        /\ \A k \in 1 .. Len(out) : Append(out, b)[k] = out[k]
    BY <1>3, <1>7, PathAppend
  <2>2. Len(out) + 1 = n
    BY <1>3
  <2>3. Stands(arms', Append(out, b))
    BY <1>3, <1>7, <1>9, <1>10, <2>1, <2>2 DEF Stands
  <2> QED
    BY <1>4, <1>5, <2>3
<1>13. Entered(lowered', next + 1)
  BY <1>1, <1>4, <1>6, EnteredOne
<1>14. status' = "lowering" /\ next' \in 1 .. Len(ir) /\ next' \in 1 .. Len(ir) + 1
  BY <1>1, <1>2, <1>4, <1>5
<1>15. NodesFit(net') /\ EntriesFit(lowered', Len(net'))
  BY <1>4 DEF HWInv
<1> HIDE DEF o
<1> QED
  BY <1>2, <1>4, <1>11, <1>12, <1>13, <1>14, <1>15, StepKeeps

\* More nodes, each of which has inputs among those of before.
LEMMA NodesFitConcat ==
  ASSUME NEW nodes, NodesFit(nodes), NEW more, Sequence(more),
         \A i \in DOMAIN more : \A s \in DOMAIN more[i].ins : more[i].ins[s] \in 1 .. Len(nodes)
  PROVE  /\ NodesFit(nodes \o more) /\ Len(nodes \o more) = Len(nodes) + Len(more)
         /\ Len(nodes) \in Nat /\ Len(more) \in Nat
<1>1. /\ Sequence(nodes \o more) /\ Len(nodes \o more) = Len(nodes) + Len(more)
      /\ \A i \in 1 .. Len(nodes) : (nodes \o more)[i] = nodes[i]
      /\ \A i \in 1 .. Len(more) : (nodes \o more)[Len(nodes) + i] = more[i]
  BY SequenceConcat DEF NodesFit
<1> DEFINE all == nodes \o more
<1>2. /\ Sequence(all) /\ Len(all) = Len(nodes) + Len(more)
      /\ \A i \in 1 .. Len(nodes) : all[i] = nodes[i]
      /\ \A i \in 1 .. Len(more) : all[Len(nodes) + i] = more[i]
  BY <1>1
<1> HIDE DEF all
<1>3. /\ Len(nodes) \in Nat /\ DOMAIN nodes = 1 .. Len(nodes)
      /\ Len(more) \in Nat /\ DOMAIN more = 1 .. Len(more)
      /\ DOMAIN all = 1 .. Len(nodes) + Len(more)
  BY <1>2, SequenceDomain DEF NodesFit
<1>4. ASSUME NEW n \in DOMAIN all, NEW s \in DOMAIN all[n].ins
      PROVE  all[n].ins[s] \in 1 .. n - 1
  <2>1. CASE n \in 1 .. Len(nodes)
    <3>1. n \in DOMAIN nodes /\ all[n] = nodes[n]
      BY <1>2, <1>3, <2>1
    <3> QED
      BY <3>1, <1>4 DEF NodesFit
  <2>2. CASE n \notin 1 .. Len(nodes)
    <3> DEFINE i == n - Len(nodes)
    <3>1. i \in 1 .. Len(more) /\ n = Len(nodes) + i /\ Len(nodes) <= n - 1 /\ n \in Nat
      BY <1>3, <2>2
    <3> HIDE DEF i
    <3>2. all[n] = more[i]
      BY <1>2, <3>1
    <3>3. all[n].ins[s] \in 1 .. Len(nodes)
      BY <1>3, <1>4, <3>1, <3>2
    <3> QED
      BY <1>3, <3>1, <3>3
  <2> QED
    BY <2>1, <2>2
<1> QED
  BY <1>2, <1>3, <1>4 DEF NodesFit, all

LEMMA MuxInputs ==
  ASSUME NEW m, NEW c \in 1 .. m, NEW t \in 1 .. m, NEW f \in 1 .. m,
         NEW s \in DOMAIN Mux(c, t, f).ins
  PROVE  Mux(c, t, f).ins[s] \in 1 .. m
<1> DEFINE ins == [cond |-> c, true |-> t, false |-> f]
<1>1. \A k \in DOMAIN ins : ins[k] \in 1 .. m
  OBVIOUS
<1> HIDE DEF ins
<1>2. Mux(c, t, f).ins = ins
  BY DEF Mux, Node, ins
<1> QED
  BY <1>1, <1>2

\* The results of an scf.if get a multiplexer each.
LEMMA ElseYieldKeeps == ASSUME Compiled, HWInv, ElseYield, UNCHANGED vars PROVE HWInv'
<1> DEFINE o       == ir[next]
           n       == Len(arms)
           m       == Len(net)
           named   == Orders!SetToSeq(DOMAIN Wanted)
           w       == Cardinality(DOMAIN Wanted)
           out     == Outside(o.path)
           tv      == Arm.thenVals[1]
           mux(i)  == Mux(Arm.cond, tv[named[i]], lowered[Wanted[named[i]]])
           muxes   == [i \in DOMAIN named |-> mux(i)]
           made(s) == SSA(next, ir[Arm.op].path, Wanted[s].width, <<s>>)
           into    == [v \in {made(s) : s \in DOMAIN Wanted} |->
                         m + CHOOSE i \in DOMAIN named : named[i] = v.of[1]]
<1>1. status = "lowering" /\ o.op = "yield" /\ Arm.thenVals # <<>>
  BY DEF ElseYield, Lowering
<1>2. /\ outcome = "done" /\ next \in 1 .. Len(ir) /\ Len(ir) \in Nat /\ IsMapped(Uses(o))
      /\ DOMAIN ir = 1 .. Len(ir) /\ m \in Nat /\ Built(ir, path)
  BY <1>1, NextUses
<1>3. /\ n \in Nat \ {0} /\ Sequence(arms) /\ Len(o.path) = n /\ Stands(arms, o.path)
      /\ ArmFits(Arm, m) /\ Here(o.path).op = Arm.op /\ Here(o.path).arm = "else"
      /\ o.attr = Arm.op
      /\ DOMAIN Wanted = DOMAIN ir[Arm.op].attr /\ DOMAIN Wanted \subseteq Symbols
      /\ out \in Seq(Blocks) /\ Len(out) = n - 1 /\ \A k \in 1 .. n - 1 : out[k] = o.path[k]
      /\ \A s \in DOMAIN Wanted : Wanted[s] \in SSAValues /\ lowered[Wanted[s]] \in 1 .. m
  BY <1>1, YieldStands
<1>4. /\ net' = net \o muxes /\ lowered' = Rebind(lowered, into)
      /\ arms' = SubSeq(arms, 1, n - 1) /\ next' = next + 1 /\ UNCHANGED <<returned, status>>
  BY <1>2 DEF ElseYield, WithResults, Callers
<1>5. /\ DOMAIN named = 1 .. w /\ w \in Nat
      /\ \A s \in DOMAIN Wanted : \E i \in 1 .. w : named[i] = s
      /\ \A i \in 1 .. w : named[i] \in DOMAIN Wanted
  <2>1. IsFiniteSet(DOMAIN Wanted)
    BY <1>3, SymbolsAssumption, FS_Subset
  <2> QED
    BY <2>1, Enumerated
<1>6. next + 1 \in 1 .. Len(ir) /\ ir[next + 1].path = out
  <2>1. o.op # "return" /\ After(o, next) = out
    BY <1>1, <1>3 DEF After
  <2> QED
    BY <1>1, <2>1, NextPlace
<1>7. Arm.cond \in 1 .. m /\ \A s \in DOMAIN Wanted : tv[s] \in 1 .. m
  <2>1. PICK f : /\ Arm.thenVals = <<f>> /\ DOMAIN f = DOMAIN ir[Arm.op].attr
                 /\ \A s \in DOMAIN f : f[s] \in 1 .. m
    BY <1>1, <1>3 DEF ArmFits
  <2>2. tv = f
    BY <2>1
  <2> QED
    BY <1>3, <2>1, <2>2 DEF ArmFits
<1>8. /\ DOMAIN into = {made(s) : s \in DOMAIN Wanted}
      /\ \A v \in DOMAIN into : into[v] = m + CHOOSE i \in DOMAIN named : named[i] = v.of[1]
  OBVIOUS
<1>9. \A s : /\ made(s) = SSA(next, ir[Arm.op].path, Wanted[s].width, <<s>>)
             /\ made(s).of[1] = s
  BY DEF SSA
<1>10. DOMAIN muxes = DOMAIN named /\ \A i \in DOMAIN named : muxes[i] = mux(i)
  OBVIOUS
<1> HIDE DEF named, w, tv
<1>11. ASSUME NEW i \in DOMAIN named, NEW s \in DOMAIN mux(i).ins
       PROVE  mux(i).ins[s] \in 1 .. m
  <2>1. tv[named[i]] \in 1 .. m /\ lowered[Wanted[named[i]]] \in 1 .. m
    BY <1>3, <1>5, <1>7
  <2> HIDE DEF m
  <2> QED
    BY <1>7, <1>11, <2>1, MuxInputs
<1> HIDE DEF mux, made
<1>12. Sequence(muxes) /\ Len(muxes) = w
  <2>1. muxes = [i \in 1 .. w |-> mux(i)]
    BY <1>5
  <2> HIDE DEF muxes
  <2>2. muxes \in Seq({mux(i) : i \in 1 .. w}) /\ Len(muxes) = w
    BY <1>5, <2>1
  <2> QED
    BY <2>2, SequenceOf
<1> HIDE DEF muxes, into
<1>13. NodesFit(net') /\ Len(net') = m + w
  <2>1. NodesFit(net)
    BY DEF HWInv
  <2>2. \A i \in DOMAIN muxes : \A s \in DOMAIN muxes[i].ins : muxes[i].ins[s] \in 1 .. Len(net)
    BY <1>10, <1>11
  <2> QED
    BY <1>4, <1>12, <2>1, <2>2, NodesFitConcat
<1>14. ASSUME NEW v \in DOMAIN into PROVE v \in SSAValues /\ into[v] \in 1 .. m + w
  <2>1. PICK s \in DOMAIN Wanted : v = made(s)
    BY <1>8
  <2>2. v = SSA(next, ir[Arm.op].path, Wanted[s].width, <<s>>) /\ v.of[1] = s
    BY <1>9, <2>1
  <2>3. v \in SSAValues
    <3>1. Wanted[s].width \in Nat \ {0} /\ s \in Symbols /\ next \in Nat
      BY <1>2, <1>3 DEF SSAValues
    <3>2. Arm.op \in DOMAIN ir
      BY <1>3 DEF ArmFits
    <3>3. ir[Arm.op].path \in Seq(Blocks)
      BY <1>2, <3>2 DEF Built, Formed
    <3> QED
      BY <2>2, <3>1, <3>3, TypedResult
  <2>4. \E i \in DOMAIN named : named[i] = v.of[1]
    BY <1>5, <2>2
  <2> DEFINE i == CHOOSE j \in DOMAIN named : named[j] = v.of[1]
  <2>5. i \in 1 .. w
    BY <1>5, <2>4
  <2>6. into[v] = m + i
    BY <1>8
  <2> HIDE DEF i
  <2> QED
    BY <1>2, <1>5, <2>3, <2>5, <2>6
<1>15. /\ DOMAIN lowered' = DOMAIN lowered \cup DOMAIN into
       /\ \A v \in DOMAIN lowered' : lowered'[v] = IF v \in DOMAIN into THEN into[v] ELSE lowered[v]
  BY <1>4 DEF Rebind
<1>16. EntriesFit(lowered', Len(net'))
  <2>1. EntriesFit(lowered, m)
    BY DEF HWInv
  <2>2. m \in Nat /\ m + w \in Nat /\ m <= m + w
    BY <1>2, <1>5
  <2> HIDE DEF m
  <2>3. EntriesFit(lowered, m + w)
    BY <2>1, <2>2, EntriesFitMore
  <2> QED
    BY <1>13, <1>14, <1>15, <2>3 DEF EntriesFit
<1>17. /\ Sequence(arms') /\ Len(arms') = n - 1
       /\ \A k \in 1 .. n - 1 : arms'[k] = arms[k]
  <2>1. arms # <<>>
    BY <1>3
  <2> QED
    BY <1>3, <1>4, <2>1, SequenceFront
<1>18. ArmsFit(arms', Len(net'))
  <2>1. \A k \in 1 .. n - 1 : k \in 1 .. n
    BY <1>3
  <2>2. ArmsFit(arms', m)
    BY <1>17, <2>1 DEF HWInv, ArmsFit
  <2>3. m \in Nat /\ m + w \in Nat /\ m <= m + w
    BY <1>2, <1>5
  <2> HIDE DEF m
  <2>4. ArmsFit(arms', m + w)
    BY <2>2, <2>3, ArmsFitMore
  <2> QED
    BY <1>13, <2>4
<1>19. Stands(arms', ir[next'].path)
  <2>1. \A k \in 1 .. n - 1 : k \in 1 .. n
    BY <1>3
  <2>2. Stands(arms', out)
    BY <1>3, <1>17, <2>1 DEF Stands
  <2> QED
    BY <1>4, <1>6, <2>2
<1>20. Entered(lowered', next + 1)
  <2>1. ASSUME NEW v, v.at = next, Makes(ir, v) PROVE v \in DOMAIN lowered'
    <3>1. PICK s \in DOMAIN o.args : v = SSA(v.at, ir[o.attr].path, o.args[s].width, <<s>>)
      BY <1>1, <1>3, <2>1 DEF Makes
    <3>2. Wanted = o.args
      BY DEF Wanted
    <3>3. s \in DOMAIN Wanted /\ v = SSA(next, ir[Arm.op].path, Wanted[s].width, <<s>>)
      BY <1>3, <2>1, <3>1, <3>2
    <3>4. v = made(s)
      BY <1>9, <3>3
    <3> QED
      BY <1>8, <1>15, <3>3, <3>4
  <2> QED
    BY <1>1, <1>15, <2>1, EnteredOne
<1>21. status' = "lowering" /\ next' \in 1 .. Len(ir) /\ next' \in 1 .. Len(ir) + 1
  BY <1>1, <1>2, <1>4, <1>6
<1> HIDE DEF o
<1> QED
  BY <1>2, <1>4, <1>13, <1>16, <1>18, <1>19, <1>20, <1>21, StepKeeps

\* Every step of the machines.
LEMMA NextHW == ASSUME Compiled, HWInv, [DNext]_allVars PROVE HWInv'
<1>1. CASE DEmit
  <2>1. outcome = "emitting" /\ status = "waiting"
    BY <1>1 DEF DEmit, Next, EmitBinding, EmitReturn, EmitBlockBrace, EmitUnsupported,
                FallOffTheEnd, BeginIf, BeginElse, EndIf, SkipFor, BeginFor, EndFor,
                Statement, HWInv
  <2>2. /\ status' = "waiting" /\ next' = 1 /\ lowered' = NoValues /\ net' = <<>> /\ arms' = <<>>
    BY <1>1, <2>1 DEF DEmit, hwVars, HWInv
  <2>3. 1 \in 1 .. Len(ir') + 1
    <3>1. Compiled'
      BY NextCompiled
    <3>2. Len(ir') \in Nat
      BY <3>1, SequenceDomain DEF Compiled, TInv, IInv, Shape
    <3> QED
      BY <3>2
  <2>4. NodesFit(net') /\ EntriesFit(lowered', Len(net'))
    BY <2>1, <2>2 DEF HWInv
  <2>5. ArmsFit(arms, Len(net))'
    BY <2>2, SoundNone DEF ArmsFit
  <2>6. Lows'
    BY <2>2 DEF Lows
  <2>7. NodesFit(net)' /\ EntriesFit(lowered, Len(net))'
    BY <2>4 DEF NodesFit, EntriesFit
  <2> QED
    BY <2>2, <2>3, <2>5, <2>6, <2>7, Zenon DEF HWInv
<1>2. CASE DLower
  <2>1. UNCHANGED vars /\ HWStep
    BY <1>2 DEF DLower
  <2> QED
    BY <2>1, RunHWKeeps, LowerOpKeeps, LowerIfKeeps, ThenYieldKeeps, ElseYieldKeeps,
       RefuseForKeeps, LowerReturnKeeps DEF HWStep
<1>3. ASSUME UNCHANGED <<vars, hwVars>> PROVE HWInv'
  <2>1. /\ ir' = ir /\ outcome' = outcome /\ next' = next /\ lowered' = lowered /\ net' = net
        /\ arms' = arms /\ returned' = returned /\ status' = status
    BY <1>3 DEF vars, hwVars
  <2>2. Lows'
    BY <2>1 DEF HWInv, Lows, Entered
  <2>3. ArmsFit(arms, Len(net))'
    BY <2>1 DEF HWInv, ArmsFit, ArmFits
  <2>4. NodesFit(net)' /\ EntriesFit(lowered, Len(net))'
    BY <2>1 DEF HWInv, NodesFit, EntriesFit
  <2> QED
    BY <2>1, <2>2, <2>3, <2>4 DEF HWInv
<1>4. CASE DStart
  BY <1>3, <1>4 DEF DStart
<1>5. CASE DInterpret
  BY <1>3, <1>5 DEF DInterpret
<1>6. CASE DExecute
  BY <1>3, <1>6 DEF DExecute
<1>7. CASE UNCHANGED allVars
  BY <1>3, <1>7 DEF allVars
<1> QED
  BY <1>1, <1>2, <1>4, <1>5, <1>6, <1>7 DEF DNext

-----------------------------------------------------------------------------
(***************************************************************************)
(* The theorems.                                                           *)
(***************************************************************************)
THEOREM LoweringHolds == DSpec => []HWInv
<1>1. DInit => HWInv
  BY InitHW DEF DInit
<1>2. Compiled /\ HWInv /\ [DNext]_allVars => HWInv'
  BY NextHW
<1> QED
  BY <1>1, <1>2, CompiledHolds, PTL DEF DSpec, allVars

\* Whatever the listing, no value reaches hwgen without its lowered
\* equivalent (hwgen.cpp:78-82): the lowering ends with the circuit or with
\* the refusal of a loop, never with the internal error.
THEOREM NoLookupMissesHold == DSpec => []NoLookupMisses
<1>1. HWInv => NoLookupMisses
  BY DEF HWInv, NoLookupMisses
<1> QED
  BY <1>1, LoweringHolds, PTL

\* Whatever the listing, the circuit has no loop, every value lowered is one
\* of MLIR's, and the pass ends outside every scf.if.
THEOREM CircuitIsTyped == DSpec => []HWTypeOK
<1>1. HWInv => HWTypeOK
  <2> SUFFICES ASSUME HWInv PROVE HWTypeOK
    OBVIOUS
  <2>1. Sequence(net) /\ Sequence(arms)
    BY DEF HWInv, NodesFit, ArmsFit
  <2>2. DOMAIN net = 1 .. Len(net) /\ DOMAIN arms = 1 .. Len(arms)
    BY <2>1, SequenceDomain
  <2>3. ASSUME NEW k \in DOMAIN arms
        PROVE  ir[arms[k].op].op = "if" /\ Len(arms[k].thenVals) <= 1
    <3>1. ArmFits(arms[k], Len(net))
      BY <2>2 DEF HWInv, ArmsFit
    <3>2. ir[arms[k].op].op = "if"
      BY <3>1 DEF ArmFits
    <3>3. arms[k].thenVals = <<>> \/ \E f : arms[k].thenVals = <<f>>
      BY <3>1 DEF ArmFits
    <3> DEFINE t == arms[k].thenVals
    <3>4. CASE t = <<>>
      <4>1. Len(t) = 0
        BY <3>4
      <4> QED
        BY <3>2, <4>1
    <3>5. CASE \E f : t = <<f>>
      <4>1. PICK f : t = <<f>>
        BY <3>5
      <4> HIDE DEF t
      <4>2. Len(t) = 1
        BY <4>1
      <4> QED
        BY <3>2, <4>2 DEF t
    <3> QED
      BY <3>3, <3>4, <3>5
  <2> QED
    BY <2>2, <2>3 DEF HWInv, HWTypeOK, NodesFit, EntriesFit
<1> QED
  BY <1>1, LoweringHolds, PTL


-----------------------------------------------------------------------------
(***************************************************************************)
(* Refusals.  What is in scope has a value: of the statement the walk is   *)
(* at, and, as the bindings saved at a region's opening are put back       *)
(* behind it, of every opening of a region it is in.  These are the        *)
(* structured statements opened and not closed, in this order.             *)
(***************************************************************************)
Declaring == {"decl", "array", "for"}

Known(p, i, map) ==
  /\ Params \subseteq DOMAIN map
  /\ \A j \in DOMAIN p : p[j].kind \in Declaring /\ InScope(p, j, i) => p[j].sym \in DOMAIN map

Opened(p, i) ==
  {b \in DOMAIN p : p[b].kind \in {"if", "for"} /\ b < i /\ i <= CloseOf(p, b)}

Standing(p, i, fs, o) ==
  /\ \A k \in DOMAIN fs :
       /\ o[k] \in Opened(p, i) /\ Known(p, o[k], fs[k].entry)
       /\ \A m \in DOMAIN fs : k < m => o[k] < o[m]
  /\ \A b \in Opened(p, i) : \E k \in DOMAIN fs : o[k] = b

Scoped ==
  outcome = "emitting" =>
    /\ Known(prog, pc, values)
    /\ \E o \in [DOMAIN frames -> Opened(prog, pc)] : Standing(prog, pc, frames, o)

Settles(p) == Sequence(p) /\ WellFormed(p) /\ Nested(p) /\ WellScoped(p)

LEMMA ListingSettled == ASSUME TInv PROVE Settles(prog)
BY ListingsAssumption, ScopesAssumption DEF TInv, Settles, WellFormed, Sequence

LEMMA Opening == \A s : s.kind \in {"if", "for"} => Opens(s)
BY DEF Opens

\* A region and what stands in it.
LEMMA RegionSettled ==
  ASSUME NEW p, Settles(p), NEW b \in DOMAIN p, p[b].kind \in {"if", "for"}
  PROVE  /\ b \in Nat /\ CloseOf(p, b) \in Nat /\ b < CloseOf(p, b)
         /\ Len(p) \in Nat /\ CloseOf(p, b) <= Len(p) /\ CloseOf(p, b) \in DOMAIN p
         /\ p[CloseOf(p, b)].kind \in {"endif", "endfor"}
         /\ \A j \in DOMAIN p : /\ j \in Nat
                                /\ b < j /\ j < CloseOf(p, b) /\ p[j].kind \in {"if", "for"}
                                     => CloseOf(p, j) < CloseOf(p, b)
         /\ p[b].kind = "if" =>
              /\ ElseOf(p, b) \in Nat /\ b < ElseOf(p, b) /\ ElseOf(p, b) < CloseOf(p, b)
              /\ p[ElseOf(p, b)].kind = "else"
              /\ \A j \in DOMAIN p : b < j /\ j < ElseOf(p, b) /\ p[j].kind \in {"if", "for"}
                                       => CloseOf(p, j) < ElseOf(p, b)
<1>1. Len(p) \in Nat /\ DOMAIN p = 1 .. Len(p)
  BY SequenceDomain DEF Settles
<1>2. Opens(p[b])
  BY Opening
<1>3. CloseOf(p, b) \in b + 1 .. Len(p)
  BY <1>2 DEF Settles, Nested
<1>4. \A j \in b + 1 .. CloseOf(p, b) - 1 :
        p[j].kind \in {"if", "for"} => CloseOf(p, j) \in j + 1 .. CloseOf(p, b) - 1
  BY DEF Settles, Nested
<1>5. p[b].kind = "if" =>
        /\ p[CloseOf(p, b)].kind = "endif"
        /\ ElseOf(p, b) \in b + 1 .. CloseOf(p, b) - 1 /\ p[ElseOf(p, b)].kind = "else"
        /\ \A j \in b + 1 .. ElseOf(p, b) - 1 :
             p[j].kind \in {"if", "for"} => CloseOf(p, j) \in j + 1 .. ElseOf(p, b) - 1
  BY DEF Settles, Nested
<1>6. p[b].kind = "for" => p[CloseOf(p, b)].kind = "endfor"
  BY DEF Settles, Nested
<1>7. /\ b \in Nat /\ CloseOf(p, b) \in Nat /\ b < CloseOf(p, b)
      /\ CloseOf(p, b) <= Len(p) /\ CloseOf(p, b) \in DOMAIN p
  BY <1>1, <1>3
<1>8. p[CloseOf(p, b)].kind \in {"endif", "endfor"}
  BY <1>5, <1>6
<1>9. ASSUME NEW j \in DOMAIN p
      PROVE  /\ j \in Nat
             /\ b < j /\ j < CloseOf(p, b) /\ p[j].kind \in {"if", "for"}
                  => CloseOf(p, j) < CloseOf(p, b)
  <2>1. j \in Nat /\ (b < j /\ j < CloseOf(p, b) => j \in b + 1 .. CloseOf(p, b) - 1)
    BY <1>1, <1>7
  <2> QED
    BY <1>4, <1>7, <2>1
<1>10. ASSUME p[b].kind = "if"
       PROVE  /\ ElseOf(p, b) \in Nat /\ b < ElseOf(p, b) /\ ElseOf(p, b) < CloseOf(p, b)
              /\ p[ElseOf(p, b)].kind = "else"
              /\ \A j \in DOMAIN p : b < j /\ j < ElseOf(p, b) /\ p[j].kind \in {"if", "for"}
                                       => CloseOf(p, j) < ElseOf(p, b)
  <2>1. /\ ElseOf(p, b) \in Nat /\ b < ElseOf(p, b) /\ ElseOf(p, b) < CloseOf(p, b)
        /\ p[ElseOf(p, b)].kind = "else"
    BY <1>5, <1>7, <1>10
  <2>2. ASSUME NEW j \in DOMAIN p, b < j, j < ElseOf(p, b), p[j].kind \in {"if", "for"}
        PROVE  CloseOf(p, j) < ElseOf(p, b)
    <3>1. j \in b + 1 .. ElseOf(p, b) - 1
      BY <1>1, <1>7, <2>1, <2>2
    <3>2. CloseOf(p, j) \in j + 1 .. ElseOf(p, b) - 1
      BY <1>5, <1>10, <2>2, <3>1
    <3> QED
      BY <2>1, <3>2
  <2> QED
    BY <2>1, <2>2
<1> QED
  BY <1>1, <1>7, <1>8, <1>9, <1>10

LEMMA ScopeMeans ==
  ASSUME NEW p, NEW j, NEW i, InScope(p, j, i)
  PROVE  /\ j < i
         /\ \A b \in DOMAIN p :
              /\ p[b].kind \in {"if", "for"} => (j \in b .. CloseOf(p, b) - 1 => i <= CloseOf(p, b))
              /\ p[b].kind = "if" => (j \in b .. ElseOf(p, b) - 1 => i <= ElseOf(p, b))
BY Opening DEF InScope

LEMMA ScopeEarlier ==
  ASSUME NEW p, Settles(p), NEW j \in Nat, NEW i \in Nat, NEW h \in Nat,
         InScope(p, j, i), j < h, h <= i
  PROVE  InScope(p, j, h)
<1>1. Len(p) \in Nat /\ DOMAIN p = 1 .. Len(p)
  BY SequenceDomain DEF Settles
<1>2. ASSUME NEW b \in DOMAIN p, Opens(p[b]), j \in b .. CloseOf(p, b) - 1
      PROVE  h <= CloseOf(p, b)
  <2>1. CloseOf(p, b) \in b + 1 .. Len(p)
    BY <1>2 DEF Settles, Nested
  <2>2. i <= CloseOf(p, b)
    BY <1>2 DEF InScope
  <2> QED
    BY <1>1, <2>1, <2>2
<1>3. ASSUME NEW b \in DOMAIN p, p[b].kind = "if", j \in b .. ElseOf(p, b) - 1
      PROVE  h <= ElseOf(p, b)
  <2>1. ElseOf(p, b) \in Nat
    BY <1>3, RegionSettled
  <2>2. i <= ElseOf(p, b)
    BY <1>3, ScopeMeans
  <2> QED
    BY <2>1, <2>2
<1> QED
  BY <1>2, <1>3 DEF InScope

\* What was visible and what was declared since is what there is.
LEMMA KnownLater ==
  ASSUME NEW p, Settles(p), NEW i \in Nat, NEW n \in Nat, i <= n, NEW map, NEW more,
         Known(p, i, map), DOMAIN map \subseteq DOMAIN more,
         \A j \in DOMAIN p : p[j].kind \in Declaring /\ InScope(p, j, n) /\ i <= j
                               => p[j].sym \in DOMAIN more
  PROVE  Known(p, n, more)
<1>1. Len(p) \in Nat /\ DOMAIN p = 1 .. Len(p)
  BY SequenceDomain DEF Settles
<1> SUFFICES ASSUME NEW j \in DOMAIN p, p[j].kind \in Declaring, InScope(p, j, n)
             PROVE  p[j].sym \in DOMAIN more
  BY DEF Known
<1>2. CASE j < i
  <2>1. InScope(p, j, i)
    BY <1>1, <1>2, ScopeEarlier
  <2> QED
    BY <2>1 DEF Known
<1>3. CASE i <= j
  BY <1>3
<1> QED
  BY <1>1, <1>2, <1>3

\* Behind a region, and behind its first arm, is visible what was before it.
LEMMA KnownBehind ==
  ASSUME NEW p, Settles(p), NEW b \in DOMAIN p, p[b].kind \in {"if", "for"},
         NEW map, NEW more, Known(p, b, map), DOMAIN map \subseteq DOMAIN more
  PROVE  /\ Known(p, CloseOf(p, b) + 1, more)
         /\ p[b].kind = "if" => Known(p, ElseOf(p, b) + 1, more)
<1>1. /\ b \in Nat /\ CloseOf(p, b) \in Nat /\ b < CloseOf(p, b)
      /\ p[CloseOf(p, b)].kind \in {"endif", "endfor"}
      /\ \A j \in DOMAIN p : j \in Nat
      /\ p[b].kind = "if" => ElseOf(p, b) \in Nat /\ b < ElseOf(p, b) /\ p[ElseOf(p, b)].kind = "else"
  BY RegionSettled
<1>2. ASSUME NEW last \in Nat, b < last, p[last].kind \notin Declaring,
             \A j \in DOMAIN p : InScope(p, j, last + 1) /\ j \in b .. last - 1 => last + 1 <= last
      PROVE  Known(p, last + 1, more)
  <2>1. \A j \in DOMAIN p : p[j].kind \in Declaring /\ InScope(p, j, last + 1) /\ b <= j
                              => p[j].sym \in DOMAIN more
    <3> SUFFICES ASSUME NEW j \in DOMAIN p, p[j].kind \in Declaring, InScope(p, j, last + 1), b <= j
                 PROVE  FALSE
      OBVIOUS
    <3>1. j < last + 1 /\ j \in Nat /\ j # last
      BY <1>1, <1>2, ScopeMeans
    <3>2. j \in b .. last - 1
      BY <1>1, <3>1
    <3> QED
      BY <1>2, <3>2
  <2>2. last + 1 \in Nat /\ b <= last + 1
    BY <1>1, <1>2
  <2> QED
    BY <1>1, <2>1, <2>2, KnownLater
<1>3. Known(p, CloseOf(p, b) + 1, more)
  <2>1. p[CloseOf(p, b)].kind \notin Declaring
    BY <1>1 DEF Declaring
  <2>2. \A j \in DOMAIN p : InScope(p, j, CloseOf(p, b) + 1) /\ j \in b .. CloseOf(p, b) - 1
                              => CloseOf(p, b) + 1 <= CloseOf(p, b)
    BY ScopeMeans
  <2> QED
    BY <1>1, <1>2, <2>1, <2>2
<1>4. ASSUME p[b].kind = "if" PROVE Known(p, ElseOf(p, b) + 1, more)
  <2>1. p[ElseOf(p, b)].kind \notin Declaring
    BY <1>1, <1>4 DEF Declaring
  <2>2. \A j \in DOMAIN p : InScope(p, j, ElseOf(p, b) + 1) /\ j \in b .. ElseOf(p, b) - 1
                              => ElseOf(p, b) + 1 <= ElseOf(p, b)
    BY <1>4, ScopeMeans
  <2> QED
    BY <1>1, <1>2, <1>4, <2>1, <2>2
<1> QED
  BY <1>3, <1>4

\* What stands between the braces of no region leaves the same ones open.
LEMMA OpenedNext ==
  ASSUME NEW p, Settles(p), NEW i \in DOMAIN p, p[i].kind \notin {"if", "for", "endif", "endfor"}
  PROVE  Opened(p, i + 1) = Opened(p, i)
<1>1. i \in Nat /\ \A b \in DOMAIN p : b \in Nat
  BY SequenceDomain DEF Settles
<1>2. \A b \in DOMAIN p : p[b].kind \in {"if", "for"} =>
        CloseOf(p, b) \in Nat /\ p[CloseOf(p, b)].kind \in {"endif", "endfor"}
  BY RegionSettled
<1>3. \A b \in DOMAIN p : p[b].kind \in {"if", "for"} => b # i /\ CloseOf(p, b) # i
  BY <1>2
<1>4. ASSUME NEW b \in DOMAIN p, p[b].kind \in {"if", "for"}
      PROVE  (b < i + 1 /\ i + 1 <= CloseOf(p, b)) <=> (b < i /\ i <= CloseOf(p, b))
  BY <1>1, <1>2, <1>3, <1>4
<1> QED
  BY <1>4 DEF Opened

LEMMA OpenedInside ==
  ASSUME NEW p, Settles(p), NEW i \in DOMAIN p, p[i].kind \in {"if", "for"}
  PROVE  Opened(p, i + 1) = Opened(p, i) \cup {i}
<1>1. i \in Nat /\ \A b \in DOMAIN p : b \in Nat
  BY SequenceDomain DEF Settles
<1>2. \A b \in DOMAIN p : p[b].kind \in {"if", "for"} =>
        /\ CloseOf(p, b) \in Nat /\ b < CloseOf(p, b)
        /\ p[CloseOf(p, b)].kind \in {"endif", "endfor"}
  BY RegionSettled
<1>3. \A b \in DOMAIN p : p[b].kind \in {"if", "for"} => CloseOf(p, b) # i
  BY <1>2
<1>4. ASSUME NEW b \in DOMAIN p, p[b].kind \in {"if", "for"}
      PROVE  (b < i + 1 /\ i + 1 <= CloseOf(p, b)) <=> ((b < i /\ i <= CloseOf(p, b)) \/ b = i)
  BY <1>1, <1>2, <1>3, <1>4
<1>5. \A b \in DOMAIN p : b \in Opened(p, i + 1) <=> (b \in Opened(p, i) \/ b = i)
  BY <1>4 DEF Opened
<1>6. Opened(p, i + 1) \subseteq DOMAIN p /\ Opened(p, i) \subseteq DOMAIN p
  BY DEF Opened
<1> QED
  BY <1>5, <1>6

\* Of two open regions the later one is closed first.
LEMMA OpenedNested ==
  ASSUME NEW p, Settles(p), NEW i \in Nat, NEW b \in Opened(p, i), NEW d \in Opened(p, i), b < d
  PROVE  /\ CloseOf(p, d) < CloseOf(p, b)
         /\ p[b].kind = "if" /\ i <= ElseOf(p, b) => CloseOf(p, d) < ElseOf(p, b)
<1>1. /\ b \in DOMAIN p /\ p[b].kind \in {"if", "for"} /\ i <= CloseOf(p, b)
      /\ d \in DOMAIN p /\ p[d].kind \in {"if", "for"} /\ d < i
  BY DEF Opened
<1>2. /\ CloseOf(p, b) \in Nat /\ d \in Nat
      /\ \A j \in DOMAIN p : b < j /\ j < CloseOf(p, b) /\ p[j].kind \in {"if", "for"}
                               => CloseOf(p, j) < CloseOf(p, b)
  BY <1>1, RegionSettled
<1>3. CloseOf(p, d) < CloseOf(p, b)
  BY <1>1, <1>2
<1>4. ASSUME p[b].kind = "if", i <= ElseOf(p, b) PROVE CloseOf(p, d) < ElseOf(p, b)
  <2>1. /\ ElseOf(p, b) \in Nat
        /\ \A j \in DOMAIN p : b < j /\ j < ElseOf(p, b) /\ p[j].kind \in {"if", "for"}
                                 => CloseOf(p, j) < ElseOf(p, b)
    BY <1>1, <1>4, RegionSettled
  <2> QED
    BY <1>1, <1>2, <1>4, <2>1
<1> QED
  BY <1>3, <1>4

\* The innermost activation is the one that the walk is at the end, or at
\* the else, of.
LEMMA ClosesInnermost ==
  ASSUME NEW p, Settles(p), NEW i \in DOMAIN p, NEW fs, Sequence(fs), NEW o, Standing(p, i, fs, o),
         p[i].kind \in {"else", "endif", "endfor"}
  PROVE  /\ Len(fs) \in Nat \ {0} /\ Len(fs) \in DOMAIN fs /\ DOMAIN fs = 1 .. Len(fs)
         /\ o[Len(fs)] \in DOMAIN p /\ p[o[Len(fs)]].kind \in {"if", "for"}
         /\ i = (IF p[i].kind = "else" THEN ElseOf(p, o[Len(fs)]) ELSE CloseOf(p, o[Len(fs)]))
         /\ p[i].kind = "else" => p[o[Len(fs)]].kind = "if"
<1> DEFINE N == Len(fs)
           end(b) == IF p[i].kind = "else" THEN ElseOf(p, b) ELSE CloseOf(p, b)
<1>1. N \in Nat /\ DOMAIN fs = 1 .. N
  BY SequenceDomain
<1>2. i \in Nat
  BY SequenceDomain DEF Settles
<1>3. PICK b \in 1 .. i - 1 : p[b].kind \in {"if", "for"} /\ end(b) = i
                              /\ (p[i].kind = "else" => p[b].kind = "if")
  <2>1. CASE p[i].kind = "else"
    BY <2>1 DEF Settles, Nested
  <2>2. CASE p[i].kind = "endif"
    BY <2>2 DEF Settles, Nested
  <2>3. CASE p[i].kind = "endfor"
    BY <2>3 DEF Settles, Nested
  <2> QED
    BY <2>1, <2>2, <2>3
<1>4. b \in DOMAIN p /\ b \in Nat /\ b < i /\ Len(p) \in Nat
  <2>1. Len(p) \in Nat /\ DOMAIN p = 1 .. Len(p)
    BY SequenceDomain DEF Settles
  <2> QED
    BY <1>2, <1>3, <2>1
<1>5. /\ CloseOf(p, b) \in Nat
      /\ p[i].kind = "else" => ElseOf(p, b) = i /\ i < CloseOf(p, b)
      /\ p[i].kind # "else" => CloseOf(p, b) = i
  BY <1>3, <1>4, RegionSettled
<1>6. b \in Opened(p, i)
  BY <1>2, <1>3, <1>4, <1>5 DEF Opened
<1>7. PICK k \in DOMAIN fs : o[k] = b
  BY <1>6 DEF Standing
<1>8. N \in Nat \ {0} /\ N \in DOMAIN fs /\ k <= N
  BY <1>1, <1>7
<1>9. o[N] \in Opened(p, i)
  BY <1>8 DEF Standing
<1>10. k = N
  <2> SUFFICES ASSUME k < N PROVE FALSE
    BY <1>1, <1>8
  <2>1. b < o[N]
    BY <1>7, <1>8 DEF Standing
  <2>2. o[N] \in DOMAIN p /\ p[o[N]].kind \in {"if", "for"} /\ o[N] < i /\ i <= CloseOf(p, o[N])
    BY <1>9 DEF Opened
  <2>3. /\ CloseOf(p, o[N]) < CloseOf(p, b)
        /\ p[b].kind = "if" /\ i <= ElseOf(p, b) => CloseOf(p, o[N]) < ElseOf(p, b)
    BY <1>2, <1>6, <1>9, <2>1, OpenedNested
  <2>4. CloseOf(p, o[N]) < i
    <3>1. CASE p[i].kind = "else"
      BY <1>2, <1>3, <1>5, <2>3, <3>1
    <3>2. CASE p[i].kind # "else"
      BY <1>5, <2>3, <3>2
    <3> QED
      BY <3>1, <3>2
  <2>5. CloseOf(p, o[N]) \in Nat
    BY <2>2, RegionSettled
  <2> QED
    BY <1>2, <2>2, <2>4, <2>5
<1> QED
  BY <1>1, <1>3, <1>4, <1>7, <1>8, <1>10

LEMMA StandsOn ==
  ASSUME NEW p, NEW i, NEW j, NEW fs, NEW gs, NEW o \in [DOMAIN fs -> Opened(p, i)],
         Standing(p, i, fs, o), Opened(p, j) = Opened(p, i),
         DOMAIN gs = DOMAIN fs, \A k \in DOMAIN fs : gs[k].entry = fs[k].entry
  PROVE  \E q \in [DOMAIN gs -> Opened(p, j)] : Standing(p, j, gs, q)
<1>1. o \in [DOMAIN gs -> Opened(p, j)] /\ Standing(p, j, gs, o)
  BY DEF Standing
<1> QED
  BY <1>1

\* Entering a region, with the bindings in force saved.
LEMMA StandsInside ==
  ASSUME NEW p, Settles(p), NEW i \in DOMAIN p, p[i].kind \in {"if", "for"},
         NEW fs, Sequence(fs), NEW o, Standing(p, i, fs, o), NEW f, Known(p, i, f.entry)
  PROVE  \E q \in [DOMAIN Append(fs, f) -> Opened(p, i + 1)] : Standing(p, i + 1, Append(fs, f), q)
<1> DEFINE N  == Len(fs)
           gs == Append(fs, f)
           q  == [k \in DOMAIN gs |-> IF k = N + 1 THEN i ELSE o[k]]
<1>1. N \in Nat /\ DOMAIN fs = 1 .. N
  BY SequenceDomain
<1>2. DOMAIN gs = 1 .. N + 1 /\ gs[N + 1] = f /\ \A k \in 1 .. N : gs[k] = fs[k]
  <2>1. Sequence(gs) /\ Len(gs) = N + 1 /\ gs[N + 1] = f /\ \A k \in 1 .. N : gs[k] = fs[k]
    BY SequenceAppend
  <2> QED
    BY <2>1, SequenceDomain
<1> HIDE DEF gs
<1>3. q[N + 1] = i /\ \A k \in 1 .. N : q[k] = o[k] /\ k < N + 1
  BY <1>1, <1>2
<1>4. Opened(p, i + 1) = Opened(p, i) \cup {i}
  BY OpenedInside
<1>5. \A k \in 1 .. N : /\ o[k] \in Opened(p, i) /\ Known(p, o[k], fs[k].entry)
                        /\ \A m \in 1 .. N : k < m => o[k] < o[m]
  BY <1>1 DEF Standing
<1>6. \A k \in 1 .. N : o[k] < i
  BY <1>5 DEF Opened
<1>7. q \in [DOMAIN gs -> Opened(p, i + 1)]
  BY <1>1, <1>2, <1>4, <1>5
<1>8. \A k \in 1 .. N + 1 : k = N + 1 \/ k \in 1 .. N
  BY <1>1
<1> HIDE DEF q, N
<1>9. ASSUME NEW k \in 1 .. N + 1
      PROVE  /\ q[k] \in Opened(p, i + 1) /\ Known(p, q[k], gs[k].entry)
             /\ \A m \in 1 .. N + 1 : k < m => q[k] < q[m]
  <2>1. CASE k = N + 1
    <3>1. \A m \in 1 .. N + 1 : ~(k < m)
      BY <1>1, <2>1
    <3> QED
      BY <1>2, <1>3, <1>4, <2>1, <3>1
  <2>2. CASE k \in 1 .. N
    <3>1. q[k] = o[k] /\ gs[k] = fs[k]
      BY <1>2, <1>3, <2>2
    <3>2. ASSUME NEW m \in 1 .. N + 1, k < m PROVE q[k] < q[m]
      <4>1. CASE m = N + 1
        BY <1>3, <1>6, <2>2, <3>1, <4>1
      <4>2. CASE m \in 1 .. N
        BY <1>3, <1>5, <2>2, <3>1, <3>2, <4>2
      <4> QED
        BY <1>8, <4>1, <4>2
    <3> QED
      BY <1>4, <1>5, <2>2, <3>1, <3>2
  <2> QED
    BY <1>8, <2>1, <2>2
<1>10. \A b \in Opened(p, i + 1) : \E k \in 1 .. N + 1 : q[k] = b
  <2> SUFFICES ASSUME NEW b \in Opened(p, i + 1) PROVE \E k \in 1 .. N + 1 : q[k] = b
    OBVIOUS
  <2>1. CASE b = i
    BY <1>1, <1>3, <2>1
  <2>2. CASE b \in Opened(p, i)
    <3>1. PICK k \in 1 .. N : o[k] = b
      BY <1>1, <2>2 DEF Standing
    <3> QED
      BY <1>1, <1>3, <3>1
  <2> QED
    BY <1>4, <2>1, <2>2
<1>11. Standing(p, i + 1, gs, q)
  BY <1>2, <1>9, <1>10 DEF Standing
<1> QED
  BY <1>7, <1>11 DEF gs

\* Leaving the innermost region.
LEMMA StandsOutside ==
  ASSUME NEW p, Settles(p), NEW i \in DOMAIN p, p[i].kind \in {"endif", "endfor"},
         NEW fs, Sequence(fs), NEW o, Standing(p, i, fs, o),
         NEW gs, gs = SubSeq(fs, 1, Len(fs) - 1)
  PROVE  \E q \in [DOMAIN gs -> Opened(p, i + 1)] : Standing(p, i + 1, gs, q)
<1> DEFINE N == Len(fs)
           q == [k \in 1 .. N - 1 |-> o[k]]
<1>1. /\ N \in Nat \ {0} /\ DOMAIN fs = 1 .. N /\ N \in 1 .. N
      /\ o[N] \in DOMAIN p /\ p[o[N]].kind \in {"if", "for"} /\ i = CloseOf(p, o[N])
  BY ClosesInnermost
<1>2. DOMAIN gs = 1 .. N - 1 /\ \A k \in 1 .. N - 1 : gs[k] = fs[k]
  <2>1. fs # <<>>
    BY <1>1
  <2>2. Sequence(gs) /\ Len(gs) = N - 1 /\ \A k \in 1 .. N - 1 : gs[k] = fs[k]
    BY <2>1, SequenceFront
  <2> QED
    BY <2>2, SequenceDomain
<1> HIDE DEF N
<1>3. \A k \in 1 .. N - 1 : k \in 1 .. N /\ k < N /\ q[k] = o[k]
  BY <1>1
<1>4. \A k \in 1 .. N : /\ o[k] \in Opened(p, i) /\ Known(p, o[k], fs[k].entry)
                        /\ \A m \in 1 .. N : k < m => o[k] < o[m]
  BY <1>1 DEF Standing
<1>5. i \in Nat
  BY SequenceDomain DEF Settles
<1>6. ASSUME NEW k \in 1 .. N - 1 PROVE o[k] \in Opened(p, i + 1)
  <2>1. o[k] \in Opened(p, i) /\ o[N] \in Opened(p, i) /\ o[k] < o[N]
    BY <1>1, <1>3, <1>4
  <2>2. CloseOf(p, o[N]) < CloseOf(p, o[k])
    BY <1>5, <2>1, OpenedNested
  <2>3. o[k] \in DOMAIN p /\ p[o[k]].kind \in {"if", "for"} /\ o[k] < i
    BY <2>1 DEF Opened
  <2>4. CloseOf(p, o[k]) \in Nat /\ o[k] \in Nat
    BY <2>3, RegionSettled
  <2>5. o[k] < i + 1 /\ i + 1 <= CloseOf(p, o[k])
    BY <1>1, <1>5, <2>2, <2>3, <2>4
  <2> QED
    BY <2>3, <2>5 DEF Opened
<1>7. q \in [DOMAIN gs -> Opened(p, i + 1)]
  BY <1>2, <1>3, <1>6
<1>8. ASSUME NEW b \in Opened(p, i + 1) PROVE \E k \in 1 .. N - 1 : q[k] = b
  <2>1. b \in DOMAIN p /\ p[b].kind \in {"if", "for"} /\ b < i + 1 /\ i + 1 <= CloseOf(p, b)
    BY DEF Opened
  <2>2. b \in Nat /\ CloseOf(p, b) \in Nat
    BY <2>1, RegionSettled
  <2>3. b # i
    BY <2>1
  <2>4. b < i /\ i <= CloseOf(p, b) /\ b # o[N]
    BY <1>1, <1>5, <2>1, <2>2, <2>3
  <2>5. b \in Opened(p, i)
    BY <2>1, <2>4 DEF Opened
  <2>6. PICK k \in 1 .. N : o[k] = b
    BY <1>1, <2>5 DEF Standing
  <2>7. k \in 1 .. N - 1
    BY <1>1, <2>4, <2>6
  <2> QED
    BY <1>3, <2>6, <2>7
<1> HIDE DEF q
<1>9. \A k \in 1 .. N - 1 : /\ q[k] \in Opened(p, i + 1) /\ Known(p, q[k], gs[k].entry)
                            /\ \A m \in 1 .. N - 1 : k < m => q[k] < q[m]
  BY <1>2, <1>3, <1>4, <1>6
<1>10. Standing(p, i + 1, gs, q)
  BY <1>2, <1>8, <1>9 DEF Standing
<1> QED
  BY <1>7, <1>10

\* Passing a loop by.
LEMMA OpenedBehind ==
  ASSUME NEW p, Settles(p), NEW i \in DOMAIN p, p[i].kind \in {"if", "for"}
  PROVE  Opened(p, CloseOf(p, i) + 1) = Opened(p, i)
<1>1. \A b \in DOMAIN p : /\ b \in Nat
                          /\ p[b].kind \in {"if", "for"} => CloseOf(p, b) \in Nat /\ b < CloseOf(p, b)
  BY RegionSettled
<1>2. \A b \in DOMAIN p : p[b].kind \in {"if", "for"} =>
        /\ i < b /\ b < CloseOf(p, i) => CloseOf(p, b) < CloseOf(p, i)
        /\ b < i /\ i < CloseOf(p, b) => CloseOf(p, i) < CloseOf(p, b)
  BY RegionSettled
<1>3. \A b \in DOMAIN p : p[b].kind \in {"if", "for"} =>
        p[CloseOf(p, b)].kind \in {"endif", "endfor"}
  BY RegionSettled
<1>4. \A b \in DOMAIN p : p[b].kind \in {"if", "for"} => CloseOf(p, b) # i /\ CloseOf(p, i) # b
  BY <1>3
<1>5. ASSUME NEW b \in DOMAIN p, p[b].kind \in {"if", "for"}
      PROVE  (b < CloseOf(p, i) + 1 /\ CloseOf(p, i) + 1 <= CloseOf(p, b))
               <=> (b < i /\ i <= CloseOf(p, b))
  BY <1>1, <1>2, <1>4, <1>5
<1> QED
  BY <1>5 DEF Opened

-----------------------------------------------------------------------------
(***************************************************************************)
(* Why a statement is refused.                                             *)
(***************************************************************************)
LEMMA AtStatement ==
  ASSUME TInv, NEW kinds, Statement(kinds)
  PROVE  /\ outcome = "emitting" /\ pc \in Nat /\ pc \in DOMAIN prog /\ prog[pc].kind \in kinds
         /\ Settles(prog)
<1>1. Settles(prog)
  BY ListingSettled
<1>2. Len(prog) \in Nat /\ DOMAIN prog = 1 .. Len(prog)
  BY <1>1, SequenceDomain DEF Settles
<1> QED
  BY <1>1, <1>2, Listed

\* An expression that reads what is visible has a value.
LEMMA VisibleHasValue ==
  ASSUME Known(prog, pc, values), NEW e, ~Unemitted(e),
         Reads(e) \subseteq Params \cup DOMAIN ConstValue \cup Visible(prog, pc, {"decl", "for"})
  PROVE  HasValue(e)
BY DEF Known, Visible, HasValue, Declaring

LEMMA StatementHasValue ==
  ASSUME Settles(prog), pc \in DOMAIN prog, Known(prog, pc, values),
         prog[pc].kind \in {"decl", "assign", "if", "return"}
  PROVE  Unemitted(prog[pc].expr) \/ HasValue(prog[pc].expr)
BY VisibleHasValue DEF Settles, WellScoped, Unemitted

LEMMA HeaderHasValue ==
  ASSUME Settles(prog), pc \in DOMAIN prog, Known(prog, pc, values), prog[pc].kind = "for"
  PROVE  /\ \A e \in {prog[pc].init, prog[pc].step} : Unemitted(e) \/ HasValue(e)
         /\ prog[pc].tripCount \in Nat \cup {NoTripCount}
<1>1. ASSUME NEW e \in {prog[pc].init, prog[pc].step} PROVE Unemitted(e) \/ HasValue(e)
  <2>1. Reads(e) \subseteq Params \cup DOMAIN ConstValue \cup Visible(prog, pc, {"decl", "for"})
    BY <1>1 DEF Settles, WellScoped
  <2> QED
    BY <2>1, VisibleHasValue
<1> QED
  BY <1>1 DEF Settles, WellFormed

\* What a region assigns was visible before it, or is declared in it.
LEMMA AssignedHasValue ==
  ASSUME Settles(prog), pc \in DOMAIN prog, Known(prog, pc, values),
         prog[pc].kind \in {"if", "for"}, ~AssignsItsLocal(pc)
  PROVE  CollectAssigned(prog, pc) \subseteq DOMAIN values
<1> SUFFICES ASSUME NEW k \in pc .. CloseOf(prog, pc), prog[k].kind \in {"assign", "store"}
             PROVE  prog[k].sym \in DOMAIN values
  BY DEF CollectAssigned
<1>1. /\ pc \in Nat /\ CloseOf(prog, pc) \in Nat
      /\ Len(prog) \in Nat /\ CloseOf(prog, pc) <= Len(prog) /\ DOMAIN prog = 1 .. Len(prog)
  BY RegionSettled, SequenceDomain DEF Settles
<1>2. k \in DOMAIN prog /\ k \in Nat /\ pc <= k
  BY <1>1
<1>3. prog[k].sym \in Params \cup Visible(prog, k, {"decl", "array"})
  BY <1>2 DEF Settles, WellScoped
<1>4. CASE prog[k].sym \in Params
  BY <1>4 DEF Known
<1>5. CASE prog[k].sym \in Visible(prog, k, {"decl", "array"})
  <2>1. PICK j \in DOMAIN prog : /\ prog[j].kind \in {"decl", "array"} /\ InScope(prog, j, k)
                                 /\ prog[j].sym = prog[k].sym
    BY <1>5 DEF Visible
  <2>2. j \in Nat /\ j < k
    BY <1>1, <2>1, ScopeMeans
  <2>3. CASE j < pc
    <3>1. InScope(prog, j, pc)
      BY <1>1, <1>2, <2>1, <2>2, <2>3, ScopeEarlier
    <3> QED
      BY <2>1, <3>1 DEF Known, Declaring
  <2>4. CASE pc <= j
    <3>1. j \in pc .. CloseOf(prog, pc)
      BY <1>1, <1>2, <2>2, <2>4
    <3>2. prog[k].sym \in DeclaredInside(pc)
      BY <2>1, <3>1 DEF DeclaredInside
    <3>3. prog[k].sym \in CollectAssigned(prog, pc)
      BY DEF CollectAssigned
    <3> QED
      BY <3>2, <3>3 DEF AssignsItsLocal
  <2> QED
    BY <1>1, <2>2, <2>3, <2>4
<1> QED
  BY <1>3, <1>4, <1>5

-----------------------------------------------------------------------------
(***************************************************************************)
(* The steps.                                                              *)
(***************************************************************************)
Justified == Scoped /\ RefusesOnlyThese

LEMMA EmittingJustified ==
  ASSUME Scoped', outcome' # "failed"
  PROVE  Justified'
BY DEF Justified, RefusesOnlyThese

LEMMA FailJustified ==
  ASSUME Fail,
         \/ pc > Len(prog)
         \/ Unsupported(prog[pc])
         \/ prog[pc].kind = "return" /\ path # <<>>
         \/ prog[pc].kind = "for" /\ prog[pc].tripCount \notin 0 .. MaxIndex
         \/ prog[pc].kind \in {"if", "for"} /\ AssignsItsLocal(pc)
  PROVE  Justified'
<1>1. outcome' = "failed" /\ prog' = prog /\ pc' = pc /\ path' = path
  BY DEF Fail
<1>2. AssignsItsLocal(pc)' <=> AssignsItsLocal(pc)
  BY <1>1 DEF AssignsItsLocal, DeclaredInside
<1>3. Scoped'
  BY <1>1 DEF Scoped
<1> QED
  BY <1>1, <1>2, <1>3 DEF Justified, RefusesOnlyThese

\* A statement that is no brace of a region, and binds what it declares.
LEMMA PassedJustified ==
  ASSUME TInv, Scoped, NEW kinds, Statement(kinds),
         prog[pc].kind \notin {"if", "for", "endif", "endfor"}, prog[pc].kind # "array",
         pc' = pc + 1, UNCHANGED <<prog, frames>>, outcome' # "failed",
         DOMAIN values \subseteq DOMAIN values',
         prog[pc].kind = "decl" => prog[pc].sym \in DOMAIN values'
  PROVE  Justified'
<1>1. outcome = "emitting" /\ pc \in Nat /\ pc \in DOMAIN prog /\ Settles(prog)
  BY AtStatement
<1>2. Known(prog, pc + 1, values')
  <2>1. ASSUME NEW j \in DOMAIN prog, prog[j].kind \in Declaring, InScope(prog, j, pc + 1), pc <= j
        PROVE  prog[j].sym \in DOMAIN values'
    <3>1. j \in Nat /\ j < pc + 1
      BY <1>1, <2>1, ScopeMeans, SequenceDomain DEF Settles
    <3>2. j = pc
      BY <1>1, <2>1, <3>1
    <3> QED
      BY <2>1, <3>2 DEF Declaring
  <2>2. Known(prog, pc, values)
    BY <1>1 DEF Scoped
  <2>3. pc + 1 \in Nat /\ pc <= pc + 1
    BY <1>1
  <2> QED
    BY <1>1, <2>1, <2>2, <2>3, KnownLater
<1>3. Opened(prog, pc + 1) = Opened(prog, pc)
  BY <1>1, OpenedNext
<1>4. PICK o \in [DOMAIN frames -> Opened(prog, pc)] : Standing(prog, pc, frames, o)
  BY <1>1 DEF Scoped
<1>5. \E q \in [DOMAIN frames -> Opened(prog, pc + 1)] : Standing(prog, pc + 1, frames, q)
  BY <1>3, <1>4, StandsOn
<1> QED
  BY <1>2, <1>5, EmittingJustified DEF Scoped

LEMMA BindingJustified == ASSUME TInv, Scoped, EmitBinding PROVE Justified'
<1>1. Statement({"decl", "assign"})
  BY DEF EmitBinding
<1>2. outcome = "emitting" /\ pc \in DOMAIN prog /\ prog[pc].kind \in {"decl", "assign"} /\ Settles(prog)
  BY <1>1, AtStatement
<1>3. CASE HasValue(prog[pc].expr)
  <2>1. /\ pc' = pc + 1 /\ prog' = prog /\ frames' = frames /\ outcome' = outcome
        /\ DOMAIN values' = DOMAIN values \cup {prog[pc].sym}
    BY <1>3 DEF EmitBinding, Bind
  <2> QED
    BY <1>1, <1>2, <2>1, PassedJustified, Zenon
<1>4. CASE ~HasValue(prog[pc].expr)
  <2>1. Fail
    BY <1>4 DEF EmitBinding
  <2>2. Known(prog, pc, values)
    BY <1>2 DEF Scoped
  <2>3. Unsupported(prog[pc])
    BY <1>2, <1>4, <2>2, StatementHasValue DEF Unsupported
  <2> QED
    BY <2>1, <2>3, FailJustified
<1> QED
  BY <1>3, <1>4

LEMMA ReturnJustified == ASSUME TInv, Scoped, EmitReturn PROVE Justified'
<1>1. Statement({"return"})
  BY DEF EmitReturn
<1>2. outcome = "emitting" /\ pc \in DOMAIN prog /\ prog[pc].kind = "return" /\ Settles(prog)
  BY <1>1, AtStatement
<1>3. CASE HasValue(prog[pc].expr) /\ frames = <<>>
  <2>1. outcome' = "done"
    BY <1>3 DEF EmitReturn
  <2> QED
    BY <2>1, EmittingJustified DEF Scoped
<1>4. CASE ~(HasValue(prog[pc].expr) /\ frames = <<>>)
  <2>1. Fail
    BY <1>4 DEF EmitReturn
  <2>2. Known(prog, pc, values)
    BY <1>2 DEF Scoped
  <2>3. Unsupported(prog[pc]) \/ frames # <<>>
    BY <1>2, <1>4, <2>2, StatementHasValue DEF Unsupported
  <2>4. frames # <<>> => path # <<>>
    <3> SUFFICES ASSUME path = <<>> PROVE frames = <<>>
      OBVIOUS
    <3>1. Sequence(frames) /\ Len(frames) = Len(path)
      BY DEF TInv, IInv, Shape
    <3>2. Len(path) = 0
      OBVIOUS
    <3> QED
      BY <3>1, <3>2 DEF Sequence
  <2> QED
    BY <1>2, <2>1, <2>3, <2>4, FailJustified
<1> QED
  BY <1>3, <1>4

LEMMA BraceJustified == ASSUME TInv, Scoped, EmitBlockBrace PROVE Justified'
<1> DEFINE braces == {"{", "}"}
<1>1. Statement(braces) /\ pc' = pc + 1 /\ UNCHANGED <<prog, frames, values, outcome>>
  BY DEF EmitBlockBrace
<1>2. \A kind \in braces : kind \notin {"if", "for", "endif", "endfor", "array", "decl"}
  OBVIOUS
<1> HIDE DEF braces
<1>3. outcome = "emitting" /\ prog[pc].kind \in braces
  BY <1>1, AtStatement
<1>4. /\ prog[pc].kind \notin {"if", "for", "endif", "endfor"}
      /\ prog[pc].kind # "array" /\ prog[pc].kind # "decl"
  BY <1>2, <1>3
<1>5. DOMAIN values \subseteq DOMAIN values' /\ outcome' # "failed"
  BY <1>1, <1>3
<1> QED
  BY <1>1, <1>4, <1>5, PassedJustified

LEMMA UnsupportedJustified == ASSUME EmitUnsupported \/ FallOffTheEnd PROVE Justified'
<1>1. CASE EmitUnsupported
  <2>1. Fail /\ Unsupported(prog[pc])
    BY <1>1 DEF EmitUnsupported, Statement, Unsupported
  <2> QED
    BY <2>1, FailJustified
<1>2. CASE FallOffTheEnd
  BY <1>2, FailJustified DEF FallOffTheEnd
<1> QED
  BY <1>1, <1>2

\* Entering a region: its body sees what was visible, and a loop's variable.
LEMMA EnteredJustified ==
  ASSUME TInv, Scoped, Statement({"if", "for"}), NEW f, f.entry = values,
         frames' = Append(frames, f), pc' = pc + 1, prog' = prog, outcome' # "failed",
         DOMAIN values \subseteq DOMAIN values',
         prog[pc].kind = "for" => prog[pc].sym \in DOMAIN values'
  PROVE  Justified'
<1>1. /\ outcome = "emitting" /\ pc \in Nat /\ pc \in DOMAIN prog /\ Settles(prog)
      /\ prog[pc].kind \in {"if", "for"}
  BY AtStatement
<1>2. Known(prog, pc, values)
  BY <1>1 DEF Scoped
<1>3. Known(prog, pc + 1, values')
  <2>1. ASSUME NEW j \in DOMAIN prog, prog[j].kind \in Declaring, InScope(prog, j, pc + 1), pc <= j
        PROVE  prog[j].sym \in DOMAIN values'
    <3>1. j \in Nat /\ j < pc + 1
      BY <1>1, <2>1, ScopeMeans, SequenceDomain DEF Settles
    <3>2. j = pc
      BY <1>1, <2>1, <3>1
    <3> QED
      BY <1>1, <2>1, <3>2 DEF Declaring
  <2>2. pc + 1 \in Nat /\ pc <= pc + 1
    BY <1>1
  <2> QED
    BY <1>1, <1>2, <2>1, <2>2, KnownLater
<1>4. PICK o \in [DOMAIN frames -> Opened(prog, pc)] : Standing(prog, pc, frames, o)
  BY <1>1 DEF Scoped
<1>5. Known(prog, pc, f.entry) /\ Sequence(frames)
  BY <1>2 DEF TInv, IInv, Shape
<1>6. \E q \in [DOMAIN frames' -> Opened(prog, pc + 1)] : Standing(prog, pc + 1, frames', q)
  BY <1>1, <1>4, <1>5, StandsInside
<1> QED
  BY <1>3, <1>6, EmittingJustified DEF Scoped

LEMMA BeginIfJustified == ASSUME TInv, Scoped, BeginIf PROVE Justified'
<1> DEFINE s       == prog[pc]
           carried == CollectAssigned(prog, pc)
           enters  == HasValue(s.expr) /\ carried \subseteq DOMAIN values
<1>1. Statement({"if"})
  BY DEF BeginIf
<1>2. outcome = "emitting" /\ pc \in DOMAIN prog /\ s.kind = "if" /\ Settles(prog)
  BY <1>1, AtStatement
<1>3. CASE enters
  <2>1. PICK op : frames' = Append(frames, Frame("then", op, carried, values))
    BY <1>3, Zenon DEF BeginIf
  <2>2. pc' = pc + 1 /\ prog' = prog /\ outcome' = outcome /\ values' = values
    BY <1>3 DEF BeginIf
  <2>3. Frame("then", op, carried, values).entry = values
    BY DEF Frame
  <2>4. Statement({"if", "for"})
    BY <1>1 DEF Statement
  <2> QED
    BY <1>2, <2>1, <2>2, <2>3, <2>4, EnteredJustified, Zenon
<1>4. CASE ~enters
  <2>1. Fail
    BY <1>4 DEF BeginIf
  <2>2. Known(prog, pc, values)
    BY <1>2 DEF Scoped
  <2>3. Unsupported(s) \/ AssignsItsLocal(pc)
    BY <1>2, <1>4, <2>2, StatementHasValue, AssignedHasValue DEF Unsupported
  <2> QED
    BY <1>2, <2>1, <2>3, FailJustified
<1> QED
  BY <1>3, <1>4

LEMMA BeginForJustified == ASSUME TInv, Scoped, BeginFor PROVE Justified'
<1> DEFINE s       == prog[pc]
           carried == CollectAssigned(prog, pc) \ {s.sym}
           enters  == /\ s.tripCount # NoTripCount /\ s.tripCount <= MaxIndex
                      /\ HasValue(s.init) /\ HasValue(s.step)
                      /\ carried \subseteq DOMAIN values
<1>1. Statement({"for"})
  BY DEF BeginFor
<1>2. outcome = "emitting" /\ pc \in DOMAIN prog /\ s.kind = "for" /\ Settles(prog)
  BY <1>1, AtStatement
<1>3. CASE enters
  <2>1. PICK op : frames' = Append(frames, Frame("body", op, carried, values))
    BY <1>3, Zenon DEF BeginFor
  <2>2. pc' = pc + 1 /\ prog' = prog /\ outcome' = outcome
    BY <1>3, Zenon DEF BeginFor
  <2>3. PICK iv, args : values' = Rebind(Bind(values, s.sym, iv), args)
    BY <1>3 DEF BeginFor
  <2>4. DOMAIN values \subseteq DOMAIN values' /\ s.sym \in DOMAIN values'
    BY <2>3 DEF Rebind, Bind
  <2>5. Frame("body", op, carried, values).entry = values
    BY DEF Frame
  <2>6. Statement({"if", "for"})
    BY <1>1 DEF Statement
  <2> QED
    BY <1>2, <2>1, <2>2, <2>4, <2>5, <2>6, EnteredJustified
<1>4. CASE ~enters
  <2>1. Fail
    BY <1>4 DEF BeginFor
  <2>2. Known(prog, pc, values)
    BY <1>2 DEF Scoped
  <2>3. /\ \A e \in {s.init, s.step} : Unemitted(e) \/ HasValue(e)
        /\ s.tripCount \in Nat \cup {NoTripCount}
    BY <1>2, <2>2, HeaderHasValue
  <2>4. ~AssignsItsLocal(pc) => carried \subseteq DOMAIN values
    BY <1>2, <2>2, AssignedHasValue
  <2>5. ~(s.tripCount # NoTripCount /\ s.tripCount <= MaxIndex) => s.tripCount \notin 0 .. MaxIndex
    BY <2>3, MaxIndexAssumption DEF NoTripCount
  <2>6. ~(HasValue(s.init) /\ HasValue(s.step)) => Unsupported(s)
    BY <1>2, <2>3, Zenon DEF Unsupported
  <2> QED
    BY <1>2, <1>4, <2>1, <2>4, <2>5, <2>6, FailJustified, Zenon
<1> QED
  BY <1>3, <1>4, Zenon

LEMMA SkipForJustified == ASSUME TInv, Scoped, SkipFor PROVE Justified'
<1>1. Statement({"for"}) /\ pc' = CloseOf(prog, pc) + 1 /\ UNCHANGED <<prog, values, frames, outcome>>
  BY DEF SkipFor
<1>2. outcome = "emitting" /\ pc \in DOMAIN prog /\ prog[pc].kind = "for" /\ Settles(prog)
  BY <1>1, AtStatement
<1>3. Known(prog, CloseOf(prog, pc) + 1, values)
  BY <1>2, KnownBehind DEF Scoped
<1>4. Opened(prog, CloseOf(prog, pc) + 1) = Opened(prog, pc)
  BY <1>2, OpenedBehind
<1>5. PICK o \in [DOMAIN frames -> Opened(prog, pc)] : Standing(prog, pc, frames, o)
  BY <1>2 DEF Scoped
<1>6. \E q \in [DOMAIN frames -> Opened(prog, CloseOf(prog, pc) + 1)] :
        Standing(prog, CloseOf(prog, pc) + 1, frames, q)
  BY <1>4, <1>5, StandsOn
<1> QED
  BY <1>1, <1>2, <1>3, <1>6, EmittingJustified DEF Scoped

LEMMA BeginElseJustified == ASSUME TInv, Scoped, BeginElse PROVE Justified'
<1> DEFINE N == Len(frames)
<1>1. /\ Statement({"else"}) /\ frames # <<>> /\ values' = Top.entry /\ pc' = pc + 1
      /\ prog' = prog /\ outcome' = outcome /\ frames' = [frames EXCEPT ![N].arm = "else"]
  BY DEF BeginElse, Inside, Entry
<1>2. /\ outcome = "emitting" /\ pc \in DOMAIN prog /\ prog[pc].kind = "else" /\ Settles(prog)
      /\ Sequence(frames)
  BY <1>1, AtStatement DEF TInv, IInv, Shape
<1>3. PICK o \in [DOMAIN frames -> Opened(prog, pc)] : Standing(prog, pc, frames, o)
  BY <1>2 DEF Scoped
<1>4. /\ N \in DOMAIN frames /\ o[N] \in DOMAIN prog /\ prog[o[N]].kind = "if"
      /\ pc = ElseOf(prog, o[N])
  BY <1>2, <1>3, ClosesInnermost
<1>5. Known(prog, o[N], Top.entry)
  BY <1>3, <1>4 DEF Standing, Top
<1>6. Known(prog, pc + 1, values')
  BY <1>1, <1>2, <1>4, <1>5, KnownBehind
<1>7. DOMAIN frames' = DOMAIN frames /\ \A k \in DOMAIN frames : frames'[k].entry = frames[k].entry
  <2>1. \A k \in DOMAIN frames :
          frames[k] = Frame(frames[k].arm, frames[k].op, frames[k].carried, frames[k].entry)
    BY DEF TInv, IInv, Shape
  <2>2. \A k \in DOMAIN frames :
          frames'[k] = IF k = N THEN [frames[N] EXCEPT !.arm = "else"] ELSE frames[k]
    BY <1>1
  <2>3. [frames[N] EXCEPT !.arm = "else"].entry = frames[N].entry
    BY <1>4, <2>1 DEF Frame
  <2> QED
    BY <1>1, <2>2, <2>3
<1>8. Opened(prog, pc + 1) = Opened(prog, pc)
  BY <1>2, OpenedNext
<1>9. \E q \in [DOMAIN frames' -> Opened(prog, pc + 1)] : Standing(prog, pc + 1, frames', q)
  BY <1>3, <1>7, <1>8, StandsOn
<1> QED
  BY <1>1, <1>2, <1>6, <1>9, EmittingJustified DEF Scoped

LEMMA LeaveJustified ==
  ASSUME TInv, Scoped, Statement({"endif", "endfor"}), frames # <<>>, Leave
  PROVE  Justified'
<1> DEFINE N == Len(frames)
<1>1. /\ outcome = "emitting" /\ pc \in DOMAIN prog /\ prog[pc].kind \in {"endif", "endfor"}
      /\ Settles(prog) /\ Sequence(frames)
  BY AtStatement DEF TInv, IInv, Shape
<1>2. /\ values' = Rebind(Top.entry, Results) /\ pc' = pc + 1 /\ prog' = prog
      /\ outcome' = outcome /\ frames' = SubSeq(frames, 1, N - 1)
  BY DEF Leave, Restored, Entry
<1>3. PICK o \in [DOMAIN frames -> Opened(prog, pc)] : Standing(prog, pc, frames, o)
  BY <1>1 DEF Scoped
<1>4. /\ N \in DOMAIN frames /\ o[N] \in DOMAIN prog /\ prog[o[N]].kind \in {"if", "for"}
      /\ pc = CloseOf(prog, o[N])
  BY <1>1, <1>3, ClosesInnermost
<1>5. Known(prog, o[N], Top.entry)
  BY <1>3, <1>4 DEF Standing, Top
<1>6. DOMAIN Top.entry \subseteq DOMAIN values'
  BY <1>2 DEF Rebind
<1>7. Known(prog, pc + 1, values')
  BY <1>1, <1>4, <1>5, <1>6, KnownBehind
<1>8. \E q \in [DOMAIN frames' -> Opened(prog, pc + 1)] : Standing(prog, pc + 1, frames', q)
  BY <1>1, <1>2, <1>3, StandsOutside
<1> QED
  BY <1>1, <1>2, <1>7, <1>8, EmittingJustified DEF Scoped

LEMMA InitJustified == Init => Justified
<1> SUFFICES ASSUME Init PROVE Justified
  OBVIOUS
<1>1. TInv
  BY InitTyped
<1>2. pc = 1 /\ frames = <<>> /\ outcome = "emitting" /\ DOMAIN values = Params
  BY DEF Init
<1>3. Settles(prog) /\ Len(prog) \in Nat /\ DOMAIN prog = 1 .. Len(prog)
  BY <1>1, ListingSettled, SequenceDomain DEF Settles
<1>4. Known(prog, pc, values)
  BY <1>2, <1>3, ScopeMeans DEF Known
<1>5. Opened(prog, pc) = {}
  BY <1>2, <1>3 DEF Opened
<1>6. DOMAIN frames = {}
  BY <1>2
<1>7. [k \in {} |-> k] \in [DOMAIN frames -> Opened(prog, pc)]
  BY <1>5, <1>6
<1>8. Standing(prog, pc, frames, [k \in {} |-> k])
  BY <1>5, <1>6 DEF Standing
<1> QED
  BY <1>2, <1>4, <1>7, <1>8 DEF Justified, Scoped, RefusesOnlyThese

LEMMA NextJustified == ASSUME TInv, Justified, [Next]_vars PROVE Justified'
<1>1. Scoped
  BY DEF Justified
<1>2. CASE EmitBinding \/ EmitReturn \/ EmitBlockBrace
  BY <1>1, <1>2, BindingJustified, ReturnJustified, BraceJustified
<1>3. CASE EmitUnsupported \/ FallOffTheEnd
  BY <1>3, UnsupportedJustified
<1>4. CASE BeginIf \/ BeginElse
  BY <1>1, <1>4, BeginIfJustified, BeginElseJustified
<1>5. CASE SkipFor \/ BeginFor
  BY <1>1, <1>5, SkipForJustified, BeginForJustified
<1>6. CASE EndIf \/ EndFor
  <2>1. Statement({"endif", "endfor"}) /\ frames # <<>> /\ Leave
    BY <1>6 DEF EndIf, EndFor, Inside, Statement
  <2> QED
    BY <1>1, <2>1, LeaveJustified
<1>7. CASE UNCHANGED vars
  BY <1>7 DEF vars, Justified, Scoped, RefusesOnlyThese, AssignsItsLocal, DeclaredInside
<1> QED
  BY <1>2, <1>3, <1>4, <1>5, <1>6, <1>7 DEF Next

\* What is in scope has a value, now and behind every region the walk is in.
THEOREM ScopedHolds == Spec => []Scoped
<1>1. Justified => Scoped
  BY DEF Justified
<1> QED
  BY <1>1, InitJustified, NextJustified, TypedHolds, PTL DEF Spec

\* The walk gives up only on what it does not support or may refuse: arrays,
\* streams, an untyped constant, a wide && or ||, a trip count that is not
\* known or no index, a return in a region or none at all.  So a name that is
\* in scope always has a value, in and after every region, whatever was saved
\* and put back around it (mlirgen.cpp:107-110, 166-183, 292-295, 604-615).
THEOREM RefusesOnlyTheseHolds == Spec => []RefusesOnlyThese
<1>1. Justified => RefusesOnlyThese
  BY DEF Justified
<1> QED
  BY <1>1, InitJustified, NextJustified, TypedHolds, PTL DEF Spec
=============================================================================
