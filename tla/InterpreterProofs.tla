------------------------- MODULE InterpreterProofs -------------------------
(***************************************************************************)
(* For all programs, types and inputs: whatever an expression computes, a  *)
(* cell of the interpreter's memory and an element of its streams are      *)
(* canonical values of their symbol's declared type; and a loop variable   *)
(* is where its header's constants and the count of iterations put it.     *)
(***************************************************************************)
EXTENDS Interpreter, BitsProofs

\* The values of a symbol's type.
Cells(s) ==
  [raw : 0 .. 2^Kept(TypeOf[s].width) - 1, width : {TypeOf[s].width},
   isSigned : {TypeOf[s].isSigned}]

-----------------------------------------------------------------------------
(***************************************************************************)
(* Values.                                                                 *)
(***************************************************************************)
LEMMA AllBitsProper == \A v : v \in AllBits <=> v \in [raw : Nat, width : Nat \ {0}, isSigned : BOOLEAN] /\ Proper(v)
<1>1. ASSUME NEW v \in [raw : Nat, width : Nat \ {0}, isSigned : BOOLEAN]
      PROVE  v.raw < 2^Kept(v.width) <=> Proper(v)
  <2>1. 2^Kept(v.width) \in Nat
    BY KeptWidth, PowerOfTwo
  <2> QED
    BY <2>1 DEF Proper
<1> QED
  BY <1>1 DEF AllBits, Kept

LEMMA MadeBits ==
  ASSUME NEW x \in Int, NEW w \in Nat \ {0}, NEW s \in BOOLEAN
  PROVE  Make(x, w, s) \in AllBits
<1>1. Proper(Make(x, w, s))
  BY MakeProper
<1>2. Make(x, w, s) = [raw |-> Make(x, w, s).raw, width |-> w, isSigned |-> s]
  BY DEF Make
<1>3. Make(x, w, s).raw \in Nat
  BY <1>1, ProperValue
<1> DEFINE v == Make(x, w, s)
<1> HIDE DEF v
<1>4. v \in [raw : Nat, width : Nat \ {0}, isSigned : BOOLEAN]
  BY <1>2, <1>3 DEF v
<1> QED
  BY <1>1, <1>4, AllBitsProper DEF v

LEMMA MadeCell ==
  ASSUME NEW x \in Int, NEW s \in Symbols
  PROVE  Make(x, TypeOf[s].width, TypeOf[s].isSigned) \in Cells(s)
<1> DEFINE w == TypeOf[s].width
           b == TypeOf[s].isSigned
           v == Make(x, w, b)
<1>1. w \in Nat \ {0} /\ b \in BOOLEAN
  BY ProgramAssumption DEF Types
<1>2. Proper(v)
  BY <1>1, MakeProper
<1>3. v = [raw |-> v.raw, width |-> w, isSigned |-> b]
  BY DEF Make
<1>4. v.raw \in 0 .. 2^Kept(w) - 1
  BY <1>2, <1>3 DEF Proper
<1> HIDE DEF v
<1> QED
  BY <1>3, <1>4 DEF Cells, v

LEMMA CellBits == ASSUME NEW s \in Symbols, NEW v \in Cells(s) PROVE v \in AllBits
<1>1. TypeOf[s].width \in Nat \ {0} /\ TypeOf[s].isSigned \in BOOLEAN
  BY ProgramAssumption DEF Types
<1>2. 2^Kept(TypeOf[s].width) \in Nat
  BY <1>1, KeptWidth, PowerOfTwo
<1>3. v \in [raw : Nat, width : Nat \ {0}, isSigned : BOOLEAN]
  BY <1>1, <1>2 DEF Cells
<1>4. Proper(v)
  BY <1>1 DEF Cells, Proper
<1> QED
  BY <1>3, <1>4, AllBitsProper

LEMMA CellTyped == ASSUME NEW s \in Symbols, NEW v \in Cells(s) PROVE HasType(v, s)
<1>1. TypeOf[s].width \in Nat \ {0}
  BY ProgramAssumption DEF Types
<1> DEFINE w == TypeOf[s].width
<1>2. Kept(w) \in Nat /\ w \in Nat /\ Kept(w) <= w
  BY <1>1, KeptWidth
<1>3. 2^Kept(w) <= 2^w /\ 2^Kept(w) \in Nat /\ 2^w \in Nat
  BY <1>2, PowersGrow, PowerOfTwo
<1>4. v.width = w /\ v.isSigned = TypeOf[s].isSigned /\ v.raw \in 0 .. 2^Kept(w) - 1
  BY DEF Cells
<1> QED
  BY <1>3, <1>4 DEF HasType

\* A coercion makes a value of the symbol's type of any value.
LEMMA CoercedCell ==
  ASSUME NEW s \in Symbols, NEW v \in AllBits
  PROVE  Coerced(v, s) \in Cells(s)
<1>1. Value(v) \in Int
  BY AllBitsProper, ProperValue
<1> QED
  BY <1>1, MadeCell DEF Coerced, CastTo

LEMMA ZeroCell == ASSUME NEW s \in Symbols PROVE Zero(s) \in Cells(s)
BY MadeCell DEF Zero

LEMMA DefaultIsBits == DefaultBits \in AllBits
<1>1. \A w \in Nat \ {0}, b \in BOOLEAN : Make(0, w, b) \in AllBits
  BY MadeBits
<1>2. 1 \in Nat \ {0}
  OBVIOUS
<1>3. FALSE \in BOOLEAN
  OBVIOUS
<1> QED
  BY <1>1, <1>2, <1>3, Zenon DEF DefaultBits

LEMMA CastBits ==
  ASSUME NEW v, Proper(v), NEW type \in Types
  PROVE  CastTo(v, type) \in AllBits
<1>1. Value(v) \in Int
  BY ProperValue
<1> QED
  BY <1>1, MadeBits DEF CastTo, Types

-----------------------------------------------------------------------------
(***************************************************************************)
(* The inductive invariant.  Memory's cells are the values of their        *)
(* symbol's type; what exec(For)'s activations keep are values, and each   *)
(* is the activation of a loop of the program; during a run the streams    *)
(* are those of the program.                                               *)
(***************************************************************************)
CellsOf(map) == DOMAIN map \subseteq Symbols /\ \A s \in DOMAIN map : map[s] \in Cells(s)
RowsOf(map)  == DOMAIN map \subseteq Symbols /\ \A s \in DOMAIN map : map[s] \in Seq(Cells(s))

Frames(p) ==
  {f \in [at : Nat, k : Nat, iv : AllBits, step : AllBits] :
     f.at \in DOMAIN p /\ p[f.at].kind = "for"}

Streaming ==
  phase = "running" =>
    /\ DOMAIN streamIn = InStreams /\ DOMAIN streamOut = OutStreams
    /\ streamPos \in [InStreams -> Nat]

Typing ==
  /\ prog \in Programs
  /\ CellsOf(scalars) /\ RowsOf(arrays) /\ RowsOf(streamIn) /\ RowsOf(streamOut)
  /\ loops \in Seq(Frames(prog))
  /\ Streaming

LEMMA TypingMeans == Typing => MemoryTyped
<1> SUFFICES ASSUME Typing PROVE MemoryTyped
  OBVIOUS
<1>1. \A s \in DOMAIN scalars : HasType(scalars[s], s)
  BY CellTyped DEF Typing, CellsOf
<1>2. ASSUME NEW map, RowsOf(map), NEW s \in DOMAIN map PROVE AllHaveType(map[s], s)
  <2>1. s \in Symbols /\ map[s] \in Seq(Cells(s))
    BY <1>2 DEF RowsOf
  <2>2. \A i \in DOMAIN map[s] : map[s][i] \in Cells(s)
    BY <2>1
  <2> QED
    BY <2>1, <2>2, CellTyped DEF AllHaveType
<1> QED
  BY <1>1, <1>2 DEF Typing, MemoryTyped

-----------------------------------------------------------------------------
(***************************************************************************)
(* The maps of the memory.                                                 *)
(***************************************************************************)
LEMMA BindCells ==
  ASSUME NEW map, CellsOf(map), NEW s \in Symbols, NEW v \in Cells(s)
  PROVE  CellsOf(Bind(map, s, v))
BY DEF CellsOf, Bind

LEMMA BindRows ==
  ASSUME NEW map, RowsOf(map), NEW s \in Symbols, NEW vs \in Seq(Cells(s))
  PROVE  RowsOf(Bind(map, s, vs))
BY DEF RowsOf, Bind

LEMMA CoercedRow ==
  ASSUME NEW s \in Symbols, NEW vs \in Seq(AllBits)
  PROVE  CoercedAll(vs, s) \in Seq(Cells(s))
<1>1. \A i \in DOMAIN vs : Coerced(vs[i], s) \in Cells(s)
  BY CoercedCell
<1>2. DOMAIN vs = 1 .. Len(vs) /\ Len(vs) \in Nat
  OBVIOUS
<1> QED
  BY <1>1, <1>2 DEF CoercedAll

LEMMA Row ==
  ASSUME NEW s \in DOMAIN ArrayLength, NEW f,
         \A i \in 1 .. ArrayLength[s] : f[i] \in Cells(s)
  PROVE  [i \in 1 .. ArrayLength[s] |-> f[i]] \in Seq(Cells(s))
<1>1. ArrayLength[s] \in Nat
  BY InterpreterAssumption
<1> QED
  BY <1>1

-----------------------------------------------------------------------------
(***************************************************************************)
(* Expressions.                                                            *)
(***************************************************************************)
LEMMA ScalarBits == ASSUME Typing, NEW s \in Symbols PROVE Scalar(s) \in AllBits
<1>1. CASE s \in DOMAIN scalars
  <2>1. scalars[s] \in Cells(s) /\ Scalar(s) = scalars[s]
    BY <1>1 DEF Typing, CellsOf, Scalar, At
  <2> QED
    BY <2>1, CellBits
<1>2. CASE s \notin DOMAIN scalars
  BY <1>2, DefaultIsBits DEF Scalar, At
<1> QED
  BY <1>1, <1>2

LEMMA ArrayRow ==
  ASSUME Typing, NEW a \in Symbols
  PROVE  At(arrays, a, <<>>) \in Seq(Cells(a))
BY DEF Typing, RowsOf, At

LEMMA LoadCell ==
  ASSUME Typing, NEW a \in Symbols, NEW index \in AllBits
  PROVE  LoadElem(a, index) \in Cells(a)
<1> DEFINE arr == At(arrays, a, <<>>)
           C   == Cells(a)
<1>1. arr \in Seq(C)
  BY ArrayRow
<1>2. index.raw \in Nat
  BY DEF AllBits
<1>3. LoadElem(a, index) = IF index.raw >= Len(arr) THEN Zero(a) ELSE arr[index.raw + 1]
  BY DEF LoadElem
<1>4. Zero(a) \in C
  BY ZeroCell
<1> HIDE DEF arr, C
<1>5. index.raw < Len(arr) => arr[index.raw + 1] \in C
  BY <1>1, <1>2
<1>6. LoadElem(a, index) \in C
  BY <1>1, <1>2, <1>3, <1>4, <1>5
<1> QED
  BY <1>6 DEF C

LEMMA StoredRow ==
  ASSUME Typing, NEW a \in Symbols, NEW index \in AllBits, NEW v \in AllBits
  PROVE  RowsOf(StoreElem(a, index, v))
<1> DEFINE arr == At(arrays, a, <<>>)
           C   == Cells(a)
           c   == Coerced(v, a)
           new == IF index.raw >= Len(arr) THEN arr ELSE [arr EXCEPT ![index.raw + 1] = c]
<1>1. arr \in Seq(C) /\ c \in C
  BY ArrayRow, CoercedCell
<1>2. index.raw \in Nat
  BY DEF AllBits
<1>3. StoreElem(a, index, v) = Bind(arrays, a, new)
  BY DEF StoreElem
<1> HIDE DEF arr, c, C
<1>4. new \in Seq(C)
  BY <1>1, <1>2
<1> HIDE DEF new
<1> QED
  BY <1>3, <1>4, BindRows DEF Typing, C

LEMMA EvalBits == ASSUME Typing, NEW e, Evaluable(e) PROVE Eval(e) \in AllBits
<1>1. CASE e.op = "lit"
  BY <1>1 DEF Evaluable, Eval
<1>2. CASE e.op = "name"
  <2>1. e.args[1] \in Symbols /\ Eval(e) = Scalar(e.args[1])
    BY <1>2 DEF Evaluable, Eval
  <2> QED
    BY <2>1, ScalarBits
<1>3. CASE e.op = "index"
  <2>1. /\ e.args[1] \in Symbols /\ e.args[2] \in Symbols
        /\ Eval(e) = LoadElem(e.args[1], Scalar(e.args[2]))
    BY <1>3 DEF Evaluable, Eval
  <2> QED
    BY <2>1, ScalarBits, LoadCell, CellBits
<1>4. CASE e.op \notin {"lit", "name", "index"}
  <2>1. e.op \in BinaryOps /\ e.type \in Types /\ e.args[1] \in Symbols /\ e.args[2] \in Symbols
    BY <1>4 DEF Evaluable
  <2>2. Eval(e) = CastTo(Apply(e.op, Scalar(e.args[1]), Scalar(e.args[2])), e.type)
    BY <1>4 DEF Eval
  <2>3. Scalar(e.args[1]) \in AllBits
    BY <2>1, ScalarBits
  <2>4. Scalar(e.args[2]) \in AllBits
    BY <2>1, ScalarBits
  <2>5. Proper(Apply(e.op, Scalar(e.args[1]), Scalar(e.args[2])))
    BY <2>1, <2>3, <2>4, AllBitsProper, AppliedIsTyped
  <2> QED
    BY <2>1, <2>2, <2>5, CastBits
<1> QED
  BY <1>1, <1>2, <1>3, <1>4

LEMMA RhsBits ==
  ASSUME Typing, phase = "running", NEW e, Bindable(e)
  PROVE  RhsValue(e) \in AllBits
<1>1. CASE e.op = "read"
  <2> DEFINE s == e.args[1]
             C == Cells(s)
  <2>1. s \in InStreams /\ RhsValue(e) = NextElement(s)
    BY <1>1 DEF Bindable, RhsValue
  <2>2. s \in Symbols
    BY <2>1, InterpreterAssumption
  <2>3. streamIn[s] \in Seq(C) /\ streamPos[s] \in Nat
    BY <2>1 DEF Typing, RowsOf, Streaming
  <2>4. Zero(s) \in C
    BY <2>2, ZeroCell
  <2> HIDE DEF C
  <2>5. NextElement(s) \in C
    BY <2>3, <2>4 DEF NextElement, Exhausted
  <2> QED
    BY <2>1, <2>2, <2>5, CellBits DEF C
<1>2. CASE e.op # "read"
  BY <1>2, EvalBits DEF Bindable, RhsValue
<1> QED
  BY <1>1, <1>2

LEMMA ConsumeStreams ==
  ASSUME Typing, phase = "running", NEW e, Consume(e), Bindable(e),
         UNCHANGED <<streamIn, streamOut>>
  PROVE  Streaming'
BY DEF Typing, Streaming, Consume, Bindable

-----------------------------------------------------------------------------
(***************************************************************************)
(* Statements.                                                             *)
(***************************************************************************)
LEMMA Executed ==
  ASSUME Typing, NEW kinds, Executing(kinds)
  PROVE  /\ phase = "running" /\ pc \in DOMAIN prog /\ pc \in Nat
         /\ prog[pc].kind \in kinds
         /\ WellFormed(prog) /\ Executable(prog)
<1>1. prog \in Programs /\ pc \in DOMAIN prog
  BY DEF Typing, Executing
<1>2. WellFormed(prog) /\ Executable(prog)
  BY <1>1, ListingsAssumption
<1>3. pc \in Nat
  BY <1>1, <1>2 DEF WellFormed
<1> QED
  BY <1>1, <1>2, <1>3 DEF Executing

LEMMA BindingTyped == ASSUME Typing, ExecBinding PROVE Typing'
<1> DEFINE s == prog[pc]
<1>1. phase = "running" /\ pc \in DOMAIN prog /\ s.kind \in {"decl", "assign"} /\ WellFormed(prog)
      /\ Executable(prog)
  BY Executed DEF ExecBinding
<1>2. s.sym \in Symbols
  BY <1>1 DEF WellFormed
<1>3. Bindable(s.expr)
  BY <1>1 DEF Executable
<1>4. Coerced(RhsValue(s.expr), s.sym) \in Cells(s.sym)
  BY <1>1, <1>2, <1>3, RhsBits, CoercedCell
<1>5. CellsOf(scalars')
  BY <1>2, <1>4, BindCells DEF Typing, ExecBinding
<1>6. Streaming'
  BY <1>1, <1>3, ConsumeStreams DEF ExecBinding
<1> QED
  BY <1>5, <1>6 DEF Typing, ExecBinding, RowsOf, Frames

LEMMA StoreTyped == ASSUME Typing, ExecStore PROVE Typing'
<1> DEFINE s == prog[pc]
<1>1. phase = "running" /\ pc \in DOMAIN prog /\ s.kind = "store" /\ Executable(prog)
  BY Executed DEF ExecStore
<1>2. s.sym \in Symbols /\ Evaluable(s.index) /\ Bindable(s.expr)
  BY <1>1 DEF Executable
<1>3. RowsOf(arrays')
  <2>1. Eval(s.index) \in AllBits
    BY <1>2, EvalBits
  <2>2. RhsValue(s.expr) \in AllBits
    BY <1>1, <1>2, RhsBits
  <2>3. arrays' = StoreElem(s.sym, Eval(s.index), RhsValue(s.expr))
    BY DEF ExecStore
  <2> QED
    BY <1>2, <2>1, <2>2, <2>3, StoredRow
<1>4. Streaming'
  BY <1>1, <1>2, ConsumeStreams DEF ExecStore
<1> QED
  BY <1>3, <1>4 DEF Typing, ExecStore, CellsOf, RowsOf, Frames

LEMMA ArrayDeclTyped == ASSUME Typing, ExecArrayDecl PROVE Typing'
<1> DEFINE s == prog[pc]
           n == ArrayLength[s.sym]
           f == [i \in 1 .. n |-> IF i <= Len(s.init) THEN Coerced(Eval(s.init[i]), s.sym)
                                                      ELSE Zero(s.sym)]
<1>1. pc \in DOMAIN prog /\ s.kind = "array" /\ Executable(prog)
  BY Executed DEF ExecArrayDecl
<1>2. /\ s.sym \in DOMAIN ArrayLength
      /\ s.init \in Seq({s.init[k] : k \in DOMAIN s.init})
      /\ \A k \in DOMAIN s.init : Evaluable(s.init[k])
  BY <1>1 DEF Executable
<1>3. s.sym \in Symbols /\ n \in Nat
  BY <1>2, InterpreterAssumption
<1>4. ASSUME NEW i \in 1 .. n PROVE f[i] \in Cells(s.sym)
  <2>1. CASE i <= Len(s.init)
    <3>1. i \in DOMAIN s.init
      BY <1>2, <1>3, <2>1
    <3>2. Eval(s.init[i]) \in AllBits
      BY <1>2, <3>1, EvalBits
    <3> QED
      BY <1>3, <2>1, <3>2, CoercedCell
  <2>2. CASE ~(i <= Len(s.init))
    BY <1>3, <2>2, ZeroCell
  <2> QED
    BY <2>1, <2>2
<1>5. arrays' = Bind(arrays, s.sym, f)
  BY DEF ExecArrayDecl
<1> HIDE DEF s, f
<1>6. f \in Seq(Cells(s.sym))
  <2>1. f = [i \in 1 .. n |-> f[i]]
    BY DEF f
  <2> QED
    BY <1>2, <1>4, <2>1, Row
<1>7. RowsOf(arrays')
  BY <1>3, <1>5, <1>6, BindRows DEF Typing
<1> QED
  BY <1>7 DEF Typing, ExecArrayDecl, CellsOf, RowsOf, Frames, Streaming

LEMMA WriteTyped == ASSUME Typing, ExecWrite PROVE Typing'
<1> DEFINE s == prog[pc]
           t == s.sym
           C == Cells(t)
           c == Coerced(Eval(s.expr), t)
<1>1. phase = "running" /\ pc \in DOMAIN prog /\ s.kind = "write" /\ Executable(prog)
  BY Executed DEF ExecWrite
<1>2. t \in OutStreams /\ Evaluable(s.expr)
  BY <1>1 DEF Executable
<1>3. t \in Symbols
  BY <1>2, InterpreterAssumption
<1>4. c \in C
  BY <1>2, <1>3, EvalBits, CoercedCell
<1>5. streamOut' = [streamOut EXCEPT ![t] = Append(@, c)]
  BY DEF ExecWrite
<1>6. t \in DOMAIN streamOut /\ streamOut[t] \in Seq(C)
  BY <1>1, <1>2 DEF Typing, RowsOf, Streaming
<1> HIDE DEF c
<1>7. RowsOf(streamOut')
  <2>1. Append(streamOut[t], c) \in Seq(C)
    BY <1>4, <1>6
  <2> HIDE DEF C, t
  <2>2. DOMAIN streamOut' = DOMAIN streamOut
    BY <1>5
  <2>3. \A x \in DOMAIN streamOut : streamOut'[x] = IF x = t THEN Append(streamOut[t], c) ELSE streamOut[x]
    BY <1>5
  <2> QED
    BY <2>1, <2>2, <2>3 DEF Typing, RowsOf, C
<1>8. Streaming'
  BY <1>1, <1>5 DEF Typing, Streaming, ExecWrite
<1> QED
  BY <1>7, <1>8 DEF Typing, ExecWrite, CellsOf, RowsOf, Frames

\* What moves only the program counter.
LEMMA JumpTyped == ASSUME Typing, NEW kinds, NEW target, Jump(kinds, target) PROVE Typing'
BY DEF Typing, Jump, memory, CellsOf, RowsOf, Frames, Streaming

LEMMA ForTyped == ASSUME Typing, ExecFor PROVE Typing'
<1> DEFINE s    == prog[pc]
           iv   == Coerced(Eval(s.init), s.sym)
           step == Coerced(Eval(s.step), s.sym)
           f    == [at |-> pc, k |-> 0, iv |-> iv, step |-> step]
<1>1. pc \in DOMAIN prog /\ pc \in Nat /\ s.kind = "for" /\ WellFormed(prog) /\ Executable(prog)
  BY Executed DEF ExecFor
<1>2. s.sym \in Symbols
  BY <1>1 DEF WellFormed
<1>3. Evaluable(s.init) /\ Evaluable(s.step)
  BY <1>1 DEF Executable
<1>4. iv \in Cells(s.sym)
  BY <1>2, <1>3, EvalBits, CoercedCell
<1>5. step \in Cells(s.sym)
  BY <1>2, <1>3, EvalBits, CoercedCell
<1>6. iv \in AllBits /\ step \in AllBits
  BY <1>2, <1>4, <1>5, CellBits
<1>7. \/ scalars' = scalars /\ loops' = loops
      \/ scalars' = Bind(scalars, s.sym, iv) /\ loops' = Append(loops, f)
  BY DEF ExecFor
<1> HIDE DEF iv, step
<1>8. f \in Frames(prog)
  BY <1>1, <1>6 DEF Frames
<1>9. CellsOf(scalars')
  BY <1>2, <1>4, <1>7, BindCells DEF Typing
<1> HIDE DEF f
<1>10. loops' \in Seq(Frames(prog))
  BY <1>7, <1>8 DEF Typing
<1> QED
  BY <1>9, <1>10 DEF Typing, ExecFor, RowsOf, Frames, Streaming

LEMMA IterationTyped == ASSUME Typing, EndIteration PROVE Typing'
<1> DEFINE n    == Len(loops)
           F    == Frames(prog)
           loop == loops[n]
           s    == prog[loop.at]
           iv   == NextIv(loop)
           k    == NextCount(loop)
           next == [loop EXCEPT !.k = k, !.iv = iv]
<1>1. prog \in Programs /\ loops \in Seq(F) /\ loops # <<>>
  BY DEF Typing, EndIteration
<1>2. n \in 1 .. n /\ loop \in F
  BY <1>1
<1>3. /\ loop \in [at : Nat, k : Nat, iv : AllBits, step : AllBits]
      /\ loop.at \in DOMAIN prog /\ s.kind = "for"
  BY <1>2 DEF Frames
<1>4. s.sym \in Symbols
  <2>1. WellFormed(prog)
    BY <1>1, ListingsAssumption
  <2> QED
    BY <1>3, <2>1, Zenon DEF WellFormed
<1>5. iv \in Cells(s.sym)
  <2>1. loop.iv.raw \in Nat /\ loop.step.raw \in Nat
    BY <1>3 DEF AllBits
  <2> DEFINE x == IF s.stepIsAdd THEN loop.iv.raw + loop.step.raw
                                 ELSE loop.iv.raw - loop.step.raw
  <2>2. x \in Int
    BY <2>1
  <2>3. iv = Make(x, TypeOf[s.sym].width, TypeOf[s.sym].isSigned)
    BY DEF NextIv
  <2> HIDE DEF x, iv
  <2> QED
    BY <1>4, <2>2, <2>3, MadeCell
<1>6. iv \in AllBits
  BY <1>4, <1>5, CellBits
<1>7. \/ scalars' = Bind(scalars, s.sym, iv) /\ loops' = [loops EXCEPT ![n] = next]
      \/ scalars' = scalars /\ loops' = SubSeq(loops, 1, n - 1)
  BY <1>2, <1>3 DEF EndIteration
<1> HIDE DEF iv
<1>8. next \in F
  <2>1. k \in Nat
    BY <1>3 DEF NextCount
  <2>2. /\ next.at = loop.at
        /\ next \in [at : Nat, k : Nat, iv : AllBits, step : AllBits]
    <3> HIDE DEF k, loop
    <3> QED
      BY <1>3, <1>6, <2>1
  <2> HIDE DEF next
  <2> QED
    BY <1>3, <2>2 DEF Frames
<1>9. CellsOf(scalars')
  BY <1>4, <1>5, <1>7, BindCells DEF Typing
<1> HIDE DEF next, F
<1>10. loops' \in Seq(F)
  BY <1>1, <1>2, <1>7, <1>8
<1> QED
  BY <1>9, <1>10 DEF Typing, EndIteration, RowsOf, F, Frames, Streaming

LEMMA ReturnTyped == ASSUME Typing, ExecReturn PROVE Typing'
BY DEF Typing, ExecReturn, memory, CellsOf, RowsOf, Frames, Streaming

LEMMA FinishTyped == ASSUME Typing, Finish PROVE Typing'
BY DEF Typing, Finish, memory, CellsOf, RowsOf, Frames, Streaming

LEMMA RunTyped == ASSUME Typing, NEW args \in Inputs, Run(args) PROVE Typing'
<1>1. \A s \in Params : args[s] \in AllBits
  BY InterpreterAssumption
<1>2. \A s \in InStreams \cup (DOMAIN args \cap DOMAIN ArrayLength) : args[s] \in Seq(AllBits)
  BY InterpreterAssumption
<1>3. CellsOf(scalars')
  <2> DEFINE v(s) == IF s \in Params THEN args[s] ELSE ConstValue[s]
             D    == Params \cup DOMAIN ConstValue
  <2>1. scalars' = [s \in D |-> Coerced(v(s), s)]
    BY DEF Run
  <2>2. \A s \in D : s \in Symbols /\ v(s) \in AllBits
    BY <1>1, ProgramAssumption, InterpreterAssumption
  <2> HIDE DEF v, D
  <2>3. \A s \in D : s \in Symbols /\ Coerced(v(s), s) \in Cells(s)
    BY <2>2, CoercedCell
  <2> QED
    BY <2>1, <2>3 DEF CellsOf
<1>4. RowsOf(arrays')
  <2> DEFINE D    == DOMAIN ConstElements \cup (DOMAIN args \cap DOMAIN ArrayLength)
             g(a) == [i \in 1 .. ArrayLength[a] |->
                        IF i <= Len(args[a]) THEN Coerced(args[a][i], a) ELSE Zero(a)]
             h(a) == IF a \in DOMAIN ConstElements THEN CoercedAll(ConstElements[a], a) ELSE g(a)
  <2>1. arrays' = [a \in D |-> h(a)]
    BY DEF Run
  <2>2. ASSUME NEW a \in D PROVE a \in Symbols /\ h(a) \in Seq(Cells(a))
    <3>1. a \in DOMAIN ArrayLength /\ a \in Symbols /\ ArrayLength[a] \in Nat
      BY InterpreterAssumption
    <3>2. CASE a \in DOMAIN ConstElements
      <4>1. ConstElements[a] \in Seq(AllBits)
        BY <3>2, InterpreterAssumption
      <4> QED
        BY <3>1, <3>2, <4>1, CoercedRow
    <3>3. CASE a \notin DOMAIN ConstElements
      <4>1. args[a] \in Seq(AllBits)
        BY <1>2, <3>3
      <4>2. ASSUME NEW i \in 1 .. ArrayLength[a]
            PROVE  g(a)[i] \in Cells(a)
        <5>1. CASE i <= Len(args[a])
          <6>1. args[a][i] \in AllBits
            BY <3>1, <4>1, <5>1
          <6> QED
            BY <3>1, <5>1, <6>1, CoercedCell
        <5>2. CASE ~(i <= Len(args[a]))
          BY <3>1, <5>2, ZeroCell
        <5> QED
          BY <5>1, <5>2
      <4> DEFINE G == g(a)
      <4>3. G = [i \in 1 .. ArrayLength[a] |-> G[i]]
        OBVIOUS
      <4>4. h(a) = G
        BY <3>3
      <4>5. \A i \in 1 .. ArrayLength[a] : G[i] \in Cells(a)
        BY <4>2
      <4> HIDE DEF G, h
      <4> QED
        BY <3>1, <4>3, <4>4, <4>5, Row
    <3> QED
      BY <3>1, <3>2, <3>3
  <2> HIDE DEF h, D
  <2> QED
    BY <2>1, <2>2 DEF RowsOf
<1>5. RowsOf(streamIn')
  <2>1. streamIn' = [s \in InStreams |-> CoercedAll(args[s], s)]
    BY DEF Run
  <2>2. \A s \in InStreams : s \in Symbols /\ CoercedAll(args[s], s) \in Seq(Cells(s))
    BY <1>2, InterpreterAssumption, CoercedRow
  <2> QED
    BY <2>1, <2>2 DEF RowsOf
<1>6. RowsOf(streamOut') /\ Streaming'
  BY InterpreterAssumption DEF Run, FreshOutputs, RowsOf, Streaming
<1>7. prog' = prog /\ loops' = <<>>
  BY DEF Run
<1> QED
  BY <1>3, <1>4, <1>5, <1>6, <1>7 DEF Typing

LEMMA InitTyped == Init => Typing
BY DEF Init, Fresh, NoBits, Typing, CellsOf, RowsOf, Streaming

LEMMA NextTyped == Typing /\ [Next]_vars => Typing'
<1> SUFFICES ASSUME Typing, [Next]_vars PROVE Typing'
  OBVIOUS
<1>1. CASE ExecIf \/ ExecElse \/ ExecBrace
  BY <1>1, JumpTyped DEF ExecIf, ExecElse, ExecBrace
<1>2. CASE Finish \/ ExecReturn \/ EndIteration \/ ExecFor
  BY <1>2, FinishTyped, ReturnTyped, IterationTyped, ForTyped
<1>3. CASE ExecBinding \/ ExecArrayDecl \/ ExecStore \/ ExecWrite
  BY <1>3, BindingTyped, ArrayDeclTyped, StoreTyped, WriteTyped
<1>4. CASE \E args \in Inputs : Run(args)
  BY <1>4, RunTyped
<1>5. CASE UNCHANGED vars
  BY <1>5 DEF vars, memory, Typing, CellsOf, RowsOf, Frames, Streaming
<1> QED
  BY <1>1, <1>2, <1>3, <1>4, <1>5 DEF Next, Step

-----------------------------------------------------------------------------
(***************************************************************************)
(* The loops.  `InductionVariable` is not inductive: that no other         *)
(* statement binds an active loop's variable is known of the statements    *)
(* of its body only, so control must be shown to stay there (`Inside`);    *)
(* and the step an activation keeps must still be what the header says     *)
(* (`Follows`).                                                            *)
(***************************************************************************)
Starts(f) == Coerced(Eval(prog[f.at].init), prog[f.at].sym)
Steps(f)  == Coerced(Eval(prog[f.at].step), prog[f.at].sym)

Follows(f) ==
  LET s     == prog[f.at]
      moved == f.k * Steps(f).raw
  IN  /\ Scalar(s.sym) = f.iv
      /\ f.step = Steps(f)
      /\ f.iv.raw = (IF s.stepIsAdd THEN Starts(f).raw + moved ELSE Starts(f).raw - moved)
                      % 2^TypeOf[s.sym].width

EndOf(f) == CloseOf(prog, f.at)

Inside ==
  \A n \in DOMAIN loops :
    /\ loops[n].at < pc /\ pc <= EndOf(loops[n])
    /\ \A m \in DOMAIN loops : n < m =>
         loops[n].at < loops[m].at /\ EndOf(loops[m]) < EndOf(loops[n])

Counting == Inside /\ \A n \in DOMAIN loops : Follows(loops[n])

LEMMA CountingMeans == Counting => InductionVariable
BY DEF Counting, Follows, Starts, Steps, InductionVariable

\* What the front end has settled of an active loop.
LEMMA LoopSettled ==
  ASSUME Typing, NEW f \in Frames(prog)
  PROVE  LET s == prog[f.at]
         IN  /\ f.at \in Nat /\ f.at \in DOMAIN prog /\ s.kind = "for" /\ s.sym \in Symbols
             /\ EndOf(f) \in Nat /\ f.at < EndOf(f)
             /\ Constant(s.init) /\ Constant(s.step) /\ Evaluable(s.init) /\ Evaluable(s.step)
             /\ s.sym \notin DOMAIN ConstValue
             /\ TypeOf[s.sym].width <= HostWidth
             /\ prog[EndOf(f)].kind = "endfor"
             /\ \A j \in f.at + 1 .. EndOf(f) - 1 :
                  /\ prog[j].kind = "if" => ElseOf(prog, j) \in j + 1 .. EndOf(f) - 1
                  /\ prog[j].kind \in {"else", "for"} => CloseOf(prog, j) \in j + 1 .. EndOf(f) - 1
                  /\ prog[j].kind \in {"decl", "assign", "for"} => prog[j].sym # s.sym
<1>1. f.at \in Nat /\ f.at \in DOMAIN prog /\ prog[f.at].kind = "for"
  BY DEF Frames
<1>2. WellFormed(prog) /\ Executable(prog) /\ Nested(prog) /\ Counted(prog)
  BY ListingsAssumption, LoopsAssumption DEF Typing
<1>3. prog[f.at].sym \in Symbols /\ EndOf(f) \in f.at + 1 .. Len(prog) /\ Len(prog) \in Nat
  BY <1>1, <1>2 DEF WellFormed, EndOf
<1>4. Evaluable(prog[f.at].init) /\ Evaluable(prog[f.at].step)
  BY <1>1, <1>2 DEF Executable
<1>5. /\ prog[EndOf(f)].kind = "endfor"
      /\ \A j \in f.at + 1 .. EndOf(f) - 1 :
           /\ prog[j].kind = "if" => ElseOf(prog, j) \in j + 1 .. EndOf(f) - 1
           /\ prog[j].kind \in {"else", "for"} => CloseOf(prog, j) \in j + 1 .. EndOf(f) - 1
  <2>1. /\ prog[EndOf(f)].kind = "endfor"
        /\ \A j \in f.at + 1 .. EndOf(f) - 1 :
             prog[j].kind \in {"if", "else", "for"} => CloseOf(prog, j) \in j + 1 .. EndOf(f) - 1
    BY <1>1, <1>2 DEF Nested, EndOf
  <2>2. \A j \in f.at + 1 .. EndOf(f) - 1 : j \in DOMAIN prog
    BY <1>1, <1>2, <1>3 DEF WellFormed
  <2>3. ASSUME NEW j \in f.at + 1 .. EndOf(f) - 1, prog[j].kind = "if"
        PROVE  ElseOf(prog, j) \in j + 1 .. EndOf(f) - 1
    <3>1. CloseOf(prog, j) \in j + 1 .. EndOf(f) - 1
      BY <2>1, <2>3
    <3>2. ElseOf(prog, j) \in j + 1 .. CloseOf(prog, j) - 1
      BY <1>2, <2>2, <2>3 DEF Nested
    <3> QED
      BY <1>1, <1>3, <3>1, <3>2
  <2> QED
    BY <2>1, <2>3
<1>6. /\ Constant(prog[f.at].init) /\ Constant(prog[f.at].step)
      /\ prog[f.at].sym \notin DOMAIN ConstValue /\ TypeOf[prog[f.at].sym].width <= HostWidth
      /\ \A j \in f.at + 1 .. EndOf(f) - 1 :
           prog[j].kind \in {"decl", "assign", "for"} => prog[j].sym # prog[f.at].sym
  BY <1>1, <1>2 DEF Counted, EndOf
<1> QED
  BY <1>1, <1>3, <1>4, <1>5, <1>6

\* A header is made of constants, which nothing binds.
LEMMA HeaderKept ==
  ASSUME NEW e, Evaluable(e), Constant(e), \A s \in DOMAIN ConstValue : Scalar(s)' = Scalar(s)
  PROVE  Eval(e)' = Eval(e)
<1>1. CASE e.op = "lit"
  BY <1>1 DEF Eval
<1>2. CASE e.op = "name"
  <2>1. Eval(e) = Scalar(e.args[1]) /\ Eval(e)' = Scalar(e.args[1])'
    BY <1>2 DEF Eval
  <2> QED
    BY <1>2, <2>1 DEF Constant
<1>3. CASE e.op \notin {"lit", "name"}
  <2>1. e.op # "index" /\ e.op # "untyped"
    BY <1>3 DEF Constant, Evaluable, BinaryOps, Bitwises, Shifts, Comparisons, Logicals
  <2>2. e.args[1] \in DOMAIN ConstValue /\ e.args[2] \in DOMAIN ConstValue
    BY <1>3, <2>1 DEF Constant
  <2>3. /\ Eval(e) = CastTo(Apply(e.op, Scalar(e.args[1]), Scalar(e.args[2])), e.type)
        /\ Eval(e)' = CastTo(Apply(e.op, Scalar(e.args[1])', Scalar(e.args[2])'), e.type)
    BY <1>3, <2>1 DEF Eval
  <2> QED
    BY <2>2, <2>3
<1> QED
  BY <1>1, <1>2, <1>3

\* A loop goes on as it did while its variable and the constants are kept.
LEMMA FollowsKept ==
  ASSUME Typing, UNCHANGED prog, NEW f \in Frames(prog), Follows(f),
         Scalar(prog[f.at].sym)' = Scalar(prog[f.at].sym),
         \A s \in DOMAIN ConstValue : Scalar(s)' = Scalar(s)
  PROVE  Follows(f)'
<1>1. /\ Constant(prog[f.at].init) /\ Constant(prog[f.at].step)
      /\ Evaluable(prog[f.at].init) /\ Evaluable(prog[f.at].step)
  BY LoopSettled
<1>2. Eval(prog[f.at].init)' = Eval(prog[f.at].init)
  BY <1>1, HeaderKept
<1>3. Eval(prog[f.at].step)' = Eval(prog[f.at].step)
  BY <1>1, HeaderKept
<1>4. Starts(f)' = Starts(f) /\ Steps(f)' = Steps(f)
  BY <1>2, <1>3 DEF Starts, Steps, Coerced
<1>5. Scalar(prog[f.at].sym)' = f.iv
  BY DEF Follows
<1> QED
  BY <1>4, <1>5 DEF Follows

LEMMA ActiveLoops ==
  ASSUME Typing
  PROVE  /\ Len(loops) \in Nat /\ DOMAIN loops = 1 .. Len(loops)
         /\ \A n \in DOMAIN loops :
              /\ loops[n] \in Frames(prog)
              /\ loops[n].at \in Nat /\ EndOf(loops[n]) \in Nat /\ loops[n].at < EndOf(loops[n])
<1>1. loops \in Seq(Frames(prog))
  BY DEF Typing
<1>2. \A n \in DOMAIN loops : loops[n] \in Frames(prog)
  BY <1>1
<1> QED
  BY <1>1, <1>2, LoopSettled

\* A statement that ends no loop stands before the end of every active one.
LEMMA InTheBody ==
  ASSUME Typing, Inside, NEW kinds, Executing(kinds), "endfor" \notin kinds, NEW n \in DOMAIN loops
  PROVE  /\ loops[n] \in Frames(prog)
         /\ pc \in Nat /\ EndOf(loops[n]) \in Nat /\ pc \in loops[n].at + 1 .. EndOf(loops[n]) - 1
<1>1. loops[n] \in Frames(prog) /\ loops[n].at \in Nat /\ EndOf(loops[n]) \in Nat
  BY ActiveLoops
<1>2. pc \in Nat /\ prog[pc].kind # "endfor"
  BY Executed
<1>3. loops[n].at < pc /\ pc <= EndOf(loops[n])
  BY DEF Inside
<1>4. prog[EndOf(loops[n])].kind = "endfor"
  BY <1>1, LoopSettled
<1>5. pc # EndOf(loops[n])
  BY <1>2, <1>4
<1> QED
  BY <1>1, <1>2, <1>3, <1>5

\* Control moves on inside the bodies, and no active loop's variable is bound.
LEMMA MovesOn ==
  ASSUME Typing, Counting, pc \in Nat, UNCHANGED <<prog, loops>>,
         \A n \in DOMAIN loops : /\ pc' \in pc + 1 .. EndOf(loops[n])
                                 /\ Scalar(prog[loops[n].at].sym)' = Scalar(prog[loops[n].at].sym),
         loops # <<>> => \A s \in DOMAIN ConstValue : Scalar(s)' = Scalar(s)
  PROVE  Counting'
<1>1. Inside'
  <2> SUFFICES ASSUME NEW n \in DOMAIN loops
               PROVE  /\ loops[n].at < pc' /\ pc' <= EndOf(loops[n])
                      /\ \A m \in DOMAIN loops : n < m =>
                           loops[n].at < loops[m].at /\ EndOf(loops[m]) < EndOf(loops[n])
    BY DEF Inside, EndOf
  <2>1. loops[n].at \in Nat /\ EndOf(loops[n]) \in Nat
    BY ActiveLoops
  <2>2. loops[n].at < pc
    BY DEF Counting, Inside
  <2>3. \A m \in DOMAIN loops : n < m =>
          loops[n].at < loops[m].at /\ EndOf(loops[m]) < EndOf(loops[n])
    BY DEF Counting, Inside
  <2> QED
    BY <2>1, <2>2, <2>3
<1>2. ASSUME NEW n \in DOMAIN loops PROVE Follows(loops[n])'
  <2>1. loops[n] \in Frames(prog) /\ loops # <<>> /\ Follows(loops[n])
    BY ActiveLoops DEF Counting
  <2> DEFINE f == loops[n]
  <2>2. f \in Frames(prog) /\ Follows(f) /\ Scalar(prog[f.at].sym)' = Scalar(prog[f.at].sym)
        /\ f' = f
    BY <2>1
  <2>3. \A s \in DOMAIN ConstValue : Scalar(s)' = Scalar(s)
    BY <2>1
  <2> HIDE DEF f
  <2>4. ASSUME NEW g, g = f PROVE Follows(g)'
    BY <2>2, <2>3, <2>4, FollowsKept
  <2> QED
    BY <2>2, <2>4 DEF f
<1> QED
  BY <1>1, <1>2 DEF Counting

LEMMA KeepsCounting ==
  ASSUME Typing, Counting, NEW kinds, Executing(kinds), "endfor" \notin kinds,
         UNCHANGED <<prog, scalars, loops>>,
         \A n \in DOMAIN loops : pc' \in pc + 1 .. EndOf(loops[n])
  PROVE  Counting'
<1>1. pc \in Nat
  BY Executed
<1>2. \A s : Scalar(s)' = Scalar(s)
  BY DEF Scalar
<1> QED
  BY <1>1, <1>2, MovesOn

\* A statement that binds no scalar and hands on to the next one.
LEMMA AdvanceCounts ==
  ASSUME Typing, Counting, NEW kinds, Executing(kinds), "endfor" \notin kinds,
         UNCHANGED <<prog, scalars, loops>>, pc' = pc + 1
  PROVE  Counting'
<1>1. ASSUME NEW n \in DOMAIN loops PROVE pc' \in pc + 1 .. EndOf(loops[n])
  <2>1. pc \in Nat /\ EndOf(loops[n]) \in Nat /\ pc \in loops[n].at + 1 .. EndOf(loops[n]) - 1
    BY InTheBody DEF Counting
  <2> QED
    BY <2>1
<1> QED
  BY <1>1, KeepsCounting

LEMMA BoundElsewhere ==
  ASSUME NEW s, NEW t, NEW v, s # t, scalars' = Bind(scalars, t, v)
  PROVE  Scalar(s)' = Scalar(s)
BY DEF Scalar, Bind, At

LEMMA BindingCounts == ASSUME Typing, Counting, ExecBinding PROVE Counting'
<1> DEFINE t == prog[pc].sym
           v == Coerced(RhsValue(prog[pc].expr), t)
<1>1. Executing({"decl", "assign"}) /\ scalars' = Bind(scalars, t, v) /\ pc' = pc + 1
      /\ UNCHANGED <<prog, loops>>
  BY DEF ExecBinding
<1>2. pc \in Nat /\ pc \in DOMAIN prog /\ prog[pc].kind \in {"decl", "assign"}
  BY <1>1, Executed
<1>3. t \notin DOMAIN ConstValue
  BY <1>2, LoopsAssumption DEF Typing, Counted
<1> HIDE DEF t, v
<1>4. ASSUME NEW n \in DOMAIN loops
      PROVE  /\ pc' \in pc + 1 .. EndOf(loops[n])
             /\ Scalar(prog[loops[n].at].sym)' = Scalar(prog[loops[n].at].sym)
  <2>1. /\ loops[n] \in Frames(prog) /\ EndOf(loops[n]) \in Nat
        /\ pc \in loops[n].at + 1 .. EndOf(loops[n]) - 1
    BY <1>1, InTheBody DEF Counting
  <2>2. prog[loops[n].at].sym # t
    BY <1>2, <2>1, LoopSettled DEF t
  <2>3. loops' = loops /\ prog' = prog
    BY <1>1
  <2> DEFINE s == prog[loops[n].at].sym
  <2>4. ASSUME NEW u, u # t PROVE Scalar(u)' = Scalar(u)
    BY <1>1, <2>4, BoundElsewhere
  <2>5. Scalar(s)' = Scalar(s)
    BY <2>2, <2>3, <2>4 DEF Scalar
  <2> QED
    BY <1>1, <1>2, <2>1, <2>5
<1>5. \A s \in DOMAIN ConstValue : Scalar(s)' = Scalar(s)
  BY <1>1, <1>3, BoundElsewhere
<1> QED
  BY <1>1, <1>2, <1>4, <1>5, MovesOn

LEMMA IfCounts == ASSUME Typing, Counting, ExecIf PROVE Counting'
<1>1. Executing({"if"}) /\ UNCHANGED <<prog, scalars, loops>>
      /\ (pc' = pc + 1 \/ pc' = ElseOf(prog, pc) + 1)
  BY DEF ExecIf, Jump, memory
<1>2. ASSUME NEW n \in DOMAIN loops PROVE pc' \in pc + 1 .. EndOf(loops[n])
  <2>1. /\ loops[n] \in Frames(prog) /\ EndOf(loops[n]) \in Nat /\ pc \in Nat
        /\ pc \in loops[n].at + 1 .. EndOf(loops[n]) - 1
    BY <1>1, InTheBody DEF Counting
  <2>2. prog[pc].kind = "if"
    BY <1>1, Executed
  <2>3. ElseOf(prog, pc) \in pc + 1 .. EndOf(loops[n]) - 1
    BY <2>1, <2>2, LoopSettled
  <2> QED
    BY <1>1, <2>1, <2>3
<1> QED
  BY <1>1, <1>2, KeepsCounting

LEMMA ElseCounts == ASSUME Typing, Counting, ExecElse PROVE Counting'
<1>1. Executing({"else"}) /\ UNCHANGED <<prog, scalars, loops>> /\ pc' = CloseOf(prog, pc)
  BY DEF ExecElse, Jump, memory
<1>2. ASSUME NEW n \in DOMAIN loops PROVE pc' \in pc + 1 .. EndOf(loops[n])
  <2>1. /\ loops[n] \in Frames(prog) /\ EndOf(loops[n]) \in Nat /\ pc \in Nat
        /\ pc \in loops[n].at + 1 .. EndOf(loops[n]) - 1
    BY <1>1, InTheBody DEF Counting
  <2>2. prog[pc].kind = "else"
    BY <1>1, Executed
  <2>3. CloseOf(prog, pc) \in pc + 1 .. EndOf(loops[n]) - 1
    BY <2>1, <2>2, LoopSettled
  <2> QED
    BY <1>1, <2>1, <2>3
<1> QED
  BY <1>1, <1>2, KeepsCounting

\* The activation starts at its header's initial value.
LEMMA StartFollows ==
  ASSUME Typing, NEW g \in Frames(prog), UNCHANGED prog, g.k = 0,
         g.iv = Starts(g), g.step = Steps(g), scalars' = Bind(scalars, prog[g.at].sym, g.iv)
  PROVE  Follows(g)'
<1> DEFINE s == prog[g.at]
           M == 2^TypeOf[s.sym].width
<1>1. /\ s.sym \in Symbols /\ s.sym \notin DOMAIN ConstValue /\ TypeOf[s.sym].width <= HostWidth
      /\ Evaluable(s.init) /\ Evaluable(s.step) /\ Constant(s.init) /\ Constant(s.step)
  BY LoopSettled
<1>2. \A t \in DOMAIN ConstValue : Scalar(t)' = Scalar(t)
  BY <1>1, BoundElsewhere
<1>3. Eval(s.init)' = Eval(s.init)
  BY <1>1, <1>2, HeaderKept
<1>4. Eval(s.step)' = Eval(s.step)
  BY <1>1, <1>2, HeaderKept
<1>5. Starts(g)' = Starts(g) /\ Steps(g)' = Steps(g)
  BY <1>3, <1>4 DEF Starts, Steps, Coerced
<1>6. Scalar(s.sym)' = g.iv
  BY DEF Scalar, Bind, At
<1>7. Starts(g) \in Cells(s.sym) /\ Steps(g) \in Cells(s.sym)
  BY <1>1, EvalBits, CoercedCell DEF Starts, Steps
<1>8. M \in Nat \ {0} /\ Starts(g).raw \in 0 .. M - 1 /\ Steps(g).raw \in Int
  <2>1. TypeOf[s.sym].width \in Nat \ {0}
    BY <1>1, ProgramAssumption DEF Types
  <2>2. Kept(TypeOf[s.sym].width) = TypeOf[s.sym].width
    BY <1>1 DEF Kept, Smaller
  <2>3. M \in Nat \ {0}
    BY <2>1, PowerOfTwo
  <2>4. Starts(g).raw \in 0 .. M - 1 /\ Steps(g).raw \in 0 .. M - 1
    BY <1>7, <2>2 DEF Cells
  <2> HIDE DEF M
  <2> QED
    BY <2>3, <2>4
<1> DEFINE x == Starts(g).raw
           d == Steps(g).raw
<1>9. x = (IF s.stepIsAdd THEN x + 0 * d ELSE x - 0 * d) % M
  <2>1. M \in Nat \ {0} /\ x \in 0 .. M - 1 /\ d \in Int
    BY <1>8
  <2> HIDE DEF x, d, M
  <2>2. x + 0 * d = x /\ x - 0 * d = x /\ x % M = x
    BY <2>1
  <2> QED
    BY <2>2
<1> QED
  BY <1>5, <1>6, <1>9 DEF Follows

LEMMA ForCounts == ASSUME Typing, Typing', Counting, ExecFor PROVE Counting'
<1> DEFINE s == prog[pc]
           g == [at |-> pc, k |-> 0, iv |-> Coerced(Eval(s.init), s.sym),
                 step |-> Coerced(Eval(s.step), s.sym)]
           N == Len(loops)
<1>1. /\ Executing({"for"}) /\ prog' = prog
      /\ \/ pc' = CloseOf(prog, pc) + 1 /\ scalars' = scalars /\ loops' = loops
         \/ /\ pc' = pc + 1 /\ scalars' = Bind(scalars, s.sym, g.iv)
            /\ loops' = Append(loops, g)
  BY DEF ExecFor
<1>2. pc \in Nat /\ s.kind = "for"
  BY <1>1, Executed
<1>3. ASSUME NEW n \in DOMAIN loops
      PROVE  /\ loops[n] \in Frames(prog) /\ loops[n].at \in Nat /\ EndOf(loops[n]) \in Nat
             /\ pc \in loops[n].at + 1 .. EndOf(loops[n]) - 1
             /\ CloseOf(prog, pc) \in pc + 1 .. EndOf(loops[n]) - 1
             /\ s.sym # prog[loops[n].at].sym
  <2>1. /\ loops[n] \in Frames(prog) /\ EndOf(loops[n]) \in Nat
        /\ pc \in loops[n].at + 1 .. EndOf(loops[n]) - 1
    BY <1>1, InTheBody DEF Counting
  <2>2. loops[n].at \in Nat
    BY ActiveLoops
  <2> QED
    BY <1>2, <2>1, <2>2, LoopSettled
<1>4. CASE loops' = loops
  <2>1. pc' = CloseOf(prog, pc) + 1 /\ scalars' = scalars
    <3>1. loops \in Seq(Frames(prog))
      BY DEF Typing
    <3>2. loops # Append(loops, g)
      <4> HIDE DEF g
      <4>1. Len(Append(loops, g)) = Len(loops) + 1 /\ Len(loops) \in Nat
        BY <3>1
      <4> QED
        BY <4>1
    <3> QED
      BY <1>1, <1>4, <3>2
  <2>2. \A n \in DOMAIN loops : pc' \in pc + 1 .. EndOf(loops[n])
    BY <1>2, <1>3, <2>1
  <2> QED
    BY <1>1, <1>4, <2>1, <2>2, KeepsCounting
<1>5. CASE loops' # loops
  <2>1. pc' = pc + 1 /\ scalars' = Bind(scalars, s.sym, g.iv) /\ loops' = Append(loops, g)
    BY <1>1, <1>5
  <2>2. g.at = pc /\ g.k = 0 /\ g.iv = Starts(g) /\ g.step = Steps(g)
    BY DEF Starts, Steps
  <2> HIDE DEF g
  <2>3. /\ N \in Nat /\ DOMAIN loops = 1 .. N /\ DOMAIN loops' = 1 .. N + 1
        /\ loops'[N + 1] = g /\ \A n \in 1 .. N : loops'[n] = loops[n]
    <3>1. loops \in Seq(Frames(prog))
      BY DEF Typing
    <3> QED
      BY <2>1, <3>1
  <2>4. g \in Frames(prog)
    <3>1. loops' \in Seq(Frames(prog))
      BY <1>1 DEF Typing, Frames
    <3> QED
      BY <2>3, <3>1
  <2>5. EndOf(g) \in Nat /\ pc < EndOf(g) /\ EndOf(g) = CloseOf(prog, pc) /\ s.sym \notin DOMAIN ConstValue
    BY <2>2, <2>4, LoopSettled DEF EndOf
  <2>6. Inside'
    <3> SUFFICES ASSUME NEW n \in 1 .. N + 1
                 PROVE  /\ loops'[n].at < pc + 1 /\ pc + 1 <= EndOf(loops'[n])
                        /\ \A m \in 1 .. N + 1 : n < m =>
                             loops'[n].at < loops'[m].at /\ EndOf(loops'[m]) < EndOf(loops'[n])
      BY <1>1, <2>1, <2>3 DEF Inside, EndOf
    <3>1. CASE n = N + 1
      BY <1>2, <2>2, <2>3, <2>5, <3>1
    <3>2. CASE n \in 1 .. N
      <4>1. loops'[n] = loops[n] /\ n \in DOMAIN loops
        BY <2>3, <3>2
      <4>2. /\ loops[n].at \in Nat /\ EndOf(loops[n]) \in Nat
            /\ pc \in loops[n].at + 1 .. EndOf(loops[n]) - 1
            /\ EndOf(g) \in pc + 1 .. EndOf(loops[n]) - 1
        BY <1>3, <2>5, <4>1
      <4>3. ASSUME NEW m \in 1 .. N, n < m
            PROVE  loops[n].at < loops[m].at /\ EndOf(loops[m]) < EndOf(loops[n])
        BY <2>3, <4>1, <4>3 DEF Counting, Inside
      <4> QED
        BY <1>2, <2>2, <2>3, <4>1, <4>2, <4>3
    <3> QED
      BY <2>3, <3>1, <3>2
  <2>7. \A t \in DOMAIN ConstValue : Scalar(t)' = Scalar(t)
    BY <2>1, <2>5, BoundElsewhere
  <2>8. ASSUME NEW h, h = g PROVE Follows(h)'
    <3>1. /\ h \in Frames(prog) /\ h.k = 0 /\ h.iv = Starts(h) /\ h.step = Steps(h)
          /\ prog[h.at].sym = s.sym
      BY <2>2, <2>4, <2>8
    <3> HIDE DEF s
    <3>2. scalars' = Bind(scalars, prog[h.at].sym, h.iv)
      BY <2>1, <2>8, <3>1
    <3> QED
      BY <1>1, <3>1, <3>2, StartFollows
  <2>9. ASSUME NEW n \in DOMAIN loops, NEW h, h = loops[n] PROVE Follows(h)'
    <3>1. h \in Frames(prog) /\ Follows(h) /\ s.sym # prog[h.at].sym
      BY <1>3, <2>9 DEF Counting
    <3> HIDE DEF s
    <3>2. ASSUME NEW u, u # s.sym PROVE Scalar(u)' = Scalar(u)
      BY <2>1, <3>2, BoundElsewhere
    <3>3. Scalar(prog[h.at].sym)' = Scalar(prog[h.at].sym)
      BY <1>1, <3>1, <3>2 DEF Scalar
    <3> QED
      BY <1>1, <2>7, <3>1, <3>3, FollowsKept
  <2>10. ASSUME NEW n \in 1 .. N + 1, NEW h, h = loops'[n] PROVE Follows(h)'
    <3>1. CASE n = N + 1
      BY <2>3, <2>8, <2>10, <3>1
    <3>2. CASE n \in 1 .. N
      BY <2>3, <2>9, <2>10, <3>2
    <3> QED
      BY <2>3, <3>1, <3>2
  <2> QED
    BY <2>3, <2>6, <2>10 DEF Counting
<1> QED
  BY <1>4, <1>5

LEMMA StepOfResidue ==
  ASSUME NEW m \in Nat \ {0}, NEW x \in Int, NEW d \in Int
  PROVE  ((x % m) + d) % m = (x + d) % m
<1> DEFINE q == x \div m
           r == x % m
<1>1. x = m * q + r /\ q \in Int /\ r \in Int
  BY Quotient
<1> HIDE DEF q, r
<1>2. x + d = m * q + (r + d) /\ r + d \in Int
  BY <1>1
<1>3. (m * q + (r + d)) % m = (r + d) % m
  BY <1>1, <1>2, MultiplesVanish
<1> QED
  BY <1>2, <1>3 DEF r

\* The next iteration is one step further.
LEMMA NextFollows ==
  ASSUME Typing, UNCHANGED prog, NEW f \in Frames(prog), Follows(f), NEW g \in Frames(prog),
         g.at = f.at, g.k = f.k + 1, g.step = f.step, g.iv = NextIv(f),
         scalars' = Bind(scalars, prog[f.at].sym, g.iv)
  PROVE  Follows(g)'
<1> DEFINE s == prog[f.at]
           M == 2^TypeOf[s.sym].width
           x == Starts(f).raw
           d == Steps(f).raw
           k == f.k
<1>1. /\ s.sym \in Symbols /\ s.sym \notin DOMAIN ConstValue /\ TypeOf[s.sym].width <= HostWidth
      /\ Evaluable(s.init) /\ Evaluable(s.step) /\ Constant(s.init) /\ Constant(s.step)
  BY LoopSettled
<1>2. \A t \in DOMAIN ConstValue : Scalar(t)' = Scalar(t)
  BY <1>1, BoundElsewhere
<1>3. Eval(s.init)' = Eval(s.init)
  BY <1>1, <1>2, HeaderKept
<1>4. Eval(s.step)' = Eval(s.step)
  BY <1>1, <1>2, HeaderKept
<1>5. Starts(g)' = Starts(f) /\ Steps(g)' = Steps(f)
  BY <1>3, <1>4 DEF Starts, Steps, Coerced
<1>6. Scalar(s.sym)' = g.iv
  BY DEF Scalar, Bind, At
<1>7. Starts(f) \in Cells(s.sym) /\ Steps(f) \in Cells(s.sym)
  <2>1. Eval(s.init) \in AllBits
    BY <1>1, EvalBits
  <2>2. Eval(s.step) \in AllBits
    BY <1>1, EvalBits
  <2> QED
    BY <1>1, <2>1, <2>2, CoercedCell DEF Starts, Steps
<1>8. TypeOf[s.sym].width \in Nat \ {0} /\ Kept(TypeOf[s.sym].width) = TypeOf[s.sym].width
  <2>1. TypeOf[s.sym].width \in Nat \ {0}
    BY <1>1, ProgramAssumption DEF Types
  <2> QED
    BY <1>1, <2>1 DEF Kept, Smaller
<1>9. M \in Nat \ {0} /\ x \in Int /\ d \in Int /\ k \in Nat
  <2>1. M \in Nat \ {0}
    BY <1>8, PowerOfTwo
  <2>2. x \in 0 .. M - 1 /\ d \in 0 .. M - 1
    BY <1>7, <1>8 DEF Cells
  <2>3. k \in Nat
    BY DEF Frames
  <2> HIDE DEF M, x, d, k
  <2> QED
    BY <2>1, <2>2, <2>3
<1>10. /\ f.iv.raw = (IF s.stepIsAdd THEN x + k * d ELSE x - k * d) % M
       /\ f.step.raw = d
  BY DEF Follows
<1>11. g.iv.raw = (IF s.stepIsAdd THEN f.iv.raw + f.step.raw ELSE f.iv.raw - f.step.raw) % M
  <2> DEFINE n == IF s.stepIsAdd THEN f.iv.raw + f.step.raw ELSE f.iv.raw - f.step.raw
             w == TypeOf[s.sym].width
  <2>1. g.iv = Make(n, w, TypeOf[s.sym].isSigned)
    BY Zenon DEF NextIv
  <2>2. Kept(w) = w
    BY <1>8
  <2> HIDE DEF n, w
  <2>3. g.iv.raw = n % 2^w
    BY <2>1, <2>2 DEF Make, Kept
  <2> QED
    BY <2>3, Zenon DEF n, w
<1>12. g.k = k + 1 /\ prog[g.at] = s
  OBVIOUS
<1>13. g.iv.raw = (IF s.stepIsAdd THEN x + (k + 1) * d ELSE x - (k + 1) * d) % M
  <2> DEFINE up   == s.stepIsAdd
             y    == f.iv.raw
             z    == g.iv.raw
  <2>1. /\ y = (IF up THEN x + k * d ELSE x - k * d) % M
        /\ z = (IF up THEN y + d ELSE y - d) % M
    BY <1>10, <1>11
  <2> HIDE DEF x, d, k, M, y, z, up
  <2>2. /\ x + k * d \in Int /\ x - k * d \in Int /\ -d \in Int
        /\ (x + k * d) + d = x + (k + 1) * d
        /\ (x - k * d) + (-d) = x - (k + 1) * d
    BY <1>9
  <2>3. CASE up
    <3>1. (((x + k * d) % M) + d) % M = ((x + k * d) + d) % M
      BY <1>9, <2>2, StepOfResidue
    <3> QED
      BY <2>1, <2>2, <2>3, <3>1 DEF z, up
  <2>4. CASE ~up
    <3>1. (((x - k * d) % M) + (-d)) % M = ((x - k * d) + (-d)) % M
      BY <1>9, <2>2, StepOfResidue
    <3>2. ((x - k * d) % M) + (-d) = ((x - k * d) % M) - d
      <4>1. (x - k * d) % M \in Int
        BY <1>9, <2>2, Quotient
      <4> QED
        BY <1>9, <4>1
    <3> QED
      BY <2>1, <2>2, <2>4, <3>1, <3>2 DEF z, up
  <2> QED
    BY <2>3, <2>4
<1>14. g.step = Steps(f)
  BY DEF Follows
<1> QED
  BY <1>5, <1>6, <1>12, <1>13, <1>14 DEF Follows

LEMMA IterationCounts == ASSUME Typing, Typing', Counting, EndIteration PROVE Counting'
<1> DEFINE N    == Len(loops)
           f    == loops[N]
           s    == prog[f.at]
           iv   == NextIv(f)
           g    == [f EXCEPT !.k = f.k + 1, !.iv = iv]
           rest == SubSeq(loops, 1, N - 1)
<1>1. /\ prog' = prog /\ Executing({"endfor"}) /\ loops # <<>>
      /\ \/ pc' = f.at + 1 /\ scalars' = Bind(scalars, s.sym, iv) /\ loops' = [loops EXCEPT ![N] = g]
         \/ pc' = pc + 1 /\ scalars' = scalars /\ loops' = rest
  <2>1. prog' = prog /\ Executing({"endfor"}) /\ loops # <<>>
    BY DEF EndIteration
  <2>2. loops \in Seq(Frames(prog)) /\ N \in DOMAIN loops
    BY <2>1 DEF Typing
  <2> QED
    BY <2>1, <2>2 DEF EndIteration, NextCount, Frames
<1>2. /\ N \in Nat \ {0} /\ DOMAIN loops = 1 .. N
      /\ \A n \in 1 .. N : /\ loops[n] \in Frames(prog) /\ loops[n].at \in Nat
                           /\ EndOf(loops[n]) \in Nat /\ loops[n].at < EndOf(loops[n])
  BY <1>1, ActiveLoops
<1>3. pc \in Nat /\ \A n \in 1 .. N : loops[n].at < pc /\ pc <= EndOf(loops[n])
  BY <1>1, <1>2, Executed DEF Counting, Inside
<1>4. \A n, m \in 1 .. N : n < m =>
        loops[n].at < loops[m].at /\ EndOf(loops[m]) < EndOf(loops[n])
  BY <1>2 DEF Counting, Inside
<1>5. \A n \in 1 .. N : Follows(loops[n])
  BY <1>2 DEF Counting
<1>6. /\ f \in Frames(prog) /\ f.at \in Nat /\ EndOf(f) \in Nat /\ f.at < EndOf(f)
      /\ s.kind = "for" /\ s.sym \notin DOMAIN ConstValue
  <2>1. f \in Frames(prog)
    BY <1>2
  <2> QED
    BY <2>1, LoopSettled
<1>7. \A n \in 1 .. N : n = N \/ n \in 1 .. N - 1
  <2> HIDE DEF f, N
  <2> QED
    BY <1>2
\* The activations below the innermost one.
<1>8. ASSUME NEW n \in 1 .. N - 1
      PROVE  n \in 1 .. N /\ loops[n].at < f.at /\ EndOf(f) < EndOf(loops[n]) /\ prog[loops[n].at].sym # s.sym
  <2>1. n \in 1 .. N /\ N \in 1 .. N /\ n < N
    BY <1>2
  <2>2. loops[n].at < f.at /\ EndOf(f) < EndOf(loops[n])
    BY <1>4, <2>1
  <2>3. loops[n] \in Frames(prog) /\ loops[n].at \in Nat /\ EndOf(loops[n]) \in Nat /\ f.at < EndOf(f)
    BY <1>2, <2>1
  <2>4. f.at \in loops[n].at + 1 .. EndOf(loops[n]) - 1
    BY <1>6, <2>2, <2>3
  <2>5. prog[loops[n].at].sym # s.sym
    BY <1>6, <2>3, <2>4, LoopSettled
  <2> QED
    BY <2>1, <2>2, <2>5
<1>9. CASE pc' = f.at + 1 /\ scalars' = Bind(scalars, s.sym, iv) /\ loops' = [loops EXCEPT ![N] = g]
  <2>1. /\ DOMAIN loops' = 1 .. N /\ loops'[N] = g
        /\ \A n \in 1 .. N - 1 : loops'[n] = loops[n]
    <3> HIDE DEF g, N
    <3> QED
      BY <1>2, <1>9
  <2>2. g.at = f.at /\ g.k = f.k + 1 /\ g.step = f.step /\ g.iv = iv
    <3>1. f \in [at : Nat, k : Nat, iv : AllBits, step : AllBits]
      BY <1>6 DEF Frames
    <3> HIDE DEF f, iv
    <3> QED
      BY <3>1
  <2> HIDE DEF g
  <2>3. g \in Frames(prog)
    <3>1. loops' \in Seq(Frames(prog))
      BY <1>1 DEF Typing, Frames
    <3>2. N \in DOMAIN loops'
      BY <1>2, <2>1
    <3> QED
      BY <2>1, <3>1, <3>2
  <2>4. Inside'
    <3>1. \A m \in 1 .. N : loops'[m].at = loops[m].at /\ EndOf(loops'[m]) = EndOf(loops[m])
      <4> SUFFICES ASSUME NEW m \in 1 .. N PROVE loops'[m].at = loops[m].at
        BY DEF EndOf
      <4> QED
        BY <1>2, <2>1, <2>2
    <3>2. ASSUME NEW n \in 1 .. N
          PROVE  loops[n].at \in Nat /\ loops[n].at < f.at + 1 /\ f.at + 1 <= EndOf(loops[n])
      <4>1. CASE n = N
        BY <1>2, <1>6, <4>1
      <4>2. CASE n \in 1 .. N - 1
        <5>1. loops[n].at < f.at /\ EndOf(f) < EndOf(loops[n]) /\ f.at < EndOf(f)
          BY <1>6, <1>8, <4>2
        <5> QED
          BY <1>2, <1>6, <5>1
      <4> QED
        BY <1>7, <4>1, <4>2
    <3>3. \A n \in 1 .. N : loops'[n].at < f.at + 1 /\ f.at + 1 <= EndOf(loops'[n])
      BY <3>1, <3>2, Zenon
    <3>4. \A n, m \in 1 .. N : n < m =>
            loops'[n].at < loops'[m].at /\ EndOf(loops'[m]) < EndOf(loops'[n])
      BY <1>4, <3>1, Zenon
    <3>5. prog' = prog /\ pc' = f.at + 1 /\ DOMAIN loops' = 1 .. N
      BY <1>1, <1>9, <2>1
    <3> HIDE DEF f, N
    <3> QED
      BY <3>3, <3>4, <3>5 DEF Inside, EndOf
  <2>5. \A t \in DOMAIN ConstValue : Scalar(t)' = Scalar(t)
    BY <1>6, <1>9, BoundElsewhere
  <2>6. ASSUME NEW h, h = g PROVE Follows(h)'
    <3>1. /\ h \in Frames(prog) /\ h.at = f.at /\ h.k = f.k + 1 /\ h.step = f.step /\ h.iv = NextIv(f)
      BY <2>2, <2>3, <2>6
    <3>2. scalars' = Bind(scalars, prog[f.at].sym, h.iv)
      BY <1>9, <3>1
    <3>3. Follows(f)
      BY <1>2, <1>5
    <3> HIDE DEF f, s, iv
    <3> QED
      BY <1>1, <1>6, <3>1, <3>2, <3>3, NextFollows
  <2>7. ASSUME NEW n \in 1 .. N - 1, NEW h, h = loops[n] PROVE Follows(h)'
    <3>1. h \in Frames(prog) /\ Follows(h) /\ s.sym # prog[h.at].sym
      BY <1>2, <1>5, <1>8, <2>7
    <3> HIDE DEF s, iv
    <3>2. ASSUME NEW u, u # s.sym PROVE Scalar(u)' = Scalar(u)
      BY <1>9, <3>2, BoundElsewhere
    <3>3. Scalar(prog[h.at].sym)' = Scalar(prog[h.at].sym)
      BY <1>1, <3>1, <3>2 DEF Scalar
    <3> QED
      BY <1>1, <2>5, <3>1, <3>3, FollowsKept
  <2>8. ASSUME NEW n \in 1 .. N, NEW h, h = loops'[n] PROVE Follows(h)'
    <3>1. CASE n = N
      BY <2>1, <2>6, <2>8, <3>1
    <3>2. CASE n \in 1 .. N - 1
      BY <2>1, <2>7, <2>8, <3>2
    <3> QED
      BY <1>7, <3>1, <3>2
  <2> QED
    BY <2>1, <2>4, <2>8 DEF Counting
<1>10. CASE pc' = pc + 1 /\ scalars' = scalars /\ loops' = rest
  <2>1. DOMAIN loops' = 1 .. N - 1 /\ \A n \in 1 .. N - 1 : loops'[n] = loops[n]
    <3>1. loops \in Seq(Frames(prog)) /\ Len(loops) - 1 \in Nat /\ Len(loops) - 1 <= Len(loops)
      BY <1>2 DEF Typing
    <3> QED
      BY <1>10, <3>1
  <2>2. Inside'
    <3> SUFFICES ASSUME NEW n \in 1 .. N - 1
                 PROVE  /\ loops[n].at < pc + 1 /\ pc + 1 <= EndOf(loops[n])
                        /\ \A m \in 1 .. N - 1 : n < m =>
                             loops[n].at < loops[m].at /\ EndOf(loops[m]) < EndOf(loops[n])
      BY <1>1, <1>10, <2>1 DEF Inside, EndOf
    <3>1. n \in 1 .. N /\ N \in 1 .. N /\ \A m \in 1 .. N - 1 : m \in 1 .. N
      BY <1>2
    <3>2. pc <= EndOf(f) /\ EndOf(f) < EndOf(loops[n])
      BY <1>3, <1>8, <3>1
    <3>3. loops[n].at < pc /\ loops[n].at \in Nat /\ EndOf(loops[n]) \in Nat
      BY <1>2, <1>3, <3>1
    <3> HIDE DEF f
    <3> QED
      BY <1>3, <1>4, <1>6, <3>1, <3>2, <3>3
  <2>3. \A t : Scalar(t)' = Scalar(t)
    BY <1>10 DEF Scalar
  <2>4. ASSUME NEW n \in 1 .. N - 1, NEW h, h = loops'[n] PROVE Follows(h)'
    <3>1. h \in Frames(prog) /\ Follows(h)
      BY <1>2, <1>5, <1>8, <2>1, <2>4
    <3>2. Scalar(prog[h.at].sym)' = Scalar(prog[h.at].sym)
      BY <1>1, <1>10 DEF Scalar
    <3> QED
      BY <1>1, <2>3, <3>1, <3>2, FollowsKept
  <2> QED
    BY <2>1, <2>2, <2>4 DEF Counting
<1> HIDE DEF f, s, iv, g, rest
<1> QED
  BY <1>1, <1>9, <1>10

LEMMA StatementCounts ==
  ASSUME Typing, Counting, ExecStore \/ ExecArrayDecl \/ ExecWrite \/ ExecReturn \/ ExecBrace
  PROVE  Counting'
<1>1. CASE ExecStore
  <2>1. Executing({"store"}) /\ UNCHANGED <<prog, scalars, loops>> /\ pc' = pc + 1
    BY <1>1 DEF ExecStore
  <2> QED
    BY <2>1, AdvanceCounts
<1>2. CASE ExecArrayDecl
  <2>1. Executing({"array"}) /\ UNCHANGED <<prog, scalars, loops>> /\ pc' = pc + 1
    BY <1>2 DEF ExecArrayDecl
  <2> QED
    BY <2>1, AdvanceCounts
<1>3. CASE ExecWrite
  <2>1. Executing({"write"}) /\ UNCHANGED <<prog, scalars, loops>> /\ pc' = pc + 1
    BY <1>3 DEF ExecWrite
  <2> QED
    BY <2>1, AdvanceCounts
<1>4. CASE ExecReturn
  <2>1. Executing({"return"}) /\ UNCHANGED <<prog, scalars, loops>> /\ pc' = pc + 1
    BY <1>4 DEF ExecReturn, memory
  <2> QED
    BY <2>1, AdvanceCounts
<1>5. CASE ExecBrace
  <2> DEFINE braces == {"endif", "{", "}"}
  <2>1. Executing(braces) /\ UNCHANGED <<prog, scalars, loops>> /\ pc' = pc + 1
    BY <1>5 DEF ExecBrace, Jump, memory
  <2>2. "endfor" \notin braces
    OBVIOUS
  <2> HIDE DEF braces
  <2> QED
    BY <2>1, <2>2, AdvanceCounts
<1> QED
  BY <1>1, <1>2, <1>3, <1>4, <1>5

\* Between statements the loops stand still; a new run has none.
LEMMA StandingCounts ==
  ASSUME Typing, Counting, UNCHANGED <<prog, pc, scalars, loops>>
  PROVE  Counting'
<1>1. Inside'
  BY DEF Counting, Inside, EndOf
<1>2. ASSUME NEW n \in DOMAIN loops, NEW h, h = loops[n] PROVE Follows(h)'
  <2>1. h \in Frames(prog) /\ Follows(h)
    BY <1>2, ActiveLoops DEF Counting
  <2>2. \A t : Scalar(t)' = Scalar(t)
    BY DEF Scalar
  <2>3. Scalar(prog[h.at].sym)' = Scalar(prog[h.at].sym)
    BY DEF Scalar
  <2> QED
    BY <2>1, <2>2, <2>3, FollowsKept
<1> QED
  BY <1>1, <1>2 DEF Counting

LEMMA NoLoops == ASSUME loops = <<>> PROVE Counting
BY DEF Counting, Inside

LEMMA NextCounts == Typing /\ Counting /\ [Next]_vars => Counting'
<1> SUFFICES ASSUME Typing, Counting, [Next]_vars PROVE Counting'
  OBVIOUS
<1>1. Typing'
  BY NextTyped
<1>2. CASE ExecIf \/ ExecElse \/ ExecBinding
  BY <1>2, IfCounts, ElseCounts, BindingCounts
<1>3. CASE ExecFor \/ EndIteration
  BY <1>1, <1>3, ForCounts, IterationCounts
<1>4. CASE ExecStore \/ ExecArrayDecl \/ ExecWrite \/ ExecReturn \/ ExecBrace
  BY <1>4, StatementCounts
<1>5. CASE Finish \/ UNCHANGED vars
  <2>1. UNCHANGED <<prog, pc, scalars, loops>>
    BY <1>5 DEF Finish, vars, memory
  <2> QED
    BY <2>1, StandingCounts
<1>6. CASE \E args \in Inputs : Run(args)
  <2>1. loops' = <<>>
    BY <1>6 DEF Run
  <2> QED
    BY <2>1 DEF Counting, Inside
<1> QED
  BY <1>2, <1>3, <1>4, <1>5, <1>6 DEF Next, Step

-----------------------------------------------------------------------------
(***************************************************************************)
(* The theorems.                                                           *)
(***************************************************************************)
\* The interpreter's memory, the activations of its loops and the streams of
\* a run have the types the front end gave them, after every statement.
THEOREM TypingHolds == Spec => []Typing
BY InitTyped, NextTyped, PTL DEF Spec

\* Whatever an expression's own width, a cell of memory or of a stream holds
\* a canonical value of its symbol's declared type: every store, binding,
\* element, stream end and loop update goes through a coercion.
THEOREM MemoryIsTyped == Spec => []MemoryTyped
BY TypingHolds, TypingMeans, PTL

\* Control is in the body of every active loop, the activations are nested
\* as the loops are, and each variable is where its header's constants and
\* the count of its iterations put it.
THEOREM CountingHolds == Spec => []Counting
<1>1. Init => Counting
  BY NoLoops DEF Init, Fresh
<1> QED
  BY <1>1, NextCounts, TypingHolds, PTL DEF Spec

\* iv = init +/- k * step: throughout the body of an active loop its variable
\* holds the value that the emitted hardware rebuilds from the counter alone
\* (mlirgen.cpp:667-681), whatever the body did since.
THEOREM InductionVariableHolds == Spec => []InductionVariable
BY CountingHolds, CountingMeans, PTL
=============================================================================
