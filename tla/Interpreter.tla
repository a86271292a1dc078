---------------------------- MODULE Interpreter ----------------------------
(***************************************************************************)
(* interp/interpreter.cpp: the tree-walking evaluator the other back ends  *)
(* are checked against.  One action is one statement; the C++ call stack   *)
(* of exec(For) is `loops`.  An expression is pure and is one value.  A    *)
(* stream that runs dry sets failed_, every activation returns, and run()  *)
(* yields nothing.  One object may run a program again.                    *)
(***************************************************************************)
EXTENDS Program, Operators

CONSTANTS
  Programs,      \* the listings the front end may hand over
  ArrayLength,   \* array symbol -> Symbol::arrayLength, folded
  ConstElements, \* file-scope constant array -> its folded elements
  InStreams, OutStreams,
  Inputs,        \* the arguments run() may be given: parameter -> Bits or elements
  MaxRuns        \* bound: runs of one Interpreter object

ASSUME InterpreterAssumption ==
  /\ DOMAIN ArrayLength \subseteq Symbols
  /\ \A a \in DOMAIN ArrayLength : ArrayLength[a] \in Nat \ {0}
  /\ DOMAIN ConstElements \subseteq DOMAIN ArrayLength
  /\ InStreams \cup OutStreams \subseteq Symbols
  /\ MaxRuns \in Nat \ {0}
  /\ \A s \in DOMAIN ConstValue : ConstValue[s] \in AllBits
  /\ \A a \in DOMAIN ConstElements : ConstElements[a] \in Seq(AllBits)
  /\ \A args \in Inputs :
       /\ \A s \in Params : args[s] \in AllBits
       /\ \A s \in InStreams \cup (DOMAIN args \cap DOMAIN ArrayLength) : args[s] \in Seq(AllBits)

\* What the front end has settled of an expression, and of what may stand
\* right of a binding, before the interpreter walks it.
Evaluable(e) ==
  CASE e.op = "lit"   -> e.value \in AllBits
    [] e.op = "name"  -> e.args[1] \in Symbols
    [] e.op = "index" -> {e.args[1], e.args[2]} \subseteq Symbols
    [] OTHER -> /\ e.op \in BinaryOps /\ e.type \in Types
                /\ {e.args[1], e.args[2]} \subseteq Symbols
Bindable(e) == IF e.op = "read" THEN e.args[1] \in InStreams ELSE Evaluable(e)

Executable(p) ==
  \A i \in DOMAIN p :
    LET s == p[i]
    IN  CASE s.kind \in {"decl", "assign"} -> Bindable(s.expr)
          [] s.kind = "store"  -> s.sym \in Symbols /\ Evaluable(s.index) /\ Bindable(s.expr)
          [] s.kind = "array"  -> /\ s.sym \in DOMAIN ArrayLength
                                  /\ s.init \in Seq({s.init[k] : k \in DOMAIN s.init})
                                  /\ \A k \in DOMAIN s.init : Evaluable(s.init[k])
          [] s.kind = "write"  -> s.sym \in OutStreams /\ Evaluable(s.expr)
          [] s.kind = "for"    -> Evaluable(s.init) /\ Evaluable(s.step) /\ s.tripCount \in Nat
          [] OTHER -> s.kind \in {"if", "return"} => Evaluable(s.expr)

ASSUME ListingsAssumption == \A p \in Programs : WellFormed(p) /\ Executable(p)

\* The resolver reports an assignment to a constant or to a loop variable,
\* whose type is one the lexer can read.
Counted(p) ==
  /\ \A j \in DOMAIN p :
       p[j].kind \in {"decl", "assign", "for"} => p[j].sym \notin DOMAIN ConstValue
  /\ \A i \in DOMAIN p : p[i].kind = "for" =>
       /\ Constant(p[i].init) /\ Constant(p[i].step)
       /\ TypeOf[p[i].sym].width <= HostWidth
       /\ \A j \in i + 1 .. CloseOf(p, i) - 1 :
            p[j].kind \in {"decl", "assign", "for"} => p[j].sym # p[i].sym

ASSUME LoopsAssumption == \A p \in Programs : Nested(p) /\ Counted(p)

VARIABLES
  prog, pc,
  phase,                          \* "ready", "running", "finished", "failed"
  inputs,                         \* the arguments of the current run
  scalars, arrays,                \* scalars_, arrays_
  streamIn, streamPos, streamOut, \* streamIn_, streamPos_, streamOut_
  returnValue,                    \* returnValue_
  loops,                          \* the exec(For) activations
  results                         \* history: the outcome of each run so far

memory  == <<scalars, arrays, streamIn, streamPos, streamOut>>
vars == <<prog, pc, phase, inputs, memory, returnValue, loops, results>>

DefaultBits == Make(0, 1, FALSE)
NoBits      == [s \in {} |-> DefaultBits]
At(map, s, default) == IF s \in DOMAIN map THEN map[s] ELSE default

\* Mutant: a value is kept at the width it was computed at.
Uncoerced(v, s) == v
Coerced(v, s) == CastTo(v, TypeOf[s])
Zero(s)       == Make(0, TypeOf[s].width, TypeOf[s].isSigned)
Zeros(a)      == [i \in 1 .. ArrayLength[a] |-> Zero(a)]
CoercedAll(vs, s) == [i \in DOMAIN vs |-> Coerced(vs[i], s)]

(***************************************************************************)
(* Memory and expressions.  Out of range is decided on the index's raw     *)
(* bits: reads give zero, writes have no effect.                           *)
(***************************************************************************)
Scalar(s) == At(scalars, s, DefaultBits)

LoadElem(a, index) ==
  LET arr == At(arrays, a, <<>>)
  IN  IF index.raw >= Len(arr) THEN Zero(a) ELSE arr[index.raw + 1]

StoreElem(a, index, v) ==
  LET arr == At(arrays, a, <<>>)
  IN  Bind(arrays, a, IF index.raw >= Len(arr) THEN arr
                      ELSE [arr EXCEPT ![index.raw + 1] = Coerced(v, a)])

Eval(e) ==
  CASE e.op = "lit"   -> e.value
    [] e.op = "name"  -> Scalar(e.args[1])
    [] e.op = "index" -> LoadElem(e.args[1], Scalar(e.args[2]))
    [] OTHER -> CastTo(Apply(e.op, Scalar(e.args[1]), Scalar(e.args[2])), e.type)

Exhausted(s) == streamPos[s] >= Len(streamIn[s])
NextElement(s) == IF Exhausted(s) THEN Zero(s) ELSE streamIn[s][streamPos[s] + 1]

-----------------------------------------------------------------------------
Executing(kinds) ==
  /\ phase = "running"
  /\ pc \in DOMAIN prog
  /\ prog[pc].kind \in kinds

\* Mutant: a second run goes on writing where the first one stopped.
KeptOutputs == [s \in OutStreams |-> At(streamOut, s, <<>>)]
FreshOutputs == [s \in OutStreams |-> <<>>]

\* run(): every map is cleared and bound afresh; returnValue_ is left alone.
Run(args) ==
  /\ phase \in {"ready", "finished", "failed"}
  /\ Len(results) < MaxRuns
  /\ inputs' = args
  /\ phase' = "running"
  /\ pc' = 1
  /\ scalars' = [s \in Params \cup DOMAIN ConstValue |->
                   Coerced(IF s \in Params THEN args[s] ELSE ConstValue[s], s)]
  /\ arrays' = [a \in DOMAIN ConstElements \cup (DOMAIN args \cap DOMAIN ArrayLength) |->
                  IF a \in DOMAIN ConstElements THEN CoercedAll(ConstElements[a], a)
                  ELSE [i \in 1 .. ArrayLength[a] |->
                          IF i <= Len(args[a]) THEN Coerced(args[a][i], a) ELSE Zero(a)]]
  /\ streamIn' = [s \in InStreams |-> CoercedAll(args[s], s)]
  /\ streamPos' = [s \in InStreams |-> 0]
  /\ streamOut' = FreshOutputs
  /\ loops' = <<>>
  /\ UNCHANGED <<prog, returnValue, results>>

Outcome(ok, value, out) == [ok |-> ok, value |-> value, out |-> out]
Failed == Outcome(FALSE, DefaultBits, NoBits)

\* readStream(): the next element, or failed_ and a zero, which the statement
\* still stores before the activations return.
RhsValue(e) == IF e.op = "read" THEN NextElement(e.args[1]) ELSE Eval(e)
Consume(e) ==
  IF e.op # "read" THEN UNCHANGED <<streamPos, phase, results>>
  ELSE IF Exhausted(e.args[1])
       THEN /\ phase' = "failed"
            /\ results' = Append(results, <<inputs, Failed>>)
            /\ UNCHANGED streamPos
       ELSE /\ streamPos' = [streamPos EXCEPT ![e.args[1]] = @ + 1]
            /\ UNCHANGED <<phase, results>>

ExecBinding ==
  /\ Executing({"decl", "assign"})
  /\ LET s == prog[pc]
     IN  /\ scalars' = Bind(scalars, s.sym, Coerced(RhsValue(s.expr), s.sym))
         /\ Consume(s.expr)
  /\ pc' = pc + 1
  /\ UNCHANGED <<prog, inputs, arrays, streamIn, streamOut, returnValue, loops>>

ExecStore ==
  /\ Executing({"store"})
  /\ LET s == prog[pc]
     IN  /\ arrays' = StoreElem(s.sym, Eval(s.index), RhsValue(s.expr))
         /\ Consume(s.expr)
  /\ pc' = pc + 1
  /\ UNCHANGED <<prog, inputs, scalars, streamIn, streamOut, returnValue, loops>>

ExecArrayDecl ==
  /\ Executing({"array"})
  /\ LET s == prog[pc]
     IN  arrays' = Bind(arrays, s.sym,
                     [i \in 1 .. ArrayLength[s.sym] |->
                        IF i <= Len(s.init) THEN Coerced(Eval(s.init[i]), s.sym)
                        ELSE Zero(s.sym)])
  /\ pc' = pc + 1
  /\ UNCHANGED <<prog, phase, inputs, scalars, streamIn, streamPos, streamOut, returnValue,
                 loops, results>>

ExecWrite ==
  /\ Executing({"write"})
  /\ LET s == prog[pc]
     IN  streamOut' = [streamOut EXCEPT ![s.sym] = Append(@, Coerced(Eval(s.expr), s.sym))]
  /\ pc' = pc + 1
  /\ UNCHANGED <<prog, phase, inputs, scalars, arrays, streamIn, streamPos, returnValue,
                 loops, results>>

Jump(kinds, target) ==
  /\ Executing(kinds)
  /\ pc' = target
  /\ UNCHANGED <<prog, phase, inputs, memory, returnValue, loops, results>>

ExecIf == Jump({"if"}, IF Eval(prog[pc].expr).raw # 0 THEN pc + 1 ELSE ElseOf(prog, pc) + 1)
ExecElse == Jump({"else"}, CloseOf(prog, pc))      \* the then arm ended
ExecBrace == Jump({"endif", "{", "}"}, pc + 1)

\* The condition is never tested: the trip count is a compile-time fact.
ExecFor ==
  /\ Executing({"for"})
  /\ LET s    == prog[pc]
         iv   == Coerced(Eval(s.init), s.sym)
         step == Coerced(Eval(s.step), s.sym)
     IN  IF s.tripCount = 0
         THEN /\ pc' = CloseOf(prog, pc) + 1
              /\ UNCHANGED <<scalars, loops>>
         ELSE /\ pc' = pc + 1
              /\ scalars' = Bind(scalars, s.sym, iv)
              /\ loops' = Append(loops, [at |-> pc, k |-> 0, iv |-> iv, step |-> step])
  /\ UNCHANGED <<prog, phase, inputs, arrays, streamIn, streamPos, streamOut, returnValue,
                 results>>

\* The induction update wraps at the declared width.
\* Mutant: a loop that counts down counts up.
NextIvUp(loop) ==
  LET s == prog[loop.at]
  IN  Make(loop.iv.raw + loop.step.raw, TypeOf[s.sym].width, TypeOf[s.sym].isSigned)
NextIv(loop) ==
  LET s == prog[loop.at]
  IN  Make(IF s.stepIsAdd THEN loop.iv.raw + loop.step.raw ELSE loop.iv.raw - loop.step.raw,
           TypeOf[s.sym].width, TypeOf[s.sym].isSigned)

\* Mutant: a counter too narrow for the trip count.
NarrowCount(loop) == (loop.k + 1) % 2
NextCount(loop) == loop.k + 1

\* Only an activation reaches the end of a loop's body.
EndIteration ==
  /\ Executing({"endfor"}) /\ loops # <<>>
  /\ LET loop == loops[Len(loops)]
         s    == prog[loop.at]
         iv   == NextIv(loop)
     IN  IF NextCount(loop) < s.tripCount
         THEN /\ pc' = loop.at + 1
              /\ scalars' = Bind(scalars, s.sym, iv)
              /\ loops' = [loops EXCEPT ![Len(loops)].k = NextCount(loop), ![Len(loops)].iv = iv]
         ELSE /\ pc' = pc + 1
              /\ loops' = SubSeq(loops, 1, Len(loops) - 1)
              /\ UNCHANGED scalars
  /\ UNCHANGED <<prog, phase, inputs, arrays, streamIn, streamPos, streamOut, returnValue,
                 results>>

\* A return only records its value; the block goes on.
ExecReturn ==
  /\ Executing({"return"})
  /\ returnValue' = Eval(prog[pc].expr)
  /\ pc' = pc + 1
  /\ UNCHANGED <<prog, phase, inputs, memory, loops, results>>

Finish ==
  /\ phase = "running"
  /\ pc > Len(prog)
  /\ phase' = "finished"
  /\ results' = Append(results,
                  <<inputs, Outcome(TRUE, CastTo(returnValue, ReturnType), streamOut)>>)
  /\ UNCHANGED <<prog, pc, inputs, memory, returnValue, loops>>

-----------------------------------------------------------------------------
\* The object as it is made.
Fresh ==
  /\ pc = 1
  /\ phase = "ready"
  /\ inputs = NoBits
  /\ scalars = NoBits /\ arrays = NoBits
  /\ streamIn = NoBits /\ streamPos = NoBits /\ streamOut = NoBits
  /\ returnValue = DefaultBits
  /\ loops = <<>>
  /\ results = <<>>

Init == prog \in Programs /\ Fresh

Step ==
  \/ ExecBinding
  \/ ExecArrayDecl
  \/ ExecStore
  \/ ExecWrite
  \/ ExecIf
  \/ ExecElse
  \/ ExecBrace
  \/ ExecFor
  \/ EndIteration
  \/ ExecReturn
  \/ Finish

Next == Step \/ \E args \in Inputs : Run(args)

\* A run is one sequential call: once started it goes on.  Nothing obliges a
\* caller to run again.
Spec == Init /\ [][Next]_vars /\ WF_vars(Step)

-----------------------------------------------------------------------------
(***************************************************************************)
(* Properties.                                                             *)
(***************************************************************************)
HasType(v, s) == /\ v.width = TypeOf[s].width
                 /\ v.isSigned = TypeOf[s].isSigned
                 /\ v.raw \in 0 .. 2^v.width - 1

AllHaveType(vs, s) == \A i \in DOMAIN vs : HasType(vs[i], s)

\* Whatever an expression's own width, a cell of memory or of a stream holds
\* a canonical value of its symbol's declared type: every store, binding,
\* element, stream end and loop update goes through a coercion.
MemoryTyped ==
  /\ \A s \in DOMAIN scalars : HasType(scalars[s], s)
  /\ \A a \in DOMAIN arrays : AllHaveType(arrays[a], a)
  /\ \A s \in DOMAIN streamIn : AllHaveType(streamIn[s], s)
  /\ \A s \in DOMAIN streamOut : AllHaveType(streamOut[s], s)

\* iv = init +/- k * step: throughout the body of an active loop its variable
\* holds the value that the emitted hardware rebuilds from the counter alone
\* (mlirgen.cpp:667-681), whatever the body did since.
InductionVariable ==
  \A i \in DOMAIN loops :
    LET loop  == loops[i]
        s     == prog[loop.at]
        moved == loop.k * Coerced(Eval(s.step), s.sym).raw
        start == Coerced(Eval(s.init), s.sym).raw
    IN  /\ Scalar(s.sym) = loop.iv
        /\ loop.iv.raw = (IF s.stepIsAdd THEN start + moved ELSE start - moved)
                           % 2^TypeOf[s.sym].width

\* "The body must end with exactly one `return`" (LANGUAGE.md:234-235): no pass
\* checks it, and a run of another body need not come past a return.
EndsInReturn(p) == \E i \in DOMAIN p : p[i].kind = "return" /\ Depth(p)[i] = 0

\* The i-th run returned what the one before it did, or what the object was
\* made with.  Of a run that failed nobody sees what it left.
Repeats(i) ==
  IF i = 1 THEN results[i][2].value = CastTo(DefaultBits, ReturnType)
  ELSE results[i - 1][2].ok => results[i][2].value = results[i - 1][2].value

\* A run's outcome is a function of its arguments: nothing of an earlier run
\* of the object, failed half-way or not, shows in a later one, but the value
\* of a body that does not end in a return: run() does not reset returnValue_,
\* so such a run may return what the run before it did (interpreter.cpp:204-208).
ResultsAgree ==
  \A i, j \in DOMAIN results :
    LET a == results[i][2]
        b == results[j][2]
    IN  results[i][1] = results[j][1] =>
          /\ a.ok = b.ok /\ a.out = b.out
          /\ a.value = b.value \/ (~EndsInReturn(prog) /\ (Repeats(i) \/ Repeats(j)))

\* Without the exception, which the rule of LANGUAGE.md:234-235 would make
\* superfluous if a pass checked it.
ValuesAgree ==
  \A i, j \in DOMAIN results :
    results[i][1] = results[j][1] => results[i][2].value = results[j][2].value

\* Every program stops, as LANGUAGE.md's bounded loops promise.
Terminates == phase = "running" ~> phase # "running"
=============================================================================
