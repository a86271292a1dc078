----------------------------- MODULE ConstEval -----------------------------
(***************************************************************************)
(* sema/const_eval.cpp: folding the file-scope constants and the sizes of  *)
(* arrays, and checking constant indices.  A constant may                  *)
(* stand before or after those it is made of, so evalConstant() evaluates  *)
(* what a constant names first, remembers the values it obtained, and      *)
(* keeps the set of constants being evaluated to recognise a cycle.  The   *)
(* C++ recursion between eval() and evalConstant() is `stack`; a step is   *)
(* one entry into, or one exit from, evalConstant().                       *)
(***************************************************************************)
EXTENDS Program, Operators

CONSTANTS
  LengthWidth,   \* bits of a length, uint64_t: 64 in the code
  DeclLists      \* the programs: lists of what evaluate() walks, in its order

ASSUME ConstEvalAssumption == LengthWidth \in Nat \ {0} /\ LengthWidth < HostWidth

\* A constant: a scalar's one initialiser, or the elements of an array.  An
\* array parameter or local array.  The expression of a statement.  The index
\* of an assignment to an element.
Declaration(kind, s, sizes, exprs) == [kind |-> kind, sym |-> s, sizes |-> sizes, exprs |-> exprs]
ConstDecl(s, e)            == Declaration("const", s, <<>>, <<e>>)
ConstArray(s, size, exprs) == Declaration("const array", s, <<size>>, exprs)
ArrayOf(s, size)           == Declaration("array", s, <<size>>, <<>>)
ReadOf(e)                  == Declaration("read", "", <<>>, <<e>>)
StoreAt(array, i)          == Declaration("store", array, <<>>, <<Name(i)>>)
Conditional(c, t, f)  == [op |-> "?:", args |-> <<c, t, f>>, type |-> TypeOf[t]]

IsList(s) == s \in Seq({s[i] : i \in DOMAIN s})

\* What the parser and the checker have settled of an expression.
Checked(e) ==
  /\ IsList(e.args)
  /\ CASE e.op = "lit"   -> e.value \in AllBits
       [] e.op = "name"  -> Len(e.args) = 1
       [] e.op = "index" -> Len(e.args) = 2 /\ e.args[1] \in Symbols
       [] e.op = "?:"    -> Len(e.args) = 3
       [] OTHER -> e.op \in BinaryOps /\ Len(e.args) = 2 /\ e.type \in Types

\* What the parser and the resolver have settled: a constant has one
\* initialiser and an array one size, and neither shares its symbol.
Declared(d) ==
  /\ IsList(d)
  /\ \A i \in DOMAIN d :
       /\ IsList(d[i].sizes) /\ IsList(d[i].exprs) /\ Len(d[i].sizes) + Len(d[i].exprs) >= 1
       /\ \A e \in {d[i].sizes[k] : k \in DOMAIN d[i].sizes}
                   \cup {d[i].exprs[k] : k \in DOMAIN d[i].exprs} : Checked(e)
       /\ d[i].kind = "const" => /\ d[i].sizes = <<>> /\ Len(d[i].exprs) = 1
                                 /\ d[i].sym # ""
       /\ d[i].sizes # <<>> => Len(d[i].sizes) = 1 /\ d[i].sym \in Symbols
       /\ \A j \in DOMAIN d \ {i} :
            d[j].sym = d[i].sym => d[i].kind # "const" /\ <<>> \in {d[i].sizes, d[j].sizes}

ASSUME DeclListsAssumption == \A d \in DeclLists : Declared(d)

VARIABLES
  decls,
  place,       \* evaluate(): <<declaration, job of it>> being done
  stack,       \* the eval() activations: [sym, got], innermost last
  values,      \* values_: what has been folded so far
  reports,     \* what was reported, and of which constant, array or index
  folded,      \* ConstDecl::value and foldedElements, by declaration
  lengths      \* Symbol::arrayLength, 0 until it is known

foldVars == <<decls, place, stack, values, reports, folded, lengths>>

Nullopt == [raw |-> 0, width |-> 0, isSigned |-> FALSE]
Known(v) == v # Nullopt

DeclOf(s) == CHOOSE d \in {decls[i] : i \in DOMAIN decls} : d.sym = s
Scalars   == {decls[i].sym : i \in {j \in DOMAIN decls : decls[j].kind = "const"}}
InitOf(s) == DeclOf(s).exprs[1]

(***************************************************************************)
(* eval(), as far as it has got: `got` holds the operands evaluated so     *)
(* far.  Both operands of an operator are evaluated, whatever the first    *)
(* one gave; of a conditional only the chosen arm is.                      *)
(***************************************************************************)
Pending(e, got) ==
  CASE e.op \in {"lit", "index"} -> <<>>
    [] e.op = "?:" /\ Len(got) = 1 ->
         IF ~Known(got[1]) THEN <<>> ELSE <<IF got[1].raw # 0 THEN e.args[2] ELSE e.args[3]>>
    [] e.op = "?:" /\ Len(got) = 2 -> <<>>
    [] Len(got) = Len(e.args) -> <<>>
    [] OTHER -> <<e.args[Len(got) + 1]>>

EvalWith(e, got) ==
  CASE e.op = "lit"   -> e.value
    [] e.op = "index" -> Nullopt
    [] OTHER -> IF \E i \in DOMAIN got : ~Known(got[i]) THEN Nullopt
                ELSE CASE e.op = "name" -> got[1]
                       [] e.op = "?:"   -> got[2]
                       [] OTHER -> CastTo(Apply(e.op, got[1], got[2]), e.type)

-----------------------------------------------------------------------------
(* evaluateConst(), and of evaluate() and evaluateStmt() the calls that     *)
(* concern arrays: what is done of a declaration, in order.                *)
Job(purpose, e) == [purpose |-> purpose, expr |-> e]

Jobs(d) ==
  [i \in DOMAIN d.sizes |-> Job("size", d.sizes[i])] \o
  CASE d.kind = "const" -> <<Job("value", d.exprs[1])>>
    [] d.kind = "const array" ->
         [k \in 1 .. 2 * Len(d.exprs) |->
            Job(IF k % 2 = 1 THEN "index" ELSE "value", d.exprs[(k + 1) \div 2])]
    [] OTHER -> [i \in DOMAIN d.exprs |-> Job("index", d.exprs[i])]

Folding == place[1] <= Len(decls)
Current == Jobs(decls[place[1]])[place[2]]

\* validateIndex() evaluates the index of an element, and of nothing else.
Outer == IF Current.purpose = "index" THEN Name(Current.expr.args[2]) ELSE Current.expr
Indexed == Current.expr.args[1]

\* The checks of indices are made without diagnosing.
Diagnose == Current.purpose # "index"

\* Mutant: an expression that did not fold is tried again.
Retried == IF stack # <<>> /\ ~Known(EvalWith(Outer, stack[1].got)) THEN place ELSE <<place[1] + 1, 1>>
After == IF place[2] < Len(Jobs(decls[place[1]])) THEN <<place[1], place[2] + 1>> ELSE <<place[1] + 1, 1>>

Activation(s) == [sym |-> s, got |-> <<>>]
Top           == stack[Len(stack)]
ExprOf(f)     == IF f.sym = "" THEN Outer ELSE InitOf(f.sym)
Callers       == SubSeq(stack, 1, Len(stack) - 1)
Give(frames, v) == [frames EXCEPT ![Len(frames)].got = Append(@, v)]

\* inProgress_: the constants evalConstant() is in the middle of.
InProgress == {stack[i].sym : i \in DOMAIN stack}

\* The index is not evaluated: no element's, or of an array of unknown length.
Skipped ==
  /\ Current.purpose = "index"
  /\ Current.expr.op = "index" => lengths[Indexed] = 0

SkipIndex ==
  /\ Folding
  /\ stack = <<>>
  /\ Skipped
  /\ place' = After
  /\ UNCHANGED <<decls, stack, values, reports, folded, lengths>>

\* The expression itself is evaluated outside evalConstant().
Evaluate ==
  /\ Folding
  /\ stack = <<>>
  /\ ~Skipped
  /\ stack' = <<Activation("")>>
  /\ UNCHANGED <<decls, place, values, reports, folded, lengths>>

Operand == Pending(ExprOf(Top), Top.got)[1]
Wanted  == stack # <<>> /\ Pending(ExprOf(Top), Top.got) # <<>>

\* Not a scalar constant, or already folded: no recursion.
AnswerAtOnce ==
  /\ Wanted
  /\ Operand \notin Scalars \/ Operand \in DOMAIN values
  /\ stack' = Give(stack, IF Operand \in DOMAIN values THEN values[Operand] ELSE Nullopt)
  /\ UNCHANGED <<decls, place, values, reports, folded, lengths>>

Cyclic == Operand \in InProgress

ReportCycle ==
  /\ Wanted
  /\ Operand \in Scalars \ DOMAIN values
  /\ Cyclic
  /\ reports' = IF Diagnose THEN reports \cup {<<"cycle", Operand>>} ELSE reports
  /\ stack' = Give(stack, Nullopt)
  /\ UNCHANGED <<decls, place, values, folded, lengths>>

EvalConstant ==
  /\ Wanted
  /\ Operand \in Scalars \ DOMAIN values
  /\ ~Cyclic
  /\ stack' = Append(stack, Activation(Operand))
  /\ UNCHANGED <<decls, place, values, reports, folded, lengths>>

\* Mutant: a value is remembered for the declaration being folded.
CacheForDeclaration(s, v) == IF Known(v) THEN Bind(values, decls[place[1]].sym, v) ELSE values
Cache(s, v) == IF Known(v) THEN Bind(values, s, v) ELSE values

LeaveConstant ==
  /\ stack # <<>> /\ ~Wanted
  /\ Top.sym # ""
  /\ LET v == EvalWith(InitOf(Top.sym), Top.got)
     IN  /\ values' = Cache(Top.sym, v)
         /\ stack' = Give(Callers, v)
  /\ UNCHANGED <<decls, place, reports, folded, lengths>>

\* The job's expression has been evaluated.
Answer == EvalWith(Outer, Top.got)

EndOf(purpose) ==
  /\ stack # <<>> /\ ~Wanted
  /\ Top.sym = ""
  /\ Current.purpose = purpose
  /\ stack' = <<>>
  /\ place' = After
  /\ UNCHANGED <<decls, values>>

\* A value is stored on its declaration, or pushed on its elements; nothing
\* is when there is none.
StoreFolded ==
  /\ EndOf("value")
  /\ folded' = IF Known(Answer) THEN [folded EXCEPT ![place[1]] = Append(@, Answer)] ELSE folded
  /\ UNCHANGED <<reports, lengths>>

IsLength(v) == Known(v) /\ Value(v) >= 1 /\ v.raw < 2^LengthWidth

\* validateArray()
FoldSize ==
  /\ EndOf("size")
  /\ LET s == decls[place[1]].sym
     IN  IF IsLength(Answer)
         THEN lengths' = [lengths EXCEPT ![s] = Answer.raw] /\ UNCHANGED reports
         ELSE reports' = reports \cup {<<"size", s>>} /\ UNCHANGED lengths
  /\ UNCHANGED folded

\* Mutant: the index that is the length is an element's.
MutantOutOfBounds(v, length) == Known(v) /\ Value(v) >= 0 /\ v.raw > length
OutOfBounds(v, length) == Known(v) /\ Value(v) >= 0 /\ v.raw >= length

\* validateIndex()
CheckIndex ==
  /\ EndOf("index")
  /\ reports' = IF OutOfBounds(Answer, lengths[Indexed])
                THEN reports \cup {<<"index", place>>} ELSE reports
  /\ UNCHANGED <<folded, lengths>>

FoldInit ==
  /\ decls \in DeclLists
  /\ place = <<1, 1>>
  /\ stack = <<>>
  /\ values = [s \in {} |-> Nullopt]
  /\ reports = {}
  /\ folded = [i \in DOMAIN decls |-> <<>>]
  /\ lengths = [s \in Symbols |-> 0]

FoldNext ==
  \/ SkipIndex
  \/ Evaluate
  \/ AnswerAtOnce
  \/ ReportCycle
  \/ EvalConstant
  \/ LeaveConstant
  \/ StoreFolded
  \/ FoldSize
  \/ CheckIndex

\* evaluate() is one sequential call.
FoldSpec == FoldInit /\ [][FoldNext]_foldVars /\ WF_foldVars(FoldNext)

-----------------------------------------------------------------------------
(***************************************************************************)
(* What the declarations mean, read off them without an order: the least   *)
(* map of constants to values closed under the initialisers.               *)
(***************************************************************************)
\* What e evaluates to when names stand for what `read` says of them.
Through(e, read(_)) ==
  CASE e.op \in {"lit", "index"} -> EvalWith(e, <<>>)
    [] e.op = "?:" -> LET c == read(e.args[1])
                      IN  IF ~Known(c) THEN Nullopt
                          ELSE read(IF c.raw # 0 THEN e.args[2] ELSE e.args[3])
    [] OTHER -> EvalWith(e, [i \in DOMAIN e.args |-> read(e.args[i])])

\* `reading` is applied to a value when a constant of that value is named.
Meaning(reading(_, _)) ==
  LET none == [s \in Scalars |-> Nullopt]
      closed[n \in 0 .. Len(decls)] ==
        IF n = 0 THEN none
        ELSE [s \in Scalars |->
                Through(InitOf(s),
                        LAMBDA t : IF t \in Scalars /\ Known(closed[n - 1][t])
                                   THEN reading(t, closed[n - 1][t]) ELSE Nullopt)]
  IN  closed[Len(decls)]

AsFolded(s, v)  == v
AsDeclared(s, v) == CastTo(v, TypeOf[s])

\* The constants an initialiser goes on to look at.
Follows(s, meaning) ==
  LET e == InitOf(s)
  IN  Scalars \cap
      CASE e.op \in {"lit", "index"} -> {}
        [] e.op = "?:" ->
             IF e.args[1] \in Scalars /\ Known(meaning[e.args[1]])
             THEN {e.args[1], IF meaning[e.args[1]].raw # 0 THEN e.args[2] ELSE e.args[3]}
             ELSE {e.args[1]}
        [] OTHER -> Reads(e)

Reached(s, meaning) ==
  LET within[n \in 0 .. Len(decls)] ==
        IF n = 0 THEN Follows(s, meaning)
        ELSE within[n - 1] \cup UNION {Follows(t, meaning) : t \in within[n - 1]}
  IN  within[Len(decls)]

\* What e comes to when every name has its meaning.
Comes(e, meaning) == Through(e, LAMBDA t : IF t \in Scalars THEN meaning[t] ELSE Nullopt)

Sized == {i \in DOMAIN decls : decls[i].sizes # <<>>}
Size(i, meaning) == Comes(decls[i].sizes[1], meaning)

LengthOf(s, meaning) ==
  LET known == {i \in Sized : decls[i].sym = s /\ IsLength(Size(i, meaning))}
  IN  IF known = {} THEN 0 ELSE Size(CHOOSE i \in known : TRUE, meaning).raw

\* Every element that is read: <<declaration, job>>.
Elements ==
  {p \in UNION {{i} \X DOMAIN Jobs(decls[i]) : i \in DOMAIN decls} :
     LET job == Jobs(decls[p[1]])[p[2]]
     IN  job.purpose = "index" /\ job.expr.op = "index"}
ElementAt(p) == Jobs(decls[p[1]])[p[2]].expr

\* A constant index that is no element's of `array`.
Outside(array, i, meaning) ==
  /\ LengthOf(array, meaning) # 0
  /\ LET v == Comes(Name(i), meaning)
     IN  Known(v) /\ Value(v) >= LengthOf(array, meaning)

\* Its size stands before the place i.
SizedBefore(array, i) == \E k \in Sized : k <= i /\ decls[k].sym = array

Finished == ~Folding

-----------------------------------------------------------------------------
\* The order of the declarations, the remembered values and the failures in
\* between make no difference: every declaration is folded to what its
\* initialiser means, and to nothing when it means nothing; an array has the
\* length its size means (const_eval.cpp:29-44, 114-130, 157-168).
FoldedAsMeant ==
  Finished =>
    LET meaning == Meaning(AsFolded)
    IN  /\ \A i \in DOMAIN decls : decls[i].kind = "const" =>
             folded[i] = (IF Known(meaning[decls[i].sym]) THEN <<meaning[decls[i].sym]>> ELSE <<>>)
        /\ \A i \in Sized : lengths[decls[i].sym] = LengthOf(decls[i].sym, meaning)

\* Three faults are reported of a program and nothing else is: a constant
\* whose evaluation comes back to itself, whichever constant it started from;
\* a size that means no length; an element read with a constant index that is
\* none of its array's, although indices are evaluated without diagnosing and
\* before the constants in them are (const_eval.cpp:33-36, 114-155).  Arrays
\* whose size comes behind the use are left to IndicesAreChecked.
ReportsAreExact ==
  Finished =>
    LET meaning == Meaning(AsFolded)
    IN  reports = {<<"cycle", s>> : s \in {t \in Scalars : t \in Reached(t, meaning)}}
             \cup {<<"size", decls[i].sym>> :
                      i \in {j \in Sized : LengthOf(decls[j].sym, meaning) = 0}}
             \cup {<<"index", p>> :
                      p \in {q \in Elements :
                               LET e == ElementAt(q)
                               IN  /\ SizedBefore(e.args[1], q[1])
                                   /\ Outside(e.args[1], e.args[2], meaning)}}

\* "so cycles [...] produce an error instead of recursing forever"
\* (sema/README.md:269-271).
Terminates == <>Finished

\* "compile-time arithmetic follows the same width, signedness, division,
\* remainder, and shift rules as runtime values" (sema/README.md:266-268):
\* there, a constant is read at its declared type.
FoldsAsRuntime ==
  Finished =>
    LET meaning == Meaning(AsDeclared)
    IN  \A i \in DOMAIN decls : decls[i].kind = "const" /\ folded[i] # <<>> =>
          AsDeclared(decls[i].sym, folded[i][1]) = AsDeclared(decls[i].sym, meaning[decls[i].sym])

\* "must evaluate at compile time" (LANGUAGE.md:775), of a scalar's
\* initialiser and of every element of an array's.
UnfoldedIsReported ==
  Finished /\ reports = {} =>
    \A i \in DOMAIN decls :
      decls[i].kind \in {"const", "const array"} => Len(folded[i]) = Len(decls[i].exprs)

\* "A constant index that is out of range is a compile-time error"
\* (LANGUAGE.md:435), of every element that is read or assigned.
IndicesAreChecked ==
  Finished /\ reports = {} =>
    LET meaning == Meaning(AsFolded)
    IN  /\ \A p \in Elements : ~Outside(ElementAt(p).args[1], ElementAt(p).args[2], meaning)
        /\ \A i \in DOMAIN decls : decls[i].kind = "store" =>
             ~Outside(decls[i].sym, decls[i].exprs[1].args[1], meaning)

\* "initialiser lists must have exactly as many elements as the array"
\* (LANGUAGE.md:265).
ElementsAreCounted ==
  Finished /\ reports = {} =>
    \A i \in DOMAIN decls :
      decls[i].kind = "const array" => Len(decls[i].exprs) = lengths[decls[i].sym]
=============================================================================
