------------------------------ MODULE MLIRGen ------------------------------
(***************************************************************************)
(* mlirgen/mlirgen.cpp: the walk that turns a function body into SSA form, *)
(* with scf.if and scf.for regions.  The walk keeps one map from symbols   *)
(* to SSA values and edits it in place; what a region may see of it, and   *)
(* what is left of it after the region, is decided by saving and restoring *)
(* that map.                                                               *)
(*                                                                         *)
(* One action is one statement of the listing.  The C++ call stack of      *)
(* emitIf and emitFor is `frames`.  The emitted operations are a flat      *)
(* list; the block an operation stands in is its `path`, the blocks that   *)
(* enclose it from the function's outermost one inwards.                   *)
(***************************************************************************)
EXTENDS Program

CONSTANTS
  Programs,      \* the listings the front end may hand over
  MaxIndex       \* the largest `index`, int64_t's maximum in the code

ASSUME MaxIndexAssumption == MaxIndex \in Nat \ {0}
ASSUME ListingsAssumption == \A p \in Programs : WellFormed(p)
ASSUME ScopesAssumption == \A p \in Programs : Nested(p) /\ WellScoped(p)

VARIABLES
  prog,      \* the function's body
  pc,        \* the statement emitted next
  values,    \* values_: bound symbol -> the SSA value it names
  ir,        \* the operations emitted so far
  path,      \* the block the insertion point is in
  frames,    \* the emitIf and emitFor activations
  outcome    \* "emitting", "done", or "failed": failed_ is set

vars == <<prog, pc, values, ir, path, frames, outcome>>

(***************************************************************************)
(* An SSA value.  `at` is the operation that makes it available: the one   *)
(* that computes it, the scf.for whose body takes it as an argument, or    *)
(* the yield that ends the scf.if or scf.for it is a result of; 0 for an   *)
(* argument of the function.  `of` tells the values of one operation apart.*)
(***************************************************************************)
SSA(at, where, width, of) == [at |-> at, path |-> where, width |-> width, of |-> of]

(***************************************************************************)
(* An operation: the values it uses, by name in `args` and by position in  *)
(* `operands`, and what else the op carries in `attr`.                     *)
(***************************************************************************)
Operation(op, where, args, operands, attr) ==
  [op |-> op, path |-> where, args |-> args, operands |-> operands, attr |-> attr]

Uses(o) == {o.args[k] : k \in DOMAIN o.args} \cup {o.operands[k] : k \in DOMAIN o.operands}

NoValues == [s \in {} |-> s]

(***************************************************************************)
(* coerce(): nothing at all when the widths agree, else one operation.     *)
(* n is the number of operations emitted before it.                        *)
(***************************************************************************)
\* Mutant: the value passes through at its own width.
NeverCoerce(v, type, width, n) == [code |-> <<>>, value |-> v]

Coerce(v, type, width, n) ==
  IF v.width = width
  THEN [code |-> <<>>, value |-> v]
  ELSE [code  |-> <<Operation("coerce", path, NoValues, <<v>>,
                             [isSigned |-> type.isSigned, width |-> width])>>,
        value |-> SSA(n + 1, path, width, <<>>)]

(***************************************************************************)
(* emit(Expr&).  A name is a lookup and emits nothing; a file-scope        *)
(* constant has no value and is emitted afresh at every read.  A constant  *)
(* to which nothing gave a type is refused, and so is && or || of anything *)
(* but single bits.                                                        *)
(***************************************************************************)
WideLogical(e) == e.op \in {"&&", "||"} /\ \E s \in Reads(e) : TypeOf[s].width # 1
Unemitted(e)   == e.op \in {"index", "read", "untyped"} \/ WideLogical(e)

HasValue(e) == ~Unemitted(e) /\ Reads(e) \subseteq DOMAIN values \cup DOMAIN ConstValue

EmitExpr(e, width, n) ==
  IF e.op = "name" /\ e.args[1] \in DOMAIN values
  THEN Coerce(values[e.args[1]], e.type, width, n)
  ELSE LET args == [s \in Reads(e) \cap DOMAIN values |-> values[s]]
           made == SSA(n + 1, path, e.type.width, <<>>)
           fit  == Coerce(made, e.type, width, n + 1)
       IN  [code  |-> <<Operation("compute", path, args, <<>>, e)>> \o fit.code,
            value |-> fit.value]

-----------------------------------------------------------------------------
Statement(kinds) ==
  /\ outcome = "emitting"
  /\ pc <= Len(prog)
  /\ prog[pc].kind \in kinds

\* fail(): a diagnostic and no IR, never half a module.
Fail ==
  /\ outcome' = "failed"
  /\ ir' = <<>>
  /\ UNCHANGED <<prog, pc, values, path, frames>>

\* emit(VarDecl) and emit(Assign) bind the symbol to the value at its width.
EmitBinding ==
  /\ Statement({"decl", "assign"})
  /\ LET s == prog[pc]
         e == EmitExpr(s.expr, TypeOf[s.sym].width, Len(ir))
     IN  IF HasValue(s.expr)
         THEN /\ values' = Bind(values, s.sym, e.value)
              /\ ir' = ir \o e.code
              /\ pc' = pc + 1
              /\ UNCHANGED <<prog, path, frames, outcome>>
         ELSE Fail

\* Nothing may follow the terminator, so the walk ends here; inside a region
\* the frames that enclose the statement refuse it.
EmitReturn ==
  /\ Statement({"return"})
  /\ LET s == prog[pc]
         e == EmitExpr(s.expr, ReturnType.width, Len(ir))
     IN  IF HasValue(s.expr) /\ frames = <<>>
         THEN /\ ir' = Append(ir \o e.code,
                              Operation("return", path, NoValues, <<e.value>>, ReturnType))
              /\ outcome' = "done"
              /\ UNCHANGED <<prog, pc, values, path, frames>>
         ELSE Fail

EmitBlockBrace ==
  /\ Statement({"{", "}"})
  /\ pc' = pc + 1
  /\ UNCHANGED <<prog, values, ir, path, frames, outcome>>

EmitUnsupported ==
  /\ Statement({"array", "store", "write"})
  /\ Fail

\* emitFunction: the body ended and no return was seen.
FallOffTheEnd ==
  /\ outcome = "emitting"
  /\ pc > Len(prog)
  /\ Fail

-----------------------------------------------------------------------------
(***************************************************************************)
(* emitIf and emitFor.  frames[k] is the activation whose region is        *)
(* path[k]: `op` is its scf operation, `carried` the symbols it yields,    *)
(* `entry` the bindings in force before it.                                *)
(***************************************************************************)
Block(op, arm) == [op |-> op, arm |-> arm]
Frame(arm, op, carried, entry) ==
  [arm |-> arm, op |-> op, carried |-> carried, entry |-> entry]

Top    == frames[Len(frames)]
\* Mutant: the insertion point is left in the region.
NoParent == path
Parent == SubSeq(path, 1, Len(path) - 1)
Inside(arm) == frames # <<>> /\ Top.arm = arm

Yield == Operation("yield", path, [s \in Top.carried |-> values[s]], <<>>, Top.op)

\* Past the region each carried symbol names the matching result.
Results == [s \in Top.carried |->
              SSA(Len(ir) + 1, Parent, Top.entry[s].width, <<s>>)]

\* The region's block with its terminator.
\* Mutant: a region that carries nothing gets none.
YieldingOnlyCarried == IF Top.carried = {} THEN ir ELSE Append(ir, Yield)
Yielding == Append(ir, Yield)

\* The bindings in force before the region.
\* Mutants: the map was not saved; it was moved into the first branch.
Unsaved == values
MovedFrom == NoValues
Entry == Top.entry

\* Mutants: the results alone are bound afterwards; they are not bound.
ResultsAlone == Results
WithoutResults == Entry
Restored == Rebind(Entry, Results)

Leave ==
  /\ ir' = Yielding
  /\ values' = Restored
  /\ path' = Parent
  /\ frames' = SubSeq(frames, 1, Len(frames) - 1)
  /\ pc' = pc + 1
  /\ UNCHANGED <<prog, outcome>>

BeginIf ==
  /\ Statement({"if"})
  /\ LET s       == prog[pc]
         cond    == EmitExpr(s.expr, s.expr.type.width, Len(ir))
         carried == CollectAssigned(prog, pc)
         op      == Len(ir) + Len(cond.code) + 1
         widths  == [c \in carried |-> values[c].width]
     IN  IF HasValue(s.expr) /\ carried \subseteq DOMAIN values
         THEN /\ ir' = Append(ir \o cond.code,
                              Operation("if", path, NoValues, <<cond.value>>, widths))
              /\ path' = Append(path, Block(op, "then"))
              /\ frames' = Append(frames, Frame("then", op, carried, values))
              /\ pc' = pc + 1
              /\ UNCHANGED <<prog, values, outcome>>
         ELSE Fail

\* Each branch starts from the bindings in force before the if.
BeginElse ==
  /\ Statement({"else"})
  /\ Inside("then")
  /\ ir' = Yielding
  /\ values' = Entry
  /\ path' = Append(Parent, Block(Top.op, "else"))
  /\ frames' = [frames EXCEPT ![Len(frames)].arm = "else"]
  /\ pc' = pc + 1
  /\ UNCHANGED <<prog, outcome>>

EndIf ==
  /\ Statement({"endif"})
  /\ Inside("else")
  /\ Leave

\* Zero iterations: emit nothing.
SkipFor ==
  /\ Statement({"for"})
  /\ prog[pc].tripCount = 0
  /\ pc' = CloseOf(prog, pc) + 1
  /\ UNCHANGED <<prog, values, ir, path, frames, outcome>>

\* The header is emitted in the enclosing block.  The body starts by
\* rebuilding the induction variable from the counter; in it a carried
\* symbol names the region's argument.
BeginFor ==
  /\ Statement({"for"})
  /\ prog[pc].tripCount # 0
  /\ LET s       == prog[pc]
         width   == TypeOf[s.sym].width
         carried == CollectAssigned(prog, pc) \ {s.sym}
         init    == EmitExpr(s.init, width, Len(ir))
         step    == EmitExpr(s.step, width, Len(ir) + Len(init.code))
         header  == ir \o init.code \o step.code
         op      == Len(header) + 1
         body    == Append(path, Block(op, "body"))
         args    == [c \in carried |-> SSA(op, body, values[c].width, <<c>>)]
         iv      == SSA(op + 1, body, width, <<>>)
         loop    == Operation("for", path, [c \in carried |-> values[c]], <<>>, s.tripCount)
         rebuild == Operation("iv", body, NoValues, <<init.value, step.value>>, s.stepIsAdd)
     IN  IF /\ s.tripCount # NoTripCount
            /\ s.tripCount <= MaxIndex
            /\ HasValue(s.init)
            /\ HasValue(s.step)
            /\ carried \subseteq DOMAIN values
         THEN /\ ir' = Append(Append(header, loop), rebuild)
              /\ values' = Rebind(Bind(values, s.sym, iv), args)
              /\ path' = body
              /\ frames' = Append(frames, Frame("body", op, carried, values))
              /\ pc' = pc + 1
              /\ UNCHANGED <<prog, outcome>>
         ELSE Fail

EndFor ==
  /\ Statement({"endfor"})
  /\ Inside("body")
  /\ Leave

-----------------------------------------------------------------------------
Init ==
  /\ prog \in Programs
  /\ pc = 1
  /\ values = [s \in Params |-> SSA(0, <<>>, TypeOf[s].width, <<s>>)]
  /\ ir = <<>>
  /\ path = <<>>
  /\ frames = <<>>
  /\ outcome = "emitting"

Next ==
  \/ EmitBinding
  \/ EmitReturn
  \/ EmitBlockBrace
  \/ EmitUnsupported
  \/ FallOffTheEnd
  \/ BeginIf
  \/ BeginElse
  \/ EndIf
  \/ SkipFor
  \/ BeginFor
  \/ EndFor

\* The walk is one sequential call: it goes on while it can.
Spec == Init /\ [][Next]_vars /\ WF_vars(Next)

-----------------------------------------------------------------------------
(***************************************************************************)
(* Properties.                                                             *)
(***************************************************************************)
Encloses(outer, inner) ==
  /\ Len(outer) <= Len(inner)
  /\ \A i \in 1 .. Len(outer) : outer[i] = inner[i]

\* MLIR's rule: defined earlier, in a block that encloses the use.
Available(v, n, where) == v.at < n /\ Encloses(v.path, where)

Arms == {"then", "else", "body"}
Paths == Seq([op : Nat, arm : Arms])
SSAValues == [at : Nat, path : Paths, width : Nat \ {0}, of : {<<>>} \cup {<<s>> : s \in Symbols}]

\* The variables have the shape the walk gives them.
TypeOK ==
  /\ pc \in 1 .. Len(prog) + 1
  /\ DOMAIN values \subseteq Symbols
  /\ \A s \in DOMAIN values : values[s] \in SSAValues
  /\ \A q \in DOMAIN ir : \A v \in Uses(ir[q]) : v \in SSAValues
  /\ path \in Paths
  /\ Len(frames) = Len(path)
  /\ \A k \in DOMAIN frames : frames[k].arm = path[k].arm /\ frames[k].op = path[k].op
  /\ outcome \in {"emitting", "done", "failed"}

\* Every operation the walk emits uses only values MLIR lets it see: made by
\* an earlier operation, in a block that encloses the user.  It is what
\* saving `entry` and restoring it around every region is for
\* (mlirgen.cpp:566-583, 653-720), and what makes caching a constant wrong.
Dominance ==
  \A q \in DOMAIN ir : \A v \in Uses(ir[q]) : Available(v, q, ir[q].path)

\* A symbol names, at every point of the walk, a value of the symbol's own
\* width, so that what a branch or a loop body yields for it has the type of
\* the scf op's result, and the entry value the type of the block argument.
YieldsFitResults ==
  \A q \in DOMAIN ir : ir[q].op \in {"yield", "for"} =>
    \A s \in DOMAIN ir[q].args : ir[q].args[s].width = TypeOf[s].width

\* emitFor's assert, and what emitBranch relies on without one: a symbol a
\* region must yield is still bound when the region is closed.
CarriedStayBound ==
  \A k \in DOMAIN frames : frames[k].carried \subseteq DOMAIN values

\* A module that is handed on is whole: the function's block and every block
\* opened in it end in their one terminator, each scf.if has both arms.
InBlock(p) == {q \in DOMAIN ir : ir[q].path = p}
Terminators(p) == {q \in InBlock(p) : ir[q].op \in {"yield", "return"}}
ModuleIsComplete ==
  outcome = "done" =>
    /\ Terminators(<<>>) = {Len(ir)}
    /\ \A q \in DOMAIN ir :
         LET Closed(arm) ==
               LET p == Append(ir[q].path, Block(q, arm))
               IN  \E last \in Terminators(p) :
                     /\ Terminators(p) = {last}
                     /\ \A other \in InBlock(p) : other <= last
                     /\ ir[last].attr = q
         IN  /\ ir[q].op = "if" => Closed("then") /\ Closed("else")
             /\ ir[q].op = "for" => Closed("body")

\* The walk gives up only on what it does not support or may refuse: arrays,
\* streams, an untyped constant (mlirgen.cpp:107-110), a wide && or || (292-295),
\* a trip count that is not known or no index (604-615), a return in a region
\* or none at all.  So a name that is in scope always has a value, in and after
\* every region, whatever was saved and put back around it (166-183).
DeclaredInside(i) ==
  {prog[j].sym : j \in {k \in i .. CloseOf(prog, i) : prog[k].kind \in {"decl", "array"}}}
AssignsItsLocal(i) == CollectAssigned(prog, i) \cap DeclaredInside(i) # {}
Unsupported(s) ==
  \/ s.kind \in {"array", "store", "write"}
  \/ s.kind \in {"decl", "assign", "if", "return"} /\ Unemitted(s.expr)
  \/ s.kind = "for" /\ (Unemitted(s.init) \/ Unemitted(s.step))
RefusesOnlyThese ==
  outcome = "failed" =>
    \/ pc > Len(prog)
    \/ Unsupported(prog[pc])
    \/ prog[pc].kind = "return" /\ path # <<>>
    \/ prog[pc].kind = "for" /\ prog[pc].tripCount \notin 0 .. MaxIndex
    \/ prog[pc].kind \in {"if", "for"} /\ AssignsItsLocal(pc)

\* What the comment on collectAssigned says of a symbol declared in a region:
\* it can never be visible afterwards (mlirgen.cpp:507-508), so it is no
\* reason for the region to carry, or want, a value.
RegionsAreEmitted ==
  outcome = "failed" => prog[pc].kind \notin {"if", "for"}
=============================================================================
