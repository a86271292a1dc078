# Verification of MiniHLS

MiniHLS compiles a C-like language with explicit bit widths. One front end
(lexer, parser, resolver, type checker, constant evaluator) annotates one tree;
three consumers give that tree a meaning: the tree-walking interpreter, MLIR
generation, and the hardware generator behind it. `LANGUAGE.md:19-21` says what
makes the compiler correct: the three must agree.

The modules here model the front end pass by pass, those consumers, and the
driver that compares results; check them with TLC on small instances; and prove
the facts that a small instance settles least. File names below are relative to the
repository's `src/` directory of C++ sources.

Contents: [1 the system](#1-the-system), [2 the modules](#2-the-modules),
[3 the runs](#3-the-runs), [4 where code and documents disagree](#4-where-code-and-documents-disagree),
[5 the proofs](#5-the-proofs), [6 what is not modelled](#6-what-is-not-modelled),
[7 the plan](#7-the-plan).

## 1 The system

Everything is one thread and sequential; nothing is persisted. What is hard is
not concurrency. It is (a) state that is edited in place while a walk
recurses, and has to be saved, restored or left alone at the right moments;
(b) the same rule implemented in two or three places that have to agree; and
(c) arithmetic at the edges of a width.

| Component | State | Operations | What makes it correct |
|---|---|---|---|
| `support/bits` | none | `make`, `value`, the operators, `castTo`, `compare` | exact results at the widths of the language's tables |
| `sema/resolver` | stack of scopes, the program's symbols | declare, look up, enter and leave a scope | every name is the innermost visible declaration's symbol |
| `sema/type_check` | a type on every expression | `infer`, `checkExpr`, `widthRule`, statements | the static type is the type the value will have |
| `sema/const_eval` | `values_`, `inProgress_`, results on declarations and `for` headers | `evalConstant`, `evaluateConst`, `evaluateFor`, `validateArray`, `validateIndex` | order independent, cycles and bad indices reported, trip counts exact |
| `interp/interpreter` | scalars, arrays, streams and positions, `returnValue_`, `failed_` | `run`, one `exec` per statement, `eval` | memory is typed; a run depends on its arguments alone; it stops |
| `mlirgen` | `values_` (symbol to SSA value), the insertion point, `failed_`, `returned_` | one `emit` per statement, `emitIf`, `emitBranch`, `emitFor`, one `emit` per operator | well-formed SSA that computes what the interpreter computes |
| `hwgen` | `map_` (SSA value to circuit value), the module under construction | `lowerOp`, `lowerIf`, `lowerBlock` | one combinational module that computes the same |
| `frontend/lexer` | text position, tokens, reports | `skipTrivia`, one `lex` per class of token | the tokens and what lies between them are the text; numbers mean what they write |
| `frontend/parser` | token position, `diags_` | recursive descent with recovery | the programs of the grammar, no others; progress on every input; no unreported hole in the tree |
| `driver` | cases, counters of a test run | `frontEnd`, `loadTests`, `parseItems`, `bindParams`, `runTests`, `runProgram` | status 0 only if everything the file says holds |

How they meet:

* `compileText` runs lexer, parser, resolver, type checker and constant evaluator
  one after the other and looks at `hasErrors()` only at the end. A report of
  any pass keeps the back ends away; it does not keep the next pass away.
* The resolver gives every declaration a `Symbol*`. Every later pass uses that
  pointer as the name; none looks a string up again.
* The type checker leaves a type on every expression. The interpreter ignores
  it for operators (a `Bits` carries its own width); MLIRGen and HWGen compute
  with nothing else. So the checker's rule and `bits.cpp` must agree, in every
  composition of operators.
* The constant evaluator leaves a trip count on every `for`. Neither back end
  ever tests the loop's condition: termination and the number of iterations
  rest on that one number.
* MLIRGen hands its module to HWGen in memory. HWGen looks each operand up in
  `map_`, relying on the order in which MLIRGen emitted operations.

`PROJECT.json` lists, under `hazards`, the places where this can go wrong in a
way a test would hardly reach, and the properties that cover them.

## 2 The modules

A function body is a *listing*: a flat sequence of statements in which the
braces of structured statements stand as tokens (`Program`). The C++ recursion
over blocks becomes an explicit stack, one action is one statement, and what
C++ does on returning from a recursive call happens at the closing token.
The listings of a run are all well-scoped listings up to a length that a
vocabulary of statements allows (`Listings`, model checking only).

| Module | Models | How |
|---|---|---|
| `Bits` | `support/bits.cpp` | each operation on records `[raw, width, isSigned]`; the host integer is `HostWidth` bits (128), C++ `unsigned` is `UintWidth` bits (32), both parameters, so overflow at the host's width is a small instance |
| `Operators` | the dispatch of `Interpreter::eval` and `ConstantEvaluator::eval`, `TypeChecker::widthRule` | value and static type of each operator |
| `ArithGen` | `MLIRGen::coerce`, `emitBinary`, `emitDivRem`, `emitShift`, `emitUnary`, ... | the value the emitted `arith` operations compute; the dialect's undefined cases are a value of their own |
| `CombGen` | `HWGen::sext`, `zext`, `trunc`, the width adjustments of `lowerOp` | the same for the `comb` operations |
| `Evaluation` | one expression through interpreter, checker, MLIRGen, HWGen | a state machine that grows the expression by one operator a step, any that the checker accepts |
| `Program` | `frontend/ast.hpp` | statements, expressions, `collectAssigned` |
| `MLIRGen` | `mlirgen/mlirgen.cpp` | see below |
| `Datapath` | operands and expressions of an emitted operation | shared by the two executions |
| `SSARun` | MLIR's own semantics (external) | executes what MLIRGen emitted |
| `Interpreter` | `interp/interpreter.cpp` | see below |
| `Differential` | interpreter, MLIR and circuit on one program and input | composes `MLIRGen`, `HWGen`, `SSARun`, `Interpreter` |
| `HWGen` | `hwgen/hwgen.cpp` | one action per lowered operation; `Settled` is the circuit's meaning |
| `ConstEval` | `evalConstant`, `evaluateConst`, `eval`, `validateArray`, `validateIndex` | the recursion over constants as a stack; one action per entry or exit, and one per thing done with an expression's value |
| `LoopHeader` | `evaluateFor`, and `exec(For)` that trusts it | header, folded count, counter, wrapped variable, and the number the written loop gives; what `evaluateFor` computes beyond `i128` is any outcome |
| `Lexer` | `frontend/lexer.cpp` | one action per way the position moves on |
| `Parser` | `frontend/parser.cpp` | see below |
| `Grammar` | `LANGUAGE.md`, Grammar | the abstract description of what `Parser` accepts: the forms that may still follow what was read |
| `Parsing` | both on the same tokens | composes `Parser` and `Grammar` |
| `Resolver` | `sema/resolver.cpp`, `scope.hpp` | the walk over a program that is chosen while it is walked |
| `TypeCheck` | `sema/type_check.cpp` | expressions made in the order `infer` leaves their nodes, then one action per way a statement uses them |
| `Driver` | `driver/run.cpp`, `testfile.cpp` | the words of a file or of the arguments, items, cases, results, exit status |
| `MC*` | | the constants of the runs |
| `BitsProofs` | | theorems on `Bits` and `Operators` |
| `InterpreterProofs`, `ConstEvalProofs`, `EvaluationProofs`, `ParserProofs`, `ResolverProofs`, `TextProofs` | | the theorems on the module each is named after; `EvaluationProofs` also holds those on `TypeCheck`, which rest on the same arithmetic, `ConstEvalProofs` those on `LoopHeader`, the other half of `const_eval.cpp`, and `TextProofs` those on `Lexer` and `Driver`, which read text |
| `LoweringProofs` | | the theorems on `MLIRGen`, and on `HWGen` composed with it in `Differential` |

**MLIRGen.** `values` is `values_`; `ir` the operations emitted so far, each
with the block it stands in (`path`); `frames` the activations of `emitIf` and
`emitFor`, each with the symbols it carries and the bindings it saved.
`EmitBinding`, `EmitReturn`, `EmitBlockBrace`, `EmitUnsupported` are the cases
of `emit(Stmt&)`; `BeginIf`, `BeginElse`, `EndIf` the parts of `emitIf` before,
between and after its `emitBranch` calls; `SkipFor`, `BeginFor`, `EndFor` those
of `emitFor`. `Fail` empties `ir`: a failed walk hands on nothing. A value is
named by the operation that makes it, its block, and which of the operation's
results it is, so that dominance is a comparison of numbers and prefixes.
An expression is a literal, an untyped constant under a cast, a name, an element,
`read`, or one operator on two
names: enough to tell apart a lookup that emits nothing, a constant
rematerialised at each read, an operation, a coercion, and what `emit(Expr&)`
refuses (`Unemitted`). A loop may be without a trip count (`NoTripCount`), and is then
refused; `evaluateFor` reports every header it leaves without one, so no listing of the
runs has one, but the theorems admit it.

**Evaluation.** `Legal` is what `infer()` objects to in a binary operator and nothing
else; unary operators, shift amounts and the operands of `&&` and `||` are not restricted.
`exact` is empty where `LANGUAGE.md`'s table does not allow an operand (a negative shift
amount, `&&` of more than one bit), so that there the stages are compared with one another and
not with a number. `NoWire` is the null `Value` of a refusal. An expression may
begin with an operator on literals alone, to which `pinPoly` gives one type from top to bottom, or with
a literal in a cast, to which nothing gives a type. `gap` names the operator, if any, on which a stage is
known to leave the others; there the expression ends.

**Interpreter.** The four maps are the code's. `Run` is the prologue of
`run()`, `Finish` its epilogue, and the `Exec` actions the cases of `exec`.
`results` is history: each finished run with its arguments. `returnValue_` is
deliberately *not* reset by `Run`, as in the code; that shows in bodies that do not end
in a `return`, which the listings of the run include (`EndsInReturn`). Expressions are pure except
`read`, which the grammar allows only as a whole right-hand side; an exhausted
stream yields zero, sets `failed_`, and the current statement still completes,
which is one action here.

**Parser.** The C++ call stack is the variable `stack`: what is left to do,
first thing first. A procedure without a decision in it is a sequence
(`Declaration`, `For`, ...); every test of a token is an action. Tokens are
chosen when the parser first looks at them and forgotten when it consumes them,
so that inputs are explored as far as they make a difference. Of the tree the
model keeps the expression returned last: null, or how tightly its outermost
operator binds. That is enough for the two things that can be wrong with it:
a hole, and the nesting. The emergency `advance()` of `parseBlock` compares
positions; here the loop of a block notes whether anything was consumed since its
statement began (`Moved`). After the first report only `RecoveryTokens` are
delivered, which bounds what recovery skips over and not where it may stop.

**Resolver.** `todo` is what is left to visit. Nodes are chosen at the moment the
walk reaches them, so every tree of up to `MaxNodes` nodes occurs. `text` is
history, written by the walk's own events: blocks that open and close, and
declarations where `LANGUAGE.md` lets them begin to be visible. `Visible` reads
the language's scope rule off it, and knows nothing of the stack of scopes.

**ConstEval.** A program is the list of what `evaluate` walks; each entry has
`Jobs`, the calls of `eval` made for it: a size, an element's index, a value.
`stack` is the recursion inside one call, `place` the job being done. `Declared` is what
the parser and the resolver have settled of a list: one initialiser for a constant, one size
for an array, and symbols of their own; `Checked`, what they and the type checker have of
an expression: its number of operands, the value of a literal, the array of an index, the
type of a binary operator. The job ends in
`StoreFolded`, `FoldSize` or `CheckIndex`; an index that `validateIndex` does not
evaluate is `SkipIndex`.

**TypeCheck.** `nodes` is the tree, `pending` the expressions nobody uses yet. An
action is a case of `infer`; it may retype nodes made before (`PinPoly`, of one
expression, or of several that share no node). `Use`,
`Condition`, `Header`, `AssignElement`, `DeclareRead`, `AssignRead`, `ParamSize` are what the cases of
`checkStmt` and `check` do with finished expressions. Names stand for the types of
their symbols. Its properties read `LANGUAGE.md`'s table from operators of their own (`TableBinary`,
`TableUnary`, `OperandRule`), not from the checker's `WidthRule`.

**Driver.** A word of a file is what is left of it between an opening and a
closing bracket; a word `parseInt` refuses is `Malformed`. `said` is history: the
values as they were written. What the interpreter returns is arbitrary, or a
failure.

**Lexer.** A character stands for its class, `#pragma` for its seven characters.
Every text up to `MaxLength` is an initial state.

**Composition.** `Differential` runs its machines one after the other, as the
driver's subcommands do: emit, lower to a circuit or refuse, then interpret on
some arguments, then execute (and evaluate the circuit) on the same arguments.
`Parsing` delivers each token to `Grammar` when the parser first sees it.

**Abstractions used throughout.** Diagnostics are a verdict, not a text.
Symbols are strings of TLA+. A source location is nothing. Types are a width
and a signedness.

## 3 The runs

Every run explores the whole of its instance. `CHECK_DEADLOCK FALSE` is set
everywhere, because every one of these machines is a call that returns.

| Run | Question | Instance, and why it is enough | Distinct states |
|---|---|---|---|
| `mlirgen` | Is what MLIRGen emits well-formed SSA? Does it give up only for documented reasons? | all listings of up to 4 statements over a parameter, two locals of different widths, two loop variables and a constant; `if`, `for` of trip count 0 and 2, blocks. Four statements nest a declaration or an assignment inside two regions and still read it outside: every way of crossing two region boundaries. Together with them all listings of up to 3 statements that may also write, read a stream, return early, end without a return, cast an untyped constant, take `||` of two wide values, or loop more than `MaxIndex` times | 225,000 |
| `interpreter` | Is memory typed, does the induction variable follow the counter, do runs leak into one another, does every run stop? | up to 3 statements over scalars, two arrays, an input stream of no or one element (so reads past its end happen), an output stream, nested loops up and down; with a `return` behind them, and, for one statement, with none or one in an arm of an `if`; three runs of one object on any of three inputs, which is how many it takes for a value left behind to show | 989,000 |
| `differential` | Do the emitted MLIR and the circuit compute the interpreter's result? | up to 3 statements between a declaration and the return; operands of two signednesses and widths, a signed constant, nested branches, loops up and down, one inside the other, conditions that depend on the data, a division whose divisor is zero in the arm not taken; 6 inputs. HWGen refuses the programs with loops | 365,000 |
| `evaluation` | Do the language's tables, the interpreter, the checker, `arith` and `comb` agree on every expression the checker accepts? | host of 6 bits, written types up to 3 bits, so products reach the host's width. Widths are closed under the steps, hence expressions of any depth over all operand values, not a bounded depth, each up to the first operator of a kind listed as a `gap` in section 4. Amounts of shifts may be signed, operands of `!`, `&&`, `\|\|` of any width | 9,084 |
| `loop_header` | Is the folded trip count right? | types up to 3 bits, a host of 4: all starts, limits and steps the host holds, numbers of the type or not, all comparisons and both directions, loops of up to five iterations, wrap-around at both ends, sums beyond the host | 1,580,000 |
| `const_eval` | Does folding depend on order, are cycles, bad sizes and bad indices reported, does it end? | three scalar constants and an array: all ways of naming one another forwards, backwards, in a cycle of any length up to 3, through either arm of a conditional; two constants that are sizes and indices of one or two arrays before, between or behind them; lengths of 4 bits | 401,000 |
| `parser` | Does the parser accept the programs and no others, nest operators as the grammar does, report every hole, and end? | five tokens of 31 kinds behind nine openings: nothing, a parameter list, a body, an expression, a `for` header, an array initialiser, an `if`, a conditional, the end of a function. Five tokens are two operators with their operands, or an error, what recovery skips, and what follows | 184,000 |
| `resolver` | Does a use mean the innermost declaration before it, and only as that declaration allows? | all programs of up to four declarations, uses and statements over two names: a declaration, its twin in an inner scope, and two uses or a third declaration | 1,420,000 |
| `type_check` | Is an accepted statement typed by the rules, down to each literal? | all expressions, or lists of them, of up to five nodes over three types, three literals (one that fits every type but `u1` and one that fits none), four unary and six binary operators, a shift and `&&` among them, conditionals, casts, indices; host of 6 bits | 2,540,000 |
| `driver` | Do values reach their parameters, and does status 0 mean agreement? | up to five words with and without brackets, negative and oversized numbers, four parameter lists with every kind of parameter, several cases a file | 1,450,000 |
| `lexer` | Do tokens tile the text, and do numbers mean what they write? | every text of up to five characters over 15 classes: `0x_f`, `/*/`, `<<=`, a number with an overflow in the middle | 4,480,000 |

The properties by subject:

* *Scoping across regions.* `Dominance`, `CarriedStayBound`, `YieldsFitResults`,
  `ModuleIsComplete`, `RefusesOnlyThese`: `values_` is one map, edited in place,
  and every region must see and leave behind the right version of it. A value
  bound in one arm, a yield of an unbound symbol, a constant cached inside a
  region, a missing terminator each break one of them.
* *Agreement.* (Of expressions, up to the first operator with a `gap`.) `SameResult` and `SameHardware` compare complete runs; in the same
  states, as `HWTypeOK` keeps the circuit well formed.
  `StaticTypeAgrees`, `WireAgrees`, `AdjustAgrees` compare operator by operator,
  `Exact` compares with integers. `GuardsHold` says the guards around division
  and shifts cover every operand that `arith` leaves undefined.
* *Hoisting.* `NoLookupMisses` is HWGen's "internal" diagnostic: never reported.
* *Runs of one object.* `ResultsAgree`: equal arguments, equal outcomes,
  although a previous run may have failed half-way and `returnValue_` stays. Of a body that does
  not end in a `return`, values may differ only where a run returns what the run before it did.
* *Trust in a number.* `PositiveTripCountIsExact`, `VariableIsExact`,
  `InductionVariable`, `LegalHeadersAreCounted`.
* *Constants.* `FoldedAsMeant` compares the stateful evaluator with the least
  fixed point of the initialisers; `ReportsAreExact` with reachability,
  and with the lengths and indices that fixed point gives.
* *The front end against the documents.* `AcceptsOnlyPrograms` and
  `AcceptsEveryProgram` together say that the recursive descent, with its lookahead
  and its loops, and the grammar are the same language, token by token: an
  error is found no earlier and no later than the tokens stop being the start of
  a program. `PrecedenceRespected` is the nesting that this leaves open.
  `InnermostBinding` compares a stack of maps with the text. `RulesHold` compares
  the types of an accepted statement with `LANGUAGE.md`'s table, and names the five operators
  whose operands nothing checks; it,
  `TypesReachEveryNode` and `SumsAreExact` are about a tree whose nodes are
  retyped after they were made. `NumbersMean` compares digit-by-digit
  accumulation, with its overflow test, with the number written.
* *Recovery.* `Terminates`, `EveryStatementConsumes`, `NullIsReported`.
* *Trust in a status.* `SuccessMeansAgreement`, `ValuesReachParameters`.

Every property of a passing run has a mutant in `PROJECT.json`: an operator of
the module, marked `Mutant:`, that replaces a definition by what a plausible
slip would make of it, and on which TLC finds the property violated.

**Fairness.** `MLIRGen` and `ConstEval` have `WF_vars(Next)`, `Interpreter` has
`WF_vars(Step)`: a sequential call that has started goes on executing, and that
is all the code's execution justifies. `Interpreter` does not assume that a
caller runs the object again, so `Run` is outside the fairness condition.
`Parsing` has the same for the parser and the delivery of tokens, which stand in
a vector before the parser starts. `Differential`, `Evaluation`, `LoopHeader`,
`Resolver`, `TypeCheck`, `Driver` and `Lexer` state safety only and assume none.
Liveness is checked for `Terminates` of the interpreter (the trip
counter is the only thing that ends a loop), of the constant evaluator
(`inProgress_` is the only thing that ends mutual recursion), and of the parser
(its loops end only because something is consumed, at the end of the input
because each of them looks for it).

## 4 Where code and documents disagree

One run states what the code does not meet; `PROJECT.json` quotes the text under
`findings`.

| Run | Code | Statement | What happens |
|---|---|---|---|
| `parser_nulls` | `frontend/parser.cpp:60`, `:49` | malformed input is reported and parsing goes on (`parser.cpp:148`, `frontend/README.md:87-89`) | `return 1 + ;` makes `span(*lhs, *rhs)` dereference the null that `parsePrimary` returned |

Further configurations, kept out of the regular runs, make TLC show other
disagreements. Where one lists several invariants, each of them is violated; TLC
stops at the first, so leave the one in that is of interest.

| Invariant, configuration, module | Code | Statement | What happens |
|---|---|---|---|
| `SameResult` in `DifferentialGaps.cfg` (with `Odd = {}`) of `MCDifferential` | `mlirgen/mlirgen.cpp:185` | the stages agree (`LANGUAGE.md:19-21`) | a signed constant folded at a narrower width is emitted without sign extension: `const i16 C = i8(-1)` reads as 255 in MLIR and as -1 in the interpreter |
| `SameResult` in `DifferentialGaps.cfg` (with `Folded <- AtItsType`) of `MCDifferential` | `interp/interpreter.cpp:192` | "exactly one `return`", last | no pass checks it; MLIRGen stops at the first one, the interpreter keeps the last |
| `RegionsAreEmitted` as the invariant of `MCMLIRGen.cfg` | `mlirgen/mlirgen.cpp:512` | a local "can never be visible after the branch" (`mlirgen.cpp:507-508`) | a branch or loop body that assigns its own local is refused |
| `TripCountIsExact` as the invariant of `MCLoopHeader.cfg` | `sema/const_eval.cpp:180` | "computed the exact trip count" (`interpreter.cpp:174`) | a negative step is counted by its magnitude and executed with its sign |
| `DirectionIsChecked` as the invariant of `MCLoopHeader.cfg` | `sema/const_eval.cpp:187` | "the step must move `i` toward the limit" (`LANGUAGE.md:320`) | not checked for loops that are not entered |
| `RangeIsChecked` as the invariant of `MCLoopHeader.cfg` | `sema/const_eval.cpp:211` | the type holds "the final out-of-range value" | the value is truncated to the type before it is checked |
| `ValuesAreInRange` as the invariant of `MCLoopHeader.cfg` | `sema/type_check.cpp:87`, `:171` | "the induction variable's type must hold every value it takes" (`LANGUAGE.md:321`) | of an untyped constant the checker tests what `infer` folded, 1 for `-1`: `for (u4 i = -1; i < 3; i = i + 1)` is accepted, and `i` is 15 in the first round |
| `LegalHeadersAreDefined` as the invariant of `MCLoopHeader.cfg` | `sema/const_eval.cpp:195` | the rows of `LANGUAGE.md:313-321` | `distance + amount - 1` is computed in `i128`; with a step near its end it overflows, which is undefined, although start, limit and terminating value fit |
| `FoldsAsRuntime` in `ConstEvalGaps.cfg` of `MCConstEval` | `sema/const_eval.cpp:42` | folding "follows the same width ... rules as runtime values" (`sema/README.md:266`) | a constant is remembered at its initialiser's width, not at its declared one |
| `IndicesAreChecked` in `ConstEvalGaps.cfg` of `MCConstEval` | `sema/const_eval.cpp:135`, `238` | "A constant index that is out of range is a compile-time error" (`LANGUAGE.md:435`) | of an assignment to an element the index is walked for what it contains, and is not itself tested; an array whose size stands behind the use has length 0, which is not tested |
| `ElementsAreCounted` in `ConstEvalGaps.cfg` of `MCConstEval` | `sema/const_eval.cpp:163` | "must have exactly as many elements as the array" (`LANGUAGE.md:265`) | no pass counts them |
| `UnfoldedIsReported` in `ConstEvalGaps.cfg` of `MCConstEval` | `sema/const_eval.cpp:161` | "must evaluate at compile time" (`LANGUAGE.md:775`) | an initialiser that does not fold leaves no value and no diagnostic; the constant reads as 0 |
| `ValuesAgree` as the invariant of `MCInterpreter.cfg` | `interp/interpreter.cpp:204-208` | "The body must end with exactly one `return` statement" (`LANGUAGE.md:234-235`) | no pass checks it, and `run` does not reset `returnValue_`: after a run that came past a conditional `return`, one that does not returns the earlier value |
| `NotIsOneBit` in `EvaluationGaps.cfg` of `Evaluation` | `sema/type_check.cpp:89` | the result of `!a` is `u1` (`LANGUAGE.md:524`) | `!x` of a `u8` has the static type `u8`; the interpreter's value has one bit (`interpreter.cpp:64`), the emitted one too (`mlirgen.cpp:223-226`) |
| `WidestNegation` in `EvaluationGaps.cfg` of `Evaluation` | `sema/type_check.cpp:88` | over 128 bits "the operation is an error" (`LANGUAGE.md:534-535`) | a unary minus of 128 bits is accepted, and loses its sign |
| `LiteralsTakeOneType` in `EvaluationGaps.cfg` of `Evaluation` | `sema/type_check.cpp:142-166` | an untyped constant "acquires a type from its context" (`LANGUAGE.md:446-447`) | the operator gets the context's type and so do its operands: `1 + 1` as a `u8` has the static type `u8`, and the value is a `u9` |
| `LiteralDivisionIsDefined` in `EvaluationGaps.cfg` of `Evaluation` | `sema/type_check.cpp:142-166`, `mlirgen/mlirgen.cpp:355` | "Every operation in MiniHLS is defined for every input" (`LANGUAGE.md:574`) | with operands and result of one type, `arith.divsi` may divide the smallest number by -1: `~127 / ~0` as an `i8` |
| `CastLiteralsKeepTheirValue` in `EvaluationGaps.cfg` of `Evaluation` | `sema/type_check.cpp:80` | "Inside `T(...)`, it takes `T`" (`LANGUAGE.md:452`) | the cast's literal stays one bit wide in the interpreter and is refused by MLIRGen (`mlirgen.cpp:107-110`) |
| `HugeShiftAmounts` in `EvaluationGaps.cfg` of `Evaluation` | `support/bits.cpp:46` | "amount >= wa -> 0" | the amount is cut to 32 bits before it is compared; a shift by 2^32 is a shift by 0. MLIRGen compares the whole amount |
| `HugeRemainders` in `EvaluationGaps.cfg` of `Evaluation` | `support/bits.cpp:94` | "sign follows the dividend" | unsigned 128-bit operands with the top bit set are divided as negative numbers |
| `DivisionByZeroWidth` in `EvaluationGaps.cfg` of `Evaluation` | `support/bits.cpp:77` | "width wa+1 if signed" | a signed quotient by zero is one bit narrower than the type checker's type |
| `AcceptsEveryProgram` in `ParserGaps.cfg` of `MCParser` | `frontend/parser.cpp:46` | `conditional = logical_or , [ "?" , expression , ":" , conditional ]` (`LANGUAGE.md:757`), "unconstrained between ? and :" | `a ? b ? c : d : e` is refused: `parseExpr(0)` does not take a conditional |
| `AcceptsOnlyPrograms` in `ParserGaps.cfg` of `MCParser` | `frontend/parser.cpp:202` | `array_init` has at least one element (`LANGUAGE.md:730`) | `{}` is accepted |
| `LoopVariablesAreNotShadowed` in `ResolverGaps.cfg` of `Resolver` | `sema/resolver.cpp:225` | "loop variables cannot be shadowed" (`LANGUAGE.md:273-274`) | a block inside the loop's body may declare the name again |
| `NoUncheckedRoles` in `ResolverGaps.cfg` of `Resolver` | `sema/resolver.cpp:113`, `:174` | "arrays are not values" (`LANGUAGE.md`) and streams are not assigned to (`LANGUAGE.md:293`) | an array or a stream named where a value belongs, and an assignment to a stream, are not reported |
| `OperandRulesAreChecked` as the invariant of `MCTypeCheck.cfg` | `sema/type_check.cpp:84-107` | `!a`: "`a` is `u1`"; `a << b`: "`b` unsigned"; `a && b`: "both `u1`" (`LANGUAGE.md:519-526`) | no operand of `!`, `&&`, `\|\|`, `<<`, `>>` is checked: `!x` of a `u8` is accepted and typed `u8`, a signed amount is accepted, and a literal amount is given the left operand's type, signed or not, where `LANGUAGE.md:453` makes it unsigned |
| `CastsAreExact` in `TypeCheckGaps.cfg` of `MCTypeCheck` | `sema/type_check.cpp:80` | "Inside `T(...)`, it takes `T`" (`LANGUAGE.md:452`) | the literal in `u8(42)` is never given a type; it stays one bit wide, and the interpreter reads 0 |
| `ConstantsAreExact` in `TypeCheckGaps.cfg` of `MCTypeCheck` | `sema/type_check.cpp:98-100` | "evaluated in arbitrary precision" (`LANGUAGE.md:445-447`) | of a difference only the left operand is tested against the type: `u3 x = 1 - 2;` is accepted, and 7 |
| `ReadsAreAssignable` in `TypeCheckGaps.cfg` of `MCTypeCheck` | `sema/type_check.cpp:189-192`, `199-204` | "The value produced by `read(s)` has the stream's element type" (`LANGUAGE.md:364-365`) | a declaration's read is compared by width alone, an assignment's not at all: a stream of `i8` may be read into a `u8`, or assigned to a `u1` |
| `EverythingIsTyped` in `TypeCheckGaps.cfg` of `MCTypeCheck` | `sema/type_check.cpp:199-204` | every expression has been typed | the index of an assigned element is never walked |
| `AllStreamsAreCompared` as the invariant of `MCDriver.cfg` | `driver/run.cpp:65` | "Outputs are the contents of each `out stream`" (`examples/README.md:72`) | a stream the line does not list is not compared |
| `ExpectedIsExact` as the invariant of `MCDriver.cfg` | `driver/run.cpp:11` | an expected value is the value put out | the expected value is cut to the width of what was got |
| `LiteralsHaveNoLimit` as the invariant of `MCLexer.cfg` | `frontend/lexer.cpp:192` | "no width limit in the source" (`LANGUAGE.md:121`) | a literal of more than 128 bits is reported |

The passing runs exclude these cases where they would meet them, by name:

* `gap` of `Evaluation` names the operator in which a stage leaves the others: `"shift"` (an amount
  of 2^32), `"remainder"`, `"division"` (the three `bits.cpp` cases), `"not"` (a `!` of anything but a
  `u1`), `"host"` (a unary minus wider than the host), `"literals"` (an operator on literals
  alone whose rule gives another type than the context) and `"cast"` (a literal in a cast). An
  expression is compared up to the first of them, and nothing behind it.
  `GuardsHold` and `AdjustAgrees` except only `"literals"`. What MLIRGen refuses
  (`NoWire`: `&&` and `||` of more than one bit, a literal in a cast) has no wire to compare, and what the table
  gives no number for (a negative amount, `&&` of more than one bit) is not compared with one.
* `PositiveTripCountIsExact` is
  `TripCountIsExact` for positive steps; `Toward` and `MovesAway` name the directions; `VariableIsExact` is
  exact where start and limit are numbers of the type, and modulo the width everywhere;
  `Undefined` names the headers whose arithmetic leaves `i128`, of which nothing is said but the last.
* `ResultsAgree` excepts the value of a run of a body without a `return` at its end
  (`EndsInReturn`) that repeats the run before it.
* the `differential` run folds its constant at its declared type, has one return, and has no
  untyped constants and no wide `&&`.
* `AsDocumented` chooses between the document's and the parser's form of the two grammar rules above.
* `Unchecked` of `Resolver` names the uses nobody objects to, that of `TypeCheck` the
  five operators whose operands nobody checks; `RulesHold` excepts the type of a `!` of no `u1`, and speaks of
  operators that are no constants, whose types are the context's.
* `Floating` names the operands of casts, and `SumsAreExact` is about sums and products.
* `SuccessMeansAgreement` speaks of the streams a line lists, up to the width of what was put out;
  `MaxLiteral` stands in `NumbersMean`.
* `RefusesOnlyThese` lists a region that assigns its own local, an untyped constant and a
  wide `&&` or `||` among the reasons to refuse.

## 5 The proofs

TLC checks the instances of section 3. TLAPS proves the following for every
value of the constants: any set of listings, trees or sequences of tokens, of any
length and depth; any symbols, types and widths; any host width. The
assumptions on constants are named `...Assumption`, stand in the module that
declares the constant, and are evaluated by TLC on every run of that module.

**`DominanceHolds`, `CarriedStayBoundHolds`** (`LoweringProofs`). The
assumptions are `ProgramAssumption` and `MaxIndexAssumption`. Neither property
is inductive: that what is emitted next is sound depends on the bindings, and
that the bindings are sound after a region depends on what was saved before it,
at every level of nesting. The inductive invariant `IInv` says

* `Shape`: one frame per open block;
* `Sound(ir, 0)`: all uses emitted so far are placed, i.e. defined by an earlier
  operation in an enclosing block;
* `BindingsPlaced`: each binding of `values` is placed at the insertion point;
* `EntriesPlaced`: each binding saved by the k-th frame is placed in the first
  k - 1 blocks of the current path, so that restoring it on the way out is safe;
* `CarriedBound`: what the j-th frame has to yield is bound now, and in the saved
  bindings of the j-th and every deeper frame, so that no restoration loses it.

There is one lemma per action, over lemmas on sequences of arbitrary elements
(`SequenceAppend`, `SequenceConcat`, `SequenceFront`), on `Placed`
(it survives later operations and deeper blocks), on the expression emitter
(`EmitExprSound`: the code is sound and its value placed behind it), and three
shared by several actions: `OpenInvariant` (entering a region),
`LeaveInvariant` (leaving one), `EmitInvariant` (straight-line code).
Dominance needs neither that listings are well scoped nor that they are well
formed: a name without a binding makes the walk fail before it emits a use.

**`TypeCorrect` (`TypeOK`), `YieldsFitResultsHolds`** (`LoweringProofs`). These
also use `ListingsAssumption`, what semantic analysis has settled of a listing
before `mlirgen` walks it (`WellFormed`: assigned symbols are declared,
expressions have a type, loops are closed); TLC evaluates it on every set of
listings the runs use. That a yield has the widths of the region's results
depends on the bindings at the end of the region, and those after the region on
what was saved before it, so the inductive invariant `TInv` adds to `IInv`

* `TypedBindings(values)`, and of every saved `entry`: each symbol names an SSA
  value of the symbol's own width;
* `TypedCode(ir)`: what has been emitted uses SSA values, and its yields and loop
  entries have the widths of the symbols they name;
* `FramesFit`: the k-th frame is the activation of the k-th block of `path`.

`EmitExprTyped` carries the argument: whatever expression is emitted, the value
behind `coerce` has the width that was asked for. Again there is one lemma per
action, with `OpenTyped` and `LeaveTyped` shared. That `CarriedBound`
is a part of `IInv` is what makes the fresh results well defined: every carried
symbol has an entry value whose width the result takes.

**`ModuleIsCompleteHolds`, `EveryBlockAccounted`** (`LoweringProofs`). The
property speaks of the finished module; what makes it true is an account of every
block at every point of the walk. `Grown` says of `ir` and the insertion point

* `BlocksMade`: a block on the path of an operation was opened by an earlier `if`
  or `for`, in one of its arms;
* `BlocksOwned`: the operation that opened a block stands in the block around it;
* `StillOpen`: a block on the path of the insertion point has no terminator;
* `ThenFirst`: an else block is begun only after its then block was closed;
* `Accounted`: each block of each operation is on the insertion point's path, or is
  closed for good by one yield that is its last operation, or is an else block not
  begun, and empty.

Without `Accounted` nothing links the blocks left behind to the end of the walk;
without `StillOpen` and `BlocksOwned` a later operation could reopen one. `GrowHere`
(straight-line code), `GrowOpen`, `GrowElse`, `GrowLeave` and `GrowReturn` are the ways
a module grows, and each action is one of them.

**`RefusesOnlyTheseHolds`, `ScopedHolds`** (`LoweringProofs`), from the assumptions above and
`ScopesAssumption`: the structured statements are nested (`Nested`), and the resolver's
rule holds (`WellScoped`: what a statement reads or assigns is a parameter, a constant or a
declaration in an enclosing block before it, and no loop's variable is assigned). TLC evaluates
it on every listing of `MCMLIRGen` and `MCDifferential`. `emit` knows nothing of scopes: `values_`
is one map, which a region overwrites and its end puts back. `RefusesOnlyThese` is therefore not inductive, nor
is it that what is visible now is bound: what is visible behind a region depends
on what was bound when it was opened, at every level. `Scoped` says that the symbols visible
at the statement emitted next are bound (`Known`) and that the frames are those of the
structured statements opened and not closed, in order, each having saved the bindings of what was
visible where it begins (`Standing`). At a region's end, `ClosesInnermost` says that it is the last
frame's, and `KnownBehind` that what is visible behind it was visible before it, so the saved bindings are
enough. What a region carries has a value because it is assigned inside and not declared there, so by the
scope rule it was visible before (`AssignedHasValue`); a region that assigns what it declares
itself has no such value, which is the finding `RegionsAreEmitted` of section 4 and stands
among the permitted refusals. That `emit` gives a value to whatever is not `Unemitted` and
reads bound symbols only is `VisibleHasValue`; `StatementHasValue` and `HeaderHasValue` bring it to statements.
The proof also found a refusal that no listing of the runs
had shown: an `if` whose condition reads an array element.

**`NoLookupMissesHold`, `CircuitIsTyped`, `LoweringHolds`, `CompiledHolds`** (`LoweringProofs`),
about the composition `DSpec`, from the assumptions of `MLIRGen` and
`SymbolsAssumption` (a program's symbols are finitely many, so that ports and results can be
numbered). hwgen's map has one entry per SSA value, found by the whole value, and the
pass follows the nesting by what it meets in the flat list; that no lookup misses is
therefore mostly a fact about the module it is given. `Written`, the part of `Compiled`
that adds to `TInv` and `Whole`, says of every point of MLIRGen's walk

* `Walks`: the path of each operation follows from the one before it (`After`), so
  that the list is the nesting written out;
* `Formed`: a yield is that of the operation whose block it ends, and, except in a loop's body,
  yields exactly the results that operation announced;
* `Named`: each use, each binding in force and each saved one is an argument of the function
  or exactly the value, path and width included, that its operation makes (`Makes`).

`HWInv` is then inductive: everything made before `next` is in the map (`Entered`), and
`arms` are the activations of the blocks `next` stands in (`Stands`), so that at an else
yield the values of the then yield are there, one for each result. A use was made before
`next` by `Sound` of the dominance invariant, so it is found. `Enumerated` states what
`SetToSeq` promises for a finite set.

**`TripCountHolds`, `VariableHolds`, `LegalHeadersHold`** (`ConstEvalProofs`), from
`HeadersAssumption`: start, limit and step are any numbers of the host's integer, and the type has a
width the host exceeds (`HeaderFacts`). That start and limit are numbers of the type is not
assumed, since the checker does not guarantee it. `IInv`
relates the counter to the written variable (`at = start +/- k * step`), says
what an accepted header got past (`Accepted`: counted, on defined arithmetic), and that the
wrapped variable is `Coerce(at)`, of every header: an
update modulo the width of a residue is the residue of the update. The
arithmetic of the count is in `StrictCount`
(`n < ceil(d / a) <=> n * a < d`) and `InclusiveCount`
(`n < floor(d / a) + 1 <=> n * a <= d`), for all naturals. `VariableHolds` then needs that
`at` is a number of the type as long as the loop runs, if start and limit are, since the condition
holds of it; `LegalHeadersHold`, that the count of such a loop fits
what it is folded in.

**`EveryConstantFolds`, `FoldInvHolds`** (`ConstEvalProofs`), from `DeclListsAssumption`
(`Declared` of every list). What the declarations mean is defined without an order, as the
last of `Len(decls)` maps, each got by evaluating every initialiser in the one before.
The lemmas about those maps come first: each only learns more than the one before
(`IterateLearns`), and, since no more constants can be learnt than there are, the last learns
nothing more (`LastIsFixed`). `FoldInv` says of the stack that each activation has gathered
what its operands mean and awaits exactly the constant of the activation above it
(`Stacked`), that every remembered value is its constant's meaning, and that what is behind
`place` is stored as it should be and what is ahead is not. The case that needs the chain of
activations is a cycle: a constant met again below is given no value although its evaluation
has not ended, and `CycleMeansNothing` shows that to be its meaning: the first map to know it
would follow one that knew every constant above it on the stack, itself among them.

**`EveryReportIsRight`, `ReportInvHolds`** (`ConstEvalProofs`), from the same assumption.
`ReportInv` adds to `FoldInv` that no constant is on the stack twice, that only known values
are remembered, that lengths come only from sizes already past, and what has been reported by
`place` (`Reported`). *Nothing else is reported:* each initialiser on the stack looks at the
next, and the stack is no longer than the declarations, so `Reached` finds the way from a
constant met again back to itself (`CycleIsMeant`). *Everything is reported:* `Explored`
says of each activation that whatever it has looked at is `Covered`, which is to say that
every trail from there through constants without a value that comes back, to the trail or to
the stack, has been reported where it does; `LeaveCovers` passes this to the caller when an
activation ends. Constants on a cycle have no value (`ClosedIsUnknown`), so what is remembered
never cuts such a trail, and each of them is looked at afresh from its own declaration, where
`CycleHasTrail` provides the shortest way back. Sizes and indices follow from the
values being canonical (`NumberIsBits`, `LengthIsPositive`) and from `SizedIsPast`: an index
is compared with a length exactly if its array's size came before. The attempt showed that two arms of a
`CASE` in `Follows` overlapped, so that the operator did not determine what a conditional
looks at; it is now one `IF`.

**`AppliedIsTyped`, `AddIsExact`, `SubIsExact`, `WideningIsExact`** (`BitsProofs`), from
`WidthsAssumption`, which the code's 128 and 32 meet. The arithmetic of powers of two
is derived from the cardinality of sets of subsets (`PowersGrow`, `PowerDoubles`), since
the prover knows nothing of `^` with a variable exponent; `Wraps`,
`MultiplesVanish`, `Residue` and `ResidueSum` are the laws of `% 2^w`. The recursion of
`FromBits` is opened by a least number argument instead of induction
(`LeastNumber`, `Builds`). `AppliedIsTyped`: whatever canonical operands it is given, the
result of a binary operator is canonical and has the type `widthRule` computes from
the operands' types, except a signed quotient by zero, which is one bit narrower (see
section 4). `AddIsExact`, `SubIsExact`: with operands of one signedness and a result the
host holds, no carry is lost.

**`EmittedIsEvaluated`, `StaticTypeHolds`, `GuardsAreEnough`, `AdjustmentsAgree`**
(`EvaluationProofs`), from `WidthsAssumption` and `TypeWidthAssumption` (twice the widest
type that can be written fits the host: 64 and 128 in the code). An expression is grown an
operator at a time, so an induction over expressions is an invariant of `Evaluation`:
`IInv` says that, of any expression but an operator on literals alone, the wire is a defined word or nothing was emitted, and
that until `gap` names a
deviation the value is canonical and narrow enough for the host, the static type is its type, and the
wire, if there is one, its bits (`Staged`, `Emitted`). `WireAgrees` alone is not inductive: two operands of the same bits
under another type give another sum. That a signed quotient does not overflow needs the type the checker
gives it, one bit wider than the dividend; it is what fails of operators on literals alone. Per operator,
`BinaryEmitted`, `UnaryEmitted`, `CastIsCoercion` and `TernaryEmitted` carry it, operands of any
signedness and width where the checker accepts them, over
`SignExtended` and `ZeroExtends` (an extension keeps the number that the wire stands for),
`Coerced` (a coerced wire holds the number's residue), `DivRemGuarded` (the selected divisor is
never zero, nor the quotient too wide), `ShiftGuarded` (the amount that reaches a
shift is below the width) and, for the bitwise operators, what one bit of an extended operand is.
`Adjusted` is about the circuit: copies of the top bit in front of a word are its sign extension.

**`ExpressionsAreExact`** (`EvaluationProofs`), from the same assumptions. `EInv == IInv /\ Exact`:
the number of a result follows from the numbers of the operands only while the static type,
to which the checker applies its width rule, is the value's. Where the table gives no number, `exact`
is empty from there on. Each of `SumsOfNumbers`,
`ProductsOfNumbers`, `QuotientsOfNumbers`, `RemaindersOfNumbers`, `ShiftsOfNumbers`,
`BitwiseOfNumbers`, `ComparedNumbers`, `CastOfNumber` and `SelectedNumber` says of an operation of
`bits.cpp` that the number it makes is the one `LANGUAGE.md` gives. They have two halves: the
host computes the number or at least its residue (`ValueIsNumber`: `Value` differs from the
number for an unsigned operand with the host's top bit, whence `gap`), and the number
fits the result's type (`SumsFit`, `ProductFits`, `QuotientFits`, `RemainderFits`,
`BetweenFits`), so nothing is cut off. The number a bitwise operator stands for is chosen by
its bits; `SameBitsSameResidue` makes the choice unique.

**`TypesFollowTheRules`, `ContextTypesReachConstants`, `AcceptedSumsAreExact`, `CheckInvHolds`**
(`EvaluationProofs`), from `TypeCheckAssumption` (literals are natural numbers, twice a declared
width fits the host) and `WidthsAssumption`. All three speak of an accepted statement, and of
nodes whose types may still change long after they were made, so `CheckInv` describes the tree
while it grows. Up to the first report it is `Checked`:

* `Waiting`: what waits for an operator is nobody's operand, and waits once;
* `Settled`: a node without a type is a constant, and every operator that is no constant has
  the type `LANGUAGE.md`'s table gives it, or is a `!`, with operands whose types are final and which the
  table takes, or is one of the five operators (`TypedNode`); that the checker's `WidthRule` and
  `UnaryRule` are the table's, where they are, is `TableRules`;
* `Hanging`: a node without a type waits, or is an operand of such a node, or a cast's;

and for sums, `Valued` and `Free`:

* `Single`: a node is the operand of one node, so that pinning one constant leaves the others;
* `Folded`: what an untyped sum holds is its meaning modulo `2^HostWidth`, and its operands
  are untyped too;
* `OneType`: a sum that was given a type gave it to all its nodes;
* `Fitted`: a typed sum that is no other constant's operand holds what fits its type;
* `Free`: a constant that waits is untyped, so whatever it meets types all of it at once.

`PinnedChecked`, `PinnedValued` and `MeetValued` say that a pinning keeps these, `MadeChecked`, `MadeValued`
and `MadeFree` that a new node does. `TypesReachEveryNode` then follows from `Hanging` when
nothing waits any more (`AllFloat`, by the last node that would break it). `SumsAreExact` needs one more
argument, at run time: in one type and with natural operands, a sum or a product computes
its number whenever that number fits the type and the host (`SumsRun`, `AddRuns`, `MulRuns`), because
then its operands' numbers do, unless a factor is zero. An overflow of the folded value is
no exception: the property excepts meanings that the host's signed integers do not hold, and
the others are their own residues.
The properties are stated with recursive functions on the nodes. That these exist
is shown without induction over data: a set of nodes defined by its members' operands as the largest set
closed under the definition (`UntypedAre`, `FloatingAre`, `SumsAre`) or the smallest one
(`PolyUnderIs`), the numbers `Meant` and `RunTime` by extending a solution by one node (`MeantExists`,
`RunExists`); what is to be shown of all nodes, by the least node that would break it (`LeastNode`).

**`MemoryIsTyped`, `TypingHolds`** (`InterpreterProofs`), from `InterpreterAssumption` (what
`run` is given are canonical values), `ListingsAssumption` (`WellFormed`, and
`Executable`: statements and expressions name symbols of the kind they are about) and the
lemmas of `BitsProofs`. `MemoryTyped` alone is not inductive: what a loop's end stores
comes from its activation, and what a read stores from the run's streams. `Typing` adds
that every entry of `loops` is the activation of a `for` of the program and
keeps values, that maps have symbols for keys and sequences for rows, and that during
a run the streams and their positions are those of the program. `EvalBits` carries the
argument: whatever is read, of whatever index, and whatever the operator, the result is
a canonical value, if not of the symbol's type; `CoercedCell` makes it one.

**`InductionVariableHolds`, `CountingHolds`** (`InterpreterProofs`), from the same and
`LoopsAssumption`, what the front end has settled of a loop: `Nested` (structured statements
are closed in the block they stand in), `Constant` headers (`evaluateFor` reports any other) and `Counted`
(nothing in the body binds the loop's variable, nothing at all a file-scope constant, both
resolver reports; the variable's type is at most as wide as the host, the lexer's limit).
TLC evaluates it on the listings of `MCInterpreter`. `InductionVariable` alone is not
inductive: that no statement but the loop's own binds the variable is known of the body only, and
`else` and a loop of no iterations jump. `Counting` adds that control is between the
header and the end of every active loop and that the activations are nested as the loops
are (`Inside`), and that the step an activation keeps is still the header's (`Follows`).
A header's value is kept because it reads constants (`HeaderKept`); one more iteration is
one more step modulo the power of two, although each one wraps (`StepOfResidue`,
`NextFollows`).

**`PrecedenceIsRespected`, `NullsAreReported`, `EveryStatementIsConsumed`** (`ParserProofs`),
from `TokensAssumption`. The call stack of recursive descent is data, so the
invariant `Parsed == Nesting /\ Progress` is about what may stand behind what on
`stack`, for stacks of any depth: what waits for a value stands behind something
that returns one it can take, with the binding strength it relies on; the value returned last
fits what waits for it, given the next token; a pending
binary operator's left operand binds as tightly as it must; and behind the position
that a block noted for a statement stands something that consumes a token first, or
a token has been consumed already.

**`InnermostIsBound`, `RolesAreRespected`** (`ResolverProofs`), from `NamesAssumption`. The stack
of scopes is one description of what is visible, the text's rule another, and they
have to agree inside every block that may still be returned to, also the ones that are
now covered by an inner declaration of the same name. `Resolved == Walked /\ Answered`:
`todo` closes each open block exactly once and in order, and each event of the text
stands behind the step that makes it (`Paired`, `Runs`); counting the event that is due
(`Due`), as long as nothing has been reported, a declaration that the text still makes
visible (`Seen`) is in the scope of its block under the last symbol made of that name there,
and a scope holds nothing else (`Agree`); and the answer just given is right. The step from "the innermost
scope that has the name" to "the last declaration still visible" is `Least` and `MaxIsLast`.

**`SuccessIsAgreement`, `ReadBeforeRun`** (`TextProofs`), from `DriverAssumption` (declared
types have widths the host holds: the lexer refuses wider ones, `lexer.cpp:144`).
`Driven` says that what has been read has the shape of the grammar of a line, that
nothing is run before the last line is read, and that the cases compared so far agree;
status 0 is only reached behind a comparison of the last one.

**`TextIsTiled`, `LexInvHolds`** (`TextProofs`), from `LexerAssumption` (what stands for the
end of a text is no character). `TokensTileTheText` speaks of a finished run; `LexInv`
says it of each token made so far (`Tiled`) and adds that there are only steps over trivia from the last
token to the next character (`Linked`). A token stands (`Stands`) when it is the longest lexeme at its
place and no comment begins there (`Longest`), which `IdentLongest` shows of words and numbers.
What is trivia the property decides by recursion over places; that there is such
a function, and that it holds where a set of places links the two ends, are
`LinkedDecides` and `LinkedDecided`, by the least place that would break it. A report
made later cannot undo a step (`StepsKept`). `RunIs` and `ClosingIs` are about
the two searches: the end of a run exists since a text ends, and a block comment closes at
the first place it can, or nowhere.

**Only model-checked.** Liveness (`Terminates`), which the prover does not
handle; the equality of the stages on whole programs (`SameResult`, `SameHardware`),
which relates what three machines compute; what speaks of a
recursive definition's value for every input (`AcceptsEveryProgram`);
`ValuesReachParameters`, which flattens a sequence of lists; `ResultsAgree`, a relation of
two runs; and the other invariants, some of which are in the plan.

## 6 What is not modelled

* **The semantic passes on a tree with holes.** `compileText` runs them after a
  report of the parser; they are modelled on whole trees. `MLIRGen` and
  `Interpreter` run on accepted programs only, and the interpreter's listings have no untyped
  constants in a cast, of which `Evaluation` says what becomes of them.
* **Trees as data between the passes.** `Parser`, `Resolver` and `TypeCheck` each
  choose the tree they are about; listings are the annotated tree the back
  ends see, generated well scoped, with one symbol per declaration, which is
  what `InnermostBinding` establishes.
* **In the parser:** the text of a pragma (good or bad),
  source ranges. **In the lexer:** the characters of a class, the full lists of
  keywords and operators. **In the resolver:** types, and the notes that accompany a
  report.
* **In the type checker:** what is reported after a first report.
* **In the constant evaluator:** indices inside an index and below operators, which
  are walked in the same way. The array lengths of the interpreter's programs are
  given.
* **In the driver:** opening files, printing, and the conversion of decimal digits
  to numbers, which wraps at 128 bits without a report.
* **Arrays, streams and multi-operator expressions in MLIRGen's listings:** the
  code refuses the first two; the third is `Evaluation`'s subject, per operator
  and in every composition.
* **MLIRGen's refusal of non-scalar parameters**, before the walk begins, and
  **`Interpreter::run` with a wrong number of arguments**, before anything runs.
* **Undefined behaviour in C++:** the signed 128-bit product of two large
  unsigned operands overflows; the model wraps. `arith.remsi` of the smallest
  number by -1 is taken to be 0, which is what the surrounding code expects; `arith.divsi` of them
  is undefined in the model. `evaluateFor`'s overflows are any verdict and any count.
* **MLIR and CIRCT themselves:** their semantics, and only as far as the
  emitted operations use it, is in `SSARun`, `ArithGen`, `CombGen` and
  `HWGen!Settled`. Canonicalisation and the Verilog printer are not considered.
* **Text:** diagnostics' wording, the AST printer, `dump.cpp`, command line.

The bounds, by name: `MaxTokens`, `RecoveryTokens` and `Openings` (the parser's
inputs), `MaxNodes` (trees of the resolver and of the type checker), `MaxWords` (a test file),
`MaxLength`, `MaxLiteral` and `MaxUnsigned` (texts, `u128`, C++ `unsigned`), `MaxStatements` and `MaxOddStatements` (listings), `MaxRuns` (runs of one
interpreter), `MaxIndex` (the largest `index`; `INT64_MAX` in the code, a small
number in the runs so that both sides of it occur), `MaxTrips` (`UINT64_MAX`),
`MaxWidth` and `TypeWidth` (types), `HostWidth`, `UintWidth` and `LengthWidth` (the
machine).

## 7 The plan

Built so far: `Bits`, `Operators`; `Program`, `MLIRGen`; `Interpreter`; `ArithGen`, `Evaluation`;
`LoopHeader`; `ConstEval`; `CombGen`, `HWGen`, `Differential`; the front end and the
driver: `Parser`, `Grammar`, `Parsing`, `Resolver`, `TypeCheck`, `Lexer`, `Driver`; and the
proofs of section 5.

Next, a theorem: `ResultsAgree` of `Interpreter`, once the listings are known to assign
before they use.

Next, models: the semantic passes on trees with holes.
