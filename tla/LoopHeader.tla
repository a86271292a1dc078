----------------------------- MODULE LoopHeader -----------------------------
(***************************************************************************)
(* A for header from the constant evaluator to its last iteration.         *)
(* evaluateFor (sema/const_eval.cpp) reports the header or folds it to a   *)
(* trip count; the interpreter, and the hardware after it, count to that   *)
(* number and never test the condition.  Beside them `at` is the number    *)
(* the induction variable has in the loop as it is written.                *)
(***************************************************************************)
EXTENDS Bits

CONSTANTS
  Headers,     \* the headers whose three expressions folded
  MaxTrips     \* the largest trip count, uint64_t's maximum in the code

InRange(n, type) ==
  IF type.isSigned THEN n \in -(2^(type.width - 1)) .. 2^(type.width - 1) - 1
                   ELSE n \in 0 .. 2^type.width - 1

\* i128's numbers.
HostInts == -(2^(HostWidth - 1)) .. 2^(HostWidth - 1) - 1

\* start, limit and step are the numbers the expressions fold to (valueAsI128).
\* They need not be the loop variable's: of an untyped constant the type checker
\* fits what infer() folds, which for -1 is 1 (type_check.cpp:87, 100, 171).  A
\* type is narrower than the host's integer (lexer.cpp:144).
ASSUME HeadersAssumption ==
  /\ MaxTrips \in Nat
  /\ \A h \in Headers : /\ {h.start, h.limit, h.step} \subseteq HostInts
                        /\ h.relOp \in {"<", "<=", ">", ">="}
                        /\ h.stepIsAdd \in BOOLEAN
                        /\ h.type.isSigned \in BOOLEAN
                        /\ h.type.width \in 1 .. HostWidth - 1

VARIABLES
  header,
  verdict,     \* "unseen", after evaluateFor "counted" or what it reports
  tripCount,
  k, iv,       \* exec(For): the counter and the loop variable's Bits
  at           \* what the loop variable is, as written

vars == <<header, verdict, tripCount, k, iv, at>>

(***************************************************************************)
(* evaluateFor.                                                            *)
(***************************************************************************)
Stride(h) == IF h.step < 0 THEN -h.step ELSE h.step

Enters(h) ==
  IF h.stepIsAdd
  THEN IF h.relOp = "<" THEN h.start < h.limit ELSE h.start <= h.limit
  ELSE IF h.relOp = ">" THEN h.start > h.limit ELSE h.start >= h.limit

MovesAway(h) == \/ h.stepIsAdd /\ h.relOp \in {">", ">="}
                \/ ~h.stepIsAdd /\ h.relOp \in {"<", "<="}

Distance(h) == IF h.stepIsAdd THEN h.limit - h.start ELSE h.start - h.limit

\* Mutant: a partial last step is not counted.
FlooredSteps(h) ==
  Distance(h) \div Stride(h) + (IF h.relOp \in {"<", ">"} THEN 0 ELSE 1)
Steps(h) ==
  IF h.relOp \in {"<", ">"} THEN (Distance(h) + Stride(h) - 1) \div Stride(h)
                            ELSE Distance(h) \div Stride(h) + 1

Count(h) == IF Enters(h) THEN Steps(h) ELSE 0

Terminal(h) ==
  IF h.stepIsAdd THEN h.start + Count(h) * Stride(h) ELSE h.start - Count(h) * Stride(h)

\* Mutant: the largest value of the type is refused.
FitsBelow(v, type) ==
  IF type.isSigned THEN Value(v) \in -(2^(type.width - 1)) .. 2^(type.width - 1) - 2
                   ELSE Value(v) >= 0 /\ v.raw < 2^type.width - 1
FitsType(v, type) ==
  IF type.isSigned THEN Value(v) \in -(2^(type.width - 1)) .. 2^(type.width - 1) - 1
                   ELSE Value(v) >= 0 /\ v.raw < 2^type.width

TerminalFits(h) ==
  /\ ~h.type.isSigned => Terminal(h) >= 0
  /\ h.type.isSigned => Terminal(h) \in -(2^(h.type.width - 1)) .. 2^(h.type.width - 1) - 1
  /\ FitsType(Make(Terminal(h), h.type.width, h.type.isSigned), h.type)

Judgement(h) ==
  CASE h.step = 0 -> "step is zero"
    [] h.step # 0 /\ Enters(h) /\ MovesAway(h) -> "moves away"
    [] OTHER -> IF ~TerminalFits(h) THEN "does not fit"
                ELSE IF Count(h) > MaxTrips THEN "too large"
                ELSE "counted"

\* The numbers evaluateFor computes in i128 on its way.
Computed(h) ==
  {Stride(h)}
    \cup (IF h.step # 0 /\ Enters(h) THEN {Distance(h)} ELSE {})
    \cup (IF h.step # 0 /\ Enters(h) /\ ~MovesAway(h)
          THEN {Count(h) * Stride(h), Terminal(h)}
                 \cup (IF h.relOp \in {"<", ">"} THEN {Distance(h) + Stride(h) - 1} ELSE {})
          ELSE {})

\* Beyond i128 a sum is undefined, and so is what becomes of the header.
Undefined(h) == ~(Computed(h) \subseteq HostInts)

Verdicts == {"step is zero", "moves away", "does not fit", "too large", "counted"}

EvaluateFor ==
  /\ verdict = "unseen"
  /\ verdict' \in IF Undefined(header) THEN Verdicts ELSE {Judgement(header)}
  /\ tripCount' \in CASE verdict' # "counted" -> {0}
                      [] verdict' = "counted" /\ ~Undefined(header) -> {Count(header)}
                      [] verdict' = "counted" /\ Undefined(header) -> 0 .. MaxTrips
  /\ UNCHANGED <<header, k, iv, at>>

(***************************************************************************)
(* One iteration: the body, then the update at the declared width.         *)
(***************************************************************************)
Coerce(n) == Make(n, header.type.width, header.type.isSigned)

\* Mutant: the update always adds.
AlwaysAdded == Coerce(iv.raw + Coerce(header.step).raw)
Updated ==
  LET step == Coerce(header.step).raw
  IN  Coerce(IF header.stepIsAdd THEN iv.raw + step ELSE iv.raw - step)

Iterate ==
  /\ verdict = "counted"
  /\ k < tripCount
  /\ k' = k + 1
  /\ iv' = Updated
  /\ at' = IF header.stepIsAdd THEN at + header.step ELSE at - header.step
  /\ UNCHANGED <<header, verdict, tripCount>>

Init ==
  /\ header \in Headers
  /\ verdict = "unseen"
  /\ tripCount = 0
  /\ k = 0
  /\ iv = Coerce(header.start)
  /\ at = header.start

Next == EvaluateFor \/ Iterate

Spec == Init /\ [][Next]_vars

-----------------------------------------------------------------------------
(***************************************************************************)
(* Properties.                                                             *)
(***************************************************************************)
\* The condition as it is written.
Holds == CASE header.relOp = "<"  -> at < header.limit
           [] header.relOp = "<=" -> at <= header.limit
           [] header.relOp = ">"  -> at > header.limit
           [] header.relOp = ">=" -> at >= header.limit

\* evaluateFor accepted the header, on arithmetic that is defined.
Accepted == verdict = "counted" /\ ~Undefined(header)

\* LANGUAGE.md:320, the rows of the table that evaluateFor's arithmetic
\* presupposes: a step that moves the variable toward the limit.
Toward(h) == h.step > 0 /\ ~MovesAway(h)

\* Another iteration is counted exactly when the condition, which nothing
\* tests any more, would hold ("S3 computed the exact trip count",
\* interpreter.cpp:173).
TripCountIsExact ==
  Accepted /\ ~MovesAway(header) => (k < tripCount <=> Holds)

\* The same of the headers whose step is positive, which is most of them.
PositiveTripCountIsExact == header.step > 0 => TripCountIsExact

\* The variable, updated modulo its width, is in every iteration the number the
\* written loop gives it, if start and limit are numbers of its type, and is
\* that number modulo the width in every loop (interpreter.cpp:182-185).
VariableIsExact ==
  /\ iv = Coerce(at)
  /\ (/\ Toward(header) /\ Accepted /\ k < tripCount
      /\ InRange(header.start, header.type) /\ InRange(header.limit, header.type))
     => Value(iv) = at

\* A header that meets every row of LANGUAGE.md:313-321, and that evaluateFor
\* can compute with, is not reported.
LegalHeadersAreCounted ==
  (/\ Toward(header) /\ ~Undefined(header)
   /\ InRange(Terminal(header), header.type) /\ Count(header) <= MaxTrips)
  => verdict \in {"unseen", "counted"}

\* LANGUAGE.md:320: the step must move the variable toward the limit, `+` with
\* `<` and `<=`, `-` with `>` and `>=`.
DirectionIsChecked == Accepted => ~MovesAway(header)

\* LANGUAGE.md:321: the variable's type holds every value it takes, including
\* the final one that ends the loop.
RangeIsChecked ==
  Accepted /\ k = tripCount /\ Toward(header) => InRange(at, header.type)

\* The same row, of the values on the way: `for (u4 i = -1; i < 3; i = i + 1)`
\* is accepted, and i is 15 in the first round.
ValuesAreInRange ==
  Accepted /\ k < tripCount /\ Toward(header) => InRange(at, header.type)

\* evaluateFor can compute with every header that meets the rows.
LegalHeadersAreDefined ==
  (/\ Toward(header)
   /\ \A n \in {header.start, header.limit, Terminal(header)} : InRange(n, header.type))
  => ~Undefined(header)
=============================================================================
