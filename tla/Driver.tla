------------------------------- MODULE Driver -------------------------------
(***************************************************************************)
(* The test driver (src/driver/run.cpp, testfile.cpp): a .tests file, or    *)
(* the arguments of `run`, read word by word into items, the items bound to *)
(* the function's parameters, the cases run, their results compared.  The   *)
(* front end either accepts the program or does not, and the interpreter    *)
(* returns any of Results or fails: other modules are about them.           *)
(***************************************************************************)
EXTENDS Bits, Sequences

Lists == INSTANCE SequencesExt

CONSTANTS
  Functions,   \* parameter lists: [kind, width, isSigned] each
  Numbers,     \* the decimal integers in the file
  Results,     \* what a run of a program may return: [value, streams]
  MaxWords     \* bound: words in the file, or in the arguments

\* What is returned or put out has a declared type, and the lexer refuses one
\* of more than 64 bits: it fits the host's integer.
Outcomes == [raw : Nat, width : 1 .. HostWidth, isSigned : BOOLEAN]

ASSUME DriverAssumption ==
  /\ Numbers \subseteq Int
  /\ Results \subseteq [value : Outcomes, streams : Seq(Seq(Outcomes))]

VARIABLES
  fn,        \* the function's parameters
  mode,      \* the subcommand: "test" or "run"
  phase,     \* "compile", "read", "run", "exit"
  status,    \* the exit status
  read,      \* how many words were read
  items,     \* the items of the side of the line that is being read
  open,      \* <<>>, or the values of the list that is not closed yet
  left,      \* <<>>, or the items before the arrow
  said,      \* history: the values before the arrow
  cases,     \* the cases that were read
  got        \* what the interpreter returned for each case run; <<>>: it failed

lineVars == <<items, open, left, said>>
vars == <<fn, mode, phase, status, read, lineVars, cases, got>>

Scalar(v) == [isList |-> FALSE, list |-> <<v>>]
List(l)   == [isList |-> TRUE, list |-> l]

\* A word: what is left of it between an opening and a closing bracket.
Words == [opens : BOOLEAN, number : {<<v>> : v \in Numbers} \cup {<<>>}, closes : BOOLEAN]

Exit(code) ==
  /\ phase' = "exit"
  /\ status' = code
  /\ UNCHANGED <<fn, mode, read, lineVars, cases, got>>

FrontEnd ==
  /\ phase = "compile"
  /\ \/ Exit(1)
     \/ phase' = "read" /\ UNCHANGED <<fn, mode, status, read, lineVars, cases, got>>

-----------------------------------------------------------------------------
(* parseItems, one word at a time.                                          *)

InList == open # <<>>

\* parseInt refuses what is not a number: in a scalar, no number or a closing
\* bracket; in a list, a second opening one.
IsItem(w) ==
  IF InList THEN ~w.opens /\ (w.number # <<>> \/ w.closes)
  ELSE w.opens \/ (w.number # <<>> /\ ~w.closes)

ReadWord(w) ==
  /\ phase = "read" /\ read < MaxWords
  /\ IsItem(w)
  /\ read' = read + 1
  /\ LET list == IF InList THEN open[1] \o w.number ELSE w.number
     IN  IF InList \/ w.opens
         THEN /\ items' = IF w.closes THEN Append(items, List(list)) ELSE items
              /\ open' = IF w.closes THEN <<>> ELSE <<list>>
         ELSE /\ items' = Append(items, Scalar(w.number[1]))
              /\ open' = <<>>
  /\ said' = IF left = <<>> THEN said \o w.number ELSE said
  /\ UNCHANGED <<fn, mode, phase, status, left, cases, got>>

\* A malformed word, a list that is not closed, a line with no arrow: nothing
\* of the file is run.
Malformed == phase = "read" /\ Exit(1)

Arrow ==
  /\ mode = "test" /\ phase = "read"
  /\ left = <<>> /\ ~InList
  /\ left' = <<items>>
  /\ items' = <<>>
  /\ UNCHANGED <<fn, mode, phase, status, read, open, said, cases, got>>

-----------------------------------------------------------------------------
(* bindParams.                                                              *)

Takers == SelectSeq(fn, LAMBDA p : p.kind # "StreamOut")

\* Mutant: the items that are left over are not looked at.
MutantBinds(its) ==
  /\ Len(its) >= Len(Takers)
  /\ \A i \in DOMAIN Takers : its[i].isList = (Takers[i].kind # "Scalar")

\* In order; a scalar for a scalar, a list for an array or a stream.
Binds(its) ==
  /\ Len(its) = Len(Takers)
  /\ \A i \in DOMAIN Takers : its[i].isList = (Takers[i].kind # "Scalar")

Bound(its) ==
  [i \in DOMAIN fn |->
     IF fn[i].kind = "StreamOut" THEN <<>>
     ELSE LET item == its[Len(SelectSeq(SubSeq(fn, 1, i), LAMBDA p : p.kind # "StreamOut"))]
          IN  [k \in DOMAIN item.list |-> Make(item.list[k], fn[i].width, fn[i].isSigned)]]

\* Lists are out-streams in order, then the return value.
WellFormed(its) == its # <<>> /\ \A i \in DOMAIN its : its[i].isList = (i < Len(its))

EndOfLine ==
  /\ phase = "read" /\ left # <<>> /\ ~InList
  /\ IF Binds(left[1]) /\ WellFormed(items)
     THEN /\ cases' = Append(cases, [said |-> said, inputs |-> Bound(left[1]),
                                     streams |-> [i \in 1 .. Len(items) - 1 |-> items[i].list],
                                     value |-> items[Len(items)].list[1]])
          /\ items' = <<>> /\ left' = <<>> /\ said' = <<>>
          /\ UNCHANGED <<fn, mode, phase, status, read, open, got>>
     ELSE Exit(1)

EndOfFile ==
  /\ mode = "test" /\ phase = "read"
  /\ left = <<>> /\ items = <<>> /\ ~InList
  /\ phase' = "run"
  /\ UNCHANGED <<fn, mode, status, read, lineVars, cases, got>>

EndOfArguments ==
  /\ mode = "run" /\ phase = "read" /\ ~InList
  /\ IF Binds(items)
     THEN /\ cases' = <<[said |-> said, inputs |-> Bound(items), streams |-> <<>>, value |-> 0]>>
          /\ phase' = "run"
          /\ UNCHANGED <<fn, mode, status, read, lineVars, got>>
     ELSE Exit(1)

-----------------------------------------------------------------------------
(* runTests, runProgram.                                                    *)

\* An interpreter of its own for every case.
RunCase ==
  /\ phase = "run" /\ Len(got) < Len(cases)
  /\ \/ got' = Append(got, <<>>)
     \/ \E r \in Results : Len(r.streams) = Len(fn) - Len(Takers) /\ got' = Append(got, <<r>>)
  /\ UNCHANGED <<fn, mode, phase, status, read, lineVars, cases>>

\* toString tells two values of one width and signedness apart.
SameValue(value, expected) ==
  value = Make(expected, value.width, value.isSigned)

\* Mutant: only as many values as both have are compared.
MutantSameValues(values, expected) ==
  \A k \in DOMAIN values \cap DOMAIN expected : SameValue(values[k], expected[k])

SameValues(values, expected) ==
  /\ Len(values) = Len(expected)
  /\ \A k \in DOMAIN values : SameValue(values[k], expected[k])

Passed(case, r) ==
  /\ r # <<>>
  /\ SameValue(r[1].value, case.value)
  /\ \A s \in DOMAIN case.streams :
       s \in DOMAIN r[1].streams /\ SameValues(r[1].streams[s], case.streams[s])

Finish ==
  /\ phase = "run" /\ Len(got) = Len(cases)
  /\ Exit(IF \A i \in DOMAIN got : IF mode = "test" THEN Passed(cases[i], got[i]) ELSE got[i] # <<>>
          THEN 0 ELSE 1)

Init ==
  /\ fn \in Functions
  /\ mode \in {"test", "run"}
  /\ phase = "compile"
  /\ status = 0
  /\ read = 0
  /\ items = <<>> /\ open = <<>> /\ left = <<>> /\ said = <<>>
  /\ cases = <<>>
  /\ got = <<>>

Next ==
  \/ FrontEnd \/ Malformed \/ Arrow \/ EndOfLine \/ EndOfFile \/ EndOfArguments
  \/ RunCase \/ Finish
  \/ \E w \in Words : ReadWord(w)

Spec == Init /\ [][Next]_vars

-----------------------------------------------------------------------------
Agrees(value, expected) == (value.raw - expected) % 2^value.width = 0

(* Every value of a case's left-hand side reaches the program, once, in the *)
(* order written, in the type of the parameter it reaches; out-streams take *)
(* none (parseItems, bindParams).                                           *)
ValuesReachParameters ==
  \A i \in DOMAIN cases :
    LET c == cases[i]
        values == Lists!FlattenSeq(c.inputs)
    IN  /\ Len(values) = Len(c.said)
        /\ \A k \in DOMAIN values : Agrees(values[k], c.said[k])
        /\ \A p \in DOMAIN fn : /\ fn[p].kind = "Scalar" => Len(c.inputs[p]) = 1
                                /\ fn[p].kind = "StreamOut" => c.inputs[p] = <<>>

Succeeded == phase = "exit" /\ status = 0 /\ mode = "test"

(* The exit status is 0 only if the whole file was read, every case of it   *)
(* ran to its end and put out what its line says, up to the width of what   *)
(* was put out and for the out-streams the line lists (runTests).           *)
SuccessMeansAgreement ==
  Succeeded =>
    /\ Len(got) = Len(cases) /\ ~InList /\ items = <<>> /\ left = <<>>
    /\ \A i \in DOMAIN cases :
         /\ got[i] # <<>>
         /\ Agrees(got[i][1].value, cases[i].value)
         /\ \A s \in DOMAIN cases[i].streams :
              LET out == got[i][1].streams[s]
              IN  /\ s \in DOMAIN got[i][1].streams
                  /\ Len(out) = Len(cases[i].streams[s])
                  /\ \A k \in DOMAIN out : Agrees(out[k], cases[i].streams[s][k])

(* "Outputs are the contents of each out stream" (examples/README.md): all  *)
(* of them are compared.                                                    *)
AllStreamsAreCompared ==
  Succeeded => \A i \in DOMAIN cases : Len(got[i][1].streams) = Len(cases[i].streams)

(* A value that is expected is the value that was put out.                  *)
ExpectedIsExact ==
  Succeeded => \A i \in DOMAIN cases : Value(got[i][1].value) = cases[i].value
=============================================================================
