----------------------------- MODULE TextProofs -----------------------------
(***************************************************************************)
(* What reads text.  The test driver: for every file, every program and    *)
(* everything the interpreter may do, the exit status of `test` is 0 only  *)
(* if each case that was read put out what its line says.  The lexer: for  *)
(* every text, tokens and trivia are the text.                             *)
(***************************************************************************)
EXTENDS Driver, Lexer, BitsProofs

-----------------------------------------------------------------------------
(***************************************************************************)
\* A value that prints as the expected one agrees with it, up to its width.
LEMMA SameAgrees ==
  ASSUME NEW v \in Outcomes, NEW e \in Int, SameValue(v, e)
  PROVE  Agrees(v, e)
<1>1. v.width \in Nat /\ v.width <= HostWidth /\ HostWidth \in Nat
  BY WidthsAssumption DEF Outcomes
<1>2. Make(e, v.width, v.isSigned).raw = e % 2^v.width
  BY <1>1 DEF Make, Smaller
<1>3. v.raw = e % 2^v.width
  BY <1>2 DEF SameValue
<1>4. 2^v.width \in Nat \ {0}
  BY <1>1, PowerOfTwo
<1> QED
  BY <1>3, <1>4, Residue DEF Agrees

-----------------------------------------------------------------------------
(***************************************************************************)
(* Sequences of anything.                                                  *)
(***************************************************************************)
Sequence(s) == s \in Seq({s[i] : i \in DOMAIN s})

LEMMA SequenceAppend ==
  ASSUME NEW s, Sequence(s), NEW x
  PROVE  /\ Sequence(Append(s, x))
         /\ DOMAIN s = 1 .. Len(s) /\ Len(s) \in Nat
         /\ DOMAIN Append(s, x) = 1 .. Len(s) + 1
         /\ \A i \in 1 .. Len(s) : Append(s, x)[i] = s[i]
         /\ Append(s, x)[Len(s) + 1] = x
<1> DEFINE S == {s[i] : i \in DOMAIN s} \cup {x}
           t == Append(s, x)
           T == {t[i] : i \in DOMAIN t}
<1>1. s \in Seq(S) /\ x \in S
  BY DEF Sequence
<1> HIDE DEF S
<1>2. /\ t \in Seq(S) /\ Len(t) = Len(s) + 1 /\ Len(s) \in Nat
      /\ DOMAIN s = 1 .. Len(s) /\ DOMAIN t = 1 .. Len(s) + 1
      /\ \A i \in 1 .. Len(s) : t[i] = s[i]
      /\ t[Len(s) + 1] = x
  BY <1>1
<1> HIDE DEF t
<1>3. t = [i \in 1 .. Len(t) |-> t[i]] /\ \A i \in 1 .. Len(t) : t[i] \in T
  BY <1>2
<1>4. [i \in 1 .. Len(t) |-> t[i]] \in Seq(T)
  BY <1>2, <1>3
<1>5. Sequence(t)
  BY <1>3, <1>4 DEF Sequence
<1> QED
  BY <1>2, <1>5 DEF t

LEMMA EmptySequence == Sequence(<<>>)
BY DEF Sequence

-----------------------------------------------------------------------------
(***************************************************************************)
(* What was read so far has the shape the grammar of a line gives it: an   *)
(* item is a number or a list of numbers, and a case keeps the numbers of  *)
(* its outputs.                                                            *)
(***************************************************************************)
Lines == Seq(Numbers)
Items == {Scalar(v) : v \in Numbers} \cup {List(l) : l \in Lines}
Runs  == {<<>>} \cup {<<r>> : r \in Results}

Reading  == items \in Seq(Items) /\ open \in {<<>>} \cup {<<l>> : l \in Lines}
Expected == /\ Sequence(cases)
            /\ \A i \in DOMAIN cases : cases[i].value \in Int /\ cases[i].streams \in Seq(Seq(Int))
Returned == got \in Seq(Runs)

(***************************************************************************)
(* Nothing is run before the last line was read to its end, and success    *)
(* was answered only after all the cases were compared.                    *)
(***************************************************************************)
NothingPending == items = <<>> /\ open = <<>> /\ left = <<>>
ReadFirst == /\ phase \in {"compile", "read"} => got = <<>>
             /\ phase = "run" /\ mode = "test" => NothingPending
Compared  == Succeeded =>
               /\ NothingPending
               /\ Len(got) = Len(cases)
               /\ \A i \in DOMAIN got : Passed(cases[i], got[i])

Driven == Reading /\ Expected /\ Returned /\ ReadFirst /\ Compared

-----------------------------------------------------------------------------
LEMMA LineOfIntegers == ASSUME NEW l \in Lines PROVE l \in Seq(Int)
<1>1. l \in [1 .. Len(l) -> Numbers] /\ Len(l) \in Nat
  BY DEF Lines
<1>2. l \in [1 .. Len(l) -> Int]
  BY <1>1, DriverAssumption
<1> QED
  BY <1>1, <1>2

LEMMA ItemList == ASSUME NEW x \in Items PROVE x.list \in Seq(Int)
<1>1. CASE \E v \in Numbers : x = Scalar(v)
  BY <1>1, DriverAssumption DEF Scalar
<1>2. CASE \E l \in Lines : x = List(l)
  <2>1. PICK l \in Lines : x = List(l)
    BY <1>2
  <2>2. x.list = l
    BY <2>1 DEF List
  <2> QED
    BY <2>2, LineOfIntegers
<1> QED
  BY <1>1, <1>2 DEF Items

LEMMA ItemNumber == ASSUME NEW x \in Items, ~x.isList PROVE x.list[1] \in Int
<1>1. CASE \E v \in Numbers : x = Scalar(v)
  BY <1>1, DriverAssumption DEF Scalar
<1>2. ~ \E l \in Lines : x = List(l)
  BY DEF List
<1> QED
  BY <1>1, <1>2 DEF Items

LEMMA LastItem ==
  ASSUME NEW its \in Seq(Items), WellFormed(its)
  PROVE  its[Len(its)].list[1] \in Int
<1>1. its # <<>> /\ Len(its) \in DOMAIN its /\ its[Len(its)] \in Items
  BY DEF WellFormed
<1>2. its[Len(its)].isList = (Len(its) < Len(its))
  BY <1>1 DEF WellFormed
<1>3. ~(Len(its) < Len(its))
  BY <1>1
<1>4. ~its[Len(its)].isList
  BY <1>2, <1>3
<1> QED
  BY <1>1, <1>4, ItemNumber

LEMMA ItemStreams ==
  ASSUME NEW its \in Seq(Items), its # <<>>
  PROVE  [i \in 1 .. Len(its) - 1 |-> its[i].list] \in Seq(Seq(Int))
<1>1. \A i \in 1 .. Len(its) - 1 : its[i].list \in Seq(Int)
  BY ItemList
<1>2. Len(its) - 1 \in Nat
  OBVIOUS
<1> QED
  BY <1>1, <1>2

-----------------------------------------------------------------------------
(***************************************************************************)
(* Init and the steps.                                                     *)
(***************************************************************************)
LEMMA DrivenInit == Init => Driven
BY EmptySequence DEF Init, Driven, Reading, Expected, Returned, ReadFirst, Compared, Succeeded

LEMMA ExitStep ==
  ASSUME Driven, Exit(1)
  PROVE  Driven'
<1>1. Reading' /\ Expected' /\ Returned'
  BY DEF Driven, Exit, lineVars, Reading, Expected, Returned, Sequence
<1> QED
  BY <1>1 DEF Driven, Exit, lineVars, ReadFirst, Compared, Succeeded

LEMMA FrontEndStep ==
  ASSUME Driven, FrontEnd
  PROVE  Driven'
<1>1. CASE Exit(1)
  BY <1>1, ExitStep
<1>2. CASE phase' = "read" /\ UNCHANGED <<fn, mode, status, read, lineVars, cases, got>>
  BY <1>2 DEF Driven, FrontEnd, lineVars, Reading, Expected, Returned, Sequence,
              ReadFirst, Compared, Succeeded
<1> QED
  BY <1>1, <1>2 DEF FrontEnd

LEMMA ReadWordStep ==
  ASSUME Driven, NEW w \in Words, ReadWord(w)
  PROVE  Driven'
<1> DEFINE list == IF InList THEN open[1] \o w.number ELSE w.number
<1>1. w.number \in Lines
  <2>1. w.number \in {<<v>> : v \in Numbers} \cup {<<>>}
    BY DEF Words
  <2>2. \A v \in Numbers : <<v>> \in Lines
    BY DEF Lines
  <2>3. <<>> \in Lines
    BY DEF Lines
  <2> QED
    BY <2>1, <2>2, <2>3
<1>2. InList => open[1] \in Lines
  BY DEF Driven, Reading, InList
<1>3. list \in Lines
  BY <1>1, <1>2 DEF Lines
<1>4. Reading'
  <2>1. CASE InList \/ w.opens
    <3>1. /\ items' = IF w.closes THEN Append(items, List(list)) ELSE items
          /\ open' = IF w.closes THEN <<>> ELSE <<list>>
      BY <2>1 DEF ReadWord
    <3>2. List(list) \in Items
      BY <1>3 DEF Items
    <3>3. items' \in Seq(Items)
      BY <3>1, <3>2 DEF Driven, Reading
    <3>4. open' \in {<<>>} \cup {<<l>> : l \in Lines}
      BY <1>3, <3>1
    <3> QED
      BY <3>3, <3>4 DEF Reading
  <2>2. CASE ~(InList \/ w.opens)
    <3>1. items' = Append(items, Scalar(w.number[1])) /\ open' = <<>>
      BY <2>2 DEF ReadWord
    <3>2. w.number # <<>>
      BY <2>2 DEF ReadWord, IsItem
    <3>3. w.number[1] \in Numbers
      BY <3>2 DEF Words
    <3>4. Scalar(w.number[1]) \in Items
      BY <3>3 DEF Items
    <3> QED
      BY <3>1, <3>4 DEF Driven, Reading
  <2> QED
    BY <2>1, <2>2
<1>5. phase = "read" /\ UNCHANGED <<phase, cases, got>>
  BY DEF ReadWord
<1> QED
  BY <1>4, <1>5 DEF Driven, Expected, Returned, Sequence, ReadFirst, Compared, Succeeded

LEMMA ArrowStep ==
  ASSUME Driven, Arrow
  PROVE  Driven'
BY DEF Driven, Arrow, Reading, Expected, Returned, Sequence, ReadFirst, Compared, Succeeded

LEMMA EndOfLineStep ==
  ASSUME Driven, EndOfLine
  PROVE  Driven'
<1>1. CASE Binds(left[1]) /\ WellFormed(items)
  <2> DEFINE c == [said |-> said, inputs |-> Bound(left[1]),
                   streams |-> [i \in 1 .. Len(items) - 1 |-> items[i].list],
                   value |-> items[Len(items)].list[1]]
  <2>1. /\ cases' = Append(cases, c)
        /\ items' = <<>>
        /\ phase = "read" /\ UNCHANGED <<phase, open, got>>
    BY <1>1 DEF EndOfLine
  <2>2. items \in Seq(Items) /\ items # <<>>
    BY <1>1 DEF Driven, Reading, WellFormed
  <2>3. c.value \in Int
    BY <1>1, <2>2, LastItem
  <2>4. c.streams \in Seq(Seq(Int))
    BY <2>2, ItemStreams
  <2> HIDE DEF c
  <2>5. Expected'
    <3>1. /\ Sequence(cases')
          /\ Len(cases) \in Nat
          /\ DOMAIN cases = 1 .. Len(cases)
          /\ DOMAIN cases' = 1 .. Len(cases) + 1
          /\ \A i \in 1 .. Len(cases) : cases'[i] = cases[i]
          /\ cases'[Len(cases) + 1] = c
      BY <2>1, SequenceAppend DEF Driven, Expected
    <3>2. ASSUME NEW i \in DOMAIN cases'
          PROVE  cases'[i].value \in Int /\ cases'[i].streams \in Seq(Seq(Int))
      BY <2>3, <2>4, <3>1 DEF Driven, Expected
    <3> QED
      BY <3>1, <3>2 DEF Expected, Sequence
  <2> QED
    BY <2>1, <2>5 DEF Driven, Reading, Returned, ReadFirst, Compared, Succeeded
<1>2. CASE ~(Binds(left[1]) /\ WellFormed(items))
  BY <1>2, ExitStep DEF EndOfLine
<1> QED
  BY <1>1, <1>2

LEMMA EndOfFileStep ==
  ASSUME Driven, EndOfFile
  PROVE  Driven'
BY DEF Driven, EndOfFile, InList, lineVars, NothingPending, Reading, Expected, Returned,
       Sequence, ReadFirst, Compared, Succeeded

LEMMA EndOfArgumentsStep ==
  ASSUME Driven, EndOfArguments
  PROVE  Driven'
<1>1. CASE Binds(items)
  <2> DEFINE c == [said |-> said, inputs |-> Bound(items), streams |-> <<>>, value |-> 0]
  <2>1. /\ cases' = <<c>>
        /\ mode = "run" /\ phase' = "run"
        /\ UNCHANGED <<mode, items, open, left, got>>
    BY <1>1 DEF EndOfArguments, lineVars
  <2>2. c.value \in Int /\ c.streams \in Seq(Seq(Int))
    OBVIOUS
  <2> HIDE DEF c
  <2>3. Expected'
    BY <2>1, <2>2 DEF Expected, Sequence
  <2> QED
    BY <2>1, <2>3 DEF Driven, Reading, Returned, ReadFirst, Compared, Succeeded
<1>2. CASE ~Binds(items)
  BY <1>2, ExitStep DEF EndOfArguments
<1> QED
  BY <1>1, <1>2

LEMMA RunCaseStep ==
  ASSUME Driven, RunCase
  PROVE  Driven'
<1>1. \E r \in Runs : got' = Append(got, r)
  BY DEF RunCase, Runs
<1>2. Returned'
  BY <1>1 DEF Driven, Returned
<1>3. phase = "run" /\ UNCHANGED <<mode, phase, items, open, left, cases>>
  BY DEF RunCase, lineVars
<1> QED
  BY <1>2, <1>3 DEF Driven, Reading, Expected, Sequence, ReadFirst, NothingPending,
                   Compared, Succeeded

LEMMA FinishStep ==
  ASSUME Driven, Finish
  PROVE  Driven'
<1>1. /\ phase = "run" /\ phase' = "exit" /\ Len(got) = Len(cases)
      /\ UNCHANGED <<mode, items, open, left, cases, got>>
  BY DEF Finish, Exit, lineVars
<1>2. ASSUME status' = 0, mode = "test"
      PROVE  \A i \in DOMAIN got : Passed(cases[i], got[i])
  BY <1>2 DEF Finish, Exit
<1>3. Compared'
  BY <1>1, <1>2 DEF Driven, ReadFirst, NothingPending, Compared, Succeeded, Passed, SameValue, SameValues
<1> QED
  BY <1>1, <1>3 DEF Driven, Reading, Expected, Returned, Sequence, ReadFirst

LEMMA DrivenStep ==
  ASSUME Driven, [Next]_vars
  PROVE  Driven'
<1>1. CASE Malformed
  BY <1>1, ExitStep DEF Malformed
<1>2. CASE UNCHANGED vars
  BY <1>2 DEF vars, lineVars, Driven, Reading, Expected, Returned, Sequence, ReadFirst,
              NothingPending, Compared, Succeeded
<1> QED
  BY <1>1, <1>2, FrontEndStep, ReadWordStep, ArrowStep, EndOfLineStep, EndOfFileStep,
     EndOfArgumentsStep, RunCaseStep, FinishStep DEF Next

(* The line that is read, the cases that were read and the runs have their  *)
(* shapes, and nothing is run or answered too early (testfile.cpp, run.cpp).*)
THEOREM ReadBeforeRun == Spec => []Driven
<1>1. Init => Driven
  BY DrivenInit
<1>2. Driven /\ [Next]_vars => Driven'
  BY DrivenStep
<1> QED
  BY <1>1, <1>2, PTL DEF Spec

-----------------------------------------------------------------------------
(***************************************************************************)
(* What passes agrees with its line, value by value.                       *)
(***************************************************************************)
LEMMA PassedAgrees ==
  ASSUME NEW r \in Results, NEW c, Passed(c, <<r>>),
         c.value \in Int, c.streams \in Seq(Seq(Int))
  PROVE  /\ Agrees(r.value, c.value)
         /\ \A s \in DOMAIN c.streams :
              /\ s \in DOMAIN r.streams
              /\ Len(r.streams[s]) = Len(c.streams[s])
              /\ \A k \in DOMAIN r.streams[s] : Agrees(r.streams[s][k], c.streams[s][k])
<1>1. r.value \in Outcomes /\ r.streams \in Seq(Seq(Outcomes))
  BY DriverAssumption
<1>2. Agrees(r.value, c.value)
  BY <1>1, SameAgrees DEF Passed
<1>3. ASSUME NEW s \in DOMAIN c.streams
      PROVE  /\ s \in DOMAIN r.streams
             /\ Len(r.streams[s]) = Len(c.streams[s])
             /\ \A k \in DOMAIN r.streams[s] : Agrees(r.streams[s][k], c.streams[s][k])
  <2>1. s \in DOMAIN r.streams /\ SameValues(r.streams[s], c.streams[s])
    BY DEF Passed
  <2>2. r.streams[s] \in Seq(Outcomes) /\ c.streams[s] \in Seq(Int)
    BY <1>1, <2>1
  <2>3. Len(r.streams[s]) = Len(c.streams[s])
    BY <2>1 DEF SameValues
  <2>4. ASSUME NEW k \in DOMAIN r.streams[s]
        PROVE  Agrees(r.streams[s][k], c.streams[s][k])
    <3>1. r.streams[s][k] \in Outcomes /\ c.streams[s][k] \in Int
      BY <2>2, <2>3
    <3>2. SameValue(r.streams[s][k], c.streams[s][k])
      BY <2>1 DEF SameValues
    <3> QED
      BY <3>1, <3>2, SameAgrees
  <2> QED
    BY <2>1, <2>3, <2>4
<1> QED
  BY <1>2, <1>3

LEMMA DrivenAgrees == Driven => SuccessMeansAgreement
<1> SUFFICES ASSUME Driven, Succeeded
             PROVE  /\ Len(got) = Len(cases) /\ ~InList /\ items = <<>> /\ left = <<>>
                    /\ \A i \in DOMAIN cases :
                         /\ got[i] # <<>>
                         /\ Agrees(got[i][1].value, cases[i].value)
                         /\ \A s \in DOMAIN cases[i].streams :
                              /\ s \in DOMAIN got[i][1].streams
                              /\ Len(got[i][1].streams[s]) = Len(cases[i].streams[s])
                              /\ \A k \in DOMAIN got[i][1].streams[s] :
                                   Agrees(got[i][1].streams[s][k], cases[i].streams[s][k])
  BY DEF SuccessMeansAgreement
<1>1. Len(got) = Len(cases) /\ ~InList /\ items = <<>> /\ left = <<>>
  BY DEF Driven, Compared, NothingPending, InList
<1>2. ASSUME NEW i \in DOMAIN cases
      PROVE  \E r \in Results : got[i] = <<r>> /\ Passed(cases[i], <<r>>)
  <2>1. i \in DOMAIN got
    BY <1>1 DEF Driven, Expected, Returned, Sequence
  <2>2. got[i] \in Runs
    BY <2>1 DEF Driven, Returned
  <2>3. Passed(cases[i], got[i])
    BY <2>1 DEF Driven, Compared
  <2>4. got[i] # <<>>
    BY <2>3 DEF Passed
  <2> QED
    BY <2>2, <2>3, <2>4 DEF Runs
<1>3. ASSUME NEW i \in DOMAIN cases
      PROVE  /\ got[i] # <<>>
             /\ Agrees(got[i][1].value, cases[i].value)
             /\ \A s \in DOMAIN cases[i].streams :
                  /\ s \in DOMAIN got[i][1].streams
                  /\ Len(got[i][1].streams[s]) = Len(cases[i].streams[s])
                  /\ \A k \in DOMAIN got[i][1].streams[s] :
                       Agrees(got[i][1].streams[s][k], cases[i].streams[s][k])
  <2>1. PICK r \in Results : got[i] = <<r>> /\ Passed(cases[i], <<r>>)
    BY <1>2
  <2>2. cases[i].value \in Int /\ cases[i].streams \in Seq(Seq(Int))
    BY DEF Driven, Expected
  <2>3. got[i][1] = r /\ got[i] # <<>>
    BY <2>1
  <2> QED
    BY <2>1, <2>2, <2>3, PassedAgrees
<1> QED
  BY <1>1, <1>3

(* Success means that the whole file was read, and that every case ran and *)
(* put out what its line says (runTests).                                  *)
THEOREM SuccessIsAgreement == Spec => []SuccessMeansAgreement
BY ReadBeforeRun, DrivenAgrees, PTL

-----------------------------------------------------------------------------
(***************************************************************************)
(* The lexer: characters, runs of them, and what is a lexeme.              *)
(***************************************************************************)
LEMMA Classes ==
  /\ \A c \in IdentChars : c \notin Hashes /\ c \notin OneChar /\ c # "end"
  /\ \A c \in Hashes : c \notin IdentChars /\ c \notin OneChar /\ c # "end"
  /\ \A c \in OneChar : c \notin IdentChars /\ c \notin Hashes /\ c # "end"
  /\ IdentStart \subseteq IdentChars /\ Digits \subseteq IdentChars
  /\ "x" \in IdentChars /\ "b" \in IdentChars /\ "_" \in IdentChars
  /\ "/" \in OneChar /\ "end" \notin Blanks
  BY DEF IdentChars, IdentStart, Letters, Digits, Hashes, OneChar, Blanks

LEMMA NoNewline ==
  /\ \A c \in Hashes : c # "\n"
  /\ "end" # "\n"
  BY DEF Hashes

LEMMA Pairs == \A w \in TwoChars : Len(w) = 2 /\ w[1] \in OneChar
  BY DEF TwoChars, OneChar

LEMMA DigitsFacts ==
  /\ \A base : DigitsOf(base) \subseteq IdentChars
  /\ \A c \in Digits : c \in DigitsOf(10)
<1>1. DOMAIN DigitValue = Digits \cup {"b", "f"}
  BY DEF DigitValue
<1>2. \A base : DigitsOf(base) \subseteq IdentChars
  BY <1>1 DEF DigitsOf, IdentChars, IdentStart, Letters
<1>3. DigitValue["0"] = 0 /\ DigitValue["1"] = 1 /\ DigitValue["9"] = 9
  BY DEF DigitValue, Digits
<1>4. \A c \in Digits : DigitValue[c] < 10
  BY <1>3 DEF Digits
<1> QED
  BY <1>1, <1>2, <1>4 DEF DigitsOf

Slice(t, i, j) == SubSeq(t, i, j - 1)

Sliced(s, t, i, j) ==
  /\ Len(s) = j - i /\ DOMAIN s = 1 .. j - i
  /\ \A k \in 1 .. j - i : s[k] = t[i + k - 1]
  /\ Strings!ToSet(s) = {t[k] : k \in i .. j - 1}

LEMMA Slices ==
  ASSUME NEW A, NEW t \in Seq(A), NEW i \in 1 .. Len(t) + 1, NEW j \in i .. Len(t) + 1
  PROVE  Sliced(Slice(t, i, j), t, i, j)
<1> DEFINE s == Slice(t, i, j)
           f == [k \in 1 .. j - i |-> t[i + k - 1]]
<1>1. i \in Nat \ {0} /\ j \in Nat /\ j - i \in Nat /\ j - 1 <= Len(t) /\ j - 1 - i + 1 = j - i
  OBVIOUS
<1>2. \A k \in 1 .. j - i : i + k - 1 \in 1 .. Len(t)
  BY <1>1
<1>3. s = f
  BY <1>1, <1>2 DEF Slice
<1>4. \A k \in 1 .. j - i : t[i + k - 1] \in A
  BY <1>2
<1>5. f \in Seq(A) /\ Len(f) = j - i /\ DOMAIN f = 1 .. j - i
  BY <1>1, <1>4
<1>6. \A k \in 1 .. j - i : f[k] = t[i + k - 1]
  OBVIOUS
<1> HIDE DEF s, f
<1>7. Strings!ToSet(s) = {t[k] : k \in i .. j - 1}
  <2>1. Strings!ToSet(s) = {s[k] : k \in 1 .. j - i}
    BY <1>3, <1>5 DEF Strings!ToSet
  <2>2. \A k \in 1 .. j - i : i + k - 1 \in i .. j - 1
    BY <1>1
  <2>3. \A k \in i .. j - 1 : k - i + 1 \in 1 .. j - i /\ i + (k - i + 1) - 1 = k
    BY <1>1
  <2>4. \A k \in 1 .. j - i : s[k] = t[i + k - 1]
    BY <1>3, <1>6
  <2>5. \A k \in 1 .. j - i : \E m \in i .. j - 1 : s[k] = t[m]
    BY <2>2, <2>4, Zenon
  <2>6. \A k \in i .. j - 1 : \E m \in 1 .. j - i : t[k] = s[m]
    <3> TAKE k \in i .. j - 1
    <3> DEFINE m == k - i + 1
    <3>1. m \in 1 .. j - i /\ i + m - 1 = k
      BY <2>3
    <3> HIDE DEF m
    <3> QED
      BY <2>4, <3>1
  <2>7. \A x : x \in Strings!ToSet(s) <=> \E k \in 1 .. j - i : x = s[k]
    BY <2>1
  <2>8. \A x : x \in {t[k] : k \in i .. j - 1} <=> \E k \in i .. j - 1 : x = t[k]
    OBVIOUS
  <2> DEFINE P == Strings!ToSet(s)
             Q == {t[k] : k \in i .. j - 1}
  <2>9. \A x : x \in P <=> x \in Q
    <3>1. ASSUME NEW x, x \in P PROVE x \in Q
      BY <2>5, <2>7, <2>8, <3>1, Zenon
    <3>2. ASSUME NEW x, x \in Q PROVE x \in P
      BY <2>6, <2>7, <2>8, <3>2, Zenon
    <3> QED
      BY <3>1, <3>2
  <2> HIDE DEF P, Q
  <2>10. P = Q
    BY <2>9
  <2> QED
    BY <2>10 DEF P, Q
<1> QED
  <2>1. Sliced(s, t, i, j)
    BY <1>3, <1>5, <1>6, <1>7 DEF Sliced
  <2> QED
    BY <2>1 DEF s
-----------------------------------------------------------------------------
(***************************************************************************)
(* A place in the text, a stretch that is a lexeme or a step over trivia,  *)
(* without the slices they are said of.                                    *)
(***************************************************************************)
CharAt(t, i) == IF i <= Len(t) THEN t[i] ELSE "end"

LexemeSpan(t, i, j) ==
  \/ t[i] \in IdentChars /\ \A k \in i .. j - 1 : t[k] \in IdentChars
  \/ t[i] \in Hashes /\ \A k \in i .. j - 1 : t[k] # "\n"
  \/ j = i + 2 /\ <<t[i], t[i + 1]>> \in TwoChars
  \/ j = i + 1 /\ t[i] \in OneChar

\* A block comment closes at k.
Closes(t, k) == t[k] = "*" /\ t[k + 1] = "/"

LineSpan(t, i, j) ==
  /\ j >= i + 2 /\ t[i] = "/" /\ t[i + 1] = "/"
  /\ \A k \in i .. j - 1 : t[k] # "\n"
  /\ CharAt(t, j) \in {"\n", "end"}

ClosedSpan(t, i, j) ==
  /\ j >= i + 4 /\ t[i] = "/" /\ t[i + 1] = "*"
  /\ Closes(t, j - 2)
  /\ \A k \in i + 2 .. j - 3 : ~Closes(t, k)

OpenSpan(t, R, i, j) ==
  /\ j >= i + 2 /\ t[i] = "/" /\ t[i + 1] = "*"
  /\ \A k \in i + 2 .. j - 2 : ~Closes(t, k)
  /\ CharAt(t, j) = "end"
  /\ [from |-> i, to |-> i + 2] \in R

CommentSpan(t, R, i, j) == LineSpan(t, i, j) \/ ClosedSpan(t, i, j) \/ OpenSpan(t, R, i, j)

StepOver(t, R, m, k) ==
  \/ CommentSpan(t, R, m, k)
  \/ k = m + 1 /\ t[m] \in Blanks
  \/ k = m + 1 /\ t[m] \notin Known /\ [from |-> m, to |-> k] \in R

LEMMA IsLexemeSpan ==
  ASSUME NEW A, text \in Seq(A), NEW i \in 1 .. Len(text) + 1, NEW j \in i + 1 .. Len(text) + 1
  PROVE  IsLexeme(Part(i, j)) <=> LexemeSpan(text, i, j)
<1> DEFINE s == Slice(text, i, j)
<1>0. Len(text) \in Nat
  OBVIOUS
<1>1. j \in i .. Len(text) + 1 /\ j - i \in Nat /\ j - i >= 1 /\ i \in Nat /\ j \in Nat
  BY <1>0
<1>2. Sliced(s, text, i, j)
  BY <1>0, Slices
<1>3. Part(i, j) = s
  BY DEF Part, Slice
<1>3a. s \in Seq(A)
  BY <1>1 DEF Slice
<1> HIDE DEF s
<1> USE DEF Sliced
<1>4. s[1] = text[i]
  <2>1. 1 \in 1 .. j - i /\ i + 1 - 1 = i
    BY <1>1
  <2> QED
    BY <1>2, <2>1
<1>5. j - i >= 2 => s[2] = text[i + 1]
  <2>1. j - i >= 2 => 2 \in 1 .. j - i /\ i + 2 - 1 = i + 1
    BY <1>1
  <2> QED
    BY <1>2, <2>1
<1>6. s \in TwoChars <=> j = i + 2 /\ <<text[i], text[i + 1]>> \in TwoChars
  <2>1. s \in TwoChars => j - i = 2
    BY <1>2, Pairs
  <2>2. j = i + 2 <=> j - i = 2
    BY <1>1
  <2>3. j - i = 2 => s = <<s[1], s[2]>>
    BY <1>2, <1>3a
  <2>4. CASE j - i = 2
    <3>1. s = <<text[i], text[i + 1]>>
      BY <1>4, <1>5, <2>3, <2>4
    <3> QED
      BY <2>2, <2>4, <3>1
  <2>5. CASE j - i # 2
    BY <2>1, <2>2, <2>5
  <2> QED
    BY <2>4, <2>5
<1>7. Len(s) = 1 <=> j = i + 1
  BY <1>1, <1>2
<1>8. Strings!ToSet(s) \subseteq IdentChars <=> \A k \in i .. j - 1 : text[k] \in IdentChars
  BY <1>2
<1>9. "\n" \notin Strings!ToSet(s) <=> \A k \in i .. j - 1 : text[k] # "\n"
  BY <1>2
<1>10. IdentStart \cup Digits = IdentChars
  BY DEF IdentChars
<1> QED
  BY <1>3, <1>4, <1>6, <1>7, <1>8, <1>9, <1>10 DEF IsLexeme, LexemeSpan

LEMMA IsCommentSpan ==
  ASSUME NEW A, text \in Seq(A), NEW i \in 1 .. Len(text) + 1, NEW j \in i .. Len(text) + 1
  PROVE  /\ CommentSpan(text, Strings!ToSet(reports), i, j) => IsComment(i, j)
         /\ IsComment(i, j) => j >= i + 2 /\ text[i] = "/" /\ text[i + 1] \in {"/", "*"}
<1> DEFINE s == Slice(text, i, j)
           closed == {k \in 3 .. Len(s) - 1 : s[k] = "*" /\ s[k + 1] = "/"}
<1>0. Len(text) \in Nat
  OBVIOUS
<1>1. j - i \in Nat /\ i \in Nat /\ j \in Nat
  BY <1>0
<1>2. Sliced(s, text, i, j)
  BY <1>0, Slices
<1>3. IsComment(i, j) <=>
        /\ Len(s) >= 2 /\ s[1] = "/"
        /\ \/ s[2] = "/" /\ "\n" \notin Strings!ToSet(s) /\ At(j) \in {"\n", "end"}
           \/ s[2] = "*" /\ closed = {Len(s) - 1}
           \/ s[2] = "*" /\ closed = {} /\ At(j) = "end" /\ Reported(i, i + 2)
  BY DEF IsComment, Part, Slice
<1> HIDE DEF s
<1> USE DEF Sliced
<1>4. Len(s) >= 2 => s[1] = text[i] /\ s[2] = text[i + 1]
  <2>1. j - i >= 2 => 1 \in 1 .. j - i /\ 2 \in 1 .. j - i /\ i + 1 - 1 = i /\ i + 2 - 1 = i + 1
    BY <1>1
  <2> QED
    BY <1>2, <2>1
<1>5. Len(s) >= 2 <=> j >= i + 2
  BY <1>1, <1>2
<1>6. \A k \in 3 .. Len(s) - 1 : s[k] = text[i + k - 1] /\ s[k + 1] = text[i + k]
  <2> TAKE k \in 3 .. Len(s) - 1
  <2>1. k \in 1 .. j - i /\ k + 1 \in 1 .. j - i /\ i + (k + 1) - 1 = i + k
    BY <1>1, <1>2
  <2> QED
    BY <1>2, <2>1
<1>7. \A k \in 3 .. Len(s) - 1 : k \in closed <=> Closes(text, i + k - 1)
  <2> TAKE k \in 3 .. Len(s) - 1
  <2>1. (i + k - 1) + 1 = i + k
    BY <1>1
  <2> QED
    BY <1>6, <2>1 DEF Closes
<1>8. "\n" \notin Strings!ToSet(s) <=> \A k \in i .. j - 1 : text[k] # "\n"
  BY <1>2
<1>9. At(j) = CharAt(text, j)
  BY DEF At, CharAt
<1>10. closed \subseteq 3 .. Len(s) - 1
  OBVIOUS
<1> HIDE DEF closed
<1>11. LineSpan(text, i, j) => IsComment(i, j)
  BY <1>3, <1>4, <1>5, <1>8, <1>9 DEF LineSpan
<1>12. ClosedSpan(text, i, j) => IsComment(i, j)
  <2> SUFFICES ASSUME ClosedSpan(text, i, j) PROVE IsComment(i, j)
    OBVIOUS
  <2>1. j >= i + 4 /\ Closes(text, j - 2) /\ \A k \in i + 2 .. j - 3 : ~Closes(text, k)
    BY DEF ClosedSpan
  <2>2. Len(s) - 1 \in 3 .. Len(s) - 1 /\ i + (Len(s) - 1) - 1 = j - 2
    <3>1. Len(s) = j - i
      BY <1>2
    <3> HIDE DEF Sliced
    <3> QED
      BY <1>1, <2>1, <3>1
  <2>3. Len(s) - 1 \in closed
    BY <1>7, <2>1, <2>2
  <2>4. ASSUME NEW k \in closed PROVE k = Len(s) - 1
    <3>1. k \in 3 .. Len(s) - 1 /\ Closes(text, i + k - 1)
      BY <1>7, <1>10
    <3>2. i + k - 1 \notin i + 2 .. j - 3
      BY <2>1, <3>1
    <3> QED
      BY <1>1, <1>2, <3>1, <3>2
  <2>5. closed = {Len(s) - 1}
    BY <2>3, <2>4
  <2> QED
    BY <1>1, <1>3, <1>4, <1>5, <2>1, <2>5 DEF ClosedSpan
<1>13. OpenSpan(text, Strings!ToSet(reports), i, j) => IsComment(i, j)
  <2> SUFFICES ASSUME OpenSpan(text, Strings!ToSet(reports), i, j) PROVE IsComment(i, j)
    OBVIOUS
  <2>1. \A k \in i + 2 .. j - 2 : ~Closes(text, k)
    BY DEF OpenSpan
  <2>2. ASSUME NEW k \in closed PROVE FALSE
    <3>1. k \in 3 .. Len(s) - 1 /\ Closes(text, i + k - 1)
      BY <1>7, <1>10, <2>2
    <3>2. i + k - 1 \in i + 2 .. j - 2
      BY <1>1, <1>2, <3>1
    <3> QED
      BY <2>1, <3>1, <3>2
  <2>3. closed = {}
    BY <2>2
  <2>4. Reported(i, i + 2)
    BY DEF OpenSpan, Reported
  <2> QED
    BY <1>3, <1>4, <1>5, <1>9, <2>3, <2>4 DEF OpenSpan
<1>14. IsComment(i, j) => j >= i + 2 /\ text[i] = "/" /\ text[i + 1] \in {"/", "*"}
  BY <1>3, <1>4, <1>5
<1> QED
  BY <1>11, <1>12, <1>13, <1>14 DEF CommentSpan
-----------------------------------------------------------------------------
(***************************************************************************)
(* From i to j by steps of W: a set of places that each have their step.   *)
(* It is what the recursion over places decides.                           *)
(***************************************************************************)
Path(W, i, j, S) ==
  /\ S \subseteq i .. j /\ j \in S
  /\ \A k \in S : k = i \/ \E m \in S : m < k /\ <<m, k>> \in W

Linked(W, i, j) == \E S \in SUBSET (i .. j) : Path(W, i, j, S)

LEMMA LinkedStart == ASSUME NEW W, NEW i \in Nat PROVE Linked(W, i, i)
<1>1. Path(W, i, i, {i}) /\ {i} \in SUBSET (i .. i)
  BY DEF Path
<1> QED
  BY <1>1 DEF Linked

LEMMA LinkedMore ==
  ASSUME NEW W, NEW i \in Nat, NEW j \in Nat, NEW k \in Nat, j < k,
         Linked(W, i, j), <<j, k>> \in W
  PROVE  Linked(W, i, k)
<1>1. PICK S \in SUBSET (i .. j) : Path(W, i, j, S)
  BY DEF Linked
<1> DEFINE Q == S \cup {k}
<1>2. S \subseteq i .. j /\ j \in S
  BY <1>1 DEF Path
<1>3. i <= j
  BY <1>2
<1>4. Q \subseteq i .. k /\ k \in Q
  <2>1. k \in i .. k
    BY <1>3
  <2>2. \A x \in S : x \in i .. k
    BY <1>2
  <2> QED
    BY <2>1, <2>2
<1>5. ASSUME NEW x \in Q
      PROVE  x = i \/ \E m \in Q : m < x /\ <<m, x>> \in W
  <2>1. CASE x = k
    BY <1>2, <2>1
  <2>2. CASE x \in S
    BY <1>1, <2>2 DEF Path
  <2> QED
    BY <2>1, <2>2
<1> HIDE DEF Q
<1>6. Path(W, i, k, Q)
  BY <1>4, <1>5 DEF Path
<1> QED
  BY <1>4, <1>6 DEF Linked

LEMMA LinkedLess ==
  ASSUME NEW W, NEW i \in Nat, NEW j \in Nat, Linked(W, i, j), j # i
  PROVE  \E m \in i .. j - 1 : Linked(W, i, m) /\ <<m, j>> \in W
<1>1. PICK S \in SUBSET (i .. j) : Path(W, i, j, S)
  BY DEF Linked
<1>2. PICK m \in S : m < j /\ <<m, j>> \in W
  BY <1>1 DEF Path
<1> DEFINE Q == {k \in S : k <= m}
<1>3. m \in i .. j - 1
  BY <1>2
<1>4. Q \in SUBSET (i .. m) /\ m \in Q
  <2>1. m \in Q /\ m \in Int
    BY <1>3
  <2>2. \A k \in S : k <= m => k \in i .. m
    BY <2>1
  <2> QED
    BY <2>1, <2>2
<1>5. ASSUME NEW x \in Q
      PROVE  x = i \/ \E y \in Q : y < x /\ <<y, x>> \in W
  <2>1. x \in S /\ x <= m
    OBVIOUS
  <2>2. CASE x = i
    BY <2>2
  <2>3. CASE x # i
    <3>1. PICK y \in S : y < x /\ <<y, x>> \in W
      BY <1>1, <2>1, <2>3 DEF Path
    <3>2. y <= m
      BY <2>1, <3>1, <1>3
    <3> QED
      BY <3>1, <3>2
  <2> QED
    BY <2>2, <2>3
<1> HIDE DEF Q
<1>6. Path(W, i, m, Q)
  BY <1>4, <1>5 DEF Path
<1> QED
  BY <1>2, <1>3, <1>4, <1>6 DEF Linked

LEMMA LinkedWider ==
  ASSUME NEW V, NEW W, NEW i, NEW j, Linked(V, i, j),
         \A m, k \in i .. j : <<m, k>> \in V => <<m, k>> \in W
  PROVE  Linked(W, i, j)
<1>1. PICK S \in SUBSET (i .. j) : Path(V, i, j, S)
  BY DEF Linked
<1>2. Path(W, i, j, S)
  BY <1>1 DEF Path
<1> QED
  BY <1>2 DEF Linked

\* What the recursion says of each place.
Decides(f, W, i, j) ==
  \A k \in i .. j : f[k] <=> (k = i \/ \E m \in i .. k - 1 : f[m] /\ <<m, k>> \in W)

LEMMA LinkedDecided ==
  ASSUME NEW f, NEW W, NEW i \in Nat, NEW j \in Nat, Decides(f, W, i, j), Linked(W, i, j)
  PROVE  f[j]
<1>1. PICK S \in SUBSET (i .. j) : Path(W, i, j, S)
  BY DEF Linked
<1> DEFINE T == {k \in S : ~f[k]}
<1>2. T # {} => FALSE
  <2> SUFFICES ASSUME T # {} PROVE FALSE
    OBVIOUS
  <2>1. T \subseteq Nat
    <3>1. S \subseteq Nat
      OBVIOUS
    <3> QED
      BY <3>1
  <2>2. PICK k \in T : \A y \in T : k <= y
    BY <2>1, LeastNumber
  <2>3. k \in S /\ ~f[k] /\ k \in i .. j
    BY <2>2
  <2>4. k # i
    BY <2>3 DEF Decides
  <2>5. PICK m \in S : m < k /\ <<m, k>> \in W
    BY <1>1, <2>3, <2>4 DEF Path
  <2>6. f[m]
    BY <2>2, <2>3, <2>5
  <2>7. m \in i .. k - 1
    BY <2>3, <2>5
  <2> QED
    BY <2>3, <2>5, <2>6, <2>7 DEF Decides
<1> QED
  BY <1>1, <1>2 DEF Path

\* There is a function the recursion describes.
LEMMA LinkedDecides ==
  ASSUME NEW W, NEW i \in Nat, NEW j \in Nat
  PROVE  Decides([k \in i .. j |-> Linked(W, i, k)], W, i, j)
<1> DEFINE f == [k \in i .. j |-> Linked(W, i, k)]
<1>1. ASSUME NEW k \in i .. j
      PROVE  Linked(W, i, k) <=> (k = i \/ \E m \in i .. k - 1 : Linked(W, i, m) /\ <<m, k>> \in W)
  <2>1. k \in Nat
    OBVIOUS
  <2>2. k = i => Linked(W, i, k)
    BY LinkedStart
  <2>3. ASSUME NEW m \in i .. k - 1, Linked(W, i, m), <<m, k>> \in W PROVE Linked(W, i, k)
    <3>1. m \in Nat /\ m < k
      BY <2>1
    <3> QED
      BY <2>1, <2>3, <3>1, LinkedMore
  <2>4. Linked(W, i, k) /\ k # i => \E m \in i .. k - 1 : Linked(W, i, m) /\ <<m, k>> \in W
    BY <2>1, LinkedLess
  <2> QED
    BY <2>2, <2>3, <2>4
<1>2. \A k \in i .. j : f[k] = Linked(W, i, k)
  OBVIOUS
<1>3. \A k \in i .. j : \A m \in i .. k - 1 : m \in i .. j
  OBVIOUS
<1> HIDE DEF f
<1>4. Decides(f, W, i, j)
  <2> SUFFICES ASSUME NEW k \in i .. j
               PROVE  f[k] <=> (k = i \/ \E m \in i .. k - 1 : f[m] /\ <<m, k>> \in W)
    BY DEF Decides
  <2>1. \A m \in i .. k - 1 : f[m] = Linked(W, i, m)
    BY <1>2, <1>3
  <2> QED
    BY <1>1, <1>2, <2>1
<1> QED
  BY <1>4 DEF f
-----------------------------------------------------------------------------
(***************************************************************************)
(* Trivia by steps.                                                        *)
(***************************************************************************)
TriviaStep(m, k) ==
  \/ IsComment(m, k)
  \/ k = m + 1 /\ text[m] \in Blanks
  \/ k = m + 1 /\ text[m] \notin Known /\ Reported(m, k)

TriviaSteps(i, j) == {p \in (i .. j) \X (i .. j) : TriviaStep(p[1], p[2])}

TriviaRule(f, i, j) ==
  f = [k \in i .. j |-> k = i \/ \E m \in i .. k - 1 : f[m] /\ TriviaStep(m, k)]

LEMMA TriviaRuleExists ==
  ASSUME NEW i \in Nat, NEW j \in Nat
  PROVE  \E f : TriviaRule(f, i, j)
<1> DEFINE W == TriviaSteps(i, j)
           f == [k \in i .. j |-> Linked(W, i, k)]
<1>1. Decides(f, W, i, j)
  BY LinkedDecides
<1>2. \A k \in i .. j : \A m \in i .. k - 1 : <<m, k>> \in W <=> TriviaStep(m, k)
  <2> TAKE k \in i .. j
  <2> TAKE m \in i .. k - 1
  <2>1. m \in i .. j
    OBVIOUS
  <2> QED
    BY <2>1 DEF TriviaSteps
<1>3. f = [k \in i .. j |-> f[k]] /\ \A k \in i .. j : f[k] \in BOOLEAN
  BY DEF Linked
<1> HIDE DEF f, W
<1>4. \A k \in i .. j : f[k] = (k = i \/ \E m \in i .. k - 1 : f[m] /\ TriviaStep(m, k))
  BY <1>1, <1>2, <1>3 DEF Decides
<1>5. TriviaRule(f, i, j)
  BY <1>3, <1>4 DEF TriviaRule
<1> QED
  BY <1>5

LEMMA TriviaLinked ==
  ASSUME NEW i \in Nat, NEW j \in Nat, Linked(TriviaSteps(i, j), i, j)
  PROVE  IsTrivia(i, j)
<1> DEFINE f == CHOOSE g : TriviaRule(g, i, j)
<1>1. TriviaRule(f, i, j)
  BY TriviaRuleExists
<1>2. IsTrivia(i, j) <=> f[j]
  BY DEF IsTrivia, TriviaRule, TriviaStep
<1> HIDE DEF f
<1>3. \A k \in i .. j : \A m \in i .. k - 1 : <<m, k>> \in TriviaSteps(i, j) <=> TriviaStep(m, k)
  <2> TAKE k \in i .. j
  <2> TAKE m \in i .. k - 1
  <2>1. m \in i .. j
    OBVIOUS
  <2> QED
    BY <2>1 DEF TriviaSteps
<1>4. \A k \in i .. j : f[k] = (k = i \/ \E m \in i .. k - 1 : f[m] /\ TriviaStep(m, k))
  BY <1>1 DEF TriviaRule
<1>5. Decides(f, TriviaSteps(i, j), i, j)
  <2> SUFFICES ASSUME NEW k \in i .. j
               PROVE  f[k] <=> (k = i \/ \E m \in i .. k - 1 : f[m] /\ <<m, k>> \in TriviaSteps(i, j))
    BY DEF Decides
  <2>1. f[k] <=> (k = i \/ \E m \in i .. k - 1 : f[m] /\ TriviaStep(m, k))
    BY <1>4
  <2>2. \A m \in i .. k - 1 : <<m, k>> \in TriviaSteps(i, j) <=> TriviaStep(m, k)
    BY <1>3
  <2> HIDE DEF f
  <2> QED
    BY <2>1, <2>2, Zenon
<1>6. f[j]
  BY <1>5, LinkedDecided
<1> QED
  BY <1>2, <1>6

\* The steps over trivia in a text, given what was reported.
StepsOver(t, R) ==
  {p \in (1 .. Len(t) + 1) \X (1 .. Len(t) + 1) : p[1] < p[2] /\ StepOver(t, R, p[1], p[2])}

LEMMA TriviaStepsOver ==
  ASSUME NEW A, text \in Seq(A), NEW i \in 1 .. Len(text) + 1, NEW j \in 1 .. Len(text) + 1,
         Linked(StepsOver(text, Strings!ToSet(reports)), i, j)
  PROVE  IsTrivia(i, j)
<1> DEFINE V == StepsOver(text, Strings!ToSet(reports))
<1>0. Len(text) \in Nat
  OBVIOUS
<1>1. i \in Nat /\ j \in Nat
  BY <1>0
<1>2. ASSUME NEW m \in i .. j, NEW k \in i .. j, <<m, k>> \in V
      PROVE  <<m, k>> \in TriviaSteps(i, j)
  <2>1. /\ m \in 1 .. Len(text) + 1 /\ k \in 1 .. Len(text) + 1 /\ m < k
        /\ StepOver(text, Strings!ToSet(reports), m, k)
    BY <1>2 DEF StepsOver
  <2>2. k \in m .. Len(text) + 1
    BY <1>0, <2>1
  <2>3. CommentSpan(text, Strings!ToSet(reports), m, k) => IsComment(m, k)
    BY <2>1, <2>2, IsCommentSpan
  <2>4. TriviaStep(m, k)
    BY <2>1, <2>3 DEF StepOver, TriviaStep, Reported
  <2> QED
    BY <2>4 DEF TriviaSteps
<1> HIDE DEF V
<1>3. Linked(V, i, j)
  BY DEF V
<1>4. Linked(TriviaSteps(i, j), i, j)
  BY <1>2, <1>3, LinkedWider
<1> QED
  BY <1>1, <1>4, TriviaLinked

-----------------------------------------------------------------------------
(***************************************************************************)
(* The end of a run of characters, which the search for it finds.          *)
(***************************************************************************)
EndsRun(i, S, j) ==
  /\ j \in i .. Len(text) + 1 /\ At(j) \notin S
  /\ \A k \in i .. j - 1 : text[k] \in S

LEMMA RunIs ==
  ASSUME NEW A, text \in Seq(A), NEW i \in 1 .. Len(text) + 1, NEW S, "end" \notin S
  PROVE  EndsRun(i, S, RunEnd(i, S))
<1> DEFINE T == {j \in i .. Len(text) + 1 : At(j) \notin S}
<1>0. Len(text) \in Nat
  OBVIOUS
<1>1. Len(text) + 1 \in T
  BY <1>0 DEF At
<1>2. T \subseteq Nat /\ T # {}
  BY <1>0, <1>1
<1>3. PICK j \in T : \A y \in T : j <= y
  BY <1>2, LeastNumber
<1>4. j \in i .. Len(text) + 1 /\ At(j) \notin S
  BY <1>3
<1>5. ASSUME NEW k \in i .. j - 1 PROVE text[k] \in S
  <2>1. k \in i .. Len(text) + 1 /\ k <= Len(text) /\ ~(j <= k)
    BY <1>0, <1>4
  <2>2. k \notin T
    BY <1>3, <2>1
  <2>3. At(k) \in S
    BY <2>1, <2>2
  <2> QED
    BY <2>1, <2>3 DEF At
<1>6. EndsRun(i, S, j)
  BY <1>4, <1>5 DEF EndsRun
<1>7. RunEnd(i, S) = CHOOSE e \in i .. Len(text) + 1 :
                       At(e) \notin S /\ \A k \in i .. e - 1 : text[k] \in S
  BY DEF RunEnd
<1>8. \E e \in i .. Len(text) + 1 : At(e) \notin S /\ \A k \in i .. e - 1 : text[k] \in S
  BY <1>6 DEF EndsRun
<1>9. /\ RunEnd(i, S) \in i .. Len(text) + 1 /\ At(RunEnd(i, S)) \notin S
      /\ \A k \in i .. RunEnd(i, S) - 1 : text[k] \in S
  BY <1>7, <1>8, Zenon
<1> QED
  BY <1>9 DEF EndsRun
-----------------------------------------------------------------------------
(***************************************************************************)
(* What a token is, and the invariant: the tokens and what lies between    *)
(* them are the text up to the next character.                             *)
(***************************************************************************)
Longest(t, i, j) ==
  /\ i < j /\ LexemeSpan(t, i, j)
  /\ \A k \in j + 1 .. Len(t) + 1 : ~LexemeSpan(t, i, k)
  /\ ~(i < Len(t) /\ t[i] = "/" /\ t[i + 1] \in {"/", "*"})

TokenAt(t, kind, i, j) == IF kind = "Eof" THEN i = Len(t) + 1 ELSE Longest(t, i, j)

Stands(t, R, from, x) ==
  /\ x.from \in 1 .. Len(t) + 1 /\ x.to \in x.from .. Len(t) + 1
  /\ Linked(StepsOver(t, R), from, x.from)
  /\ TokenAt(t, x.kind, x.from, x.to)

\* Where what precedes the i-th token ends.
After(ts, i) == IF i = 1 THEN 1 ELSE ts[i - 1].to

Tiled(t, R, ts) == \A i \in 1 .. Len(ts) : Stands(t, R, After(ts, i), ts[i])

LexInv ==
  /\ text \in Seq(Alphabet) /\ pos \in 1 .. Len(text) + 1
  /\ Sequence(tokens) /\ Sequence(reports)
  /\ Tiled(text, Strings!ToSet(reports), tokens)
  /\ After(tokens, Len(tokens) + 1) \in 1 .. pos
  /\ Linked(StepsOver(text, Strings!ToSet(reports)), After(tokens, Len(tokens) + 1), pos)

LEMMA LexInvInit == LexInit => LexInv
<1> SUFFICES ASSUME LexInit PROVE LexInv
  OBVIOUS
<1>1. pos = 1 /\ tokens = <<>> /\ reports = <<>> /\ text \in Strings!BoundedSeq(Alphabet, MaxLength)
  BY DEF LexInit
<1>2. text \in Seq(Alphabet)
  <2>1. PICK n \in 0 .. MaxLength : text \in [1 .. n -> Alphabet]
    BY <1>1 DEF Strings!BoundedSeq, Strings!SeqOf
  <2> QED
    BY <2>1
<1>3. Len(text) \in Nat /\ pos \in 1 .. Len(text) + 1
  BY <1>1, <1>2
<1>4. Sequence(tokens) /\ Sequence(reports) /\ Len(tokens) = 0
  BY <1>1, EmptySequence
<1>5. Tiled(text, Strings!ToSet(reports), tokens)
  BY <1>4 DEF Tiled
<1>6. After(tokens, Len(tokens) + 1) = 1
  BY <1>4 DEF After
<1>7. Linked(StepsOver(text, Strings!ToSet(reports)), 1, pos)
  BY <1>1, LinkedStart
<1> QED
  BY <1>1, <1>2, <1>3, <1>4, <1>5, <1>6, <1>7 DEF LexInv

\* With more reported, what was stepped over still is.
LEMMA StepsKept ==
  ASSUME NEW t, NEW R, NEW Q, R \subseteq Q, NEW i, NEW j, Linked(StepsOver(t, R), i, j)
  PROVE  Linked(StepsOver(t, Q), i, j)
<1>1. \A m, k : StepOver(t, R, m, k) => StepOver(t, Q, m, k)
  BY DEF StepOver, CommentSpan, OpenSpan
<1>2. \A m, k : <<m, k>> \in StepsOver(t, R) => <<m, k>> \in StepsOver(t, Q)
  BY <1>1 DEF StepsOver
<1> QED
  BY <1>2, LinkedWider

LEMMA TiledKept ==
  ASSUME NEW t, NEW R, NEW Q, R \subseteq Q, NEW ts, Tiled(t, R, ts)
  PROVE  Tiled(t, Q, ts)
BY StepsKept DEF Tiled, Stands

\* An action reports at most once.
Reporting == UNCHANGED reports \/ \E i, j : Report(i, j)

LEMMA ReportsGrow ==
  ASSUME Sequence(reports), Reporting
  PROVE  /\ Sequence(reports)'
         /\ Strings!ToSet(reports) \subseteq Strings!ToSet(reports')
         /\ \A i, j : Report(i, j) => [from |-> i, to |-> j] \in Strings!ToSet(reports')
<1>1. ASSUME NEW x, reports' = Append(reports, x)
      PROVE  /\ Sequence(reports)' /\ x \in Strings!ToSet(reports')
             /\ Strings!ToSet(reports) \subseteq Strings!ToSet(reports')
  <2>1. /\ Sequence(reports')
        /\ DOMAIN reports = 1 .. Len(reports) /\ Len(reports) \in Nat
        /\ DOMAIN reports' = 1 .. Len(reports) + 1
        /\ \A i \in 1 .. Len(reports) : reports'[i] = reports[i]
        /\ reports'[Len(reports) + 1] = x
    BY <1>1, SequenceAppend
  <2>2. Sequence(reports)'
    BY <2>1 DEF Sequence
  <2>3. \A i \in DOMAIN reports : i \in DOMAIN reports' /\ reports'[i] = reports[i]
    BY <2>1
  <2>4. Len(reports) + 1 \in DOMAIN reports'
    BY <2>1
  <2> QED
    BY <2>1, <2>2, <2>3, <2>4 DEF Strings!ToSet
<1>2. CASE UNCHANGED reports
  <2>1. Sequence(reports)' /\ Strings!ToSet(reports') = Strings!ToSet(reports)
    BY <1>2 DEF Sequence, Strings!ToSet
  <2> QED
    BY <1>1, <2>1 DEF Report
<1>3. CASE \E i, j : Report(i, j)
  BY <1>1, <1>3 DEF Report
<1> QED
  BY <1>2, <1>3 DEF Reporting

\* A step over trivia.
LEMMA SkipKeeps ==
  ASSUME LexInv, Reporting, NEW to \in 1 .. Len(text) + 1, pos < to, Skip(to),
         StepOver(text, Strings!ToSet(reports'), pos, to)
  PROVE  LexInv'
<1> DEFINE R == Strings!ToSet(reports)
           Q == Strings!ToSet(reports')
           from == After(tokens, Len(tokens) + 1)
<1>1. pos' = to /\ text' = text /\ tokens' = tokens
  BY DEF Skip
<1>2. /\ text \in Seq(Alphabet) /\ pos \in 1 .. Len(text) + 1 /\ Sequence(tokens)
      /\ Tiled(text, R, tokens) /\ from \in 1 .. pos
      /\ Linked(StepsOver(text, R), from, pos)
  BY DEF LexInv
<1>3. Sequence(reports)' /\ R \subseteq Q
  BY ReportsGrow DEF LexInv
<1> HIDE DEF R, Q, from
<1>4. Tiled(text, Q, tokens)
  BY <1>2, <1>3, TiledKept
<1>5. Linked(StepsOver(text, Q), from, pos)
  BY <1>2, <1>3, StepsKept
<1>6. <<pos, to>> \in StepsOver(text, Q)
  BY <1>2 DEF StepsOver, Q
<1>7. from \in Nat /\ pos \in Nat /\ to \in Nat /\ from \in 1 .. to
  BY <1>2
<1>8. Linked(StepsOver(text, Q), from, to)
  BY <1>5, <1>6, <1>7, LinkedMore
<1>9. from' = from
  BY <1>1 DEF from
<1>10. /\ text' \in Seq(Alphabet) /\ pos' \in 1 .. Len(text') + 1
       /\ Sequence(tokens') /\ Sequence(reports')
  BY <1>1, <1>2, <1>3 DEF Sequence
<1> QED
  BY <1>1, <1>4, <1>7, <1>8, <1>9, <1>10 DEF LexInv, Q, from

\* A token.
LEMMA EmitKeeps ==
  ASSUME LexInv, Reporting, NEW kind, NEW to \in pos .. Len(text) + 1, NEW value, NEW width,
         Emit(kind, to, value, width), TokenAt(text, kind, pos, to)
  PROVE  LexInv'
<1> DEFINE R == Strings!ToSet(reports)
           Q == Strings!ToSet(reports')
           n == Len(tokens)
           x == [kind |-> kind, from |-> pos, to |-> to, value |-> value, width |-> width]
<1>1. pos' = to /\ text' = text /\ tokens' = Append(tokens, x)
  BY DEF Emit
<1>2. /\ text \in Seq(Alphabet) /\ pos \in 1 .. Len(text) + 1 /\ Sequence(tokens)
      /\ Tiled(text, R, tokens) /\ After(tokens, n + 1) \in 1 .. pos
      /\ Linked(StepsOver(text, R), After(tokens, n + 1), pos)
  BY DEF LexInv
<1>3. Sequence(reports)' /\ R \subseteq Q
  BY ReportsGrow DEF LexInv
<1>4. x.kind = kind /\ x.from = pos /\ x.to = to
  OBVIOUS
<1> HIDE DEF R, Q, n, x
<1>5. Tiled(text, Q, tokens)
  BY <1>2, <1>3, TiledKept
<1>6. Linked(StepsOver(text, Q), After(tokens, n + 1), pos)
  BY <1>2, <1>3, StepsKept
<1>7. Stands(text, Q, After(tokens, n + 1), x)
  BY <1>2, <1>4, <1>6 DEF Stands
<1>8. /\ Sequence(tokens') /\ n \in Nat
      /\ DOMAIN tokens' = 1 .. n + 1
      /\ \A i \in 1 .. n : tokens'[i] = tokens[i]
      /\ tokens'[n + 1] = x
  BY <1>1, <1>2, SequenceAppend DEF n
<1>9. Len(tokens') = n + 1
  BY <1>8 DEF Sequence
<1>10. \A i \in 1 .. n + 1 : After(tokens', i) = After(tokens, i)
  <2> TAKE i \in 1 .. n + 1
  <2>1. i = 1 \/ i - 1 \in 1 .. n
    BY <1>8
  <2> QED
    BY <1>8, <2>1 DEF After
<1>11. Tiled(text, Q, tokens')
  <2> SUFFICES ASSUME NEW i \in 1 .. n + 1
               PROVE  Stands(text, Q, After(tokens', i), tokens'[i])
    BY <1>9 DEF Tiled
  <2>1. CASE i = n + 1
    BY <1>7, <1>8, <1>10, <2>1
  <2>2. CASE i # n + 1
    <3>1. i \in 1 .. n
      BY <1>8, <2>2
    <3>2. Stands(text, Q, After(tokens, i), tokens[i])
      BY <1>5, <3>1 DEF Tiled, n
    <3> QED
      BY <1>8, <1>10, <3>1, <3>2
  <2> QED
    BY <2>1, <2>2
<1>12. After(tokens', Len(tokens') + 1) = to
  BY <1>4, <1>8, <1>9 DEF After
<1>13. to \in Nat /\ to \in 1 .. Len(text) + 1
  BY <1>2
<1>14. Linked(StepsOver(text, Q), to, to)
  BY <1>13, LinkedStart
<1>15. /\ text' \in Seq(Alphabet) /\ pos' \in 1 .. Len(text') + 1 /\ to \in 1 .. pos'
       /\ Sequence(tokens') /\ Sequence(reports')
  <2>1. text' \in Seq(Alphabet) /\ pos' \in 1 .. Len(text') + 1 /\ to \in 1 .. pos'
    BY <1>1, <1>2, <1>13
  <2>2. Sequence(tokens') /\ Sequence(reports')
    BY <1>3, <1>8 DEF Sequence
  <2> QED
    BY <2>1, <2>2
<1> QED
  BY <1>1, <1>11, <1>12, <1>14, <1>15 DEF LexInv, Q
-----------------------------------------------------------------------------
(***************************************************************************)
(* One lemma for each action.                                              *)
(***************************************************************************)
\* What an action that finds a character at its place may use.
LEMMA Here ==
  ASSUME LexInv, At(pos) # "end"
  PROVE  /\ Len(text) \in Nat /\ pos \in 1 .. Len(text) /\ At(pos) = text[pos]
         /\ text[pos] \in Alphabet
         /\ pos + 1 \in pos + 1 .. Len(text) + 1 /\ pos + 1 \in 1 .. Len(text) + 1
         /\ At(pos + 1) # "end" => pos + 1 \in 1 .. Len(text) /\ At(pos + 1) = text[pos + 1]
         /\ pos + 1 <= Len(text) => At(pos + 1) = text[pos + 1]
<1>1. text \in Seq(Alphabet) /\ pos \in 1 .. Len(text) + 1 /\ Len(text) \in Nat
  BY DEF LexInv
<1>2. pos <= Len(text) /\ At(pos) = text[pos]
  BY DEF At
<1>3. At(pos + 1) # "end" => pos + 1 <= Len(text) /\ At(pos + 1) = text[pos + 1]
  BY DEF At
<1>4. pos + 1 <= Len(text) => At(pos + 1) = text[pos + 1]
  BY DEF At
<1>5. pos \in 1 .. Len(text)
  BY <1>1, <1>2
<1>6. text[pos] \in Alphabet
  BY <1>1, <1>5
<1> QED
  BY <1>1, <1>2, <1>3, <1>4, <1>5, <1>6

LEMMA BlankStep == ASSUME LexInv, Blank PROVE LexInv'
<1>1. At(pos) \in Blanks /\ Skip(pos + 1) /\ UNCHANGED reports
  BY DEF Blank, Lexing
<1>2. At(pos) # "end"
  BY <1>1, Classes
<1>3. pos + 1 \in 1 .. Len(text) + 1 /\ pos < pos + 1 /\ text[pos] \in Blanks
  BY <1>1, <1>2, Here
<1>4. StepOver(text, Strings!ToSet(reports'), pos, pos + 1)
  BY <1>3 DEF StepOver
<1> QED
  BY <1>1, <1>3, <1>4, SkipKeeps DEF Reporting

LEMMA UnrecognisedStep == ASSUME LexInv, Unrecognised PROVE LexInv'
<1>1. At(pos) \in Alphabet \ Known /\ Skip(pos + 1) /\ Report(pos, pos + 1)
  BY DEF Unrecognised, Lexing
<1>2. At(pos) # "end"
  BY <1>1, LexerAssumption DEF LexerAssumption
<1>3. pos + 1 \in 1 .. Len(text) + 1 /\ pos < pos + 1 /\ text[pos] \notin Known
  BY <1>1, <1>2, Here
<1>4. Reporting
  BY <1>1 DEF Reporting
<1>5. [from |-> pos, to |-> pos + 1] \in Strings!ToSet(reports')
  BY <1>1, <1>4, ReportsGrow DEF LexInv
<1>6. StepOver(text, Strings!ToSet(reports'), pos, pos + 1)
  BY <1>3, <1>5 DEF StepOver
<1> QED
  BY <1>1, <1>3, <1>4, <1>6, SkipKeeps

\* Where a comment begins, there are two characters of it.
LEMMA CommentHere ==
  ASSUME LexInv, NEW next \in {"/", "*"}, Comments(next)
  PROVE  /\ text[pos] = "/" /\ text[pos + 1] = next
         /\ pos + 2 \in 1 .. Len(text) + 1 /\ Len(text) \in Nat /\ pos \in Nat
<1>1. At(pos) = "/" /\ At(pos + 1) = next
  BY DEF Comments
<1>2. At(pos) # "end" /\ At(pos + 1) # "end"
  BY <1>1
<1>3. pos \in 1 .. Len(text) /\ pos + 1 \in 1 .. Len(text) /\ Len(text) \in Nat
  BY <1>2, Here
<1>4. text[pos] = "/" /\ text[pos + 1] = next
  BY <1>1, <1>2, Here
<1> QED
  BY <1>3, <1>4

LEMMA LineCommentStep == ASSUME LexInv, LineComment PROVE LexInv'
<1> DEFINE S == Alphabet \ {"\n"}
           j == RunEnd(pos + 2, S)
<1>1. Comments("/") /\ Skip(j) /\ UNCHANGED reports
  BY DEF LineComment
<1>2. /\ text[pos] = "/" /\ text[pos + 1] = "/"
      /\ pos + 2 \in 1 .. Len(text) + 1 /\ Len(text) \in Nat /\ pos \in Nat
  BY <1>1, CommentHere
<1>3. text \in Seq(Alphabet)
  BY DEF LexInv
<1>4. "end" \notin S
  BY LexerAssumption DEF LexerAssumption
<1>5. EndsRun(pos + 2, S, j)
  BY <1>2, <1>3, <1>4, RunIs
<1> HIDE DEF j
<1>6. /\ j \in pos + 2 .. Len(text) + 1 /\ At(j) \notin S
      /\ \A k \in pos + 2 .. j - 1 : text[k] # "\n"
  BY <1>5 DEF EndsRun
<1>7. ASSUME NEW k \in pos .. j - 1 PROVE text[k] # "\n"
  <2>1. k = pos \/ k = pos + 1 \/ k \in pos + 2 .. j - 1
    BY <1>2, <1>6
  <2>2. "/" # "\n"
    OBVIOUS
  <2> QED
    BY <1>2, <1>6, <2>1, <2>2
<1>8. CharAt(text, j) \in {"\n", "end"}
  <2>1. CharAt(text, j) = At(j)
    BY DEF At, CharAt
  <2>2. CASE j <= Len(text)
    <3>1. j \in 1 .. Len(text)
      BY <1>2, <1>6, <2>2
    <3>2. text[j] \in Alphabet /\ At(j) = text[j]
      BY <1>3, <2>2, <3>1 DEF At
    <3> QED
      BY <1>6, <2>1, <3>2
  <2>3. CASE ~(j <= Len(text))
    BY <2>3 DEF CharAt
  <2> QED
    BY <2>2, <2>3
<1>9. LineSpan(text, pos, j)
  BY <1>2, <1>6, <1>7, <1>8 DEF LineSpan
<1>10. StepOver(text, Strings!ToSet(reports'), pos, j)
  BY <1>9 DEF StepOver, CommentSpan
<1>11. j \in 1 .. Len(text) + 1 /\ pos < j
  BY <1>2, <1>6
<1> QED
  BY <1>1, <1>10, <1>11, SkipKeeps DEF Reporting

\* Where the two characters that close a block comment stand.
LEMMA ClosingIs ==
  ASSUME NEW A, text \in Seq(A), NEW i \in Nat \ {0}
  PROVE  /\ \A k \in i .. Len(text) - 1 : Part(k, k + 2) = <<"*", "/">> <=> Closes(text, k)
         /\ Found(i, <<"*", "/">>) =
              {j \in i .. Len(text) - 1 : Closes(text, j) /\ \A k \in i .. j - 1 : ~Closes(text, k)}
<1>0. Len(text) \in Nat
  OBVIOUS
<1>1. ASSUME NEW k \in i .. Len(text) - 1
      PROVE  Part(k, k + 2) = <<"*", "/">> <=> Closes(text, k)
  <2> DEFINE s == Slice(text, k, k + 2)
  <2>1. k \in 1 .. Len(text) + 1 /\ k + 2 \in k .. Len(text) + 1 /\ k \in Nat
    BY <1>0
  <2>2. Sliced(s, text, k, k + 2)
    BY <2>1, Slices
  <2>3. s \in Seq(A)
    BY <2>1 DEF Slice
  <2>4. Part(k, k + 2) = s
    BY DEF Part, Slice
  <2> HIDE DEF s
  <2>5. (k + 2) - k = 2 /\ k + 1 - 1 = k /\ k + 2 - 1 = k + 1
    BY <2>1
  <2>6. Len(s) = 2 /\ s[1] = text[k] /\ s[2] = text[k + 1]
    BY <2>2, <2>5 DEF Sliced
  <2>7. s = <<text[k], text[k + 1]>>
    BY <2>3, <2>6
  <2> QED
    BY <2>4, <2>7 DEF Closes
<1>2. Len(<<"*", "/">>) = 2 /\ Len(text) + 1 - 2 = Len(text) - 1
  BY <1>0
<1>3. Found(i, <<"*", "/">>) =
        {j \in i .. Len(text) - 1 : Part(j, j + 2) = <<"*", "/">>
                                    /\ \A k \in i .. j - 1 : Part(k, k + 2) # <<"*", "/">>}
  BY <1>2 DEF Found
<1>4. \A j \in i .. Len(text) - 1 : \A k \in i .. j - 1 : k \in i .. Len(text) - 1
  BY <1>0
<1>5. ASSUME NEW j \in i .. Len(text) - 1
      PROVE  (Part(j, j + 2) = <<"*", "/">>
                /\ \A k \in i .. j - 1 : Part(k, k + 2) # <<"*", "/">>)
             <=> (Closes(text, j) /\ \A k \in i .. j - 1 : ~Closes(text, k))
  BY <1>1, <1>4
<1>6. Found(i, <<"*", "/">>) =
        {j \in i .. Len(text) - 1 : Closes(text, j) /\ \A k \in i .. j - 1 : ~Closes(text, k)}
  BY <1>3, <1>5
<1> QED
  BY <1>1, <1>6

LEMMA BlockCommentStep == ASSUME LexInv, BlockComment PROVE LexInv'
<1> DEFINE closing == Found(pos + 2, <<"*", "/">>)
           Q == Strings!ToSet(reports')
<1>1. /\ Comments("*")
      /\ IF closing = {} THEN Skip(Len(text) + 1) /\ Report(pos, pos + 2)
         ELSE (\E j \in closing : Skip(j + 2)) /\ UNCHANGED reports
  BY DEF BlockComment, Inside
<1>2. /\ text[pos] = "/" /\ text[pos + 1] = "*"
      /\ pos + 2 \in 1 .. Len(text) + 1 /\ Len(text) \in Nat /\ pos \in Nat
  BY <1>1, CommentHere
<1>3. text \in Seq(Alphabet) /\ pos + 2 \in Nat \ {0}
  BY <1>2 DEF LexInv
<1>4. closing = {j \in pos + 2 .. Len(text) - 1 :
                   Closes(text, j) /\ \A k \in pos + 2 .. j - 1 : ~Closes(text, k)}
  BY <1>3, ClosingIs
<1> HIDE DEF closing, Q
<1>5. CASE closing = {}
  <2>1. Skip(Len(text) + 1) /\ Report(pos, pos + 2)
    BY <1>1, <1>5
  <2>2. Reporting
    BY <2>1 DEF Reporting
  <2>3. [from |-> pos, to |-> pos + 2] \in Q
    BY <2>1, <2>2, ReportsGrow DEF LexInv, Q
  <2> DEFINE T == {k \in pos + 2 .. Len(text) - 1 : Closes(text, k)}
  <2>4. T = {}
    <3> SUFFICES ASSUME T # {} PROVE FALSE
      OBVIOUS
    <3>1. T \subseteq Nat
      BY <1>2
    <3>2. PICK j \in T : \A y \in T : j <= y
      BY <3>1, LeastNumber
    <3>3. j \in pos + 2 .. Len(text) - 1 /\ Closes(text, j)
      BY <3>2
    <3>4. ASSUME NEW k \in pos + 2 .. j - 1 PROVE ~Closes(text, k)
      <4>1. k \in pos + 2 .. Len(text) - 1 /\ ~(j <= k)
        BY <1>2, <3>3
      <4> QED
        BY <3>2, <4>1
    <3>5. j \in closing
      BY <1>4, <3>3, <3>4
    <3> QED
      BY <1>5, <3>5
  <2>5. \A k \in pos + 2 .. (Len(text) + 1) - 2 : ~Closes(text, k)
    <3>1. (Len(text) + 1) - 2 = Len(text) - 1
      BY <1>2
    <3> QED
      BY <2>4, <3>1
  <2>6. CharAt(text, Len(text) + 1) = "end" /\ Len(text) + 1 >= pos + 2
    BY <1>2 DEF CharAt
  <2>7. OpenSpan(text, Q, pos, Len(text) + 1)
    BY <1>2, <2>3, <2>5, <2>6 DEF OpenSpan
  <2>8. StepOver(text, Q, pos, Len(text) + 1)
    BY <2>7 DEF StepOver, CommentSpan
  <2>9. Len(text) + 1 \in 1 .. Len(text) + 1 /\ pos < Len(text) + 1
    BY <1>2
  <2> QED
    BY <2>1, <2>2, <2>8, <2>9, SkipKeeps DEF Q
<1>6. CASE closing # {}
  <2>1. PICK j \in closing : Skip(j + 2)
    BY <1>1, <1>6
  <2>2. UNCHANGED reports
    BY <1>1, <1>6
  <2>3. /\ j \in pos + 2 .. Len(text) - 1 /\ Closes(text, j)
        /\ \A k \in pos + 2 .. j - 1 : ~Closes(text, k)
    BY <1>4
  <2>4. (j + 2) - 2 = j /\ (j + 2) - 3 = j - 1 /\ j + 2 >= pos + 4
    BY <1>2, <2>3
  <2>5. ClosedSpan(text, pos, j + 2)
    BY <1>2, <2>3, <2>4 DEF ClosedSpan
  <2>6. StepOver(text, Q, pos, j + 2)
    BY <2>5 DEF StepOver, CommentSpan
  <2>7. j + 2 \in 1 .. Len(text) + 1 /\ pos < j + 2
    BY <1>2, <2>3
  <2>8. Reporting
    BY <2>2 DEF Reporting
  <2> QED
    BY <2>1, <2>6, <2>7, <2>8, SkipKeeps DEF Q
<1> QED
  BY <1>5, <1>6

\* A run of letters and digits to where it is over is the longest lexeme.
LEMMA IdentLongest ==
  ASSUME LexInv, At(pos) \in IdentChars, NEW j \in pos + 1 .. Len(text) + 1,
         At(j) \notin IdentChars, \A k \in pos .. j - 1 : text[k] \in IdentChars
  PROVE  Longest(text, pos, j)
<1>1. At(pos) # "end"
  BY Classes
<1>2. pos \in 1 .. Len(text) /\ Len(text) \in Nat /\ At(pos) = text[pos]
  BY <1>1, Here
<1>3. text[pos] \in IdentChars /\ text[pos] \notin Hashes /\ text[pos] \notin OneChar
  BY <1>2, Classes
<1>4. <<text[pos], text[pos + 1]>> \notin TwoChars
  BY <1>3, Pairs
<1>5. LexemeSpan(text, pos, j)
  BY <1>3 DEF LexemeSpan
<1>6. ASSUME NEW k \in j + 1 .. Len(text) + 1 PROVE ~LexemeSpan(text, pos, k)
  <2>1. j \in pos .. k - 1 /\ j <= Len(text)
    BY <1>2
  <2>2. text[j] \notin IdentChars
    BY <2>1 DEF At
  <2> QED
    BY <1>3, <1>4, <2>1, <2>2 DEF LexemeSpan
<1>7. text[pos] # "/"
  BY <1>3, Classes
<1>8. pos < j
  BY <1>2
<1> QED
  BY <1>5, <1>6, <1>7, <1>8 DEF Longest

LEMMA WordStep == ASSUME LexInv, Word PROVE LexInv'
<1> DEFINE j == RunEnd(pos, IdentChars)
           word == Part(pos, j)
<1>1. At(pos) \in IdentChars
  BY Classes DEF Word, Lexing
<1>2. At(pos) # "end"
  BY <1>1, Classes
<1>3. pos \in 1 .. Len(text) /\ Len(text) \in Nat /\ At(pos) = text[pos]
  BY <1>2, Here
<1>4. EndsRun(pos, IdentChars, j)
  <2>1. text \in Seq(Alphabet) /\ pos \in 1 .. Len(text) + 1 /\ "end" \notin IdentChars
    BY Classes DEF LexInv
  <2> QED
    BY <2>1, RunIs
<1>5. \/ Emit("Keyword", j, 0, 0) /\ Reporting
      \/ Emit("Type", j, 0, WidthOf(word)) /\ Reporting
      \/ Emit("Identifier", j, 0, 0) /\ Reporting
  BY DEF Word, Reporting
<1> HIDE DEF j, word
<1>6. j \in pos + 1 .. Len(text) + 1 /\ j \in pos .. Len(text) + 1
  <2>1. j # pos
    BY <1>1, <1>4 DEF EndsRun
  <2> QED
    BY <1>3, <1>4, <2>1 DEF EndsRun
<1>7. Longest(text, pos, j)
  BY <1>1, <1>4, <1>6, IdentLongest DEF EndsRun
<1>8. TokenAt(text, "Keyword", pos, j) /\ TokenAt(text, "Type", pos, j) /\ TokenAt(text, "Identifier", pos, j)
  BY <1>7 DEF TokenAt
<1>9. CASE Emit("Keyword", j, 0, 0) /\ Reporting
  BY <1>6, <1>8, <1>9, EmitKeeps
<1>10. CASE Emit("Type", j, 0, WidthOf(word)) /\ Reporting
  BY <1>6, <1>8, <1>10, EmitKeeps
<1>11. CASE Emit("Identifier", j, 0, 0) /\ Reporting
  BY <1>6, <1>8, <1>11, EmitKeeps
<1> QED
  BY <1>5, <1>9, <1>10, <1>11

LEMMA NumberStep == ASSUME LexInv, Number PROVE LexInv'
<1> DEFINE base == Base(pos)
           first == IF base = 10 THEN pos ELSE pos + 2
           S == DigitsOf(base) \cup {"_"}
           last == RunEnd(first, S)
           j == RunEnd(last, IdentChars)
<1>1. At(pos) \in Digits /\ At(pos) \in IdentChars
  BY Classes DEF Number, Lexing
<1>2. At(pos) # "end"
  BY <1>1, Classes
<1>3. /\ pos \in 1 .. Len(text) /\ Len(text) \in Nat /\ At(pos) = text[pos]
      /\ text \in Seq(Alphabet)
  BY <1>2, Here DEF LexInv
<1>4. (\E value : Emit("IntLiteral", j, value, 0)) /\ Reporting
  BY DEF Number, Reporting
<1>5. S \subseteq IdentChars /\ "end" \notin S /\ "end" \notin IdentChars
  BY Classes, DigitsFacts
<1>6. base = 10 \/ (base # 10 /\ At(pos + 1) \in {"x", "b"})
  BY DEF Base
<1>7. base # 10 => /\ pos + 1 \in 1 .. Len(text) /\ text[pos + 1] \in IdentChars
  <2> HAVE base # 10
  <2>1. At(pos + 1) \in {"x", "b"} /\ At(pos + 1) # "end"
    BY <1>6
  <2> QED
    BY <1>2, <2>1, Here, Classes
<1>8. first \in 1 .. Len(text) + 1 /\ \A k \in pos .. first - 1 : text[k] \in IdentChars
  <2>1. CASE base = 10
    BY <1>3, <2>1
  <2>2. CASE base # 10
    <3>1. \A k \in pos .. first - 1 : k = pos \/ k = pos + 1
      BY <1>3, <2>2
    <3> QED
      BY <1>1, <1>3, <1>7, <2>2, <3>1
  <2> QED
    BY <2>1, <2>2
<1>9. EndsRun(first, S, last)
  BY <1>3, <1>5, <1>8, RunIs
<1>10. last \in first .. Len(text) + 1 /\ last \in 1 .. Len(text) + 1
  <2> HIDE DEF first, last
  <2>1. last \in first .. Len(text) + 1
    BY <1>9 DEF EndsRun
  <2> QED
    BY <1>3, <1>8, <2>1
<1>11. EndsRun(last, IdentChars, j)
  BY <1>3, <1>5, <1>10, RunIs
<1> HIDE DEF j, last, S
<1>12. \A k \in pos .. j - 1 : text[k] \in IdentChars
  <2> TAKE k \in pos .. j - 1
  <2>1. \/ k \in pos .. first - 1 \/ k \in first .. last - 1 \/ k \in last .. j - 1
    BY <1>3, <1>8, <1>10, <1>11 DEF EndsRun
  <2> QED
    BY <1>5, <1>8, <1>9, <1>11, <2>1 DEF EndsRun
<1>13. At(j) \notin IdentChars /\ j \in last .. Len(text) + 1
  BY <1>11 DEF EndsRun
<1>14. first >= pos
  BY <1>3
<1> HIDE DEF first
<1>15. j \in pos + 1 .. Len(text) + 1 /\ j \in pos .. Len(text) + 1
  <2>1. j # pos
    BY <1>1, <1>13
  <2> QED
    BY <1>3, <1>8, <1>10, <1>13, <1>14, <2>1
<1>16. Longest(text, pos, j)
  BY <1>1, <1>12, <1>13, <1>15, IdentLongest
<1>17. TokenAt(text, "IntLiteral", pos, j)
  BY <1>16 DEF TokenAt
<1> QED
  BY <1>4, <1>15, <1>17, EmitKeeps

LEMMA PragmaStep == ASSUME LexInv, Pragma PROVE LexInv'
<1> DEFINE S == Alphabet \ {"\n"}
           j == RunEnd(pos, S)
<1>1. At(pos) \in Hashes /\ Emit("Pragma", j, 0, 0) /\ Reporting
  BY DEF Pragma, Lexing, Reporting
<1>2. At(pos) # "end"
  BY <1>1, Classes
<1>3. /\ pos \in 1 .. Len(text) /\ Len(text) \in Nat /\ At(pos) = text[pos]
      /\ text[pos] \in Alphabet /\ text \in Seq(Alphabet)
  BY <1>2, Here DEF LexInv
<1>4. EndsRun(pos, S, j)
  <2>1. pos \in 1 .. Len(text) + 1 /\ "end" \notin S
    BY LexerAssumption DEF LexerAssumption, LexInv
  <2> QED
    BY <1>3, <2>1, RunIs
<1> HIDE DEF j
<1>5. /\ text[pos] \in Hashes /\ text[pos] \notin IdentChars /\ text[pos] \notin OneChar
      /\ text[pos] # "\n"
  BY <1>1, <1>3, Classes, NoNewline
<1>6. /\ j \in pos .. Len(text) + 1 /\ At(j) \notin S
      /\ \A k \in pos .. j - 1 : text[k] # "\n"
  BY <1>4 DEF EndsRun
<1>7. j # pos
  BY <1>3, <1>5, <1>6
<1>8. j \in pos + 1 .. Len(text) + 1 /\ pos < j
  BY <1>3, <1>6, <1>7
<1>9. <<text[pos], text[pos + 1]>> \notin TwoChars
  BY <1>5, Pairs
<1>10. LexemeSpan(text, pos, j)
  BY <1>5, <1>6 DEF LexemeSpan
<1>11. ASSUME NEW k \in j + 1 .. Len(text) + 1 PROVE ~LexemeSpan(text, pos, k)
  <2>1. j \in pos .. k - 1 /\ j \in 1 .. Len(text)
    BY <1>3, <1>8
  <2>2. text[j] \in Alphabet /\ At(j) = text[j]
    BY <1>3, <2>1 DEF At
  <2>3. text[j] = "\n"
    BY <1>6, <2>2
  <2> QED
    BY <1>5, <1>9, <2>1, <2>3 DEF LexemeSpan
<1>12. text[pos] # "/"
  BY <1>5, Classes
<1>13. Longest(text, pos, j)
  BY <1>8, <1>10, <1>11, <1>12 DEF Longest
<1>14. TokenAt(text, "Pragma", pos, j)
  BY <1>13 DEF TokenAt
<1> QED
  BY <1>1, <1>6, <1>14, EmitKeeps

LEMMA OperatorStep == ASSUME LexInv, Operator PROVE LexInv'
<1> DEFINE j == pos + OperatorLength
<1>1. /\ At(pos) \in OneChar /\ ~Comments("/") /\ ~Comments("*")
      /\ Emit("Operator", j, 0, 0) /\ Reporting
  BY DEF Operator, Lexing, Reporting
<1>2. At(pos) # "end"
  BY <1>1, Classes
<1>3. /\ pos \in 1 .. Len(text) /\ Len(text) \in Nat /\ At(pos) = text[pos]
      /\ (At(pos + 1) # "end" => pos + 1 \in 1 .. Len(text) /\ At(pos + 1) = text[pos + 1])
      /\ (pos + 1 <= Len(text) => At(pos + 1) = text[pos + 1])
  BY <1>2, Here
<1>4. text[pos] \in OneChar /\ text[pos] \notin IdentChars /\ text[pos] \notin Hashes
  BY <1>1, <1>3, Classes
<1>5. \A c : <<c, "end">> \notin TwoChars
  BY DEF TwoChars
<1>6. ~(pos < Len(text) /\ text[pos] = "/" /\ text[pos + 1] \in {"/", "*"})
  BY <1>1, <1>3 DEF Comments
<1>7. CASE <<At(pos), At(pos + 1)>> \in TwoChars
  <2>1. At(pos + 1) # "end" /\ j = pos + 2
    BY <1>5, <1>7 DEF OperatorLength
  <2>2. pos + 1 \in 1 .. Len(text) /\ <<text[pos], text[pos + 1]>> \in TwoChars
    BY <1>3, <1>7, <2>1
  <2>3. j \in pos .. Len(text) + 1 /\ pos < j
    BY <1>3, <2>1, <2>2
  <2>4. LexemeSpan(text, pos, j)
    BY <2>1, <2>2 DEF LexemeSpan
  <2>5. ASSUME NEW k \in j + 1 .. Len(text) + 1 PROVE ~LexemeSpan(text, pos, k)
    <3>1. k # pos + 1 /\ k # pos + 2
      BY <1>3, <2>1
    <3> QED
      BY <1>4, <3>1 DEF LexemeSpan
  <2>6. TokenAt(text, "Operator", pos, j)
    BY <1>6, <2>3, <2>4, <2>5 DEF Longest, TokenAt
  <2> QED
    BY <1>1, <2>3, <2>6, EmitKeeps
<1>8. CASE <<At(pos), At(pos + 1)>> \notin TwoChars
  <2>1. j = pos + 1
    BY <1>8 DEF OperatorLength
  <2>2. j \in pos .. Len(text) + 1 /\ pos < j
    BY <1>3, <2>1
  <2>3. LexemeSpan(text, pos, j)
    BY <1>4, <2>1 DEF LexemeSpan
  <2>4. ASSUME NEW k \in j + 1 .. Len(text) + 1 PROVE ~LexemeSpan(text, pos, k)
    <3>1. k # pos + 1 /\ pos + 1 <= Len(text)
      BY <1>3, <2>1
    <3>2. <<text[pos], text[pos + 1]>> \notin TwoChars
      BY <1>3, <1>8, <3>1
    <3> QED
      BY <1>4, <3>1, <3>2 DEF LexemeSpan
  <2>5. TokenAt(text, "Operator", pos, j)
    BY <1>6, <2>2, <2>3, <2>4 DEF Longest, TokenAt
  <2> QED
    BY <1>1, <2>2, <2>5, EmitKeeps
<1> QED
  BY <1>7, <1>8

LEMMA EofStep == ASSUME LexInv, Eof PROVE LexInv'
<1>1. At(pos) = "end" /\ Emit("Eof", pos, 0, 0) /\ Reporting
  BY DEF Eof, Lexing, Reporting
<1>2. text \in Seq(Alphabet) /\ pos \in 1 .. Len(text) + 1 /\ Len(text) \in Nat
  BY DEF LexInv
<1>3. pos = Len(text) + 1
  <2> SUFFICES ASSUME pos <= Len(text) PROVE FALSE
    BY <1>2
  <2>1. text[pos] \in Alphabet /\ At(pos) = text[pos]
    BY <1>2 DEF At
  <2> QED
    BY <1>1, <2>1, LexerAssumption DEF LexerAssumption
<1>4. TokenAt(text, "Eof", pos, pos) /\ pos \in pos .. Len(text) + 1
  BY <1>2, <1>3 DEF TokenAt
<1> QED
  BY <1>1, <1>4, EmitKeeps

LEMMA LexInvStep == LexInv /\ [LexNext]_lexVars => LexInv'
<1> SUFFICES ASSUME LexInv, [LexNext]_lexVars PROVE LexInv'
  OBVIOUS
<1>1. CASE LexNext
  BY <1>1, BlankStep, LineCommentStep, BlockCommentStep, UnrecognisedStep, WordStep,
     NumberStep, PragmaStep, OperatorStep, EofStep DEF LexNext
<1>2. CASE UNCHANGED lexVars
  BY <1>2 DEF lexVars, LexInv, Tiled, Stands, After, TokenAt, Longest, Sequence
<1> QED
  BY <1>1, <1>2

-----------------------------------------------------------------------------
LEMMA LexInvTiles == LexInv => TokensTileTheText
<1> SUFFICES ASSUME LexInv, NEW i \in DOMAIN tokens
             PROVE  /\ IsTrivia(IF i = 1 THEN 1 ELSE tokens[i - 1].to, tokens[i].from)
                    /\ IF tokens[i].kind = "Eof" THEN tokens[i].from = Len(text) + 1
                       ELSE /\ IsLexeme(Part(tokens[i].from, tokens[i].to))
                            /\ \A j \in tokens[i].to + 1 .. Len(text) + 1 :
                                 ~IsLexeme(Part(tokens[i].from, j)) /\ ~IsComment(tokens[i].from, j)
  BY DEF TokensTileTheText
<1> DEFINE x == tokens[i]
<1>1. /\ text \in Seq(Alphabet) /\ Len(text) \in Nat /\ Sequence(tokens)
      /\ Tiled(text, Strings!ToSet(reports), tokens)
  BY DEF LexInv
<1>2. i \in 1 .. Len(tokens) /\ Len(tokens) \in Nat
  BY <1>1 DEF Sequence
<1>3. Stands(text, Strings!ToSet(reports), After(tokens, i), x)
  BY <1>1, <1>2 DEF Tiled
<1>4. After(tokens, i) \in 1 .. Len(text) + 1
  <2>1. CASE i = 1
    BY <1>1, <2>1 DEF After
  <2>2. CASE i # 1
    <3>1. i - 1 \in 1 .. Len(tokens)
      BY <1>2, <2>2
    <3>2. Stands(text, Strings!ToSet(reports), After(tokens, i - 1), tokens[i - 1])
      BY <1>1, <3>1 DEF Tiled
    <3>3. tokens[i - 1].to \in 1 .. Len(text) + 1
      BY <1>1, <3>2 DEF Stands
    <3> QED
      BY <2>2, <3>3 DEF After
  <2> QED
    BY <2>1, <2>2
<1> HIDE DEF x
<1>5. /\ x.from \in 1 .. Len(text) + 1 /\ x.to \in x.from .. Len(text) + 1
      /\ Linked(StepsOver(text, Strings!ToSet(reports)), After(tokens, i), x.from)
      /\ TokenAt(text, x.kind, x.from, x.to)
  BY <1>3 DEF Stands
<1>6. IsTrivia(After(tokens, i), x.from)
  BY <1>1, <1>4, <1>5, TriviaStepsOver
<1>7. CASE x.kind = "Eof"
  BY <1>5, <1>6, <1>7 DEF TokenAt, After, x
<1>8. CASE x.kind # "Eof"
  <2>1. Longest(text, x.from, x.to)
    BY <1>5, <1>8 DEF TokenAt
  <2>2. x.to \in x.from + 1 .. Len(text) + 1 /\ LexemeSpan(text, x.from, x.to)
    BY <1>1, <1>5, <2>1 DEF Longest
  <2>3. IsLexeme(Part(x.from, x.to))
    BY <1>1, <1>5, <2>2, IsLexemeSpan
  <2>4. ASSUME NEW j \in x.to + 1 .. Len(text) + 1
        PROVE  ~IsLexeme(Part(x.from, j)) /\ ~IsComment(x.from, j)
    <3>1. j \in x.from + 1 .. Len(text) + 1 /\ j \in x.from .. Len(text) + 1
      BY <1>1, <1>5, <2>2
    <3>2. ~LexemeSpan(text, x.from, j)
      BY <2>1 DEF Longest
    <3>3. ~IsLexeme(Part(x.from, j))
      BY <1>1, <1>5, <3>1, <3>2, IsLexemeSpan
    <3>4. IsComment(x.from, j) => j >= x.from + 2 /\ text[x.from] = "/" /\ text[x.from + 1] \in {"/", "*"}
      BY <1>1, <1>5, <3>1, IsCommentSpan
    <3>5. j >= x.from + 2 => x.from < Len(text)
      BY <1>1, <1>5, <3>1
    <3> QED
      BY <2>1, <3>3, <3>4, <3>5 DEF Longest
  <2> QED
    BY <1>6, <1>8, <2>3, <2>4 DEF After, x
<1> QED
  BY <1>7, <1>8

(* The inductive invariant: up to the next character, the tokens are lexemes *)
(* at their places, the longest there, and only trivia lie between them      *)
(* (next, skipTrivia).                                                       *)
THEOREM LexInvHolds == LexSpec => []LexInv
<1> QED
  BY LexInvInit, LexInvStep, PTL DEF LexSpec

(* For every text of any characters and any length: the tokens and what lies *)
(* between them are the text, each token is the longest lexeme at its place, *)
(* and between two there are only blanks, comments and reported characters   *)
(* (next, skipTrivia, lexWord, lexNumber, lexPragma, lexOperator).           *)
THEOREM TextIsTiled == LexSpec => []TokensTileTheText
<1> QED
  BY LexInvHolds, LexInvTiles, PTL
=============================================================================
