------------------------------- MODULE Lexer -------------------------------
(***************************************************************************)
(* The lexer (src/frontend/lexer.cpp): one action per way next() and        *)
(* skipTrivia() move on in the text.  A character stands for its class (a   *)
(* letter that may begin a type, a hexadecimal digit, ...), and "#pragma"   *)
(* for its seven.                                                           *)
(***************************************************************************)
EXTENDS Naturals, Sequences

Strings == INSTANCE SequencesExt

CONSTANTS
  Alphabet,    \* the characters of texts
  MaxLength,   \* bound: the characters of a text
  MaxLiteral,  \* the largest u128
  MaxUnsigned, \* the largest C++ unsigned
  TypeWidth    \* the widest type that can be written: 64 in the code

\* "end" stands for what follows the last character.
ASSUME LexerAssumption ==
  /\ MaxLength \in Nat
  /\ "end" \notin Alphabet
  /\ TypeWidth \in Nat /\ MaxUnsigned \in Nat /\ MaxLiteral \in Nat

VARIABLES
  text,
  pos,      \* the next character
  tokens,   \* the tokens so far
  reports   \* where something was reported: [from, to]

lexVars == <<text, pos, tokens, reports>>

Blanks     == {" ", "\n"}
Letters    == {"i", "f", "b", "x"}
IdentStart == Letters \cup {"_"}
Digits     == {"0", "1", "9"}
IdentChars == IdentStart \cup Digits
DigitValue == [c \in Digits \cup {"b", "f"} |->
                 CASE c = "0" -> 0 [] c = "1" -> 1 [] c = "9" -> 9 [] c = "b" -> 11 [] c = "f" -> 15]
Hashes     == {"#", "#pragma"}
OneChar    == {"<", "=", "!", "/", "*"}
TwoChars   == {<<"<", "<">>, <<"<", "=">>, <<"=", "=">>, <<"!", "=">>}
Known      == IdentChars \cup Hashes \cup OneChar
Keywords   == {<<"i", "f">>}
TypeLetters == {"i"}

-----------------------------------------------------------------------------
At(i)      == IF i <= Len(text) THEN text[i] ELSE "end"
Part(i, j) == SubSeq(text, i, j - 1)

\* The first place from i on where the run of characters of S is over.
RunEnd(i, S) == CHOOSE j \in i .. Len(text) + 1 :
                  At(j) \notin S /\ \A k \in i .. j - 1 : text[k] \in S

\* The first place from i on where the text goes on with s, or none.
Found(i, s) == {j \in i .. Len(text) + 1 - Len(s) :
                  Part(j, j + Len(s)) = s /\ \A k \in i .. j - 1 : Part(k, k + Len(s)) # s}

Report(i, j) == reports' = Append(reports, [from |-> i, to |-> j])

Skip(to) == pos' = to /\ UNCHANGED <<text, tokens>>

Emit(kind, to, value, width) ==
  /\ tokens' = Append(tokens, [kind |-> kind, from |-> pos, to |-> to,
                               value |-> value, width |-> width])
  /\ pos' = to
  /\ UNCHANGED text

Lexed == tokens # <<>> /\ Strings!Last(tokens).kind = "Eof"

Lexing(S) == ~Lexed /\ At(pos) \in S

-----------------------------------------------------------------------------
(* skipTrivia and what next() does before it lexes.                         *)

Blank == Lexing(Blanks) /\ Skip(pos + 1) /\ UNCHANGED reports

Comments(next) == At(pos) = "/" /\ At(pos + 1) = next

\* The newline is left.
LineComment ==
  /\ Comments("/")
  /\ Skip(RunEnd(pos + 2, Alphabet \ {"\n"}))
  /\ UNCHANGED reports

\* Mutant: the star that opens a comment may be the one that closes it.
MutantInside == pos + 1

Inside == pos + 2

BlockComment ==
  /\ Comments("*")
  /\ LET closing == Found(Inside, <<"*", "/">>)
     IN  IF closing = {} THEN Skip(Len(text) + 1) /\ Report(pos, pos + 2)
         ELSE (\E j \in closing : Skip(j + 2)) /\ UNCHANGED reports

Unrecognised ==
  /\ Lexing(Alphabet \ (Known \cup Blanks))
  /\ Skip(pos + 1)
  /\ Report(pos, pos + 1)

-----------------------------------------------------------------------------
(* lexWord.                                                                 *)

IsType(word) ==
  /\ Len(word) >= 2
  /\ word[1] \in TypeLetters
  /\ word[2] \in Digits \ {"0"}
  /\ \A i \in 2 .. Len(word) : word[i] \in Digits

\* Digits accumulated while they stay below max; over: they did not.
Accumulate(digits, base, max) ==
  Strings!FoldLeft(LAMBDA acc, d :
             IF acc.value * base + d > max
             THEN [acc EXCEPT !.over = TRUE]
             ELSE [acc EXCEPT !.value = @ * base + d],
           [value |-> 0, over |-> FALSE], digits)

WidthOf(word) ==
  LET width == Accumulate([i \in 1 .. Len(word) - 1 |-> DigitValue[word[i + 1]]], 10, MaxUnsigned)
  IN  IF width.over THEN MaxUnsigned ELSE width.value

\* The complete run first, then its class.
Word ==
  /\ Lexing(IdentStart)
  /\ LET end == RunEnd(pos, IdentChars)
         word == Part(pos, end)
     IN  CASE word \in Keywords -> Emit("Keyword", end, 0, 0) /\ UNCHANGED reports
           [] word \notin Keywords /\ IsType(word) ->
                /\ Emit("Type", end, 0, WidthOf(word))
                /\ IF WidthOf(word) > TypeWidth THEN Report(pos, end) ELSE UNCHANGED reports
           [] OTHER -> Emit("Identifier", end, 0, 0) /\ UNCHANGED reports

-----------------------------------------------------------------------------
(* lexNumber.                                                               *)

Base(i) ==
  IF At(i) # "0" THEN 10
  ELSE CASE At(i + 1) = "x" -> 16 [] At(i + 1) = "b" -> 2 [] OTHER -> 10

DigitsOf(base) == {c \in DOMAIN DigitValue : DigitValue[c] < base}

\* Mutant: a separator may end the digits.
MutantSeparates(i, first, base) == i > first

\* A "_" stands between a digit and a digit.
Separates(i, first, base) ==
  /\ \E k \in first .. i - 1 : text[k] # "_"
  /\ At(i + 1) \in DigitsOf(base)

Number ==
  /\ Lexing(Digits)
  /\ LET base == Base(pos)
         first == IF base = 10 THEN pos ELSE pos + 2
         last == RunEnd(first, DigitsOf(base) \cup {"_"})
         end == RunEnd(last, IdentChars)
         digits == SelectSeq(Part(first, last), LAMBDA c : c # "_")
         number == Accumulate([i \in DOMAIN digits |-> DigitValue[digits[i]]], base, MaxLiteral)
         invalid == \/ \E i \in first .. last - 1 : text[i] = "_" /\ ~Separates(i, first, base)
                    \/ end > last
                    \/ digits = <<>>
     IN  /\ Emit("IntLiteral", end, number.value, 0)
         /\ IF number.over \/ invalid THEN Report(pos, end) ELSE UNCHANGED reports

-----------------------------------------------------------------------------
(* lexPragma, lexOperator, the end.                                         *)

Pragma ==
  /\ Lexing(Hashes)
  /\ LET end == RunEnd(pos, Alphabet \ {"\n"})
     IN  /\ Emit("Pragma", end, 0, 0)
         /\ IF At(pos) = "#pragma" /\ At(pos + 1) \in {" ", "\n", "end"}
            THEN UNCHANGED reports ELSE Report(pos, end)

\* Mutant: one-character operators first.
MutantOperatorLength == 1

\* "Longest match": "<<" before "<".
OperatorLength == IF <<At(pos), At(pos + 1)>> \in TwoChars THEN 2 ELSE 1

Operator ==
  /\ Lexing(OneChar)
  /\ ~Comments("/") /\ ~Comments("*")
  /\ Emit("Operator", pos + OperatorLength, 0, 0)
  /\ UNCHANGED reports

Eof == Lexing({"end"}) /\ Emit("Eof", pos, 0, 0) /\ UNCHANGED reports

LexInit ==
  /\ text \in Strings!BoundedSeq(Alphabet, MaxLength)
  /\ pos = 1
  /\ tokens = <<>>
  /\ reports = <<>>

LexNext ==
  \/ Blank \/ LineComment \/ BlockComment \/ Unrecognised
  \/ Word \/ Number \/ Pragma \/ Operator \/ Eof

LexSpec == LexInit /\ [][LexNext]_lexVars

-----------------------------------------------------------------------------
(* What LANGUAGE.md says of lexemes, read off the text.                     *)

Reported(i, j) == [from |-> i, to |-> j] \in Strings!ToSet(reports)

IsLexeme(s) ==
  \/ s[1] \in IdentStart \cup Digits /\ Strings!ToSet(s) \subseteq IdentChars
  \/ s[1] \in Hashes /\ "\n" \notin Strings!ToSet(s)
  \/ s \in TwoChars
  \/ Len(s) = 1 /\ s[1] \in OneChar

IsComment(i, j) ==
  LET s == Part(i, j)
      closed == {k \in 3 .. Len(s) - 1 : s[k] = "*" /\ s[k + 1] = "/"}
  IN  /\ Len(s) >= 2 /\ s[1] = "/"
      /\ \/ s[2] = "/" /\ "\n" \notin Strings!ToSet(s) /\ At(j) \in {"\n", "end"}
         \/ s[2] = "*" /\ closed = {Len(s) - 1}
         \/ s[2] = "*" /\ closed = {} /\ At(j) = "end" /\ Reported(i, i + 2)

IsTrivia(i, j) ==
  LET Is[k \in i .. j] ==
        k = i \/ \E m \in i .. k - 1 :
                   /\ Is[m]
                   /\ \/ IsComment(m, k)
                      \/ k = m + 1 /\ text[m] \in Blanks
                      \/ k = m + 1 /\ text[m] \notin Known /\ Reported(m, k)
  IN  Is[j]

(* The tokens and what lies between them are the text: a token is the       *)
(* longest lexeme at its place, and between two there are blanks, comments  *)
(* and characters that were reported, nothing else (next, skipTrivia, the   *)
(* run ends of every lexeme).                                               *)
TokensTileTheText ==
  Lexed => \A i \in DOMAIN tokens :
    LET t == tokens[i]
    IN  /\ IsTrivia(IF i = 1 THEN 1 ELSE tokens[i - 1].to, t.from)
        /\ IF t.kind = "Eof" THEN t.from = Len(text) + 1
           ELSE /\ IsLexeme(Part(t.from, t.to))
                /\ \A j \in t.to + 1 .. Len(text) + 1 :
                     ~IsLexeme(Part(t.from, j)) /\ ~IsComment(t.from, j)

\* The number a run of digits writes.
Denoted(s, base) ==
  LET digits == SelectSeq(s, LAMBDA c : c # "_")
      Sum[n \in 0 .. Len(digits)] ==
        IF n = 0 THEN 0
        ELSE Sum[n - 1] + DigitValue[digits[n]] * base^(Len(digits) - n)
  IN  Sum[Len(digits)]

\* Separators stand "between digits only".
Legal(s, base) ==
  /\ s # <<>>
  /\ Strings!ToSet(s) \subseteq DigitsOf(base) \cup {"_"}
  /\ \A i \in DOMAIN s : s[i] = "_" => /\ i \notin {1, Len(s)}
                                       /\ s[i + 1] # "_"

(* A literal has the value it writes or is reported, and is reported only   *)
(* if it is malformed or too large; a type has the width it writes, and one *)
(* out of range is reported as such, whatever the host's integers can hold  *)
(* (lexNumber, lexWord).                                                    *)
NumbersMean ==
  \A i \in DOMAIN tokens :
    LET t == tokens[i]
        s == Part(t.from, t.to)
        base == Base(t.from)
        digits == IF base = 10 THEN s ELSE Tail(Tail(s))
    IN  /\ t.kind = "IntLiteral" =>
             IF Legal(digits, base) /\ Denoted(digits, base) <= MaxLiteral
             THEN t.value = Denoted(digits, base) /\ ~Reported(t.from, t.to)
             ELSE Reported(t.from, t.to)
        /\ t.kind = "Type" =>
             IF Denoted(Tail(s), 10) <= TypeWidth
             THEN t.width = Denoted(Tail(s), 10) /\ ~Reported(t.from, t.to)
             ELSE t.width > TypeWidth /\ Reported(t.from, t.to)

(* "A literal has no type of its own and no width limit in the source"      *)
(* (LANGUAGE.md).                                                           *)
LiteralsHaveNoLimit ==
  \A i \in DOMAIN tokens :
    LET t == tokens[i]
        base == Base(t.from)
        digits == Part(IF base = 10 THEN t.from ELSE t.from + 2, t.to)
    IN  t.kind = "IntLiteral" /\ Legal(digits, base) => ~Reported(t.from, t.to)
=============================================================================
