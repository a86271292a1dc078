------------------------------- MODULE Parser -------------------------------
(***************************************************************************)
(* The recursive descent parser (src/frontend/parser.cpp) as a machine      *)
(* with a stack.  The C++ call stack is the variable `stack`: what is still *)
(* to be done, the next thing first.  Straight-line code of a procedure is  *)
(* a sequence of such things (Expect(k), another procedure, an accept with  *)
(* its two branches); code that looks at a token is an action.              *)
(*                                                                          *)
(* The input is chosen token by token, when the parser first peeks at it,   *)
(* and forgotten when it is consumed; its length is bounded by MaxTokens    *)
(* beyond the opening.  Of the tree only what the properties tell apart is  *)
(* kept: of the expression returned last, whether it is null and how        *)
(* tightly its outermost operator binds.                                    *)
(***************************************************************************)
EXTENDS Integers, Sequences

CONSTANTS
  Tokens,           \* the kinds of token the input is made of, without "eof"
  RecoveryTokens,   \* the kinds that are still delivered after an error
  Openings,         \* sequences of tokens an input may begin with
  MaxTokens         \* bound: tokens after the opening

ASSUME TokensAssumption ==
  /\ RecoveryTokens \subseteq Tokens
  /\ "eof" \notin Tokens
  /\ Openings \subseteq Seq(Tokens)
  /\ MaxTokens \in Nat

VARIABLES
  stack,     \* what is left to do, first thing first
  ahead,     \* tokens delivered and not consumed yet
  left,      \* how many more tokens the input may have
  value,     \* the expression returned last: Null, or the power of its root
  errors,    \* diags_.hasErrors(), as far as the parser reports
  crashed    \* a null expression was dereferenced

vars == <<stack, ahead, left, value, errors, crashed>>

-----------------------------------------------------------------------------
(* Tokens.  An identifier that stands in a for header and is not the name   *)
(* of the loop variable is a "stranger"; a pragma whose text parsePragma    *)
(* rejects is a "bad_pragma".  Either is of the kind of its good twin.      *)

\* TokenKind's names.
LBrace == "{"
RBrace == "}"
Semi == ";"
Comma == ","

Identifier == {"identifier", "stranger"}
PragmaToken == {"pragma", "bad_pragma"}
RelationalOps == {"<", "<=", ">", ">="}
UnaryOps == {"-", "+", "~", "!"}

\* How tightly a binary operator binds; 0 for what is none.
BindingPower(op) ==
  CASE op = "||" -> 1
    [] op = "&&" -> 2
    [] op \in RelationalOps \cup {"==", "!="} -> 3
    [] op \in {"+", "-", "|", "^"} -> 4
    [] op \in {"*", "/", "%", "<<", ">>", "&"} -> 5
    [] OTHER -> 0

Null == -1              \* nullptr
Conditional == 0        \* a ternary
Tight == 6              \* a unary, postfix or primary expression

-----------------------------------------------------------------------------
(* Things to do.                                                            *)

Expect(kinds) == <<"expect", kinds>>
Do(procedure) == <<procedure>>
Expr(minBP) == <<"expr", minBP>>
IfAccept(k, yes, no) == <<"accept", k, yes, no>>

Expression == Do("conditional")
Type == Expect({"type"})
Name == Expect(Identifier)
Sym(k) == Expect({k})

Indexed == <<Expression, Sym("]")>>
ArrayInit == <<Sym(LBrace), Do("items"), Sym(RBrace)>>
Rhs == IfAccept("read", <<Sym("("), Name, Sym(")")>>, <<Expression>>)

\* Mutant: a scalar may be declared without a value.
MutantScalarInit == <<IfAccept("=", <<Rhs>>, <<>>)>>

ScalarInit == <<Sym("="), Rhs>>

Declaration ==
  <<Type, Name,
    IfAccept("[", Indexed \o <<IfAccept("=", ArrayInit, <<>>)>>, ScalarInit),
    Sym(Semi)>>

Assign == <<Name, IfAccept("[", Indexed, <<>>), Sym("="), Rhs, Sym(Semi)>>

Write ==
  <<Sym("write"), Sym("("), Name, Sym(Comma), Expression, Sym(")"), Sym(Semi)>>

If ==
  <<Sym("if"), Sym("("), Expression, Sym(")"), Do("block"),
    IfAccept("else", <<Do("else")>>, <<>>)>>

For ==
  <<Do("pragma"), Sym("for"), Sym("("),
    Type, Name, Sym("="), Expression, Sym(Semi),
    Do("header_name"), Expect(RelationalOps), Expression, Sym(Semi),
    Do("header_name"), Sym("="), Do("header_name"), Expect({"+", "-"}),
    Expression, Sym(")"), Do("block")>>

Return == <<Sym("return"), Expression, Sym(Semi)>>

Block == <<Sym(LBrace), <<"statements", FALSE>>, Sym(RBrace)>>

ConstDecl ==
  <<Sym("const"), Type, Name,
    IfAccept("[", Indexed \o <<Sym("=")>> \o ArrayInit,
                  <<Sym("="), Expression>>),
    Sym(Semi)>>

\* Mutant: at most two elements, and no comma behind them.
MutantMoreItems == IfAccept(Comma, <<Expression>>, <<>>)

\* while (accept(Comma) && !check(RBrace)): a comma may be the last thing.
MoreItems == IfAccept(Comma, <<Do("items")>>, <<>>)

\* Mutant: the ';' that recovery stops at is left to the block.
MutantRecovery == <<<<"skip", {Semi, RBrace, "eof"}>>>>

\* After "expected a statement".
Recovery == <<<<"skip", {Semi, RBrace, "eof"}>>, IfAccept(Semi, <<>>, <<>>)>>

StreamParam == <<Sym("stream"), Sym("<"), Type, Sym(">"), Name>>
ValueParam == <<Type, Name, IfAccept("[", Indexed, <<>>)>>

Function ==
  <<Type, Name, Sym("("), Do("params"), Sym(")"), Do("block")>>

-----------------------------------------------------------------------------
(* Peeking, consuming and reporting.                                        *)

Peek == Head(ahead)

\* Only parsePostfix looks at a second token, and only behind an identifier.
Ready ==
  /\ ahead # <<>>
  /\ Head(stack)[1] = "postfix" /\ Peek \in Identifier => Len(ahead) > 1

At(procedure) ==
  /\ stack # <<>>
  /\ Ready
  /\ Head(stack)[1] = procedure

Argument == Head(stack)[2]

\* A block notes that a statement of it has consumed something: the code
\* compares pos_ with its value before the statement.
Moved(tasks) ==
  [i \in DOMAIN tasks |->
     IF tasks[i][1] = "statements" THEN <<"statements", FALSE>> ELSE tasks[i]]

Consumed == IF Peek = "eof" THEN ahead ELSE Tail(ahead)

\* Consume a token and do `tasks` next.
Take(tasks) ==
  /\ ahead' = Consumed
  /\ stack' = tasks \o IF Peek = "eof" THEN Tail(stack) ELSE Moved(Tail(stack))

\* Do `tasks` next and leave the token.
Go(tasks) ==
  /\ stack' = tasks \o Tail(stack)
  /\ UNCHANGED ahead

Report == errors' = TRUE
Silent == UNCHANGED errors
Keep == UNCHANGED <<left, value, crashed>>
Give(v) == value' = v /\ UNCHANGED <<left, crashed>>

-----------------------------------------------------------------------------
(* The environment: the next token, chosen when the parser first looks.     *)

Fetch(t) ==
  /\ stack # <<>>
  /\ ~Ready
  /\ t = "eof" \/ (left > 0 /\ t \in IF errors THEN RecoveryTokens ELSE Tokens)
  /\ ahead' = Append(ahead, t)
  /\ left' = IF t = "eof" THEN 0 ELSE left - 1
  /\ UNCHANGED <<stack, value, errors, crashed>>

-----------------------------------------------------------------------------
(* Token helpers.                                                           *)

ExpectToken ==
  /\ At("expect")
  /\ Keep
  /\ IF Peek \in Argument THEN Take(<<>>) /\ Silent ELSE Go(<<>>) /\ Report

Accept ==
  /\ At("accept")
  /\ Keep
  /\ Silent
  /\ IF Peek = Argument THEN Take(Head(stack)[3]) ELSE Go(Head(stack)[4])

\* while (!check(...)) advance();
Skip ==
  /\ At("skip")
  /\ Keep
  /\ Silent
  /\ IF Peek \in Argument THEN Go(<<>>) ELSE Take(<<Head(stack)>>)

-----------------------------------------------------------------------------
(* Expressions.                                                             *)

ParseConditional ==
  /\ At("conditional")
  /\ Keep
  /\ Silent
  /\ Go(<<Expr(0), Do("question")>>)

\* The condition is parsed; it waits beneath the arms.
ParseQuestion ==
  /\ At("question")
  /\ Keep
  /\ Silent
  /\ IF Peek = "?"
     THEN Take(<<Expr(0), Sym(":"), Expression, <<"ternary", value>>>>)
     ELSE Go(<<>>)

\* span(*cond, *f)
MakeTernary ==
  /\ At("ternary")
  /\ UNCHANGED <<left, errors>>
  /\ IF Null \in {Argument, value}
     THEN crashed' = TRUE /\ stack' = <<>> /\ UNCHANGED <<ahead, value>>
     ELSE value' = Conditional /\ Go(<<>>) /\ UNCHANGED crashed

ParseExpr ==
  /\ At("expr")
  /\ Keep
  /\ Silent
  /\ Go(<<Do("unary"), <<"operators", Argument>>>>)

\* Mutant: an operator of the same power nests to the right.
MutantRightPower(bp) == bp

\* The least power the right operand's operators need.
RightPower(bp) == bp + 1

\* One round of the precedence climbing loop, with lhs in `value`.
ParseOperators ==
  /\ At("operators")
  /\ Keep
  /\ Silent
  /\ LET bp == BindingPower(Peek) IN
     IF bp = 0 \/ bp < Argument
     THEN Go(<<>>)
     ELSE Take(<<Expr(RightPower(bp)), <<"binary", value, bp>>, Head(stack)>>)

\* span(*lhs, *rhs)
MakeBinary ==
  /\ At("binary")
  /\ UNCHANGED <<left, errors>>
  /\ IF Null \in {Argument, value}
     THEN crashed' = TRUE /\ stack' = <<>> /\ UNCHANGED <<ahead, value>>
     ELSE value' = Head(stack)[3] /\ Go(<<>>) /\ UNCHANGED crashed

ParseUnary ==
  /\ At("unary")
  /\ Keep
  /\ Silent
  /\ IF Peek \in UnaryOps
     THEN Take(<<Do("unary"), Do("wrap_unary")>>)
     ELSE Go(<<Do("postfix")>>)

\* A node around one operand: null when the operand is.
Wrap ==
  /\ At("wrap") \/ At("wrap_unary")
  /\ Give(IF value = Null THEN Null ELSE Tight)
  /\ Silent
  /\ Go(<<>>)

ParsePostfix ==
  /\ At("postfix")
  /\ Keep
  /\ Silent
  /\ IF Peek \in Identifier /\ ahead[2] = "["
     THEN /\ ahead' = SubSeq(ahead, 3, Len(ahead))
          /\ stack' = Indexed \o <<Do("wrap")>> \o Moved(Tail(stack))
     ELSE Go(<<Do("primary")>>)

\* Mutant: the null is not reported.
MutantMalformed == Take(<<>>) /\ Give(Null) /\ Silent

\* "expected an expression"
Malformed == Take(<<>>) /\ Give(Null) /\ Report

ParsePrimary ==
  /\ At("primary")
  /\ \/ /\ Peek \in {"literal"} \cup Identifier
        /\ Take(<<>>) /\ Give(Tight) /\ Silent
     \/ /\ Peek = "type"
        /\ Take(<<Sym("("), Expression, Sym(")"), Do("wrap")>>) /\ Keep /\ Silent
     \/ /\ Peek = "("
        /\ Take(<<Expression, Sym(")"), Do("wrap")>>) /\ Keep /\ Silent
     \/ /\ Peek \notin {"literal", "type", "("} \cup Identifier
        /\ Malformed

-----------------------------------------------------------------------------
(* Statements.                                                              *)

ParseBlock ==
  /\ At("block")
  /\ Keep
  /\ Silent
  /\ Go(Block)

\* Argument: a statement was parsed and nothing has been consumed since it
\* began.
ParseStatements ==
  /\ At("statements")
  /\ Keep
  /\ Silent
  /\ IF Argument THEN Take(<<<<"statements", FALSE>>>>)
     ELSE IF Peek \in {RBrace, "eof"} THEN Go(<<>>)
     ELSE Go(<<Do("statement"), <<"statements", TRUE>>>>)

StatementOf ==
  [type |-> Declaration, if |-> If, for |-> For, pragma |-> For,
   return |-> Return, write |-> Write, identifier |-> Assign]

Dispatch ==
  CASE Peek \in DOMAIN StatementOf -> StatementOf[Peek]
    [] Peek = "stranger" -> Assign
    [] Peek = "bad_pragma" -> For
    [] Peek = LBrace -> Block

ParseStatement ==
  /\ At("statement")
  /\ Keep
  /\ IF Peek \in DOMAIN StatementOf \cup {"stranger", "bad_pragma", LBrace}
     THEN Go(Dispatch) /\ Silent
     ELSE /\ Report
          /\ Go(Recovery)

\* The elements of an array initialiser.
ParseItems ==
  /\ At("items")
  /\ Keep
  /\ Silent
  /\ Go(IF Peek = RBrace THEN <<>>
        ELSE <<Expression, MoreItems>>)

ParseElse ==
  /\ At("else")
  /\ Keep
  /\ Silent
  /\ Go(IF Peek = "if" THEN If ELSE <<Do("block")>>)

ParsePragma ==
  /\ At("pragma")
  /\ Keep
  /\ errors' = (errors \/ Peek = "bad_pragma")
  /\ IF Peek \in PragmaToken THEN Take(<<>>) ELSE Go(<<>>)

\* The three names in a for header that must be the loop variable's.
ParseHeaderName ==
  /\ At("header_name")
  /\ Keep
  /\ errors' = (errors \/ Peek # "identifier")
  /\ IF Peek \in Identifier THEN Take(<<>>) ELSE Go(<<>>)

-----------------------------------------------------------------------------
(* Programs.                                                                *)

ParseParams ==
  /\ At("params")
  /\ Keep
  /\ Silent
  /\ Go(IF Peek = ")" THEN <<>> ELSE <<Do("param"), Do("more_params")>>)

ParseMoreParams ==
  /\ At("more_params")
  /\ Keep
  /\ Silent
  /\ IF Peek = Comma THEN Take(<<Do("param"), Do("more_params")>>) ELSE Go(<<>>)

ParseParam ==
  /\ At("param")
  /\ Keep
  /\ Silent
  /\ IF Peek \in {"in", "out"} THEN Take(StreamParam) ELSE Go(ValueParam)

\* Mutant: the token is left where it is.
MutantStrayToken == Go(<<Head(stack)>>) /\ Report

\* "expected a constant declaration or function"
StrayToken == Take(<<Head(stack)>>) /\ Report

\* Argument: haveFunction.
ParseProgram ==
  /\ At("program")
  /\ Keep
  /\ \/ /\ Peek = "eof"
        /\ Go(<<>>)
        /\ errors' = (errors \/ ~Argument)
     \/ /\ Peek = "const"
        /\ Go(ConstDecl \o <<Head(stack)>>) /\ Silent
     \/ /\ Peek = "type"
        /\ IF Argument
           THEN Go(<<<<"skip", {"eof"}>>>>) /\ Report
           ELSE Go(Function \o <<<<"program", TRUE>>>>) /\ Silent
     \/ /\ Peek \notin {"eof", "const", "type"}
        /\ StrayToken

-----------------------------------------------------------------------------

Init ==
  /\ stack = <<<<"program", FALSE>>>>
  /\ ahead \in Openings
  /\ left = MaxTokens
  /\ value = Tight     \* nothing parsed yet
  /\ errors = FALSE
  /\ crashed = FALSE

ParseAnExpression ==
  \/ ParseConditional \/ ParseQuestion \/ MakeTernary
  \/ ParseExpr \/ ParseOperators \/ MakeBinary
  \/ ParseUnary \/ Wrap \/ ParsePostfix \/ ParsePrimary

ParseAStatement ==
  \/ ParseBlock \/ ParseStatements \/ ParseStatement \/ ParseItems
  \/ ParseElse \/ ParsePragma \/ ParseHeaderName

ParseAProgram == ParseParams \/ ParseMoreParams \/ ParseParam \/ ParseProgram

\* What parseProgram and its callees do; the input is not their choice.
Parse ==
  \/ ExpectToken \/ Accept \/ Skip
  \/ ParseAnExpression \/ ParseAStatement \/ ParseAProgram

Next == Parse \/ \E t \in Tokens \cup {"eof"} : Fetch(t)

Spec == Init /\ [][Next]_vars /\ WF_vars(Next)

Done == stack = <<>>

-----------------------------------------------------------------------------
(* Every input is parsed to its end: whatever error recovery skips or       *)
(* leaves, the parser stops (the loops of parseBlock, parseStatement,       *)
(* parseProgram and of the lists of parameters and elements).               *)
Terminates == <>Done

(* Operators nest as their binding powers say: the left operand of a        *)
(* binary operator is at least as tight as the operator, the right one is   *)
(* tighter (so equal powers associate to the left), a unary operator takes  *)
(* a unary expression and a condition is no ternary (parseExpr,             *)
(* parseUnary, parseConditional).                                           *)
PrecedenceRespected ==
  ~Done /\ value # Null =>
    CASE Head(stack)[1] = "binary" ->
           Argument # Null =>
             Argument >= Head(stack)[3] /\ value > Head(stack)[3]
      [] Head(stack)[1] = "wrap_unary" -> value = Tight
      [] Head(stack)[1] = "ternary" -> Argument # Conditional
      [] OTHER -> TRUE

(* A missing operand never goes unreported: hasErrors() is all that keeps a *)
(* tree with null in it from the interpreter and the generators             *)
(* (parsePrimary, whoever gets its null, and compileText).                  *)
NullIsReported ==
  /\ crashed \/ value = Null => errors
  /\ \A i \in DOMAIN stack :
       stack[i][1] \in {"binary", "ternary"} /\ stack[i][2] = Null => errors

(* A statement that cannot be parsed still consumes something, so the       *)
(* emergency advance() of parseBlock, which could skip the brace of an      *)
(* enclosing block, is never needed (parseStatement's recovery).            *)
EveryStatementConsumes ==
  ~Done /\ Head(stack)[1] = "statements" => ~Argument

(* A malformed expression is reported and never dereferences the null that  *)
(* stands for it.                                                           *)
NoNullDereference == ~crashed
=============================================================================
