---------------------------- MODULE ParserProofs ----------------------------
(***************************************************************************)
(* The recursive descent over tokens of any number.  Nesting relates each   *)
(* procedure that waits for a value to the one above it on the stack, which *)
(* returns it, and to the token that stands next when it is returned;       *)
(* Progress says that a block that notes its position has in front of it    *)
(* what consumes a token.                                                   *)
(***************************************************************************)
EXTENDS Parser, TLAPS

Powers == 1 .. 5
Values == Null .. Tight

\* The kinds of token the code asks for by name.
Terminals ==
  {"identifier", "stranger", "type", "const", "else", "for", "if", "read", "return",
   "stream", "write", "+", "-", "<", "<=", ">", ">=", "=", ":", "(", ")", LBrace, RBrace,
   "[", "]", Comma, Semi, "eof"}

Procedures ==
  {"conditional", "unary", "postfix", "primary", "wrap",
   "block", "statement", "items", "else", "pragma", "header_name",
   "params", "more_params", "param"}

\* What the code does next, before it has seen any of the input: things without
\* branches, things with them, and these with further ones inside.
Leaves ==
  ({"expect", "skip"} \X SUBSET Terminals) \cup {<<p>> : p \in Procedures}
    \cup ({"expr"} \X (0 .. Tight)) \cup ({"program"} \X BOOLEAN)
    \cup {<<"statements", FALSE>>}

Branching(tasks) == {"accept"} \X Terminals \X Seq(tasks) \X Seq(tasks)

Inner == Leaves \cup Branching(Leaves)

Static == Inner \cup Branching(Inner)

\* What waits for the value of an expression.  err: something was reported.
Pending(err) ==
  {t \in {"binary"} \X Values \X Powers :
     IF t[2] = Null THEN err ELSE t[2] >= t[3]}
    \cup {t \in {"ternary"} \X Values : t[2] # Conditional /\ (t[2] = Null => err)}
    \cup ({"operators"} \X (0 .. Tight)) \cup {<<"question">>, <<"wrap_unary">>}

Calm(err) == Static \cup Pending(err)

\* A block that has not seen its statement consume anything.
Note == <<"statements", TRUE>>

Tasks(err) == Calm(err) \cup {Note}

\* What a value is returned to, and the procedures whose value binds tightly.
Awaiting == {"binary", "operators", "question", "wrap_unary"}

TightTasks == {"unary", "postfix", "primary", "wrap", "wrap_unary"}

\* Behind a y comes what returns the value y awaits, x.
Follows(x, y) ==
  /\ y[1] = "binary" => x[1] \in {"expr", "operators"} /\ x[2] = y[3] + 1
  /\ y[1] = "operators" =>
       x[1] \in TightTasks \/ (x[1] = "binary" /\ x[3] >= y[2])
  /\ y[1] = "wrap_unary" => x[1] \in TightTasks
  /\ y[1] = "question" => x[1] \in {"expr", "operators"} /\ x[2] = 0

\* Each thing to do follows what it returns its value to.
Linked(tasks) == \A i \in 1 .. Len(tasks) - 1 : Follows(tasks[i], tasks[i + 1])

\* The next token is known, and as an operator it binds at most that tightly.
Bounded(tokens, power) == tokens # <<>> /\ BindingPower(Head(tokens)) <= power

\* v is a value that y, which is next, may find, in front of the tokens.
Returned(y, v, tokens) ==
  /\ y[1] = "binary" => Bounded(tokens, y[3]) /\ (v # Null => v > y[3])
  /\ y[1] = "operators" /\ v # Null =>
       v >= 1 /\ v >= y[2] /\ (v = Tight \/ Bounded(tokens, v))
  /\ y[1] = "wrap_unary" => v \in {Null, Tight}
  /\ y[1] = "question" => v # Conditional

\* A block waits to see whether its statement consumed anything.
Noted(tasks) == \E i \in DOMAIN tasks : tasks[i] = Note

\* What is left to do fits together, value and next token included, and every
\* null has been reported.
Nesting ==
  /\ ahead \in Seq(Tokens \cup {"eof"})
  /\ stack \in Seq(Tasks(errors))
  /\ Linked(stack)
  /\ value \in Values
  /\ stack # <<>> => Returned(Head(stack), value, ahead)
  /\ errors \in BOOLEAN
  /\ crashed \/ value = Null => errors

\* The first thing to do consumes the next token, or leads to what does.
Consumes ==
  /\ ahead # <<>> /\ Peek # "eof"
  /\ \/ Head(stack)[1] = "statement" /\ Peek # RBrace
     \/ Head(stack)[1] = "expect" /\ Peek \in Argument
     \/ Head(stack)[1] = "accept" /\ Peek = Argument
     \/ Head(stack)[1] = "skip" /\ Len(stack) > 1 /\ Peek # RBrace
        /\ Argument = {Semi, RBrace, "eof"} /\ stack[2] = IfAccept(Semi, <<>>, <<>>)
     \/ Head(stack)[1] = "pragma" /\ Peek \in PragmaToken
     \/ Head(stack)[1] = "pragma" /\ Peek = "for" /\ Len(stack) > 1 /\ stack[2] = Sym("for")

\* A block that waits for its statement is not kept waiting without progress.
Progress == Noted(stack) => Consumes

\* What may be in front of a noted block.
Consumers == {"statement", "expect", "accept", "skip", "pragma"}

Parsed == Nesting /\ Progress

-----------------------------------------------------------------------------
\* The constructors of things to do make leaves.
LEMMA LeavesAre ==
  /\ \A ks \in SUBSET Terminals : Expect(ks) \in Leaves /\ <<"skip", ks>> \in Leaves
  /\ \A p \in Procedures : Do(p) \in Leaves
  /\ \A n \in 0 .. Tight : Expr(n) \in Leaves
  /\ \A b \in BOOLEAN : <<"program", b>> \in Leaves
  /\ <<"statements", FALSE>> \in Leaves
  BY DEF Leaves, Expect, Do, Expr

\* So do the tokens and rules the parser names.
LEMMA Words ==
  /\ Sym("(") \in Leaves /\ Sym(")") \in Leaves /\ Sym("[") \in Leaves
  /\ Sym("]") \in Leaves /\ Sym(LBrace) \in Leaves /\ Sym(RBrace) \in Leaves
  /\ Sym(Semi) \in Leaves /\ Sym(Comma) \in Leaves /\ Sym("=") \in Leaves
  /\ Sym(":") \in Leaves /\ Sym("<") \in Leaves /\ Sym(">") \in Leaves
  /\ Sym("write") \in Leaves /\ Sym("if") \in Leaves /\ Sym("for") \in Leaves
  /\ Sym("return") \in Leaves /\ Sym("const") \in Leaves /\ Sym("stream") \in Leaves
  /\ Expression \in Leaves /\ Type \in Leaves /\ Name \in Leaves
<1>1. ASSUME NEW k \in Terminals
      PROVE  Sym(k) \in Leaves
  <2>1. {k} \in SUBSET Terminals
    OBVIOUS
  <2> QED
    BY <2>1, LeavesAre DEF Sym
<1>2. Expression \in Leaves
  BY LeavesAre DEF Expression, Procedures
<1>3. Identifier \in SUBSET Terminals /\ {"type"} \in SUBSET Terminals
  BY DEF Identifier, Terminals
<1>4. Type \in Leaves /\ Name \in Leaves
  BY <1>3, LeavesAre DEF Type, Name
<1> QED
  BY <1>1, <1>2, <1>4 DEF Terminals

\* A leaf is static on each level.
LEMMA Levels == Leaves \subseteq Inner /\ Inner \subseteq Static
  BY DEF Inner, Static

\* accept() raises the level by one.
LEMMA Accepting ==
  ASSUME NEW k \in Terminals
  PROVE  /\ \A yes, no \in Seq(Leaves) : IfAccept(k, yes, no) \in Inner
         /\ \A yes, no \in Seq(Inner) : IfAccept(k, yes, no) \in Static
  BY DEF Inner, Static, Branching, IfAccept

\* The pieces the rules share.
LEMMA Pieces ==
  /\ Indexed \in Seq(Leaves)
  /\ ArrayInit \in Seq(Leaves)
  /\ Rhs \in Inner
  /\ ScalarInit \in Seq(Inner)
<1>1. Indexed \in Seq(Leaves)
  BY Words DEF Indexed
<1>2. ArrayInit \in Seq(Leaves)
  <2>1. Do("items") \in Leaves
    BY LeavesAre DEF Procedures
  <2> QED
    BY <2>1, Words DEF ArrayInit
<1>3. Rhs \in Inner
  <2>1. <<Sym("("), Name, Sym(")")>> \in Seq(Leaves)
    BY Words
  <2>2. <<Expression>> \in Seq(Leaves)
    BY Words
  <2> QED
    BY <2>1, <2>2, Accepting DEF Rhs, Terminals
<1>4. ScalarInit \in Seq(Inner)
  BY <1>3, Levels, Words DEF ScalarInit
<1> QED
  BY <1>1, <1>2, <1>3, <1>4

\* What is known to be left to do stays so on a higher level.
LEMMA Raise ==
  /\ \A s \in Seq(Leaves) : s \in Seq(Inner)
  /\ \A s \in Seq(Inner) : s \in Seq(Static)
  /\ \A s \in Seq(Leaves) : s \in Seq(Static)
  BY Levels

\* What accept() is asked for.
LEMMA Conditions ==
  /\ "[" \in Terminals /\ "=" \in Terminals /\ "else" \in Terminals
  /\ Semi \in Terminals /\ Comma \in Terminals
  /\ <<>> \in Seq(Leaves) /\ <<>> \in Seq(Inner)
  BY DEF Terminals

\* The body of each procedure is static.
LEMMA Bodies ==
  /\ Declaration \in Seq(Static) /\ Assign \in Seq(Static) /\ Write \in Seq(Static)
  /\ If \in Seq(Static) /\ For \in Seq(Static) /\ Return \in Seq(Static)
  /\ Block \in Seq(Static) /\ ConstDecl \in Seq(Static) /\ MoreItems \in Static
  /\ Recovery \in Seq(Static) /\ StreamParam \in Seq(Static)
  /\ ValueParam \in Seq(Static) /\ Function \in Seq(Static) /\ Indexed \in Seq(Static)
<1>1. Declaration \in Seq(Static)
  <2>1. IfAccept("=", ArrayInit, <<>>) \in Inner
    BY Pieces, Accepting, Conditions
  <2>2. <<IfAccept("=", ArrayInit, <<>>)>> \in Seq(Inner)
    BY <2>1
  <2>3. Indexed \o <<IfAccept("=", ArrayInit, <<>>)>> \in Seq(Inner)
    BY <2>2, Pieces, Raise
  <2>4. IfAccept("[", Indexed \o <<IfAccept("=", ArrayInit, <<>>)>>, ScalarInit) \in Static
    BY <2>3, Pieces, Accepting, Conditions
  <2> QED
    BY <2>4, Words, Levels DEF Declaration
<1>2. IfAccept("[", Indexed, <<>>) \in Inner
  BY Pieces, Accepting, Conditions
<1>3. Assign \in Seq(Static)
  BY <1>2, Words, Pieces, Levels DEF Assign
<1>4. Write \in Seq(Static)
  BY Words, Levels DEF Write
<1>5. Do("block") \in Leaves /\ Do("else") \in Leaves /\ Do("pragma") \in Leaves
      /\ Do("header_name") \in Leaves /\ Do("items") \in Leaves /\ Do("params") \in Leaves
  BY LeavesAre DEF Procedures
<1>6. If \in Seq(Static)
  <2>1. <<Do("else")>> \in Seq(Leaves)
    BY <1>5
  <2>2. IfAccept("else", <<Do("else")>>, <<>>) \in Inner
    BY <2>1, Accepting, Conditions
  <2> QED
    BY <1>5, <2>2, Words, Levels DEF If
<1>7. For \in Seq(Static)
  <2>1. RelationalOps \in SUBSET Terminals /\ {"+", "-"} \in SUBSET Terminals
    BY DEF RelationalOps, Terminals
  <2>2. Expect(RelationalOps) \in Leaves /\ Expect({"+", "-"}) \in Leaves
    BY <2>1, LeavesAre
  <2> QED
    BY <1>5, <2>2, Words, Levels DEF For
<1>8. Return \in Seq(Static)
  BY Words, Levels DEF Return
<1>9. Block \in Seq(Static)
  <2>1. <<"statements", FALSE>> \in Leaves
    BY LeavesAre
  <2> QED
    BY <2>1, Words, Levels DEF Block
<1>10. ConstDecl \in Seq(Static)
  <2>1. <<Sym("=")>> \in Seq(Leaves)
    BY Words
  <2>2. Indexed \o <<Sym("=")>> \o ArrayInit \in Seq(Leaves)
    BY <2>1, Pieces
  <2>3. <<Sym("="), Expression>> \in Seq(Leaves)
    BY Words
  <2>4. IfAccept("[", Indexed \o <<Sym("=")>> \o ArrayInit, <<Sym("="), Expression>>) \in Inner
    BY <2>2, <2>3, Accepting, Conditions
  <2> QED
    BY <2>4, Words, Levels DEF ConstDecl
<1>11. MoreItems \in Static
  <2>1. <<Do("items")>> \in Seq(Leaves)
    BY <1>5
  <2> QED
    BY <2>1, Accepting, Conditions, Levels DEF MoreItems
<1>12. Recovery \in Seq(Static)
  <2>1. {Semi, RBrace, "eof"} \in SUBSET Terminals
    BY DEF Terminals
  <2>2. <<"skip", {Semi, RBrace, "eof"}>> \in Leaves
    BY <2>1, LeavesAre
  <2>3. IfAccept(Semi, <<>>, <<>>) \in Inner
    BY Accepting, Conditions
  <2> QED
    BY <2>2, <2>3, Levels DEF Recovery
<1>13. StreamParam \in Seq(Static)
  BY Words, Levels DEF StreamParam
<1>14. ValueParam \in Seq(Static)
  BY <1>2, Words, Levels DEF ValueParam
<1>15. Function \in Seq(Static)
  BY <1>5, Words, Levels DEF Function
<1>16. Indexed \in Seq(Static)
  BY Pieces, Raise
<1> QED
  BY <1>1, <1>3, <1>4, <1>6, <1>7, <1>8, <1>9, <1>10, <1>11, <1>12, <1>13, <1>14, <1>15, <1>16

\* A noted block and one that is not differ.
LEMMA NoteIs ==
  Note[1] = "statements" /\ Note # <<"statements", FALSE>>
<1>1. Note[1] = "statements"
  BY DEF Note
<1>2. Note[2] = TRUE /\ <<"statements", FALSE>>[2] = FALSE
  BY DEF Note
<1> QED
  BY <1>1, <1>2

\* What is static awaits no value.
LEMMA StaticAwaitsNothing ==
  ASSUME NEW t \in Static
  PROVE  /\ t[1] \notin Awaiting \cup {"ternary"}
         /\ t[1] = "accept" => t[3] \in Seq(Static) /\ t[4] \in Seq(Static)
         /\ t[1] = "expr" => t[2] \in 0 .. Tight
         /\ t # Note
<1>1. CASE t \in Leaves
  <2>1. CASE \E p \in Procedures : t = <<p>>
    BY <2>1, NoteIs DEF Procedures, Awaiting
  <2>2. CASE t = <<"statements", FALSE>>
    BY <2>2, NoteIs DEF Awaiting
  <2>3. CASE t[1] \in {"expect", "skip", "program"} \/ t \in {"expr"} \X (0 .. Tight)
    BY <2>3, NoteIs DEF Awaiting
  <2> QED
    BY <1>1, <2>1, <2>2, <2>3 DEF Leaves
<1>2. CASE t \in Branching(Leaves)
  BY <1>2, Raise, NoteIs DEF Branching, Awaiting
<1>3. CASE t \in Branching(Inner)
  BY <1>3, Raise, NoteIs DEF Branching, Awaiting
<1> QED
  BY <1>1, <1>2, <1>3 DEF Static, Inner

\* What is kept for the operators and conditionals that wait for a value.
LEMMA PendingFields ==
  ASSUME NEW err, NEW t \in Pending(err)
  PROVE  /\ t[1] = "binary" => /\ t[2] \in Values /\ t[3] \in Powers
                               /\ t[2] = Null => err
                               /\ t[2] # Null => t[2] >= t[3]
         /\ t[1] = "ternary" => /\ t[2] \in Values /\ t[2] # Conditional
                                /\ t[2] = Null => err
         /\ t[1] = "operators" => t[2] \in 0 .. Tight
         /\ t[1] \in Awaiting \cup {"ternary"}
         /\ t # Note
  BY NoteIs DEF Pending, Awaiting

\* What is known of anything that is left to do.
LEMMA Fields ==
  ASSUME NEW err, NEW t \in Tasks(err)
  PROVE  /\ t[1] = "binary" => /\ t[2] \in Values /\ t[3] \in Powers
                               /\ t[2] = Null => err
                               /\ t[2] # Null => t[2] >= t[3]
         /\ t[1] = "ternary" => /\ t[2] \in Values /\ t[2] # Conditional
                                /\ t[2] = Null => err
         /\ t[1] = "operators" => t[2] \in 0 .. Tight
         /\ t[1] = "accept" => t[3] \in Seq(Static) /\ t[4] \in Seq(Static)
         /\ t[1] = "expr" => t[2] \in 0 .. Tight
<1>1. CASE t \in Static
  BY <1>1, StaticAwaitsNothing DEF Awaiting
<1>2. CASE t \in Pending(err)
  BY <1>2, PendingFields DEF Awaiting
<1>3. CASE t = Note
  BY <1>3, NoteIs
<1> QED
  BY <1>1, <1>2, <1>3 DEF Tasks, Calm

\* A block has noted its position or not.
LEMMA StatementsAre ==
  ASSUME NEW err, NEW t \in Tasks(err), t[1] = "statements", t # Note
  PROVE  t = <<"statements", FALSE>>
<1>1. t \in Static
  BY PendingFields DEF Tasks, Calm, Awaiting
<1>2. t \in Leaves
  BY <1>1 DEF Static, Inner, Branching
<1>3. t \notin {<<p>> : p \in Procedures}
  BY DEF Procedures
<1> QED
  BY <1>2, <1>3 DEF Leaves

\* A report allows more, and takes nothing away.
LEMMA TasksGrow ==
  ASSUME NEW a \in BOOLEAN, NEW b \in BOOLEAN, a => b
  PROVE  /\ Tasks(a) \subseteq Tasks(b)
         /\ Seq(Tasks(a)) \subseteq Seq(Tasks(b))
         /\ Seq(Static) \subseteq Seq(Calm(b))
         /\ Seq(Calm(b)) \subseteq Seq(Tasks(b))
<1>1. Tasks(a) \subseteq Tasks(b)
  BY DEF Tasks, Calm, Pending
<1>2. Static \subseteq Calm(b) /\ Calm(b) \subseteq Tasks(b)
  BY DEF Tasks, Calm
<1> QED
  BY <1>1, <1>2

\* Only the blocks' notes change when a token is consumed.
LEMMA MovedTasks ==
  ASSUME NEW err, NEW s \in Seq(Tasks(err))
  PROVE  /\ Moved(s) \in Seq(Tasks(err))
         /\ Len(Moved(s)) = Len(s)
         /\ \A i \in 1 .. Len(s) :
              IF s[i][1] = "statements" THEN Moved(s)[i] = <<"statements", FALSE>>
              ELSE Moved(s)[i] = s[i]
<1>1. <<"statements", FALSE>> \in Tasks(err)
  BY LeavesAre, Levels DEF Tasks, Calm
<1> DEFINE Reset(t) == IF t[1] = "statements" THEN <<"statements", FALSE>> ELSE t
<1>2. DOMAIN s = 1 .. Len(s) /\ Len(s) \in Nat
  OBVIOUS
<1>3. Moved(s) = [i \in 1 .. Len(s) |-> Reset(s[i])]
  BY <1>2 DEF Moved
<1>4. \A i \in 1 .. Len(s) : Reset(s[i]) \in Tasks(err)
  BY <1>1
<1> HIDE DEF Reset
<1>5. Moved(s) \in Seq(Tasks(err))
  BY <1>2, <1>3, <1>4
<1>6. Len(Moved(s)) = Len(s)
  BY <1>2, <1>3, <1>5
<1>7. \A i \in 1 .. Len(s) : Moved(s)[i] = Reset(s[i])
  BY <1>3
<1> QED
  BY <1>5, <1>6, <1>7 DEF Reset

\* What is behind the first thing to do, after a step that consumed a token or
\* did not.
LEMMA Rest ==
  ASSUME NEW err, NEW s \in Seq(Tasks(err)), s # <<>>, Linked(s),
         NEW t, t = Tail(s) \/ t = Moved(Tail(s))
  PROVE  /\ t \in Seq(Tasks(err))
         /\ Linked(t)
         /\ t # <<>> => Follows(Head(s), Head(t))
<1>1. /\ Tail(s) \in Seq(Tasks(err)) /\ Len(Tail(s)) = Len(s) - 1
      /\ \A i \in 1 .. Len(s) - 1 : Tail(s)[i] = s[i + 1]
      /\ Len(s) \in Nat \ {0} /\ Head(s) = s[1]
  OBVIOUS
<1>2. /\ t \in Seq(Tasks(err)) /\ Len(t) = Len(s) - 1
      /\ \A i \in 1 .. Len(s) - 1 :
            t[i] = s[i + 1] \/ (s[i + 1][1] = "statements" /\ t[i] = <<"statements", FALSE>>)
  <2>1. CASE t = Tail(s)
    BY <1>1, <2>1
  <2>2. CASE t = Moved(Tail(s))
    <3>1. \A i \in 1 .. Len(s) - 1 :
             \/ t[i] = Tail(s)[i]
             \/ Tail(s)[i][1] = "statements" /\ t[i] = <<"statements", FALSE>>
      BY <1>1, <2>2, MovedTasks
    <3> QED
      BY <1>1, <2>2, <3>1, MovedTasks
  <2> QED
    BY <2>1, <2>2
<1>3. ASSUME NEW x, NEW y, NEW z, NEW w, Follows(x, y),
             z = x \/ (x[1] = "statements" /\ z = <<"statements", FALSE>>),
             w = y \/ (y[1] = "statements" /\ w = <<"statements", FALSE>>)
      PROVE  Follows(z, w)
  <2>1. CASE w = <<"statements", FALSE>>
    <3>1. w[1] = "statements"
      BY <2>1
    <3> QED
      BY <3>1 DEF Follows
  <2>2. CASE w = y /\ z = x
    BY <1>3, <2>2
  <2>3. CASE w = y /\ z # x
    BY <1>3, <2>3 DEF Follows, TightTasks
  <2> QED
    BY <1>3, <2>1, <2>2, <2>3
<1>4. Linked(t)
  <2> SUFFICES ASSUME NEW i \in 1 .. Len(t) - 1
               PROVE  Follows(t[i], t[i + 1])
    BY DEF Linked
  <2>1. i + 1 \in 1 .. Len(s) - 1 /\ i \in 1 .. Len(s) - 1 /\ (i + 1) + 1 = i + 2
    BY <1>1, <1>2
  <2>2. Follows(s[i + 1], s[i + 2])
    BY <1>1, <2>1 DEF Linked
  <2> QED
    BY <1>2, <1>3, <2>1, <2>2
<1>5. ASSUME t # <<>>
      PROVE  Follows(Head(s), Head(t))
  <2>1. 1 \in 1 .. Len(s) - 1 /\ Head(t) = t[1]
    BY <1>1, <1>2, <1>5
  <2>2. Follows(s[1], s[2])
    BY <1>1, <2>1 DEF Linked
  <2>3. \/ t[1] = s[1 + 1]
        \/ s[1 + 1][1] = "statements" /\ t[1] = <<"statements", FALSE>>
    BY <1>2, <2>1
  <2>4. s[1 + 1] = s[2] /\ Head(s) = s[1]
    BY <1>1
  <2>5. Follows(s[1], t[1])
    BY <1>3, <2>2, <2>3, <2>4
  <2> QED
    BY <2>1, <2>4, <2>5
<1> QED
  BY <1>2, <1>4, <1>5

\* Two stacks, one on top of the other.
LEMMA Joined ==
  ASSUME NEW err, NEW a \in Seq(Tasks(err)), NEW b \in Seq(Tasks(err)),
         Linked(a), Linked(b),
         a # <<>> /\ b # <<>> => Follows(a[Len(a)], Head(b))
  PROVE  /\ a \o b \in Seq(Tasks(err))
         /\ Linked(a \o b)
         /\ a # <<>> => a \o b # <<>> /\ Head(a \o b) = Head(a)
         /\ a = <<>> => a \o b = b
<1>1. /\ a \o b \in Seq(Tasks(err)) /\ Len(a \o b) = Len(a) + Len(b)
      /\ Len(a) \in Nat /\ Len(b) \in Nat
      /\ \A i \in 1 .. Len(a) : (a \o b)[i] = a[i]
      /\ \A i \in Len(a) + 1 .. Len(a) + Len(b) : (a \o b)[i] = b[i - Len(a)]
  OBVIOUS
<1>2. ASSUME NEW i \in 1 .. Len(a \o b) - 1
      PROVE  Follows((a \o b)[i], (a \o b)[i + 1])
  <2>1. CASE i < Len(a)
    <3>1. i \in 1 .. Len(a) - 1 /\ i \in 1 .. Len(a) /\ i + 1 \in 1 .. Len(a)
      BY <1>1, <2>1
    <3> QED
      BY <1>1, <3>1 DEF Linked
  <2>2. CASE i = Len(a)
    <3>1. /\ i \in 1 .. Len(a) /\ i + 1 \in Len(a) + 1 .. Len(a) + Len(b)
          /\ (i + 1) - Len(a) = 1 /\ a # <<>> /\ b # <<>> /\ Head(b) = b[1]
      BY <1>1, <2>2
    <3> QED
      BY <1>1, <2>2, <3>1
  <2>3. CASE i > Len(a)
    <3>1. /\ i \in Len(a) + 1 .. Len(a) + Len(b) /\ i + 1 \in Len(a) + 1 .. Len(a) + Len(b)
          /\ (i + 1) - Len(a) = (i - Len(a)) + 1 /\ i - Len(a) \in 1 .. Len(b) - 1
      BY <1>1, <2>3
    <3>2. Follows(b[i - Len(a)], b[(i - Len(a)) + 1])
      BY <3>1 DEF Linked
    <3> QED
      BY <1>1, <3>1, <3>2
  <2> QED
    BY <1>1, <2>1, <2>2, <2>3
<1>3. Linked(a \o b)
  BY <1>2 DEF Linked
<1>4. a # <<>> => a \o b # <<>> /\ Head(a \o b) = Head(a)
  BY <1>1
<1>5. a = <<>> => a \o b = b
  OBVIOUS
<1> QED
  BY <1>1, <1>3, <1>4, <1>5

\* A step that does tasks next, when the last of them returns what the first
\* thing to do would have.
LEMMA Step ==
  ASSUME Nesting, stack # <<>>, ahead # <<>>, errors' \in BOOLEAN, errors => errors',
         NEW tasks \in Seq(Tasks(errors')), Linked(tasks),
         tasks # <<>> => \A y : Follows(Head(stack), y) => Follows(tasks[Len(tasks)], y),
         Go(tasks) \/ Take(tasks)
  PROVE  /\ ahead' \in Seq(Tokens \cup {"eof"})
         /\ stack' \in Seq(Tasks(errors'))
         /\ Linked(stack')
         /\ tasks # <<>> => stack' # <<>> /\ Head(stack') = Head(tasks)
         /\ tasks = <<>> /\ stack' # <<>> => Follows(Head(stack), Head(stack'))
<1>1. ahead' \in Seq(Tokens \cup {"eof"})
  <2>1. ahead' = ahead \/ ahead' = Tail(ahead)
    BY DEF Go, Take, Consumed
  <2>2. ahead \in Seq(Tokens \cup {"eof"})
    BY DEF Nesting
  <2>3. Tail(ahead) \in Seq(Tokens \cup {"eof"})
    BY <2>2
  <2> QED
    BY <2>1, <2>2, <2>3
<1>2. PICK rest : /\ rest = Tail(stack) \/ rest = Moved(Tail(stack))
                  /\ stack' = tasks \o rest
  BY DEF Go, Take
<1>3. /\ rest \in Seq(Tasks(errors)) /\ Linked(rest)
      /\ rest # <<>> => Follows(Head(stack), Head(rest))
  BY <1>2, Rest DEF Nesting
<1>4. rest \in Seq(Tasks(errors'))
  BY <1>3, TasksGrow DEF Nesting
<1>5. tasks # <<>> /\ rest # <<>> => Follows(tasks[Len(tasks)], Head(rest))
  BY <1>3
<1> QED
  BY <1>1, <1>2, <1>3, <1>4, <1>5, Joined

\* What returns a value, or goes on to what does.
Ends == {"expr", "operators", "binary"} \cup TightTasks

\* Anything may stand in front of what awaits no value.
LEMMA NothingAwaits ==
  ASSUME NEW x, NEW y, y[1] \notin Awaiting
  PROVE  Follows(x, y)
  BY DEF Follows, Awaiting

\* Static things stand in any order.
LEMMA PlainLinked ==
  ASSUME NEW s \in Seq(Static \cup {Note})
  PROVE  Linked(s)
<1> SUFFICES ASSUME NEW i \in 1 .. Len(s) - 1
             PROVE  Follows(s[i], s[i + 1])
  BY DEF Linked
<1>1. s[i + 1] \in Static \cup {Note}
  OBVIOUS
<1>2. Note[1] \notin Awaiting
  BY NoteIs DEF Awaiting
<1> QED
  BY <1>1, <1>2, StaticAwaitsNothing, NothingAwaits

\* Whatever is done next where no value is awaited.
LEMMA PlainStep ==
  ASSUME Nesting, stack # <<>>, ahead # <<>>, errors' \in BOOLEAN, errors => errors',
         NEW tasks \in Seq(Static \cup {Note}), Head(stack)[1] \notin Ends,
         Go(tasks) \/ Take(tasks), Keep
  PROVE  Nesting'
<1>1. ASSUME NEW y, Follows(Head(stack), y)
      PROVE  y[1] \notin Awaiting
  BY <1>1 DEF Follows, Awaiting, Ends
<1>2. tasks \in Seq(Tasks(errors')) /\ Linked(tasks)
  <2>1. Static \cup {Note} \subseteq Tasks(errors')
    BY DEF Tasks, Calm
  <2> QED
    BY <2>1, PlainLinked
<1>3. tasks # <<>> => \A y : Follows(Head(stack), y) => Follows(tasks[Len(tasks)], y)
  BY <1>1, NothingAwaits
<1>4. /\ ahead' \in Seq(Tokens \cup {"eof"})
      /\ stack' \in Seq(Tasks(errors'))
      /\ Linked(stack')
      /\ tasks # <<>> => stack' # <<>> /\ Head(stack') = Head(tasks)
      /\ tasks = <<>> /\ stack' # <<>> => Follows(Head(stack), Head(stack'))
  BY <1>2, <1>3, Step
<1>5. tasks # <<>> => Head(tasks) \in Static \cup {Note}
  OBVIOUS
<1>6. stack' # <<>> => Head(stack')[1] \notin Awaiting
  BY <1>1, <1>4, <1>5, StaticAwaitsNothing, NoteIs DEF Awaiting
<1>7. stack' # <<>> => Returned(Head(stack'), value', ahead')
  BY <1>6 DEF Returned, Awaiting
<1> QED
  BY <1>4, <1>7 DEF Nesting, Keep

\* The same, for what does not note a position.
LEMMA StaticStep ==
  ASSUME Nesting, stack # <<>>, ahead # <<>>, errors' \in BOOLEAN, errors => errors',
         NEW tasks \in Seq(Static), Head(stack)[1] \notin Ends,
         Go(tasks) \/ Take(tasks), Keep
  PROVE  Nesting'
<1>1. tasks \in Seq(Static \cup {Note})
  OBVIOUS
<1> QED
  BY <1>1, PlainStep

\* When a token is consumed every note is dropped.
LEMMA MovedForgets ==
  ASSUME NEW err, NEW s \in Seq(Tasks(err))
  PROVE  ~Noted(Moved(s))
<1>1. /\ Moved(s) \in Seq(Tasks(err))
      /\ Len(Moved(s)) = Len(s)
      /\ \A i \in 1 .. Len(s) :
           IF s[i][1] = "statements" THEN Moved(s)[i] = <<"statements", FALSE>>
           ELSE Moved(s)[i] = s[i]
  BY MovedTasks
<1>2. ASSUME NEW i \in DOMAIN Moved(s)
      PROVE  Moved(s)[i] # Note
  <2>1. i \in 1 .. Len(s)
    BY <1>1
  <2>2. CASE s[i][1] = "statements"
    BY <1>1, <2>1, <2>2, NoteIs
  <2>3. CASE s[i][1] # "statements"
    BY <1>1, <2>1, <2>3, NoteIs
  <2> QED
    BY <2>2, <2>3
<1> QED
  BY <1>2 DEF Noted

\* A procedure body has no notes.
LEMMA CalmAddsNoNote ==
  ASSUME NEW err, NEW a \in Seq(Calm(err)), NEW b \in Seq(Tasks(err)), ~Noted(b)
  PROVE  ~Noted(a \o b)
<1>1. \A t \in Calm(err) : t # Note
  BY StaticAwaitsNothing, PendingFields DEF Calm
<1>2. \A i \in DOMAIN a : a[i] # Note
  BY <1>1
<1> QED
  BY <1>2 DEF Noted

\* Nothing is noted any more behind a step that consumes a token; what is done
\* next has no notes of its own.
LEMMA Forgotten ==
  ASSUME Parsed, stack # <<>>, ahead # <<>>, errors' \in BOOLEAN, errors => errors',
         NEW tasks \in Seq(Calm(errors')),
         Take(tasks) \/ (Go(tasks) /\ (~Noted(stack) \/ Head(stack)[1] \notin Consumers))
  PROVE  ~Noted(stack') /\ Progress'
<1>1. Tail(stack) \in Seq(Tasks(errors)) /\ stack \in Seq(Tasks(errors))
      /\ \A i \in 1 .. Len(Tail(stack)) : Tail(stack)[i] = stack[i + 1] /\ i + 1 \in DOMAIN stack
  BY DEF Parsed, Nesting
<1>2. ~Noted(stack) => ~Noted(Tail(stack))
  BY <1>1 DEF Noted
<1>3. Head(stack)[1] \notin Consumers => ~Noted(stack)
  BY DEF Parsed, Progress, Consumes, Consumers
<1>4. Peek = "eof" => ~Noted(stack)
  BY DEF Parsed, Progress, Consumes
<1>5. ~Noted(Moved(Tail(stack)))
  BY <1>1, MovedForgets
<1>6. PICK rest : /\ rest = Tail(stack) \/ rest = Moved(Tail(stack))
                  /\ ~Noted(rest) /\ stack' = tasks \o rest
  BY <1>2, <1>3, <1>4, <1>5 DEF Go, Take
<1>7. rest \in Seq(Tasks(errors))
  <2>1. Tail(stack) \in Seq(Tasks(errors))
    BY <1>1, Zenon
  <2>2. Moved(Tail(stack)) \in Seq(Tasks(errors))
    BY <2>1, MovedTasks
  <2> QED
    BY <1>6, <2>1, <2>2, Zenon
<1>8. rest \in Seq(Tasks(errors'))
  BY <1>7, TasksGrow DEF Parsed, Nesting
<1>9. ~Noted(stack')
  BY <1>6, <1>8, CalmAddsNoNote
<1> QED
  BY <1>9 DEF Progress

-----------------------------------------------------------------------------
(***************************************************************************)
(* Nesting is preserved: token helpers, statements and programs.            *)
(***************************************************************************)

\* The first thing to do, by the value it awaits.
LEMMA HeadTask ==
  ASSUME Nesting, stack # <<>>
  PROVE  /\ Head(stack) \in Tasks(errors)
         /\ Head(stack)[1] \notin Awaiting \cup {"ternary", "statements"} =>
              Head(stack) \in Static
         /\ Head(stack)[1] # "statements" => Head(stack) \in Calm(errors)
<1>1. Head(stack) \in Tasks(errors)
  BY DEF Nesting
<1> QED
  BY <1>1, PendingFields, NoteIs DEF Tasks, Calm

\* expect, accept and the skipping of a malformed statement.
LEMMA HelpersNest ==
  ASSUME Nesting, ExpectToken \/ Accept \/ Skip
  PROVE  Nesting'
<1>1. errors \in BOOLEAN
  BY DEF Nesting
<1>2. <<>> \in Seq(Static)
  OBVIOUS
<1>3. CASE ExpectToken
  <2>1. errors' \in BOOLEAN /\ (errors => errors') /\ (Go(<<>>) \/ Take(<<>>))
    BY <1>1, <1>3 DEF ExpectToken, Silent, Report
  <2>2. stack # <<>> /\ ahead # <<>> /\ Head(stack)[1] \notin Ends /\ Keep
    BY <1>3 DEF ExpectToken, At, Ready, Ends, TightTasks
  <2> QED
    BY <1>2, <2>1, <2>2, StaticStep
<1>4. CASE Accept
  <2>1. errors' \in BOOLEAN /\ (errors => errors')
    BY <1>1, <1>4 DEF Accept, Silent
  <2>2. stack # <<>> /\ ahead # <<>> /\ Head(stack)[1] = "accept" /\ Keep
    BY <1>4 DEF Accept, At, Ready
  <2>3. Head(stack)[1] \notin Ends
    BY <2>2 DEF Ends, TightTasks
  <2>4. Head(stack)[3] \in Seq(Static) /\ Head(stack)[4] \in Seq(Static)
    BY <2>2, HeadTask, Fields
  <2>5. Take(Head(stack)[3]) \/ Go(Head(stack)[4])
    BY <1>4 DEF Accept
  <2> QED
    BY <2>1, <2>2, <2>3, <2>4, <2>5, StaticStep
<1>5. CASE Skip
  <2>1. errors' \in BOOLEAN /\ (errors => errors')
    BY <1>1, <1>5 DEF Skip, Silent
  <2>2. stack # <<>> /\ ahead # <<>> /\ Head(stack)[1] = "skip" /\ Keep
    BY <1>5 DEF Skip, At, Ready
  <2>3. Head(stack)[1] \notin Ends /\ Head(stack) \in Static
    BY <2>2, HeadTask DEF Ends, TightTasks, Awaiting
  <2>4. <<Head(stack)>> \in Seq(Static)
    BY <2>3
  <2>5. Take(<<Head(stack)>>) \/ Go(<<>>)
    BY <1>5 DEF Skip
  <2> QED
    BY <1>2, <2>1, <2>2, <2>3, <2>4, <2>5, StaticStep
<1> QED
  BY <1>3, <1>4, <1>5

\* Blocks, statements and their lists.
LEMMA StatementsNest ==
  ASSUME Nesting, ParseAStatement
  PROVE  Nesting'
<1>1. /\ stack # <<>> /\ ahead # <<>> /\ Keep
      /\ Head(stack)[1] \in {"block", "statements", "statement", "items", "else", "pragma",
                             "header_name"}
  BY DEF ParseAStatement, ParseBlock, ParseStatements, ParseStatement, ParseItems,
         ParseElse, ParsePragma, ParseHeaderName, At, Ready
<1>2. Head(stack)[1] \notin Ends
  BY <1>1 DEF Ends, TightTasks
<1>3. errors' \in BOOLEAN /\ (errors => errors')
  BY DEF ParseAStatement, ParseBlock, ParseStatements, ParseStatement, ParseItems,
         ParseElse, ParsePragma, ParseHeaderName, Silent, Report, Nesting
<1>4. <<>> \in Seq(Static)
  OBVIOUS
<1>5. ASSUME NEW p \in Procedures
      PROVE  Do(p) \in Static
  BY LeavesAre, Levels
<1>6. \E tasks \in Seq(Static \cup {Note}) : Go(tasks) \/ Take(tasks)
  <2>0. Seq(Static) \subseteq Seq(Static \cup {Note})
    OBVIOUS
  <2>1. CASE ParseBlock
    BY <2>0, <2>1, Bodies DEF ParseBlock
  <2>2. CASE ParseStatements
    <3>1. <<"statements", FALSE>> \in Static
      BY LeavesAre, Levels
    <3>2. Do("statement") \in Static
      BY <1>5 DEF Procedures
    <3>3. /\ <<<<"statements", FALSE>>>> \in Seq(Static)
          /\ <<Do("statement"), Note>> \in Seq(Static \cup {Note})
      BY <3>1, <3>2
    <3>4. \/ Take(<<<<"statements", FALSE>>>>) \/ Go(<<>>)
          \/ Go(<<Do("statement"), Note>>)
      BY <2>2 DEF ParseStatements, Note
    <3> QED
      BY <1>4, <2>0, <3>3, <3>4
  <2>3. CASE ParseStatement
    <3>1. CASE Peek \in DOMAIN StatementOf \cup {"stranger", "bad_pragma", LBrace}
      <4>1. Dispatch \in Seq(Static)
        BY <3>1, Bodies DEF Dispatch, StatementOf
      <4> QED
        BY <2>0, <2>3, <3>1, <4>1 DEF ParseStatement
    <3>2. CASE Peek \notin DOMAIN StatementOf \cup {"stranger", "bad_pragma", LBrace}
      BY <2>0, <2>3, <3>2, Bodies DEF ParseStatement
    <3> QED
      BY <3>1, <3>2
  <2>4. CASE ParseItems
    <3>1. <<Expression, MoreItems>> \in Seq(Static)
      BY Words, Levels, Bodies
    <3> QED
      BY <1>4, <2>0, <2>4, <3>1 DEF ParseItems
  <2>5. CASE ParseElse
    <3>1. Do("block") \in Static
      BY <1>5 DEF Procedures
    <3>2. <<Do("block")>> \in Seq(Static)
      BY <3>1
    <3> QED
      BY <2>0, <2>5, <3>2, Bodies DEF ParseElse
  <2>6. CASE ParsePragma
    BY <1>4, <2>0, <2>6 DEF ParsePragma
  <2>7. CASE ParseHeaderName
    BY <1>4, <2>0, <2>7 DEF ParseHeaderName
  <2> QED
    BY <2>1, <2>2, <2>3, <2>4, <2>5, <2>6, <2>7 DEF ParseAStatement
<1> QED
  BY <1>1, <1>2, <1>3, <1>6, PlainStep

\* Consuming leads to progress: what a noted block waits for consumes a token, or
\* goes on to what does.
LEMMA HelpersProgress ==
  ASSUME Parsed, ExpectToken \/ Accept \/ Skip
  PROVE  Progress'
<1>1. Nesting /\ errors \in BOOLEAN
  BY DEF Parsed, Nesting
<1>2. stack # <<>> /\ ahead # <<>> /\ errors' \in BOOLEAN /\ (errors => errors')
  BY <1>1 DEF ExpectToken, Accept, Skip, At, Ready, Silent, Report
<1>3. <<>> \in Seq(Calm(errors'))
  OBVIOUS
<1>4. CASE ExpectToken
  <2>1. Go(<<>>) => ~Noted(stack) \/ Take(<<>>)
    BY <1>4 DEF ExpectToken, At, Parsed, Progress, Consumes
  <2>2. Go(<<>>) \/ Take(<<>>)
    BY <1>4 DEF ExpectToken
  <2> QED
    BY <1>2, <1>3, <2>1, <2>2, Forgotten
<1>5. CASE Accept
  <2>1. Head(stack)[3] \in Seq(Static) /\ Head(stack)[4] \in Seq(Static)
    BY <1>1, <1>2, <1>5, HeadTask, Fields DEF Accept, At
  <2>2. Head(stack)[3] \in Seq(Calm(errors')) /\ Head(stack)[4] \in Seq(Calm(errors'))
    BY <1>2, <2>1, TasksGrow
  <2>3. \/ Take(Head(stack)[3])
        \/ Go(Head(stack)[4]) /\ ~Noted(stack)
    BY <1>5 DEF Accept, At, Parsed, Progress, Consumes
  <2> QED
    BY <1>2, <2>2, <2>3, Forgotten
<1>6. CASE Skip
  <2>1. Head(stack)[1] = "skip"
    BY <1>6 DEF Skip, At
  <2>2. CASE Take(<<Head(stack)>>)
    <3>1. Head(stack) \in Static
      BY <1>1, <1>2, <2>1, HeadTask DEF Awaiting
    <3>2. <<Head(stack)>> \in Seq(Static)
      BY <3>1
    <3>3. <<Head(stack)>> \in Seq(Calm(errors'))
      BY <1>2, <3>2, TasksGrow
    <3> QED
      BY <1>2, <2>2, <3>3, Forgotten
  <2>3. CASE Go(<<>>) /\ ~Noted(stack)
    BY <1>2, <1>3, <2>3, Forgotten
  <2>4. CASE Go(<<>>) /\ Noted(stack) /\ Peek \in Argument
    <3>1. /\ ahead # <<>> /\ Peek = Semi /\ Peek # "eof"
          /\ Len(stack) > 1 /\ stack[2] = IfAccept(Semi, <<>>, <<>>)
      BY <2>1, <2>4 DEF Parsed, Progress, Consumes
    <3>2. stack' = Tail(stack) /\ ahead' = ahead
      BY <1>1, <2>4 DEF Go, Nesting
    <3>3. Head(stack') = stack[2]
      BY <1>1, <3>1, <3>2 DEF Nesting
    <3>4. Head(stack')[1] = "accept" /\ Head(stack')[2] = Semi
      BY <3>1, <3>3 DEF IfAccept
    <3> QED
      BY <3>1, <3>2, <3>4 DEF Progress, Consumes, Peek, Argument
  <2> QED
    BY <1>6, <2>2, <2>3, <2>4 DEF Skip
<1> QED
  BY <1>4, <1>5, <1>6

\* A brace begins none of the statements that are known by a word.
LEMMA BraceIsNoWord ==
  LBrace \notin {"type", "if", "for", "pragma", "return", "write", "identifier", "stranger",
                "bad_pragma"}
  BY Zenon DEF LBrace

\* Every statement begins with what it was recognised by.
LEMMA DispatchConsumes ==
  ASSUME ahead # <<>>, Peek # "eof",
         Peek \in DOMAIN StatementOf \cup {"stranger", "bad_pragma", LBrace},
         stack' = Dispatch \o Tail(stack), ahead' = ahead,
         NEW err, Tail(stack) \in Seq(Tasks(err))
  PROVE  Consumes'
<1>1. Peek' = Peek /\ ahead' # <<>>
  BY DEF Peek
<1>2. Dispatch \in Seq(Static)
  BY Bodies DEF Dispatch, StatementOf
<1>3. Dispatch \in Seq(Tasks(err))
  <2>1. Static \subseteq Tasks(err)
    BY DEF Tasks, Calm
  <2> QED
    BY <1>2, <2>1
<1>4. ASSUME Dispatch # <<>>, Dispatch[1][1] = "expect", Peek \in Dispatch[1][2]
      PROVE  Consumes'
  <2>1. Head(stack') = Dispatch[1]
    BY <1>3, <1>4
  <2> QED
    BY <1>1, <1>4, <2>1 DEF Consumes, Argument
<1>5. CASE Dispatch = For /\ Peek \in {"for", "pragma", "bad_pragma"}
  <2>1. Len(Dispatch) > 1 /\ Dispatch[1] = Do("pragma") /\ Dispatch[2] = Sym("for")
    BY <1>5 DEF For
  <2>2. Head(stack') = Do("pragma") /\ Len(stack') > 1 /\ stack'[2] = Sym("for")
    <3>1. /\ stack' \in Seq(Tasks(err)) /\ Len(stack') = Len(Dispatch) + Len(Tail(stack))
          /\ Len(Dispatch) \in Nat /\ Len(Tail(stack)) \in Nat
          /\ \A n \in 1 .. Len(Dispatch) : stack'[n] = Dispatch[n]
      BY <1>3
    <3>2. Len(stack') > 1 /\ stack'[1] = Dispatch[1] /\ stack'[2] = Dispatch[2]
      BY <2>1, <3>1
    <3>3. Head(stack') = stack'[1]
      BY <3>1, <3>2
    <3> QED
      BY <2>1, <3>2, <3>3
  <2>3. Head(stack')[1] = "pragma"
    BY <2>2 DEF Do
  <2> QED
    BY <1>1, <1>5, <2>2, <2>3 DEF Consumes, PragmaToken
<1>6. CASE Peek \in {"for", "pragma", "bad_pragma"}
  <2>1. CASE Peek = "for"
    BY <1>5, <2>1, BraceIsNoWord DEF Dispatch, StatementOf
  <2>2. CASE Peek = "pragma"
    BY <1>5, <2>2, BraceIsNoWord DEF Dispatch, StatementOf
  <2>3. CASE Peek = "bad_pragma"
    BY <1>5, <2>3, BraceIsNoWord DEF Dispatch, StatementOf
  <2> QED
    BY <1>6, <2>1, <2>2, <2>3
<1>7. CASE Peek \in {"if", "return", "write", "type"}
  <2>1. CASE Peek = "if"
    <3>1. Dispatch = If
      BY <2>1, BraceIsNoWord DEF Dispatch, StatementOf
    <3> QED
      BY <1>4, <2>1, <3>1 DEF If, Sym, Expect
  <2>2. CASE Peek = "return"
    <3>1. Dispatch = Return
      BY <2>2, BraceIsNoWord DEF Dispatch, StatementOf
    <3> QED
      BY <1>4, <2>2, <3>1 DEF Return, Sym, Expect
  <2>3. CASE Peek = "write"
    <3>1. Dispatch = Write
      BY <2>3, BraceIsNoWord DEF Dispatch, StatementOf
    <3> QED
      BY <1>4, <2>3, <3>1 DEF Write, Sym, Expect
  <2>4. CASE Peek = "type"
    <3>1. Dispatch = Declaration
      BY <2>4, BraceIsNoWord DEF Dispatch, StatementOf
    <3> QED
      BY <1>4, <2>4, <3>1 DEF Declaration, Type, Expect
  <2> QED
    BY <1>7, <2>1, <2>2, <2>3, <2>4
<1>8. CASE Peek \in Identifier
  <2>1. CASE Peek = "identifier"
    <3>1. Dispatch = Assign
      BY <2>1, BraceIsNoWord DEF Dispatch, StatementOf
    <3> QED
      BY <1>4, <2>1, <3>1 DEF Assign, Name, Expect, Identifier
  <2>2. CASE Peek = "stranger"
    <3>1. Dispatch = Assign
      BY <2>2, BraceIsNoWord DEF Dispatch, StatementOf
    <3> QED
      BY <1>4, <2>2, <3>1 DEF Assign, Name, Expect, Identifier
  <2> QED
    BY <1>8, <2>1, <2>2 DEF Identifier
<1>9. CASE Peek \notin DOMAIN StatementOf \cup {"stranger", "bad_pragma"}
  <2>1. Peek = LBrace /\ Dispatch = Block
    BY <1>9 DEF Dispatch
  <2> QED
    BY <1>4, <2>1 DEF Block, Sym, Expect
<1> QED
  BY <1>6, <1>7, <1>8, <1>9 DEF StatementOf, Identifier

\* Blocks, statements and their lists: a position is noted only where a token
\* is going to be consumed.
LEMMA StatementsProgress ==
  ASSUME Parsed, ParseAStatement
  PROVE  Progress'
<1>1. Nesting /\ errors \in BOOLEAN
  BY DEF Parsed, Nesting
<1>2. stack # <<>> /\ ahead # <<>> /\ errors' \in BOOLEAN /\ (errors => errors')
  BY <1>1 DEF ParseAStatement, ParseBlock, ParseStatements, ParseStatement, ParseItems,
         ParseElse, ParsePragma, ParseHeaderName, At, Ready, Silent, Report
<1>3. \A p \in Procedures : Do(p) \in Static
  BY LeavesAre, Levels
<1>4. ASSUME NEW tasks \in Seq(Static),
             Take(tasks) \/ (Go(tasks) /\ (~Noted(stack) \/ Head(stack)[1] \notin Consumers))
      PROVE  Progress'
  <2>1. tasks \in Seq(Calm(errors'))
    BY <1>2, TasksGrow
  <2> QED
    BY <1>2, <1>4, <2>1, Forgotten
<1>5. <<>> \in Seq(Static)
  OBVIOUS
<1>6. CASE ParseBlock \/ ParseItems \/ ParseElse \/ ParseHeaderName
  <2>1. Head(stack)[1] \notin Consumers
    BY <1>6 DEF ParseBlock, ParseItems, ParseElse, ParseHeaderName, At, Consumers
  <2>2. Expression \in Static /\ MoreItems \in Static /\ Do("block") \in Static
    BY <1>3, Words, Levels, Bodies DEF Procedures
  <2>3. <<Expression, MoreItems>> \in Seq(Static) /\ <<Do("block")>> \in Seq(Static)
    BY <2>2
  <2>4. \E tasks \in Seq(Static) : Go(tasks) \/ Take(tasks)
    BY <1>5, <1>6, <2>3, Bodies DEF ParseBlock, ParseItems, ParseElse, ParseHeaderName
  <2> QED
    BY <1>4, <2>1, <2>4
<1>7. CASE ParseStatements
  <2>1. Head(stack)[1] \notin Consumers
    BY <1>7 DEF ParseStatements, At, Consumers
  <2>2. <<<<"statements", FALSE>>>> \in Seq(Static)
    <3>1. <<"statements", FALSE>> \in Static
      BY LeavesAre, Levels
    <3> QED
      BY <3>1
  <2>3. CASE Take(<<<<"statements", FALSE>>>>) \/ Go(<<>>)
    BY <1>4, <1>5, <2>1, <2>2, <2>3
  <2>4. CASE Go(<<Do("statement"), Note>>) /\ Peek \notin {RBrace, "eof"}
    <3>1. Do("statement") \in Tasks(errors) /\ Note \in Tasks(errors)
      BY <1>3 DEF Tasks, Calm, Procedures
    <3>2. <<Do("statement"), Note>> \in Seq(Tasks(errors)) /\ Tail(stack) \in Seq(Tasks(errors))
          /\ <<Do("statement"), Note>> # <<>> /\ Head(<<Do("statement"), Note>>) = Do("statement")
      BY <1>1, <1>2, <3>1 DEF Nesting
    <3>3. Head(stack') = Do("statement") /\ ahead' = ahead
      BY <2>4, <3>2 DEF Go
    <3>4. Head(stack')[1] = "statement"
      BY <3>3 DEF Do
    <3> QED
      BY <1>2, <2>4, <3>3, <3>4 DEF Progress, Consumes, Peek
  <2> QED
    BY <1>7, <2>3, <2>4 DEF ParseStatements, Note
<1>8. CASE ParseStatement
  <2>1. \/ Go(Dispatch)
           /\ Peek \in DOMAIN StatementOf \cup {"stranger", "bad_pragma", LBrace}
        \/ Go(Recovery)
    BY <1>8 DEF ParseStatement
  <2>2. Tail(stack) \in Seq(Tasks(errors))
    BY <1>1, <1>2 DEF Nesting
  <2>3. Dispatch \in Seq(Static) \/ Go(Recovery)
    BY <2>1, Bodies DEF Dispatch, StatementOf
  <2>4. CASE ~Noted(stack)
    BY <1>4, <2>1, <2>3, <2>4, Bodies
  <2>5. CASE Noted(stack) /\ Go(Recovery)
    <3> DEFINE skip == <<"skip", {Semi, RBrace, "eof"}>>
               semi == IfAccept(Semi, <<>>, <<>>)
    <3>1. Peek # RBrace /\ Peek # "eof"
      BY <1>8, <2>5 DEF ParseStatement, At, Parsed, Progress, Consumes
    <3>2. skip[1] = "skip" /\ skip[2] = {Semi, RBrace, "eof"} /\ Recovery = <<skip, semi>>
      BY DEF Recovery
    <3> HIDE DEF skip, semi
    <3>3. skip \in Static /\ semi \in Static
      BY <3>2, Bodies
    <3>4. skip \in Tasks(errors) /\ semi \in Tasks(errors)
      BY <3>3 DEF Tasks, Calm
    <3>5. stack' = <<skip, semi>> \o Tail(stack) /\ ahead' = ahead
      BY <2>5, <3>2 DEF Go
    <3>6. /\ stack' \in Seq(Tasks(errors)) /\ Len(stack') = 2 + Len(Tail(stack))
          /\ Len(Tail(stack)) \in Nat
          /\ stack'[1] = skip /\ stack'[2] = semi
      BY <2>2, <3>4, <3>5
    <3>7. Head(stack') = skip /\ Len(stack') > 1
      BY <3>6
    <3> QED
      BY <1>2, <3>1, <3>2, <3>5, <3>6, <3>7 DEF Progress, Consumes, Peek, Argument, semi
  <2>6. CASE /\ Noted(stack) /\ Go(Dispatch)
             /\ Peek \in DOMAIN StatementOf \cup {"stranger", "bad_pragma", LBrace}
    <3>1. Peek # "eof"
      BY <2>6 DEF Parsed, Progress, Consumes
    <3>2. Consumes'
      BY <1>2, <2>2, <2>6, <3>1, DispatchConsumes DEF Go
    <3> QED
      BY <3>2 DEF Progress
  <2> QED
    BY <2>1, <2>4, <2>5, <2>6
<1>9. CASE ParsePragma
  <2>1. Take(<<>>) \/ (Go(<<>>) /\ Peek \notin PragmaToken)
    BY <1>9 DEF ParsePragma
  <2>2. CASE Take(<<>>) \/ ~Noted(stack)
    BY <1>4, <1>5, <2>1, <2>2
  <2>3. CASE Noted(stack) /\ Go(<<>>) /\ Peek \notin PragmaToken
    <3>1. ahead # <<>> /\ Peek = "for" /\ Len(stack) > 1 /\ stack[2] = Sym("for")
      BY <1>9, <2>3 DEF ParsePragma, At, Parsed, Progress, Consumes
    <3>2. stack' = Tail(stack) /\ ahead' = ahead
      BY <1>1, <2>3 DEF Go, Nesting
    <3>3. Head(stack') = stack[2]
      BY <1>1, <3>1, <3>2 DEF Nesting
    <3>4. Head(stack')[1] = "expect" /\ Head(stack')[2] = {"for"}
      BY <3>1, <3>3 DEF Sym, Expect
    <3> QED
      BY <3>1, <3>2, <3>4 DEF Progress, Consumes, Peek, Argument
  <2> QED
    BY <2>1, <2>2, <2>3
<1> QED
  BY <1>6, <1>7, <1>8, <1>9 DEF ParseAStatement

\* Parameters, declarations and stray tokens.
LEMMA ProgramsNest ==
  ASSUME Parsed, ParseAProgram
  PROVE  Parsed'
<1>0. Nesting
  BY DEF Parsed
<1>1. /\ stack # <<>> /\ ahead # <<>> /\ Keep
      /\ Head(stack)[1] \in {"params", "more_params", "param", "program"}
  BY DEF ParseAProgram, ParseParams, ParseMoreParams, ParseParam, ParseProgram, At, Ready
<1>2. /\ Head(stack)[1] \notin Ends /\ Head(stack) \in Static
      /\ Head(stack)[1] \notin Consumers
  BY <1>0, <1>1, HeadTask DEF Ends, TightTasks, Awaiting, Consumers
<1>3. errors' \in BOOLEAN /\ (errors => errors')
  BY <1>0 DEF ParseAProgram, ParseParams, ParseMoreParams, ParseParam, ParseProgram,
         StrayToken, Silent, Report, Nesting
<1>4. <<>> \in Seq(Static) /\ <<Head(stack)>> \in Seq(Static)
  BY <1>2
<1>5. Do("param") \in Static /\ Do("more_params") \in Static
  BY LeavesAre, Levels DEF Procedures
<1>6. <<Do("param"), Do("more_params")>> \in Seq(Static)
  BY <1>5
<1>7. \E tasks \in Seq(Static) : Go(tasks) \/ Take(tasks)
  <2>1. CASE ParseParams
    BY <1>4, <1>6, <2>1 DEF ParseParams
  <2>2. CASE ParseMoreParams
    BY <1>4, <1>6, <2>2 DEF ParseMoreParams
  <2>3. CASE ParseParam
    BY <2>3, Bodies DEF ParseParam
  <2>4. CASE ParseProgram
    <3>1. ConstDecl \o <<Head(stack)>> \in Seq(Static)
      BY <1>4, Bodies
    <3>2. {"eof"} \in SUBSET Terminals
      BY DEF Terminals
    <3>3. <<"skip", {"eof"}>> \in Static /\ <<"program", TRUE>> \in Static
      BY <3>2, LeavesAre, Levels
    <3>4. <<<<"skip", {"eof"}>>>> \in Seq(Static) /\ <<<<"program", TRUE>>>> \in Seq(Static)
      BY <3>3
    <3>5. Function \o <<<<"program", TRUE>>>> \in Seq(Static)
      BY <3>4, Bodies
    <3>6. \/ Go(<<>>) \/ Go(ConstDecl \o <<Head(stack)>>)
          \/ Go(<<<<"skip", {"eof"}>>>>) \/ Go(Function \o <<<<"program", TRUE>>>>)
          \/ Take(<<Head(stack)>>)
      BY <2>4 DEF ParseProgram, StrayToken
    <3> QED
      BY <1>4, <3>1, <3>4, <3>5, <3>6
  <2> QED
    BY <2>1, <2>2, <2>3, <2>4 DEF ParseAProgram
<1>8. PICK tasks \in Seq(Static) : Go(tasks) \/ Take(tasks)
  BY <1>7
<1>9. Nesting'
  BY <1>0, <1>1, <1>2, <1>3, <1>8, StaticStep
<1>10. Progress'
  <2>1. tasks \in Seq(Calm(errors'))
    BY <1>3, TasksGrow
  <2> QED
    BY <1>1, <1>2, <1>3, <1>8, <2>1, Forgotten
<1> QED
  BY <1>9, <1>10 DEF Parsed

-----------------------------------------------------------------------------
(***************************************************************************)
(* Nesting is preserved: expressions.                                       *)
(***************************************************************************)

\* bindingPower is a power for operators, and 0 for everything else.
LEMMA PowersAre ==
  ASSUME NEW op
  PROVE  BindingPower(op) \in 0 .. 5
  BY DEF BindingPower

\* Something is done first, and then what returns the value awaited.
LEMMA PushStep ==
  ASSUME Parsed, stack # <<>>, ahead # <<>>, Head(stack)[1] \notin Consumers,
         NEW tasks \in Seq(Calm(errors)), Linked(tasks), tasks # <<>>,
         Head(tasks)[1] \notin Awaiting,
         \A y : Follows(Head(stack), y) => Follows(tasks[Len(tasks)], y),
         Go(tasks) \/ Take(tasks), Keep, Silent
  PROVE  Parsed'
<1>0. Nesting
  BY DEF Parsed
<1>1. errors' = errors /\ errors' \in BOOLEAN
  BY <1>0 DEF Nesting, Silent
<1>01. tasks \in Seq(Tasks(errors'))
  BY <1>1, TasksGrow
<1>2. /\ ahead' \in Seq(Tokens \cup {"eof"})
      /\ stack' \in Seq(Tasks(errors'))
      /\ Linked(stack')
      /\ stack' # <<>> /\ Head(stack') = Head(tasks)
  BY <1>0, <1>1, <1>01, Step
<1>3. Returned(Head(stack'), value', ahead')
  BY <1>2 DEF Returned, Awaiting
<1>4. Progress'
  BY <1>1, Forgotten
<1> QED
  BY <1>0, <1>1, <1>2, <1>3, <1>4 DEF Nesting, Keep, Parsed

\* A value is returned to what awaits it.
LEMMA PopStep ==
  ASSUME Parsed, stack # <<>>, ahead # <<>>, Head(stack)[1] \notin Consumers,
         errors' \in BOOLEAN, errors => errors',
         Go(<<>>) \/ Take(<<>>), value' \in Values, crashed' = crashed,
         value' = Null => errors',
         \A y \in Tasks(errors') :
           Follows(Head(stack), y) => Returned(y, value', ahead')
  PROVE  Parsed'
<1>0. Nesting
  BY DEF Parsed
<1>1. <<>> \in Seq(Tasks(errors')) /\ <<>> \in Seq(Calm(errors')) /\ Linked(<<>>)
  BY DEF Linked
<1>2. /\ ahead' \in Seq(Tokens \cup {"eof"})
      /\ stack' \in Seq(Tasks(errors'))
      /\ Linked(stack')
      /\ stack' # <<>> => Follows(Head(stack), Head(stack'))
  BY <1>0, <1>1, Step
<1>3. stack' # <<>> => Head(stack') \in Tasks(errors')
  BY <1>2
<1>4. Progress'
  BY <1>1, Forgotten
<1> QED
  BY <1>0, <1>2, <1>3, <1>4 DEF Nesting, Parsed

\* A tight expression may be returned to anything that waits for one.
LEMMA TightIsEnough ==
  ASSUME NEW err, NEW x, x[1] \in TightTasks, NEW y \in Tasks(err), Follows(x, y),
         NEW v \in {Null, Tight}, NEW tokens
  PROVE  Returned(y, v, tokens)
<1>1. y[1] \notin {"binary", "question"}
  BY DEF Follows, TightTasks
<1>2. y[1] = "operators" => y[2] \in 0 .. Tight
  BY Fields
<1> QED
  BY <1>1, <1>2 DEF Returned, Tight, Null

\* parseConditional.
LEMMA ConditionalNests ==
  ASSUME Parsed, ParseConditional \/ ParseExpr
  PROVE  Parsed'
<1>0. Nesting
  BY DEF Parsed
<1>00. Head(stack)[1] \notin Consumers
  BY DEF ParseConditional, ParseExpr, At, Consumers
<1>1. stack # <<>> /\ ahead # <<>> /\ Keep /\ Silent
  BY DEF ParseConditional, ParseExpr, At, Ready
<1>2. CASE ParseConditional
  <2> DEFINE tasks == <<Expr(0), Do("question")>>
  <2>1. Expr(0) \in Calm(errors) /\ Do("question") \in Calm(errors)
    BY LeavesAre, Levels DEF Calm, Pending, Do, Tight
  <2>2. tasks \in Seq(Calm(errors)) /\ Len(tasks) = 2 /\ tasks[2] = Do("question")
        /\ tasks # <<>> /\ Head(tasks) = Expr(0) /\ tasks[1] = Expr(0)
    BY <2>1
  <2>3. Follows(Expr(0), Do("question"))
    BY DEF Follows, Expr, Do
  <2>4. Linked(tasks)
    BY <2>2, <2>3 DEF Linked
  <2>5. Head(stack)[1] = "conditional" /\ Go(tasks)
    BY <1>2 DEF ParseConditional, At
  <2>6. ASSUME NEW y, Follows(Head(stack), y)
        PROVE  Follows(tasks[Len(tasks)], y)
    BY <2>5, <2>6 DEF Follows, TightTasks
  <2>7. Head(tasks)[1] \notin Awaiting
    BY <2>2 DEF Expr, Awaiting
  <2> HIDE DEF tasks
  <2> QED
    BY <1>00, <1>1, <2>2, <2>4, <2>5, <2>6, <2>7, PushStep
<1>3. CASE ParseExpr
  <2> DEFINE operators == <<"operators", Argument>>
             tasks == <<Do("unary"), operators>>
  <2>1. Head(stack)[1] = "expr" /\ Go(tasks)
    BY <1>3 DEF ParseExpr, At
  <2>2. Argument \in 0 .. Tight
    BY <1>1, <2>1, <1>0, HeadTask, Fields DEF Argument
  <2>3. Do("unary") \in Static
    BY LeavesAre, Levels DEF Procedures
  <2>4. operators \in Calm(errors) /\ Do("unary") \in Calm(errors)
    BY <2>2, <2>3 DEF Calm, Pending
  <2>5. Follows(Do("unary"), operators)
    BY DEF Follows, Do, TightTasks
  <2>6. ASSUME NEW y, Follows(Head(stack), y)
        PROVE  Follows(operators, y)
    BY <2>1, <2>6 DEF Follows, TightTasks, Argument
  <2> HIDE DEF operators
  <2>7. tasks \in Seq(Calm(errors)) /\ Len(tasks) = 2 /\ tasks[2] = operators
        /\ tasks # <<>> /\ Head(tasks) = Do("unary") /\ tasks[1] = Do("unary")
    BY <2>4
  <2>8. Linked(tasks)
    BY <2>5, <2>7 DEF Linked
  <2>9. Head(tasks)[1] \notin Awaiting
    BY <2>7 DEF Do, Awaiting
  <2> HIDE DEF tasks
  <2> QED
    BY <1>00, <1>1, <2>1, <2>6, <2>7, <2>8, <2>9, PushStep
<1> QED
  BY <1>2, <1>3

\* The question behind a condition.
LEMMA QuestionNests ==
  ASSUME Parsed, ParseQuestion
  PROVE  Parsed'
<1>0. Nesting
  BY DEF Parsed
<1>00. Head(stack)[1] \notin Consumers
  BY DEF ParseQuestion, At, Consumers
<1>1. stack # <<>> /\ ahead # <<>> /\ Keep /\ Silent /\ Head(stack)[1] = "question"
  BY DEF ParseQuestion, At, Ready
<1>2. value # Conditional /\ value \in Values /\ (value = Null => errors)
  BY <1>0, <1>1 DEF Nesting, Returned
<1>3. ASSUME NEW y, Follows(Head(stack), y)
      PROVE  y[1] \notin Awaiting
  BY <1>1, <1>3 DEF Follows, TightTasks, Awaiting
<1>4. CASE Peek = "?"
  <2> DEFINE arms == <<"ternary", value>>
             tasks == <<Expr(0), Sym(":"), Expression, arms>>
  <2>1. arms \in Calm(errors)
    BY <1>2 DEF Calm, Pending
  <2>2. Expr(0) \in Static /\ Sym(":") \in Static /\ Expression \in Static
    BY LeavesAre, Words, Levels DEF Tight
  <2>3. Expr(0) \in Calm(errors) /\ Sym(":") \in Calm(errors) /\ Expression \in Calm(errors)
    BY <2>2 DEF Calm
  <2>4. arms[1] \notin Awaiting
    BY DEF Awaiting
  <2> HIDE DEF arms
  <2>5. tasks \in Seq(Calm(errors)) /\ Len(tasks) = 4 /\ tasks # <<>> /\ Head(tasks) = Expr(0)
        /\ tasks[2] = Sym(":") /\ tasks[3] = Expression /\ tasks[4] = arms
    BY <2>1, <2>3
  <2>6. \A i \in 2 .. 4 : tasks[i][1] \notin Awaiting
    BY <2>2, <2>4, <2>5, StaticAwaitsNothing
  <2>7. Linked(tasks)
    BY <2>5, <2>6, NothingAwaits DEF Linked
  <2>8. Head(tasks)[1] \notin Awaiting
    BY <2>2, <2>5, StaticAwaitsNothing
  <2>9. Take(tasks)
    BY <1>4 DEF ParseQuestion, arms
  <2> HIDE DEF tasks
  <2> QED
    BY <1>00, <1>1, <1>3, <2>5, <2>7, <2>8, <2>9, NothingAwaits, PushStep
<1>5. CASE Peek # "?"
  <2>1. Go(<<>>)
    BY <1>5 DEF ParseQuestion
  <2>2. \A y : Follows(Head(stack), y) => Returned(y, value', ahead')
    BY <1>3 DEF Returned, Awaiting
  <2> QED
    BY <1>00, <1>0, <1>1, <1>2, <2>1, <2>2, PopStep DEF Keep, Silent, Nesting
<1> QED
  BY <1>4, <1>5

\* A Binary, a Ternary or a Unary is made.
LEMMA MakeNests ==
  ASSUME Parsed, MakeTernary \/ MakeBinary
  PROVE  Parsed'
<1>0. Nesting
  BY DEF Parsed
<1>00. Head(stack)[1] \notin Consumers
  BY DEF MakeTernary, MakeBinary, At, Consumers
<1>1. stack # <<>> /\ ahead # <<>> /\ errors' = errors /\ errors \in BOOLEAN
  BY <1>0 DEF MakeTernary, MakeBinary, At, Ready, Nesting
<1>2. Head(stack) \in Tasks(errors)
  BY <1>1, <1>0, HeadTask
<1>3. Head(stack)[1] \in {"binary", "ternary"}
  BY DEF MakeTernary, MakeBinary, At
<1>4. CASE Null \in {Argument, value}
  <2>1. errors
    BY <1>0, <1>2, <1>3, <1>4, Fields DEF Nesting, Argument
  <2>2. stack' = <<>> /\ ahead' = ahead /\ value' = value
    BY <1>4 DEF MakeTernary, MakeBinary
  <2>3. <<>> \in Seq(Tasks(errors')) /\ Linked(<<>>)
    BY DEF Linked
  <2> QED
    BY <1>0, <1>1, <2>1, <2>2, <2>3 DEF Nesting, Parsed, Progress, Noted
<1>5. CASE Null \notin {Argument, value} /\ MakeTernary
  <2>1. value' = Conditional /\ Go(<<>>) /\ crashed' = crashed /\ Head(stack)[1] = "ternary"
    BY <1>5 DEF MakeTernary, At
  <2>2. \A y : Follows(Head(stack), y) => Returned(y, value', ahead')
    BY <2>1 DEF Follows, Returned, TightTasks
  <2>3. value' \in Values /\ value' # Null
    BY <2>1 DEF Values, Conditional, Null, Tight
  <2> QED
    BY <1>00, <1>1, <2>1, <2>2, <2>3, PopStep
<1>6. CASE Null \notin {Argument, value} /\ MakeBinary
  <2>1. value' = Head(stack)[3] /\ Go(<<>>) /\ crashed' = crashed /\ Head(stack)[1] = "binary"
    BY <1>6 DEF MakeBinary, At
  <2>2. value' \in Powers /\ ahead' = ahead
    BY <1>2, <2>1, Fields DEF Go
  <2>3. Bounded(ahead, Head(stack)[3])
    BY <1>0, <1>1, <2>1 DEF Nesting, Returned
  <2>4. \A y : Follows(Head(stack), y) => Returned(y, value', ahead')
    BY <2>1, <2>2, <2>3 DEF Follows, Returned, TightTasks, Powers
  <2>5. value' \in Values /\ value' # Null
    BY <2>2 DEF Values, Powers, Null, Tight
  <2> QED
    BY <1>00, <1>1, <2>1, <2>4, <2>5, PopStep
<1> QED
  BY <1>4, <1>5, <1>6

\* The loop of parseExpr.
LEMMA OperatorsNest ==
  ASSUME Parsed, ParseOperators
  PROVE  Parsed'
<1>0. Nesting
  BY DEF Parsed
<1>00. Head(stack)[1] \notin Consumers
  BY DEF ParseOperators, At, Consumers
<1>1. /\ stack # <<>> /\ ahead # <<>> /\ Keep /\ Silent
      /\ Head(stack)[1] = "operators"
  BY DEF ParseOperators, At, Ready
<1>2. Head(stack) \in Tasks(errors) /\ Argument \in 0 .. Tight /\ Argument = Head(stack)[2]
  BY <1>1, <1>0, HeadTask, Fields DEF Argument
<1> DEFINE bp == BindingPower(Peek)
<1>3. bp \in 0 .. 5
  BY PowersAre
<1>4. /\ value \in Values /\ (value = Null => errors)
      /\ value # Null => /\ value >= 1 /\ value >= Argument
                         /\ value = Tight \/ value >= bp
  <2>1. Bounded(ahead, value) => bp <= value
    BY DEF Bounded, Peek
  <2> QED
    BY <1>0, <1>1, <1>2, <2>1 DEF Nesting, Returned
<1> HIDE DEF bp
<1>5. CASE bp = 0 \/ bp < Argument
  <2>1. Go(<<>>)
    BY <1>5 DEF ParseOperators, bp
  <2>2. ahead' = ahead /\ value' = value /\ errors' = errors /\ crashed' = crashed
    BY <1>1, <2>1 DEF Go, Keep, Silent
  <2>3. ASSUME NEW y \in Tasks(errors), Follows(Head(stack), y)
        PROVE  Returned(y, value, ahead)
    <3>1. y[1] = "binary" => y[3] + 1 = Argument /\ y[3] \in Powers
      BY <1>2, <2>3, Fields DEF Follows
    <3>2. y[1] = "binary" => Bounded(ahead, y[3])
      BY <1>1, <1>2, <1>3, <1>5, <3>1 DEF Bounded, Peek, bp, Powers
    <3>3. y[1] = "binary" /\ value # Null => value > y[3]
      BY <1>2, <1>4, <3>1 DEF Values, Powers, Null, Tight
    <3>4. y[1] \notin {"operators", "wrap_unary"}
      BY <1>1, <2>3 DEF Follows, TightTasks
    <3>5. value # Conditional
      BY <1>4 DEF Conditional, Null, Values
    <3> QED
      BY <3>2, <3>3, <3>4, <3>5 DEF Returned
  <2> QED
    BY <1>00, <1>0, <1>1, <1>4, <2>1, <2>2, <2>3, PopStep DEF Nesting
<1>6. CASE ~(bp = 0 \/ bp < Argument)
  <2> DEFINE right == Expr(RightPower(bp))
             binary == <<"binary", value, bp>>
             tasks == <<right, binary, Head(stack)>>
  <2>1. Take(tasks)
    BY <1>6 DEF ParseOperators, bp
  <2>2. bp \in Powers /\ bp >= Argument /\ (value # Null => value >= bp)
    BY <1>2, <1>3, <1>4, <1>6 DEF Powers, Tight
  <2>3. right \in Static
    BY <2>2, LeavesAre, Levels DEF RightPower, Powers, Tight
  <2>4. binary \in Calm(errors) /\ right \in Calm(errors)
    BY <1>4, <2>2, <2>3 DEF Calm, Pending
  <2>5. Follows(right, binary)
    BY DEF Follows, Expr, RightPower
  <2>6. Follows(binary, Head(stack))
    BY <1>1, <1>2, <2>2 DEF Follows
  <2> HIDE DEF right, binary
  <2>7. tasks \in Seq(Calm(errors)) /\ Len(tasks) = 3 /\ tasks # <<>> /\ Head(tasks) = right
        /\ tasks[1] = right /\ tasks[2] = binary /\ tasks[3] = Head(stack)
    <3>1. Head(stack) \in Calm(errors)
      BY <1>0, <1>1, HeadTask
    <3> QED
      BY <2>4, <3>1
  <2>8. Linked(tasks)
    <3> SUFFICES ASSUME NEW i \in 1 .. 2
                 PROVE  Follows(tasks[i], tasks[i + 1])
      BY <2>7 DEF Linked
    <3>1. CASE i = 1
      BY <2>5, <2>7, <3>1
    <3>2. CASE i = 2
      BY <2>6, <2>7, <3>2
    <3> QED
      BY <3>1, <3>2
  <2>9. Head(tasks)[1] \notin Awaiting
    BY <2>3, <2>7, StaticAwaitsNothing
  <2> HIDE DEF tasks
  <2> QED
    BY <1>00, <1>1, <2>1, <2>7, <2>8, <2>9, PushStep
<1> QED
  BY <1>5, <1>6

\* parseExpr, parseUnary, parsePostfix and parsePrimary.
LEMMA OperandsNest ==
  ASSUME Parsed, ParseUnary \/ Wrap \/ ParsePostfix \/ ParsePrimary
  PROVE  Parsed'
<1>0. Nesting
  BY DEF Parsed
<1>00. Head(stack)[1] \notin Consumers
  BY DEF ParseUnary, Wrap, ParsePostfix, ParsePrimary, At, Consumers
<1>1. /\ stack # <<>> /\ ahead # <<>> /\ Head(stack)[1] \in TightTasks
      /\ errors \in BOOLEAN
  BY <1>0 DEF ParseUnary, Wrap, ParsePostfix, ParsePrimary, At, Ready, TightTasks, Nesting
<1>2. Do("wrap") \in Static /\ Do("unary") \in Static /\ Do("postfix") \in Static
      /\ Do("primary") \in Static
  BY LeavesAre, Levels DEF Procedures
<1>3. Do("wrap_unary") \in Calm(errors)
  BY DEF Calm, Pending, Do
\* What a tight expression is returned to may wait for its last part, too.
<1>4. ASSUME NEW p \in {"unary", "postfix", "primary", "wrap", "wrap_unary"},
             NEW y, Follows(Head(stack), y)
      PROVE  Follows(Do(p), y)
  BY <1>1, <1>4 DEF Follows, TightTasks, Do
\* Static things, and the last of them.
<1>5. ASSUME NEW tasks \in Seq(Static), tasks # <<>>,
             NEW p \in {"unary", "postfix", "primary", "wrap"},
             tasks[Len(tasks)] = Do(p), Go(tasks) \/ Take(tasks), Keep, Silent
      PROVE  Parsed'
  <2>1. tasks \in Seq(Calm(errors)) /\ Linked(tasks)
    BY <1>1, TasksGrow, PlainLinked
  <2>2. Head(tasks) \in Static
    BY <1>5
  <2>3. Head(tasks)[1] \notin Awaiting
    BY <2>2, StaticAwaitsNothing
  <2>4. \A y : Follows(Head(stack), y) => Follows(tasks[Len(tasks)], y)
    BY <1>4, <1>5
  <2> QED
    BY <1>00, <1>1, <1>5, <2>1, <2>3, <2>4, PushStep
\* A value of its own.
<1>6. ASSUME Go(<<>>) \/ Take(<<>>), value' \in {Null, Tight}, crashed' = crashed,
             errors' \in BOOLEAN, errors => errors', value' = Null => errors'
      PROVE  Parsed'
  <2>1. \A y \in Tasks(errors') : Follows(Head(stack), y) => Returned(y, value', ahead')
    BY <1>1, <1>6, TightIsEnough
  <2>2. value' \in Values
    BY <1>6 DEF Values, Null, Tight
  <2> QED
    BY <1>00, <1>1, <1>6, <2>1, <2>2, PopStep
<1>7. CASE ParseUnary
  <2>1. Keep /\ Silent
    BY <1>7 DEF ParseUnary
  <2>2. CASE Peek \in UnaryOps
    <3> DEFINE tasks == <<Do("unary"), Do("wrap_unary")>>
    <3>1. Take(tasks)
      BY <1>7, <2>2 DEF ParseUnary
    <3>2. Do("unary") \in Calm(errors)
      BY <1>2 DEF Calm
    <3>3. tasks \in Seq(Calm(errors)) /\ Len(tasks) = 2 /\ tasks # <<>>
          /\ Head(tasks) = Do("unary") /\ tasks[1] = Do("unary") /\ tasks[2] = Do("wrap_unary")
      BY <1>3, <3>2
    <3>4. Follows(Do("unary"), Do("wrap_unary"))
      BY DEF Follows, Do, TightTasks
    <3>5. Linked(tasks)
      BY <3>3, <3>4 DEF Linked
    <3>6. Head(tasks)[1] \notin Awaiting
      BY <3>3 DEF Do, Awaiting
    <3>7. \A y : Follows(Head(stack), y) => Follows(tasks[Len(tasks)], y)
      BY <1>4, <3>3
    <3> HIDE DEF tasks
    <3> QED
      BY <1>00, <1>1, <2>1, <3>1, <3>3, <3>5, <3>6, <3>7, PushStep
  <2>3. CASE Peek \notin UnaryOps
    <3>1. <<Do("postfix")>> \in Seq(Static) /\ <<Do("postfix")>> # <<>>
          /\ <<Do("postfix")>>[Len(<<Do("postfix")>>)] = Do("postfix")
      BY <1>2
    <3>2. Go(<<Do("postfix")>>)
      BY <1>7, <2>3 DEF ParseUnary
    <3> QED
      BY <1>5, <2>1, <3>1, <3>2
  <2> QED
    BY <2>2, <2>3
<1>8. CASE Wrap
  <2>1. Go(<<>>) /\ Give(IF value = Null THEN Null ELSE Tight) /\ Silent
    BY <1>8 DEF Wrap
  <2>2. value' \in {Null, Tight} /\ crashed' = crashed /\ errors' = errors
    BY <2>1 DEF Give, Silent
  <2>3. value' = Null => value = Null
    BY <2>1 DEF Give, Null, Tight
  <2> QED
    BY <1>0, <1>1, <1>6, <2>1, <2>2, <2>3 DEF Nesting
<1>9. CASE ParsePostfix
  <2>1. Keep /\ Silent
    BY <1>9 DEF ParsePostfix
  <2>2. CASE Peek \in Identifier /\ ahead[2] = "["
    <3> DEFINE tasks == Indexed \o <<Do("wrap")>>
               rest == Moved(Tail(stack))
    <3>1. <<Do("wrap")>> \in Seq(Static)
      BY <1>2
    <3>2. tasks \in Seq(Static) /\ tasks # <<>> /\ tasks[Len(tasks)] = Do("wrap")
      BY <3>1, Bodies
    <3>3. tasks \in Seq(Calm(errors)) /\ Linked(tasks)
      <4>1. tasks \in Seq(Static \cup {Note})
        BY <3>2
      <4> QED
        BY <1>1, <3>2, <4>1, TasksGrow, PlainLinked
    <3>4. Head(tasks) \in Static
      BY <3>2
    <3>5. Head(tasks)[1] \notin Awaiting
      BY <3>4, StaticAwaitsNothing
    <3>6. /\ rest \in Seq(Tasks(errors)) /\ Linked(rest) /\ ~Noted(rest)
          /\ rest # <<>> => Follows(Head(stack), Head(rest))
      <4>1. Tail(stack) \in Seq(Tasks(errors))
        BY <1>0, <1>1 DEF Nesting
      <4> QED
        BY <1>0, <1>1, <4>1, Rest, MovedForgets DEF Nesting
    <3>7. ahead' = SubSeq(ahead, 3, Len(ahead)) /\ stack' = tasks \o rest
      <4>1. (Indexed \o <<Do("wrap")>>) \o Moved(Tail(stack)) = tasks \o rest
        OBVIOUS
      <4> QED
        BY <1>9, <2>2, <4>1 DEF ParsePostfix
    <3>8. Len(ahead) > 1 /\ ahead \in Seq(Tokens \cup {"eof"})
      BY <1>0, <1>9, <2>2 DEF ParsePostfix, At, Ready, Nesting
    <3>9. ahead' \in Seq(Tokens \cup {"eof"})
      BY <3>7, <3>8
    <3> HIDE DEF tasks, rest
    <3>10. rest # <<>> => Follows(tasks[Len(tasks)], Head(rest))
      BY <1>4, <3>2, <3>6
    <3>11. stack' \in Seq(Tasks(errors)) /\ Linked(stack') /\ stack' # <<>>
           /\ Head(stack') = Head(tasks)
      <4>1. tasks \in Seq(Tasks(errors))
        BY <1>1, <3>3, TasksGrow
      <4> QED
        BY <3>2, <3>3, <3>6, <3>7, <3>10, <4>1, Joined
    <3>12. Returned(Head(stack'), value', ahead')
      BY <3>5, <3>11 DEF Returned, Awaiting
    <3>13. ~Noted(stack')
      BY <3>3, <3>6, <3>7, CalmAddsNoNote
    <3> QED
      BY <1>0, <2>1, <3>9, <3>11, <3>12, <3>13 DEF Nesting, Keep, Silent, Parsed, Progress
  <2>3. CASE ~(Peek \in Identifier /\ ahead[2] = "[")
    <3>1. <<Do("primary")>> \in Seq(Static) /\ <<Do("primary")>> # <<>>
          /\ <<Do("primary")>>[Len(<<Do("primary")>>)] = Do("primary")
      BY <1>2
    <3>2. Go(<<Do("primary")>>)
      BY <1>9, <2>3 DEF ParsePostfix
    <3> QED
      BY <1>5, <2>1, <3>1, <3>2
  <2> QED
    BY <2>2, <2>3
<1>10. CASE ParsePrimary
  <2>1. CASE Take(<<>>) /\ Give(Tight) /\ Silent
    BY <1>1, <1>6, <2>1 DEF Give, Silent, Null, Tight
  <2>2. CASE Malformed
    BY <1>1, <1>6, <2>2 DEF Malformed, Give, Report
  <2>3. CASE Take(<<Sym("("), Expression, Sym(")"), Do("wrap")>>) /\ Keep /\ Silent
    <3> DEFINE tasks == <<Sym("("), Expression, Sym(")"), Do("wrap")>>
    <3>1. tasks \in Seq(Static) /\ tasks # <<>> /\ tasks[Len(tasks)] = Do("wrap")
      BY <1>2, Words, Levels
    <3> HIDE DEF tasks
    <3> QED
      BY <1>5, <2>3, <3>1 DEF tasks
  <2>4. CASE Take(<<Expression, Sym(")"), Do("wrap")>>) /\ Keep /\ Silent
    <3> DEFINE tasks == <<Expression, Sym(")"), Do("wrap")>>
    <3>1. tasks \in Seq(Static) /\ tasks # <<>> /\ tasks[Len(tasks)] = Do("wrap")
      BY <1>2, Words, Levels
    <3> HIDE DEF tasks
    <3> QED
      BY <1>5, <2>4, <3>1 DEF tasks
  <2> QED
    BY <1>10, <2>1, <2>2, <2>3, <2>4 DEF ParsePrimary
<1> QED
  BY <1>7, <1>8, <1>9, <1>10

\* A token is seen for the first time.
LEMMA FetchNests ==
  ASSUME Parsed, NEW t \in Tokens \cup {"eof"}, Fetch(t)
  PROVE  Parsed'
<1>1. /\ ahead' = Append(ahead, t) /\ ahead \in Seq(Tokens \cup {"eof"})
      /\ UNCHANGED <<stack, value, errors, crashed>>
  BY DEF Fetch, Parsed, Nesting
<1>2. ahead' \in Seq(Tokens \cup {"eof"})
  BY <1>1
<1>3. \A power : Bounded(ahead, power) => Bounded(ahead', power)
  BY <1>1 DEF Bounded
<1>4. stack # <<>> => Returned(Head(stack), value, ahead')
  BY <1>3 DEF Parsed, Nesting, Returned
<1>5. ~Noted(stack)
  BY DEF Parsed, Progress, Consumes, Fetch, Ready
<1> QED
  BY <1>1, <1>2, <1>4, <1>5 DEF Parsed, Nesting, Progress, Noted

\* parseProgram, before it looks at a token.
LEMMA InitNests ==
  Init => Parsed
<1> SUFFICES ASSUME Init
             PROVE  Parsed
  OBVIOUS
<1>1. <<"program", FALSE>> \in Static
  BY LeavesAre, Levels
<1>2. <<"program", FALSE>> \in Tasks(FALSE)
  BY <1>1 DEF Tasks, Calm
<1>3. stack \in Seq(Tasks(errors)) /\ Head(stack)[1] = "program" /\ Len(stack) = 1
  <2> DEFINE program == <<"program", FALSE>>
  <2>1. program \in Tasks(errors)
    BY <1>2 DEF Init
  <2>2. stack = <<program>> /\ program[1] = "program"
    BY DEF Init
  <2> HIDE DEF program
  <2> QED
    BY <2>1, <2>2
<1>4. Linked(stack)
  BY <1>3 DEF Linked
<1>5. Returned(Head(stack), value, ahead)
  BY <1>3 DEF Returned
<1>6. ahead \in Seq(Tokens \cup {"eof"})
  BY TokensAssumption DEF Init
<1>7. value \in Values /\ value # Null
  BY DEF Init, Values, Null, Tight
<1>8. errors \in BOOLEAN /\ ~crashed
  BY Zenon DEF Init
<1>9. ~Noted(stack)
  BY <1>3, NoteIs DEF Noted
<1> QED
  BY <1>3, <1>4, <1>5, <1>6, <1>7, <1>8, <1>9 DEF Parsed, Nesting, Progress

\* One case for each disjunct of Next.
LEMMA ParsedIsPreserved ==
  Parsed /\ [Next]_vars => Parsed'
<1> SUFFICES ASSUME Parsed, [Next]_vars
             PROVE  Parsed'
  OBVIOUS
<1>1. Nesting
  BY DEF Parsed
<1>2. CASE UNCHANGED vars
  BY <1>2 DEF vars, Parsed, Nesting, Progress, Noted, Consumes, Peek, Argument
<1>3. CASE ExpectToken \/ Accept \/ Skip
  BY <1>1, <1>3, HelpersNest, HelpersProgress DEF Parsed
<1>4. CASE ParseAnExpression
  BY <1>4, ConditionalNests, QuestionNests, MakeNests, OperatorsNest, OperandsNest
     DEF ParseAnExpression
<1>5. CASE ParseAStatement
  BY <1>1, <1>5, StatementsNest, StatementsProgress DEF Parsed
<1>6. CASE ParseAProgram
  BY <1>6, ProgramsNest
<1>7. CASE \E t \in Tokens \cup {"eof"} : Fetch(t)
  BY <1>7, FetchNests
<1> QED
  BY <1>2, <1>3, <1>4, <1>5, <1>6, <1>7 DEF Next, Parse

\* The inductive invariant.
LEMMA AlwaysParsed ==
  Spec => []Parsed
<1> QED
  BY InitNests, ParsedIsPreserved, PTL DEF Spec

\* Whatever the tokens and their number: operators nest as their binding powers
\* say (parseExpr, parseUnary, parseConditional).
THEOREM PrecedenceIsRespected ==
  Spec => []PrecedenceRespected
<1>1. ASSUME Parsed
      PROVE  PrecedenceRespected
  <2> SUFFICES ASSUME ~Done, value # Null
               PROVE  CASE Head(stack)[1] = "binary" ->
                             Argument # Null =>
                               Argument >= Head(stack)[3] /\ value > Head(stack)[3]
                        [] Head(stack)[1] = "wrap_unary" -> value = Tight
                        [] Head(stack)[1] = "ternary" -> Argument # Conditional
                        [] OTHER -> TRUE
    BY DEF PrecedenceRespected
  <2>1. /\ stack # <<>>
        /\ Returned(Head(stack), value, ahead)
    BY <1>1 DEF Done, Parsed, Nesting
  <2>2. Head(stack) \in Tasks(errors)
    BY <1>1, <2>1, HeadTask DEF Parsed
  <2>3. /\ Head(stack)[1] = "binary" =>
             (Argument # Null => Argument >= Head(stack)[3]) /\ value > Head(stack)[3]
        /\ Head(stack)[1] = "ternary" => Argument # Conditional
    BY <2>1, <2>2, Fields DEF Argument, Returned
  <2>4. Head(stack)[1] = "wrap_unary" => value = Tight
    BY <2>1 DEF Returned
  <2> QED
    BY <2>3, <2>4
<1> QED
  BY <1>1, AlwaysParsed, PTL

\* No null goes unreported, in the value returned last or in what waits for
\* another (parsePrimary and whoever gets its null).
THEOREM NullsAreReported ==
  Spec => []NullIsReported
<1>1. ASSUME Parsed
      PROVE  NullIsReported
  <2>1. ASSUME NEW i \in DOMAIN stack, stack[i][1] \in {"binary", "ternary"}, stack[i][2] = Null
        PROVE  errors
    <3>1. stack[i] \in Tasks(errors)
      BY <1>1 DEF Parsed, Nesting
    <3> QED
      BY <2>1, <3>1, Fields
  <2> QED
    BY <1>1, <2>1 DEF Parsed, Nesting, NullIsReported
<1> QED
  BY <1>1, AlwaysParsed, PTL

\* No block needs its emergency advance() (parseStatement's recovery).
THEOREM EveryStatementIsConsumed ==
  Spec => []EveryStatementConsumes
<1>1. ASSUME Parsed
      PROVE  EveryStatementConsumes
  <2> SUFFICES ASSUME stack # <<>>, Head(stack)[1] = "statements"
               PROVE  ~Argument
    BY DEF EveryStatementConsumes, Done
  <2>1. Head(stack) \in Tasks(errors) /\ Head(stack) = stack[1] /\ 1 \in DOMAIN stack
    BY <1>1 DEF Parsed, Nesting
  <2>2. ~Noted(stack)
    BY <1>1 DEF Parsed, Progress, Consumes
  <2>3. Head(stack) # Note
    BY <2>1, <2>2 DEF Noted
  <2>4. Head(stack) = <<"statements", FALSE>>
    BY <2>1, <2>3, StatementsAre
  <2>5. <<"statements", FALSE>>[2] = FALSE
    OBVIOUS
  <2>6. Head(stack)[2] = FALSE
    BY <2>4, <2>5, Zenon
  <2> QED
    BY <2>6, Zenon DEF Argument
<1> QED
  BY <1>1, AlwaysParsed, PTL
=============================================================================
