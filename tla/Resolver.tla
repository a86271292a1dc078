------------------------------ MODULE Resolver ------------------------------
(***************************************************************************)
(* Name resolution (src/sema/resolver.cpp, scope.hpp): one walk over the    *)
(* tree that declares symbols in a stack of scopes and binds every use of a *)
(* name.  The walk is a machine with a stack of what is left to visit; the  *)
(* tree is chosen while it is walked, at most MaxNodes declarations, uses   *)
(* and statements of it.  Types, lengths and messages are left out; of a    *)
(* declaration its name and kind are kept, of a use its name and role.      *)
(***************************************************************************)
EXTENDS Naturals, Sequences, FiniteSetsExt

CONSTANTS
  Names,       \* the names programs use
  MaxNodes     \* bound: declarations, uses and statements of a program

ASSUME NodesAssumption == MaxNodes \in Nat

\* The history tells names from the borders of blocks.
ASSUME NamesAssumption == Names \cap {"open", "close"} = {}

VARIABLES
  todo,      \* what is left to visit, first thing first
  scopes,    \* the stack of scopes, innermost last: name -> index in symbols
  symbols,   \* every symbol made, in order: name and kind
  errors,    \* something was reported
  use,       \* the use just bound, if any: name, role and symbol
  left,      \* how many nodes the rest of the tree may have
  text       \* history: the blocks and declarations of the program so far

vars == <<todo, scopes, symbols, errors, use, left, text>>

NoSymbol == 0     \* nullptr

NoUse == [name |-> "none", role |-> "none", symbol |-> NoSymbol]

Arrays == {"ArrayParam", "LocalArray", "GlobalConstArray"}
Streams == {"StreamIn", "StreamOut"}       \* StreamParam and isStreamOut
ParamKinds == {"ScalarParam", "ArrayParam"} \cup Streams
ConstKinds == {"GlobalConst", "GlobalConstArray"}

-----------------------------------------------------------------------------
(* The stack of scopes.                                                     *)

NoNames == [n \in Names |-> NoSymbol]

Innermost == scopes[Len(scopes)]

Lookup(n) ==
  LET in == {i \in DOMAIN scopes : scopes[i][n] # NoSymbol}
  IN  IF in = {} THEN NoSymbol ELSE scopes[Max(in)][n]

KindOf(s) == symbols[s].kind

-----------------------------------------------------------------------------
(* Walking.  Text events are history: where LANGUAGE.md lets a block or the *)
(* reach of a declaration begin and end.                                    *)

Do(what) == <<what>>
Expr == Do("expr")
Stmts == Do("stmts")
Decl(kind, n) == <<"declare", kind, n>>
Mark(event) == <<"text", event>>
Scope(body) == <<Do("push"), Mark("open")>> \o body \o <<Do("pop"), Mark("close")>>

At(what) == todo # <<>> /\ Head(todo)[1] = what

Go(next) == todo' = next \o Tail(todo)

\* Steps that bind nothing and change no scope.
Walk(next) ==
  /\ Go(next)
  /\ use' = NoUse
  /\ UNCHANGED <<scopes, symbols, errors, text>>

\* Another node of the tree.  Behind a report the rest of it is empty: no
\* property is about it.
Node ==
  /\ left > 0 /\ ~errors
  /\ left' = left - 1

\* declare: the symbol is made even when its name is taken.
Declare ==
  /\ At("declare")
  /\ LET n == Head(todo)[3]
         free == Innermost[n] = NoSymbol
     IN  /\ symbols' = Append(symbols, [name |-> n, kind |-> Head(todo)[2]])
         /\ scopes' = IF free THEN [scopes EXCEPT ![Len(scopes)][n] = Len(symbols) + 1]
                      ELSE scopes
         /\ errors' = (errors \/ ~free)
  /\ Go(<<>>)
  /\ use' = NoUse
  /\ UNCHANGED <<left, text>>

PushOrPop ==
  /\ At("push") \/ At("pop")
  /\ scopes' = IF At("push") THEN Append(scopes, NoNames)
               ELSE SubSeq(scopes, 1, Len(scopes) - 1)
  /\ Go(<<>>)
  /\ use' = NoUse
  /\ UNCHANGED <<symbols, errors, left, text>>

Text ==
  /\ At("text")
  /\ text' = Append(text, Head(todo)[2])
  /\ Go(<<>>)
  /\ use' = NoUse
  /\ UNCHANGED <<scopes, symbols, errors, left>>

\* Mutant: a loop variable may be assigned to.
MutantReadOnly == Arrays \cup {"GlobalConst"}

ReadOnly == Arrays \cup {"GlobalConst", "InductionVar"}

\* What the resolver says about a bound use: resolveExpr on an Index, the
\* checks of an assignment's target, lookupStream.
Objection(role, kind) ==
  CASE role = "element" -> kind \notin Arrays
    [] role = "target" -> kind \in ReadOnly
    [] role = "element_target" -> kind # "LocalArray"
    [] role = "read" -> kind # "StreamIn"
    [] role = "write" -> kind # "StreamOut"
    [] OTHER -> FALSE

Bind(role, n) ==
  LET s == Lookup(n)
      lost == s # NoSymbol /\ role \in {"read", "write"} /\ KindOf(s) \notin Streams
  IN  /\ use' = [name |-> n, role |-> role, symbol |-> IF lost THEN NoSymbol ELSE s]
      /\ errors' = (errors \/ s = NoSymbol \/ Objection(role, KindOf(s)))
      /\ UNCHANGED <<scopes, symbols, text>>

-----------------------------------------------------------------------------
(* Expressions.                                                             *)

\* A literal, or the operands of a Binary, say, one after the other.
Literal == At("expr") /\ Walk(<<>>) /\ UNCHANGED left

Operands == At("expr") /\ Node /\ Walk(<<Expr, Expr>>)

NameRef(n) == At("expr") /\ Node /\ Go(<<>>) /\ Bind("value", n)

Index(n) == At("expr") /\ Node /\ Go(<<Expr>>) /\ Bind("element", n)

-----------------------------------------------------------------------------
(* Statements.                                                              *)

\* Mutant: the name is declared before its initialiser is resolved.
MutantLocal(kind, n, value) == <<Decl(kind, n)>> \o value \o <<Mark(n)>>

\* "Resolve the initializer before adding the new local to the scope."
Local(kind, n, value) == value \o <<Decl(kind, n), Mark(n)>>

Statement(parts) == At("stmts") /\ Node /\ Walk(parts \o <<Stmts>>)

Read(s) == <<"stream", "read", s>>

VarDecl(n, value) == Statement(Local("Local", n, <<value>>))

ArrayDecl(n) == Statement(Local("LocalArray", n, <<Expr>>))

\* The target is bound first, then the index and the value.
Assign(n, index, value) ==
  /\ At("stmts")
  /\ Node
  /\ Go(index \o <<value, Stmts>>)
  /\ Bind(IF index = <<>> THEN "target" ELSE "element_target", n)

Write(s) == Statement(<<<<"stream", "write", s>>, Expr>>)

\* The else branch is absent, a block or another if.
If ==
  \E else \in {<<>>, Scope(<<Stmts>>), <<Expr>> \o Scope(<<Stmts>>)} :
    Statement(<<Expr>> \o Scope(<<Stmts>>) \o else)

\* "The initializer uses the outer scope; the loop variable does not."
For(n) ==
  Statement(<<Expr>> \o
            Scope(<<Decl("InductionVar", n), Mark(n), Expr, Expr, Stmts>>))

Return == Statement(<<Expr>>)

Block == Statement(Scope(<<Stmts>>))

LookupStream ==
  At("stream") /\ Go(<<>>) /\ Bind(Head(todo)[2], Head(todo)[3]) /\ UNCHANGED left

-----------------------------------------------------------------------------
(* Programs.                                                                *)

Declaration(kind, n, parts) == Walk(<<Decl(kind, n), Mark(n)>> \o parts)

\* The constants are declared first, and their expressions resolved behind.
DeclareConst(kind, n) ==
  At("consts") /\ Node /\ Declaration(kind, n, <<Do("consts"), Expr>>)

\* The size of an array parameter is resolved outside the function's scope.
ParamSize == At("sizes") /\ Node /\ Walk(<<Expr, Do("sizes")>>)

DeclareParam(kind, n) ==
  At("params") /\ Node /\ Declaration(kind, n, <<Do("params")>>)

EndOfList ==
  /\ At("consts") \/ At("sizes") \/ At("params") \/ At("stmts")
  /\ Walk(<<>>)
  /\ UNCHANGED left

\* resolve and resolveFunction; the body shares the parameters' scope.
Init ==
  /\ todo = Scope(<<Do("consts"), Do("sizes")>> \o Scope(<<Do("params"), Stmts>>))
  /\ scopes = <<>>
  /\ symbols = <<>>
  /\ errors = FALSE
  /\ use = NoUse
  /\ left = MaxNodes
  /\ text = <<>>

Next ==
  \/ Declare \/ PushOrPop \/ Text \/ LookupStream \/ EndOfList
  \/ Literal \/ Operands \/ If \/ Return \/ Block \/ ParamSize
  \/ \E n \in Names :
       \/ NameRef(n) \/ Index(n) \/ ArrayDecl(n) \/ For(n) \/ Write(n)
       \/ VarDecl(n, Expr) \/ Assign(n, <<>>, Expr) \/ Assign(n, <<Expr>>, Expr)
       \/ \E s \in Names : VarDecl(n, Read(s)) \/ Assign(n, <<>>, Read(s))
       \/ \E kind \in ConstKinds : DeclareConst(kind, n)
       \/ \E kind \in ParamKinds : DeclareParam(kind, n)

Spec == Init /\ [][Next]_vars

-----------------------------------------------------------------------------
(* What LANGUAGE.md says of names, read off the text.                       *)

\* How many blocks are open behind the i-th event.
Depth(i) ==
  Cardinality({j \in 1 .. i : text[j] = "open"})
    - Cardinality({j \in 1 .. i : text[j] = "close"})

\* The declarations of n whose block is still open.
Visible(n) ==
  {i \in DOMAIN text :
     text[i] = n /\ \A j \in i .. Len(text) : Depth(j) >= Depth(i)}

\* Which symbol the declaration at i made.
SymbolAt(i) == Cardinality({j \in 1 .. i : text[j] \in Names})

LegalKinds(role) ==
  CASE role = "value" -> {"ScalarParam", "Local", "GlobalConst", "InductionVar"}
    [] role = "element" -> Arrays
    [] role = "target" -> {"ScalarParam", "Local"}
    [] role = "element_target" -> {"LocalArray"}
    [] role = "read" -> {"StreamIn"}
    [] role = "write" -> {"StreamOut"}

\* Uses that are illegal and that no pass objects to.
Unchecked(role) ==
  CASE role = "value" -> Arrays \cup Streams
    [] role = "target" -> Streams
    [] OTHER -> {}

Bound == ~errors /\ use # NoUse

(* A use means the declaration of its name that comes last before it and    *)
(* whose block is still open, and there is one: across initialisers that    *)
(* name an outer twin of what they initialise, loop headers, parameter      *)
(* sizes and constants declared behind their use (declare, lookup and the   *)
(* order of resolveStmt).                                                   *)
InnermostBinding ==
  Bound => /\ Visible(use.name) # {}
           /\ use.symbol = SymbolAt(Max(Visible(use.name)))

(* A name is used only as its declaration allows, whatever declaration      *)
(* shadowing makes it mean; the exceptions are named (resolveExpr,          *)
(* resolveStmt and lookupStream).                                           *)
RolesRespected ==
  Bound => KindOf(use.symbol) \in LegalKinds(use.role) \cup Unchecked(use.role)

(* Arrays and streams are not values and streams are not assigned to        *)
(* (LANGUAGE.md).                                                           *)
NoUncheckedRoles == Bound => KindOf(use.symbol) \in LegalKinds(use.role)

(* No declaration in its loop's body takes the name of a loop variable      *)
(* (LANGUAGE.md).                                                           *)
LoopVariablesAreNotShadowed ==
  ~errors => \A n \in Names : \A i, j \in Visible(n) :
               i < j => symbols[SymbolAt(i)].kind # "InductionVar"
=============================================================================
