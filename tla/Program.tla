------------------------------ MODULE Program ------------------------------
(***************************************************************************)
(* The program every back end walks: the AST of frontend/ast.hpp after     *)
(* name resolution, type checking and constant evaluation.  A function     *)
(* body is one listing of statements; the opening and closing statements   *)
(* of a structured statement stand in the listing where its braces stand:  *)
(*                                                                         *)
(*     if .. else .. endif      for .. endfor      { .. }                  *)
(*                                                                         *)
(* An absent else arm is an empty one.  A declaration's name is already    *)
(* its Symbol, so a symbol is declared at one place of a listing.          *)
(***************************************************************************)
EXTENDS Integers, Sequences

CONSTANTS
  Symbols,      \* what the resolver made of the program's names
  TypeOf,       \* symbol -> type, Symbol::type
  Params,       \* the function's scalar parameters, a set of symbols
  ConstValue,   \* file-scope constant -> the Bits the constant evaluator folded
  ReturnType

Unsigned(w) == [width |-> w, isSigned |-> FALSE]
Signed(w)   == [width |-> w, isSigned |-> TRUE]
Types == [width : Nat \ {0}, isSigned : BOOLEAN]

ASSUME ProgramAssumption ==
  /\ TypeOf \in [Symbols -> Types]
  /\ Params \subseteq Symbols
  /\ DOMAIN ConstValue \subseteq Symbols \ Params
  /\ ReturnType \in Types

(***************************************************************************)
(* Expressions.  A statement needs of its expression what it reads, its    *)
(* static type and its value, so an expression is a literal, a name, an    *)
(* element of an array, a cast of one operator applied to names, or a cast *)
(* of a constant, to which nothing gives a type.  A `read(s)` is allowed   *)
(* only as the whole right-hand side of a declaration or an assignment.    *)
(***************************************************************************)
Lit(value)        == [op |-> "lit", args |-> <<>>, value |-> value,
                      type |-> [width |-> value.width, isSigned |-> value.isSigned]]
Name(s)           == [op |-> "name", args |-> <<s>>, type |-> TypeOf[s]]
Elem(array, i)    == [op |-> "index", args |-> <<array, i>>, type |-> TypeOf[array]]
Op(op, l, r, type) == [op |-> op, args |-> <<l, r>>, type |-> type]
CastConst(type)   == [op |-> "untyped", args |-> <<>>, type |-> type]
Read(stream)      == [op |-> "read", args |-> <<stream>>, type |-> TypeOf[stream]]

Reads(e) == {e.args[i] : i \in DOMAIN e.args}

(***************************************************************************)
(* Statements.  A loop whose tripCountKnown is not set has no trip count.  *)
(***************************************************************************)
NoTripCount == -1

VarDecl(s, e)         == [kind |-> "decl", sym |-> s, expr |-> e]
Assign(s, e)          == [kind |-> "assign", sym |-> s, expr |-> e]
Store(array, i, e)    == [kind |-> "store", sym |-> array, index |-> i, expr |-> e]
ArrayDecl(array, init) == [kind |-> "array", sym |-> array, init |-> init]
Write(stream, e)      == [kind |-> "write", sym |-> stream, expr |-> e]
If(cond)              == [kind |-> "if", expr |-> cond]
For(iv, init, step, isAdd, trip) ==
  [kind |-> "for", sym |-> iv, init |-> init, step |-> step, stepIsAdd |-> isAdd,
   tripCount |-> trip]
Return(e)             == [kind |-> "return", expr |-> e]
Token(kind)           == [kind |-> kind]

ElseToken   == Token("else")
EndIfToken  == Token("endif")
EndForToken == Token("endfor")
OpenBlock   == Token("{")
CloseBlock  == Token("}")

(***************************************************************************)
(* The maps from symbols that both walks keep: m[s] = v, and a batch.      *)
(***************************************************************************)
Bind(map, s, v) == [t \in DOMAIN map \cup {s} |-> IF t = s THEN v ELSE map[t]]
Rebind(map, more) ==
  [t \in DOMAIN map \cup DOMAIN more |-> IF t \in DOMAIN more THEN more[t] ELSE map[t]]

(***************************************************************************)
(* Where a structured statement continues: the listing's nesting depth     *)
(* just after each position, and the first position from which the depth   *)
(* is that of the opening statement again.                                 *)
(***************************************************************************)
Opens(s)  == s.kind \in {"if", "for", "{"}
Closes(s) == s.kind \in {"endif", "endfor", "}"}

Depth(prog) ==
  LET depth[i \in 0 .. Len(prog)] ==
        IF i = 0 THEN 0
        ELSE depth[i - 1] + (IF Opens(prog[i]) THEN 1 ELSE IF Closes(prog[i]) THEN -1 ELSE 0)
  IN  depth

CloseOf(prog, i) ==
  LET depth == Depth(prog)
  IN  CHOOSE j \in i + 1 .. Len(prog) :
        /\ depth[j] = depth[i] - 1
        /\ \A k \in i .. j - 1 : depth[k] >= depth[i]

ElseOf(prog, i) ==
  LET depth == Depth(prog)
  IN  CHOOSE j \in i + 1 .. CloseOf(prog, i) :
        prog[j].kind = "else" /\ depth[j] = depth[i]

\* Every symbol assigned anywhere inside the structured statement at i.
\* A VarDecl is skipped; an assignment to what it declared is not.
CollectAssigned(prog, i) ==
  {prog[j].sym : j \in {k \in i .. CloseOf(prog, i) :
                          prog[k].kind \in {"assign", "store"}}}

(***************************************************************************)
(* What the front end has settled of a listing before a back end walks it: *)
(* the symbols it assigns are declared, its expressions have a type, and   *)
(* its loops are closed.                                                   *)
(***************************************************************************)
WellFormed(p) ==
  /\ p \in Seq({p[i] : i \in DOMAIN p})
  /\ \A i \in DOMAIN p :
       /\ p[i].kind \in {"decl", "assign", "for"} => p[i].sym \in Symbols
       /\ p[i].kind \in {"decl", "assign", "if", "return"} => p[i].expr.type \in Types
       /\ p[i].kind = "for" =>
            /\ p[i].tripCount \in Nat \cup {NoTripCount}
            /\ {p[i].init.type, p[i].step.type} \subseteq Types
            /\ CloseOf(p, i) \in i + 1 .. Len(p)

\* The structured statements are nested: each is closed, by its own kind of
\* statement, in the block it stands in; and such a statement closes one.
Nested(p) ==
  /\ \A i \in DOMAIN p :
       LET close == CloseOf(p, i)
           other == ElseOf(p, i)
       IN  /\ p[i].kind = "if" =>
                /\ p[close].kind = "endif"
                /\ other \in i + 1 .. close - 1 /\ p[other].kind = "else"
                /\ \A j \in i + 1 .. other - 1 :
                     p[j].kind \in {"if", "for"} => CloseOf(p, j) \in j + 1 .. other - 1
           /\ p[i].kind = "for" =>
                /\ p[close].kind = "endfor"
                /\ \A j \in i + 1 .. close - 1 :
                     p[j].kind = "else" => CloseOf(p, j) \in j + 1 .. close - 1
           /\ p[i].kind \in {"if", "for"} =>
                \A j \in i + 1 .. close - 1 :
                  p[j].kind \in {"if", "for"} => CloseOf(p, j) \in j + 1 .. close - 1
           /\ Opens(p[i]) => close \in i + 1 .. Len(p)
  /\ \A c \in DOMAIN p :
       LET Openers(kind) == {i \in 1 .. c - 1 : p[i].kind = kind}
       IN  /\ p[c].kind = "else"   => \E i \in Openers("if") : ElseOf(p, i) = c
           /\ p[c].kind = "endif"  => \E i \in Openers("if") : CloseOf(p, i) = c
           /\ p[c].kind = "endfor" => \E i \in Openers("for") : CloseOf(p, i) = c

\* What evaluateFor could fold: a name in it is a file-scope constant.
Constant(e) ==
  CASE e.op \in {"lit", "untyped"} -> TRUE
    [] e.op = "name" -> e.args[1] \in DOMAIN ConstValue
    [] OTHER -> e.op \notin {"index", "read"} /\ {e.args[1], e.args[2]} \subseteq DOMAIN ConstValue

(***************************************************************************)
(* The resolver's rule: a declaration is visible behind it, in every block *)
(* that holds it.  A loop's variable is declared in its body.              *)
(***************************************************************************)
InScope(p, j, i) ==
  LET Holds(first, last) == j \in first .. last - 1 => i <= last
  IN  /\ j < i
      /\ \A b \in DOMAIN p : /\ Opens(p[b]) => Holds(b, CloseOf(p, b))
                             /\ p[b].kind = "if" => Holds(b, ElseOf(p, b))

Visible(p, i, kinds) ==
  {p[j].sym : j \in {k \in DOMAIN p : p[k].kind \in kinds /\ InScope(p, k, i)}}

\* What is read is visible, and what is assigned is a visible variable that
\* is neither a constant nor a loop's.
WellScoped(p) ==
  \A i \in DOMAIN p :
    LET s == p[i]
        Readable(e) == Reads(e) \subseteq Params \cup DOMAIN ConstValue
                                         \cup Visible(p, i, {"decl", "for"})
    IN  /\ s.kind \in {"decl", "assign", "if", "return"} =>
             s.expr.op \in {"index", "read"} \/ Readable(s.expr)
        /\ s.kind = "for" => \A e \in {s.init, s.step} : Constant(e) /\ Readable(e)
        /\ s.kind \in {"assign", "store"} => s.sym \in Params \cup Visible(p, i, {"decl", "array"})
=============================================================================
