------------------------------ MODULE Listings ------------------------------
(***************************************************************************)
(* For model checking: every well-scoped listing of up to n statements     *)
(* that a vocabulary of statements allows.  A structured statement counts  *)
(* as one, its braces as none.                                             *)
(***************************************************************************)
EXTENDS Program

CONSTANTS
  Simple(_),      \* visible symbols -> statements that declare nothing
  Declare(_),     \* visible symbols -> declarations
  Conditions(_),  \* visible symbols -> conditions of an if
  Loops(_),       \* visible symbols -> loop headers
  Declarable,     \* the symbols Declare and Loops bring into scope
  Outermost       \* the symbols visible everywhere

Scopes == {Outermost \cup v : v \in SUBSET Declarable}

\* The listings of at most n statements; shorter[k + 1][v] are those of at
\* most k where v is visible.
Longer(n, shorter, vis) ==
  LET Shorter(k, v) == shorter[k + 1][v]
  IN  {<<>>}
      \cup {<<s>> \o r : s \in Simple(vis), r \in Shorter(n - 1, vis)}
      \cup UNION {{<<s>> \o r : r \in Shorter(n - 1, vis \cup {s.sym})} : s \in Declare(vis)}
      \cup UNION {
             {<<If(c)>> \o t \o <<ElseToken>> \o e \o <<EndIfToken>> \o r :
                c \in Conditions(vis), t \in Shorter(k[1], vis), e \in Shorter(k[2], vis),
                r \in Shorter(n - 1 - k[1] - k[2], vis)}
             : k \in {m \in (0 .. n - 1) \X (0 .. n - 1) : m[1] + m[2] < n}}
      \cup UNION {
             {<<loop>> \o b \o <<EndForToken>> \o r :
                b \in Shorter(k, vis \cup {loop.sym}), r \in Shorter(n - 1 - k, vis)}
             : k \in 0 .. n - 1, loop \in Loops(vis)}
      \cup UNION {
             {<<OpenBlock>> \o b \o <<CloseBlock>> \o r :
                b \in Shorter(k, vis) \ {<<>>}, r \in Shorter(n - 1 - k, vis)}
             : k \in 1 .. n - 1}

RECURSIVE Levels(_)
Levels(n) ==
  IF n = 0 THEN <<[vis \in Scopes |-> {<<>>}]>>
  ELSE LET shorter == Levels(n - 1)
       IN  Append(shorter, [vis \in Scopes |-> Longer(n, shorter, vis)])

\* A symbol is one declaration.  Loops one after the other may share theirs:
\* a loop variable is read-only and is bound by its own header.
DeclaredOnce(p) ==
  LET Declares(i) == p[i].kind \in {"decl", "array"}
  IN  \A i, j \in DOMAIN p : Declares(i) /\ Declares(j) /\ p[i].sym = p[j].sym => i = j

Bodies(n) == {p \in Longer(n, Levels(n - 1), Outermost) : DeclaredOnce(p)}
=============================================================================
