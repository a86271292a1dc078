------------------------------ MODULE Grammar -------------------------------
(***************************************************************************)
(* The grammar of LANGUAGE.md as data, and what it means: the sentential    *)
(* forms that can still follow the tokens read.  It is the abstract         *)
(* description the parser is compared with, so it is written from the       *)
(* document.  { x } and [ x ] become nonterminals of their own.             *)
(***************************************************************************)
EXTENDS Sequences

CONSTANT AsDocumented
  \* TRUE: the document.  FALSE: the two rules in which the parser differs
  \* from it are the parser's (array_init, conditional).

Ops(S) == {<<op>> : op \in S}

Rules == [
  program        |-> {<<"consts", "function", "consts">>},
  consts         |-> {<<>>, <<"const_decl", "consts">>},
  const_decl     |-> {<<"const", "type", "identifier", "=", "expression", ";">>,
                      <<"const", "type", "identifier", "[", "expression", "]",
                        "=", "array_init", ";">>},
  function       |-> {<<"type", "identifier", "(", "params", ")", "block">>},
  params         |-> {<<>>, <<"param", "more_params">>},
  more_params    |-> {<<>>, <<",", "param", "more_params">>},
  param          |-> {<<"type", "identifier">>,
                      <<"type", "identifier", "[", "expression", "]">>,
                      <<"direction", "stream", "<", "type", ">", "identifier">>},
  direction      |-> Ops({"in", "out"}),

  block          |-> {<<"{", "statements", "}">>},
  statements     |-> {<<>>, <<"statement", "statements">>},
  statement      |-> {<<"type", "identifier", "=", "rhs", ";">>,
                      <<"type", "identifier", "[", "expression", "]",
                        "optional_init", ";">>,
                      <<"identifier", "optional_index", "=", "rhs", ";">>,
                      <<"write", "(", "identifier", ",", "expression", ")", ";">>,
                      <<"if_stmt">>,
                      <<"optional_pragma", "for", "(", "for_init", ";",
                        "for_cond", ";", "for_step", ")", "block">>,
                      <<"return", "expression", ";">>,
                      <<"block">>},
  optional_init  |-> {<<>>, <<"=", "array_init">>},
  optional_index |-> {<<>>, <<"[", "expression", "]">>},
  rhs            |-> {<<"expression">>, <<"read", "(", "identifier", ")">>},
  array_init     |-> {<<"{", "expression", "elements", "}">>}
                       \cup IF AsDocumented THEN {} ELSE {<<"{", "}">>},
  elements       |-> {<<>>, <<",">>, <<",", "expression", "elements">>},
  if_stmt        |-> {<<"if", "(", "expression", ")", "block", "optional_else">>},
  optional_else  |-> {<<>>, <<"else", "block">>, <<"else", "if_stmt">>},
  optional_pragma |-> {<<>>, <<"pragma">>},
  for_init       |-> {<<"type", "identifier", "=", "expression">>},
  for_cond       |-> {<<"loop variable", "rel_op", "expression">>},
  for_step       |-> {<<"loop variable", "=", "loop variable", "step_op",
                        "expression">>},
  rel_op         |-> Ops({"<", "<=", ">", ">="}),
  step_op        |-> Ops({"+", "-"}),

  expression     |-> {<<"conditional">>},
  conditional    |-> {<<"logical_or">>,
                      <<"logical_or", "?",
                        IF AsDocumented THEN "expression" ELSE "logical_or",
                        ":", "conditional">>},
  logical_or     |-> {<<"logical_and", "or_tail">>},
  or_tail        |-> {<<>>, <<"||", "logical_and", "or_tail">>},
  logical_and    |-> {<<"comparison", "and_tail">>},
  and_tail       |-> {<<>>, <<"&&", "comparison", "and_tail">>},
  comparison     |-> {<<"additive", "cmp_tail">>},
  cmp_tail       |-> {<<>>, <<"cmp_op", "additive", "cmp_tail">>},
  cmp_op         |-> Ops({"<", "<=", ">", ">=", "==", "!="}),
  additive       |-> {<<"multiplicative", "add_tail">>},
  add_tail       |-> {<<>>, <<"add_op", "multiplicative", "add_tail">>},
  add_op         |-> Ops({"+", "-", "|", "^"}),
  multiplicative |-> {<<"unary", "mul_tail">>},
  mul_tail       |-> {<<>>, <<"mul_op", "unary", "mul_tail">>},
  mul_op         |-> Ops({"*", "/", "%", "<<", ">>", "&"}),
  unary          |-> {<<"unary_op", "unary">>, <<"postfix">>},
  unary_op       |-> Ops({"-", "+", "~", "!"}),
  postfix        |-> {<<"identifier", "[", "expression", "]">>, <<"primary">>},
  primary        |-> {<<"literal">>, <<"identifier">>,
                      <<"type", "(", "expression", ")">>,
                      <<"(", "expression", ")">>}]

\* The terminals a token stands for.
Terminals(t) ==
  IF t = "identifier" THEN {"identifier", "loop variable"}
  ELSE IF t = "stranger" THEN {"identifier"}
  ELSE {t}

\* What may follow token t where `form` was to be read.
RECURSIVE After(_, _)
After(form, t) ==
  IF form = <<>> THEN {}
  ELSE IF Head(form) \in DOMAIN Rules
  THEN UNION {After(rhs \o Tail(form), t) : rhs \in Rules[Head(form)]}
  ELSE IF Head(form) \in Terminals(t) THEN {Tail(form)} ELSE {}

AfterAny(forms, t) == UNION {After(form, t) : form \in forms}

RECURSIVE AfterAll(_, _)
AfterAll(forms, tokens) ==
  IF tokens = <<>> THEN forms
  ELSE AfterAll(AfterAny(forms, Head(tokens)), Tail(tokens))

Start == {<<"program", "eof">>}
=============================================================================
