------------------------------ MODULE Parsing -------------------------------
(***************************************************************************)
(* The parser beside the grammar: both read the same tokens.                *)
(***************************************************************************)
EXTENDS Parser

CONSTANT AsDocumented   \* see Grammar

VARIABLE forms     \* what the grammar lets follow the tokens delivered so far

Language == INSTANCE Grammar

ParsingInit == Init /\ forms = Language!AfterAll(Language!Start, ahead)

ParsingNext ==
  \/ Parse /\ UNCHANGED forms
  \/ \E t \in Tokens \cup {"eof"} :
       Fetch(t) /\ forms' = Language!AfterAny(forms, t)

ParsingSpec ==
  /\ ParsingInit
  /\ [][ParsingNext]_<<vars, forms>>
  /\ WF_<<vars, forms>>(ParsingNext)

(* What the parser accepts without a report is a program of the grammar     *)
(* (LANGUAGE.md, Grammar, and all of parser.cpp).                           *)
AcceptsOnlyPrograms == Done /\ forms = {} => errors

(* A program of the grammar is never reported: the parser finds an error    *)
(* only once the tokens it has looked at begin no program.                  *)
AcceptsEveryProgram == errors => forms = {}
=============================================================================
