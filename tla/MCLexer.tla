------------------------------ MODULE MCLexer ------------------------------
(* A letter of each class, a digit of each base, operators of one and of   *)
(* two characters, both comments, blanks, a pragma and stray characters.   *)
EXTENDS Lexer

MCAlphabet == {"i", "f", "b", "x", "_", "0", "9", "<", "=", "/", "*", " ", "\n",
               "#pragma", "@"}
=============================================================================
