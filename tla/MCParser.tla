------------------------------ MODULE MCParser ------------------------------
(* The parser on small inputs: a representative of every class of tokens.   *)
EXTENDS Parsing

MCTokens ==
  {"identifier", "stranger", "literal", "type", "pragma", "bad_pragma",
   "const", "else", "for", "if", "in", "read", "return", "stream", "write",
   "+", "*", "||", "<", "!", "=", "?", ":",
   "(", ")", "{", "}", "[", "]", ",", ";"}

MCRecoveryTokens == {"identifier", "const", "}", ";"}

Header == <<"type", "identifier", "(">>
Body == Header \o <<")", "{">>
For0 == <<"for", "(", "type", "identifier", "=", "literal", ";">>
Local == <<"type", "identifier", "[", "literal", "]", "=">>

\* An input begins with nothing, or in the middle of what takes long to reach.
MCOpenings ==
  {<<>>, Header, Body, Body \o <<"return">>, Body \o For0, Body \o Local,
   Body \o <<"if", "(", "identifier", ")", "{", "}">>,
   Body \o <<"return", "literal", "?", "literal", ":">>,
   Body \o <<"return", "literal", ";", "}">>}
=============================================================================
