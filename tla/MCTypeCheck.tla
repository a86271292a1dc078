---------------------------- MODULE MCTypeCheck ----------------------------
(* Both signednesses, the boolean type and a wider one; literals that fit   *)
(* all of them, some of them and none.                                      *)
EXTENDS TypeCheck

MCTypes == {Type(1, FALSE), Type(2, TRUE), Type(3, FALSE)}
=============================================================================
