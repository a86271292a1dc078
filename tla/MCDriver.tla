------------------------------ MODULE MCDriver ------------------------------
(* One and two in- and out-parameters of each kind, out-streams first, last *)
(* and between; a number that is negative and one that fits no type.       *)
EXTENDS Driver

P(kind, w, s) == [kind |-> kind, width |-> w, isSigned |-> s]

MCFunctions ==
  {<<>>,
   <<P("Scalar", 2, TRUE)>>,
   <<P("Scalar", 2, FALSE), P("StreamOut", 2, TRUE), P("StreamIn", 2, TRUE)>>,
   <<P("StreamOut", 2, TRUE), P("Array", 1, FALSE), P("StreamOut", 2, TRUE)>>}

MCNumbers == {-1, 5}

Outs == {<<>>} \cup {<<Make(v, 2, TRUE)>> : v \in {-1, 1}}

MCResults ==
  {[value |-> Make(v, 2, FALSE), streams |-> streams] :
     v \in {1, 3}, streams \in {<<>>} \cup {<<o>> : o \in Outs} \cup {<<o, p>> : o, p \in Outs}}
=============================================================================
