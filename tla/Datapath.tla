------------------------------ MODULE Datapath ------------------------------
(***************************************************************************)
(* The wires of a whole expression, for the executions of what MLIRGen     *)
(* emitted: `carried` gives the wire of each name that has an SSA value; a *)
(* file-scope constant is emitted at its declared width from the bits the  *)
(* constant evaluator folded.                                              *)
(***************************************************************************)
EXTENDS Program, ArithGen

OperandWire(s, carried) ==
  IF s \in DOMAIN carried THEN carried[s]
  ELSE IntConst(ConstValue[s].raw, TypeOf[s].width)

ExprWire(e, carried) ==
  CASE e.op = "lit"  -> IntConst(e.value.raw, e.type.width)
    [] e.op = "name" -> OperandWire(e.args[1], carried)
    [] OTHER ->
         LET lt == TypeOf[e.args[1]]
             rt == TypeOf[e.args[2]]
             l  == OperandWire(e.args[1], carried)
             r  == OperandWire(e.args[2], carried)
         IN  CoerceWire(EmitBinary(e.op, l, lt, r, rt),
                        WidthRule(e.op, lt, rt).isSigned, e.type.width)
=============================================================================
