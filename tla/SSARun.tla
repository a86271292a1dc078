------------------------------- MODULE SSARun -------------------------------
(***************************************************************************)
(* Executing what MLIRGen emitted.  The meaning of the func, scf and arith *)
(* operations is MLIR's, not the repository's: an scf.if runs one arm and  *)
(* its results are what that arm yields; an scf.for runs its body          *)
(* tripCount times, each time on what the time before yielded.             *)
(***************************************************************************)
EXTENDS MLIRGen, Datapath

VARIABLES
  ip,        \* the operation executed next
  env,       \* SSA value -> the wire it carries
  counters,  \* of the scf.for operations being executed: [op, k]
  result     \* <<>> until the function has returned, then its one wire

runVars == <<ip, env, counters, result>>

YieldsOf(op) == {q \in DOMAIN ir : ir[q].op = "yield" /\ ir[q].attr = op}
LastYield(op) == CHOOSE q \in YieldsOf(op) : \A p \in YieldsOf(op) : p <= q
FirstYield(op) == CHOOSE q \in YieldsOf(op) : \A p \in YieldsOf(op) : q <= p

Body(op) == Append(ir[op].path, Block(op, "body"))

ComputeWire(o) == ExprWire(o.attr, [s \in DOMAIN o.args |-> env[o.args[s]]])

\* iv = init +/- k * step, at the variable's width, without growth.
IvWire(o) ==
  LET init  == env[o.operands[1]]
      step  == env[o.operands[2]]
      k     == Wire(counters[Len(counters)].k, init.width)
      delta == MulI(k, step)
  IN  IF o.attr THEN AddI(init, delta) ELSE SubI(init, delta)

RunInit ==
  /\ ip = 1
  /\ env = NoValues
  /\ counters = <<>>
  /\ result = <<>>

Start(args) ==
  /\ env' = [v \in {SSA(0, <<>>, TypeOf[s].width, <<s>>) : s \in Params} |->
               Wire(args[v.of[1]].raw, v.width)]
  /\ UNCHANGED <<ip, counters, result>>

Running(ops) ==
  /\ result = <<>>
  /\ ir[ip].op \in ops

Advance == ip' = ip + 1

RunCompute ==
  /\ Running({"compute", "coerce", "iv"})
  /\ LET o == ir[ip]
         w == CASE o.op = "compute" -> ComputeWire(o)
                [] o.op = "coerce" -> CoerceWire(env[o.operands[1]], o.attr.isSigned, o.attr.width)
                [] o.op = "iv" -> IvWire(o)
     IN  env' = Bind(env, SSA(ip, o.path, w.width, <<>>), w)
  /\ Advance
  /\ UNCHANGED <<counters, result>>

RunIf ==
  /\ Running({"if"})
  /\ ip' = IF env[ir[ip].operands[1]].raw = 1 THEN ip + 1 ELSE FirstYield(ip) + 1
  /\ UNCHANGED <<env, counters, result>>

\* The values op's results, or its body's arguments, get from a list of values.
Bound(at, where, from) ==
  Rebind(env, [v \in {SSA(at, where, from[s].width, <<s>>) : s \in DOMAIN from} |->
                 env[from[v.of[1]]]])

RunFor ==
  /\ Running({"for"})
  /\ env' = Bound(ip, Body(ip), ir[ip].args)
  /\ counters' = Append(counters, [op |-> ip, k |-> 0])
  /\ Advance
  /\ UNCHANGED result

RunYield ==
  /\ Running({"yield"})
  /\ LET o    == ir[ip]
         op   == o.attr
         done == counters[Len(counters)].k + 1 = ir[op].attr
     IN  IF ir[op].op = "for" /\ ~done
         THEN /\ env' = Bound(op, Body(op), o.args)
              /\ counters' = [counters EXCEPT ![Len(counters)].k = @ + 1]
              /\ ip' = op + 1
         ELSE /\ env' = Bound(LastYield(op), ir[op].path, o.args)
              /\ counters' = IF ir[op].op = "for" THEN SubSeq(counters, 1, Len(counters) - 1)
                                                  ELSE counters
              /\ ip' = LastYield(op) + 1
  /\ UNCHANGED result

RunReturn ==
  /\ Running({"return"})
  /\ result' = <<env[ir[ip].operands[1]]>>
  /\ UNCHANGED <<ip, env, counters>>

RunStep ==
  \/ RunCompute
  \/ RunIf
  \/ RunFor
  \/ RunYield
  \/ RunReturn
=============================================================================
