------------------------------- MODULE HWGen -------------------------------
(***************************************************************************)
(* hwgen/hwgen.cpp: the pass over the emitted operations that builds one   *)
(* combinational module.  There is no branch in hardware, so both regions  *)
(* of an scf.if are hoisted into the module and a multiplexer per result   *)
(* picks; an scf.for is refused.                                           *)
(*                                                                         *)
(* One action lowers one operation.  The circuit is a list of nodes; a     *)
(* node is named by its place, the ports come first.                       *)
(***************************************************************************)
EXTENDS MLIRGen, Datapath, CombGen, FiniteSets

Orders == INSTANCE SequencesExt

\* A program's text is finite.
ASSUME SymbolsAssumption == IsFiniteSet(Symbols)

VARIABLES
  next,      \* the operation lowered next
  lowered,   \* map_: SSA value -> the node that replaces it
  net,       \* the nodes of the hw.module
  arms,      \* the lowerIf activations: [op, cond, thenVals]
  returned,  \* <<>>, or the node hw.output carries
  status     \* "waiting", "lowering", "done", "refused", "internal error"

hwVars == <<next, lowered, net, arms, returned, status>>

Node(op, ins, attr) == [op |-> op, ins |-> ins, attr |-> attr]

HWInit ==
  /\ next = 1
  /\ lowered = NoValues
  /\ net = <<>>
  /\ arms = <<>>
  /\ returned = <<>>
  /\ status = "waiting"

\* run(): the function's arguments become the module's input ports.
Ports == Orders!SetToSeq(Params)
Argument(s) == SSA(0, <<>>, TypeOf[s].width, <<s>>)

RunHW ==
  /\ outcome = "done"
  /\ status = "waiting"
  /\ net' = [i \in DOMAIN Ports |-> Node("port", NoValues, Ports[i])]
  /\ lowered' = [v \in {Argument(s) : s \in Params} |->
                   CHOOSE i \in DOMAIN Ports : Ports[i] = v.of[1]]
  /\ status' = "lowering"
  /\ UNCHANGED <<next, arms, returned>>

Lowering(ops) == status = "lowering" /\ ir[next].op \in ops

\* mapped(): a lookup that misses ends the pass.
IsMapped(vs) == vs \subseteq DOMAIN lowered
Refuse(why) ==
  /\ status' = why
  /\ UNCHANGED <<next, lowered, net, arms, returned>>

Lowered(map) == [s \in DOMAIN map |-> lowered[map[s]]]

\* lowerOp(): one comb operation in the place of each arith operation.
LowerOp ==
  /\ Lowering({"compute", "coerce"})
  /\ LET o == ir[next]
     IN  IF IsMapped(Uses(o))
         THEN /\ net' = Append(net, Node(o.op, Lowered(IF o.op = "coerce" THEN o.operands
                                                                         ELSE o.args), o.attr))
              /\ lowered' = Bind(lowered,
                              SSA(next, o.path, IF o.op = "coerce" THEN o.attr.width
                                                                   ELSE o.attr.type.width, <<>>),
                              Len(net) + 1)
              /\ next' = next + 1
              /\ UNCHANGED <<arms, returned, status>>
         ELSE Refuse("internal error")

\* lowerIf(): the condition is looked up before either region.
LowerIf ==
  /\ Lowering({"if"})
  /\ LET cond == ir[next].operands[1]
     IN  IF IsMapped({cond})
         THEN /\ arms' = Append(arms, [op |-> next, cond |-> lowered[cond], thenVals |-> <<>>])
              /\ next' = next + 1
              /\ UNCHANGED <<lowered, net, returned, status>>
         ELSE Refuse("internal error")

Arm  == arms[Len(arms)]
Wanted == ir[next].args

ThenYield ==
  /\ Lowering({"yield"})
  /\ Arm.thenVals = <<>>
  /\ IF IsMapped(Uses(ir[next]))
     THEN /\ arms' = [arms EXCEPT ![Len(arms)].thenVals = <<Lowered(Wanted)>>]
          /\ next' = next + 1
          /\ UNCHANGED <<lowered, net, returned, status>>
     ELSE Refuse("internal error")

\* One mux per result, the value for a true condition first.
\* Mutant: the two values are exchanged.
MuxSwapped(c, t, f) == Node("mux", [cond |-> c, true |-> f, false |-> t], "")
Mux(c, t, f) == Node("mux", [cond |-> c, true |-> t, false |-> f], "")

\* Mutant: the results are not entered in the map.
NoResults(results) == lowered
WithResults(results) ==
  Rebind(lowered,
    [v \in {SSA(next, ir[Arm.op].path, Wanted[s].width, <<s>>) : s \in DOMAIN Wanted} |->
       Len(net) + CHOOSE i \in DOMAIN results : results[i] = v.of[1]])

\* Mutant: the activation is not left.
NotLeft == arms
Callers == SubSeq(arms, 1, Len(arms) - 1)

ElseYield ==
  /\ Lowering({"yield"})
  /\ Arm.thenVals # <<>>
  /\ LET results == Orders!SetToSeq(DOMAIN Wanted)
     IN  IF IsMapped(Uses(ir[next]))
         THEN /\ net' = net \o [i \in DOMAIN results |->
                                  Mux(Arm.cond, Arm.thenVals[1][results[i]],
                                      lowered[Wanted[results[i]]])]
              /\ lowered' = WithResults(results)
              /\ arms' = Callers
              /\ next' = next + 1
              /\ UNCHANGED <<returned, status>>
         ELSE Refuse("internal error")

RefuseFor ==
  /\ Lowering({"for"})
  /\ Refuse("refused")

LowerReturn ==
  /\ Lowering({"return"})
  /\ LET v == ir[next].operands[1]
     IN  IF IsMapped({v})
         THEN /\ returned' = <<lowered[v]>>
              /\ status' = "done"
              /\ UNCHANGED <<next, lowered, net, arms>>
         ELSE Refuse("internal error")

HWStep ==
  \/ RunHW
  \/ LowerOp
  \/ LowerIf
  \/ ThenYield
  \/ ElseYield
  \/ RefuseFor
  \/ LowerReturn

-----------------------------------------------------------------------------
(***************************************************************************)
(* What the circuit computes.                                              *)
(***************************************************************************)
\* The wire on each node, once the ports carry `args`.
Settled(args) ==
  LET wire[n \in 0 .. Len(net)] ==
        IF n = 0 THEN Undefined
        ELSE LET node == net[n]
                 in   == [s \in DOMAIN node.ins |-> wire[node.ins[s]]]
             IN  CASE node.op = "port"    -> Wire(args[node.attr].raw, TypeOf[node.attr].width)
                   [] node.op = "compute" -> ExprWire(node.attr, in)
                   [] node.op = "coerce"  -> Adjust(in[1], node.attr.isSigned, node.attr.width)
                   [] node.op = "mux"     -> SelectI(in.cond, in.true, in.false)
  IN  wire

-----------------------------------------------------------------------------
\* The circuit has no loop: a node's inputs were built before it.
HWTypeOK ==
  /\ next \in 1 .. Len(ir) + 1
  /\ \A v \in DOMAIN lowered : v \in SSAValues /\ lowered[v] \in DOMAIN net
  /\ \A n \in DOMAIN net : \A s \in DOMAIN net[n].ins : net[n].ins[s] \in 1 .. n - 1
  /\ \A k \in DOMAIN arms : ir[arms[k].op].op = "if" /\ Len(arms[k].thenVals) <= 1
  /\ status = "done" => returned # <<>> /\ arms = <<>>

\* "internal: a value reached hwgen with no lowered equivalent"
\* (hwgen.cpp:78-82) is never reported: what MLIRGen emitted in one order is
\* found in the map in that order, hoisted arms and merged results included.
NoLookupMisses == status # "internal error"
=============================================================================
