---------------------------- MODULE Differential ----------------------------
(***************************************************************************)
(* The differential test as a composition: MLIRGen emits a program, HWGen  *)
(* makes a circuit of it or refuses to, the interpreter runs it on some    *)
(* arguments, then the emitted operations run on the same arguments, and   *)
(* the circuit is given them.  The machines run one after the other, as    *)
(* the driver's subcommands do.                                            *)
(***************************************************************************)
EXTENDS HWGen, SSARun

CONSTANT Inputs

VARIABLES
  ipc, phase, inputs, scalars, arrays, streamIn, streamPos, streamOut,
  returnValue, loops, results

interpreterVars ==
  <<ipc, phase, inputs, scalars, arrays, streamIn, streamPos, streamOut, returnValue,
    loops, results>>

\* The interpreter, on the same program; MLIRGen emits scalar code only.
NoSymbols == [s \in {} |-> s]
I == INSTANCE Interpreter WITH
       pc <- ipc, ArrayLength <- NoSymbols, ConstElements <- NoSymbols,
       InStreams <- {}, OutStreams <- {}, MaxRuns <- 1

DInit == Init /\ I!Fresh /\ HWInit /\ RunInit

DEmit == Next /\ UNCHANGED <<interpreterVars, hwVars, runVars>>

DLower == HWStep /\ UNCHANGED <<vars, interpreterVars, runVars>>

DStart ==
  /\ outcome = "done"
  /\ status \notin {"waiting", "lowering"}
  /\ \E args \in Inputs : I!Run(args) /\ Start(args)
  /\ UNCHANGED <<vars, hwVars>>

DInterpret == I!Step /\ UNCHANGED <<vars, hwVars, runVars>>

DExecute ==
  /\ phase = "finished"
  /\ RunStep
  /\ UNCHANGED <<vars, interpreterVars, hwVars>>

DNext == DEmit \/ DLower \/ DStart \/ DInterpret \/ DExecute

DSpec == DInit /\ [][DNext]_<<vars, interpreterVars, hwVars, runVars>>

-----------------------------------------------------------------------------
\* The function's result is the same word: through the scopes, the merges and
\* the loop-carried values of MLIRGen as through the interpreter's memory
\* (LANGUAGE.md:19-21).
SameResult ==
  result # <<>> => result[1] = Wire(results[1][2].value.raw, ReturnType.width)

\* The circuit's output is the interpreter's result, although the circuit
\* computes both arms of every branch and the interpreter one
\* (hwgen.cpp:35-42, LANGUAGE.md:19-21).
SameHardware ==
  result # <<>> /\ status = "done" =>
    Settled(results[1][1])[returned[1]] = Wire(results[1][2].value.raw, ReturnType.width)
=============================================================================
