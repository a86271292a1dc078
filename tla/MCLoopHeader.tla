---------------------------- MODULE MCLoopHeader ----------------------------
(***************************************************************************)
(* Every header over the types of at most MaxWidth bits, whatever numbers  *)
(* of the host its expressions fold to.                                    *)
(***************************************************************************)
EXTENDS LoopHeader

CONSTANT MaxWidth

AllHeaders ==
  [type : [width : 1 .. MaxWidth, isSigned : BOOLEAN],
   start : HostInts, limit : HostInts, step : HostInts,
   relOp : {"<", "<=", ">", ">="}, stepIsAdd : BOOLEAN]
=============================================================================
