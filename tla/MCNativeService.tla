-------------------------- MODULE MCNativeService --------------------------
(***************************************************************************)
(* NativeService on small instances.                                       *)
(***************************************************************************)
EXTENDS NativeService, TLC

CONSTANTS t1, t2, t3
=============================================================================
