----------------------------- MODULE MCAppGlue -----------------------------
(***************************************************************************)
(* AppGlue on a small instance.                                            *)
(***************************************************************************)
EXTENDS AppGlue, TLC

CONSTANTS w1, w2, q1
=============================================================================
