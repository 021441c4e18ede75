----------------------------- MODULE MCInvocation -----------------------------
(* Values for checking Invocation with TLC.                                *)
EXTENDS Invocation

CONSTANTS p1, c1, c2, work, default
=============================================================================
