----------------------------- MODULE MCApiClient -----------------------------
(* Values for checking ApiClient with TLC.                                 *)
EXTENDS ApiClient

CONSTANTS t1, t2, t3
===============================================================================
