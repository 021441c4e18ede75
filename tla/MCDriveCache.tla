----------------------------- MODULE MCDriveCache -----------------------------
(* Values for checking DriveCache with TLC.                                *)
EXTENDS DriveCache

CONSTANTS p1, p2
===============================================================================
