----------------------------- MODULE MCRelocation -----------------------------
(* Values for checking Relocation with TLC.                                *)
EXTENDS Relocation

CONSTANTS work, home

\* Written by hand or shipped by an org; written by an earlier release; and
\* written by a release with fewer scopes, with the client JSON elsewhere.
MCWritten == { [ref |-> Unset, scopes |-> Unset,     path |-> Unset],
               [ref |-> work,  scopes |-> "current", path |-> "old"],
               [ref |-> home,  scopes |-> "stale",   path |-> "custom"] }

\* Enough for one directory's two forms to agree or not.
MCWrittenPair == { [ref |-> Unset, scopes |-> Unset,     path |-> Unset],
                   [ref |-> work,  scopes |-> "stale",   path |-> "old"] }
===============================================================================
