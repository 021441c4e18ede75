------------------------------ MODULE MCAccounts ------------------------------
(* Values for checking Accounts with TLC.                                  *)
EXTENDS Accounts, TLC

CONSTANTS p1, p2, p3, personal, work, ann, bob

Cmd(c, o, r, q) == [cmd |-> c, over |-> o, ref |-> r, quick |-> q]
Tok(a, l, s) == [account |-> a, alive |-> l, scopes |-> s]

All == {"gmail", "profile", "other"}
Whole == Tok(ann, TRUE, All)
Partial == Tok(ann, TRUE, {"gmail", "other"})
Other == Tok(bob, TRUE, All)
Dead == Tok(bob, FALSE, All)

\* Each process keeps to a profile of its own; a third switches the active one
\* or lists them all.
MCOverrides ==
  [runs |-> p1 :> {Cmd("init", work, None, FALSE)}
         @@ p2 :> {Cmd("init", personal, None, TRUE), Cmd("api", personal, None, FALSE)}
         @@ p3 :> {Cmd("use", None, work, FALSE)},
   requested |-> All, granted |-> {Other}, stored |-> {Partial}, left |-> {None}]

\* Probing every profile while one of them logs in anew.
MCProbes ==
  [runs |-> p1 :> {Cmd("init", work, None, FALSE)}
         @@ p2 :> {}
         @@ p3 :> {Cmd("list", None, None, FALSE)},
   requested |-> All, granted |-> {Other}, stored |-> {Partial, Dead}, left |-> {None}]

\* Every command, one at a time, with and without an override, for a CLI that
\* requests the profile scope and for one that does not.
MCSerial(requested, granted, stored, left) ==
  [runs |-> p1 :> { c \in Command :
                      /\ c.over # personal
                      /\ c.ref # None => c.cmd \in {"use", "setcred"}
                      /\ c.cmd = "use" => c.ref # None /\ c.over = None
                      /\ c.quick => c.cmd = "init" }
         @@ p2 :> {} @@ p3 :> {},
   requested |-> requested, granted |-> granted, stored |-> stored, left |-> left]

Gmail == Tok(ann, TRUE, {"gmail"})
Useless == Tok(ann, TRUE, {})

MCSetups ==
  {MCOverrides, MCProbes,
   MCSerial(All, {Whole, Partial}, {None, Partial, Dead}, {None, Partial}),
   MCSerial({"gmail"}, {Gmail, Useless}, {None, Useless, Dead}, {None})}

\* init for the active profile, while another process switches it.
MCSwitch ==
  {[runs |-> p1 :> {Cmd("init", None, None, FALSE)}
          @@ p2 :> {Cmd("use", None, r, FALSE) : r \in Profiles}
          @@ p3 :> {},
    requested |-> All, granted |-> {Whole, Other},
    stored |-> {None, Whole, Partial, Dead}, left |-> {None}]}
===============================================================================
