---------------------------- MODULE TokenCustody ----------------------------
(***************************************************************************)
(* What the one-time migration of the OAuth token promises, apart from how *)
(* keychain/migrate.go does it.  Every legacy place that held a token at   *)
(* the start is "held" until it is released; a place is released only      *)
(* after the keyring has taken its token in, and only when the legacy      *)
(* places did not disagree about which token is the account's.             *)
(***************************************************************************)
CONSTANTS Sources,   \* the legacy places a token may live in
          Absent     \* no token

VARIABLES origin,    \* the token each place held at the start
          held,      \* the places still holding their original token
          keyring,   \* the token now in the keyring
          vault      \* every token the keyring has ever held

cvars == <<origin, held, keyring, vault>>

\* All legacy places that held something held the same token.
Agree == \A s, t \in Sources :
            origin[s] # Absent /\ origin[t] # Absent => origin[s] = origin[t]

CInit == /\ held = {s \in Sources : origin[s] # Absent}
         /\ vault = {keyring} \ {Absent}

\* A legacy place gives its token up.
Release(s) == /\ s \in held
              /\ Agree
              /\ origin[s] \in vault
              /\ held' = held \ {s}
              /\ UNCHANGED <<origin, keyring, vault>>

\* The keyring takes a token in, whoever writes it.
Deposit(t) == /\ keyring' = t
              /\ vault' = vault \cup {t}
              /\ UNCHANGED <<origin, held>>

\* The keyring's token is removed at the user's request.
Withdraw == /\ keyring' = Absent
            /\ UNCHANGED <<origin, held, vault>>

CNext == \/ \E s \in Sources : Release(s)
         \/ \E t \in vault' : Deposit(t)
         \/ Withdraw

CSpec == CInit /\ [][CNext]_cvars
=============================================================================
