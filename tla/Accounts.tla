------------------------------- MODULE Accounts -------------------------------
(***************************************************************************)
(* Several accounts, one keyring, one config.yml: the commands that store, *)
(* replace, refresh, verify and delete the token of a profile, run by      *)
(* several processes at once.                                              *)
(*                                                                         *)
(*   init            initcmd/init.go: runWith and what it calls            *)
(*   use             profilescmd/profiles.go: runUse                       *)
(*   list            profilescmd/profiles.go: runList with --check         *)
(*   set-credential  setcred/setcred.go: run                               *)
(*   config clear    configcmd/config.go: runClear                         *)
(*   any API command auth/auth.go: GetHTTPClient and its refresh persister *)
(*                                                                         *)
(* Every store operation of init opens the store anew and resolves the     *)
(* ref anew (--ref / --profile / environment, else config.yml), so each is *)
(* a step of its own, and each may fail on its own.  The token migration   *)
(* that a plain Open runs is one step here; LegacyMigration has its inside. *)
(***************************************************************************)
EXTENDS Naturals, FiniteSets

CONSTANTS
  Procs,      \* processes
  Profiles,   \* profiles of this CLI's keyring service
  Accounts,   \* Google accounts
  None,       \* no token, no ref, no override, no account
  Default,    \* the profile that settings without a ref mean
  Setups      \* who runs what, from which tokens

\* A token authenticates until it expires or is revoked, and lets in where it
\* was granted to; "other" stands for the scopes that init does not try.
Scopes == {"gmail", "profile", "other"}
Tokens == [account : Accounts, alive : BOOLEAN, scopes : SUBSET Scopes]

\* cmd; the per-invocation override; set-credential's own --ref; --no-verify.
Command == [cmd : {"init", "use", "list", "setcred", "clear", "api"},
            over : Profiles \cup {None}, ref : Profiles \cup {None}, quick : BOOLEAN]

ASSUME NoneAssumption == None \notin Tokens \cup Profiles \cup Accounts
ASSUME DefaultAssumption == Default \in Profiles
\* Setup: runs[p], the commands p may run; requested, the scopes this CLI asks
\* for; granted, the tokens a login may yield, with what the user grants of
\* them; stored, the tokens a profile may hold at the start or be given; left,
\* those of an earlier release.
\* `profiles use` takes a ref.
ASSUME SetupsAssumption ==
  /\ Setups \subseteq [runs : [Procs -> SUBSET Command],
                      requested : SUBSET Scopes, granted : SUBSET Tokens,
                      stored : SUBSET (Tokens \cup {None}), left : SUBSET (Tokens \cup {None})]
  /\ \A s \in Setups, p \in Procs : \A c \in s.runs[p] : c.cmd = "use" => c.ref # None
  /\ \A s \in Setups : \A t \in s.granted : t.alive /\ t.scopes \subseteq s.requested

VARIABLES
  setup,     \* one of Setups, for the whole behaviour
  config,    \* config.yml: credential_ref and granted_scopes
  keyring,   \* oauth_token of each profile
  ids,       \* the identity cache
  legacy,    \* the token an earlier release left behind
  pc,
  run,       \* the command each process runs
  local,     \* its local variables
  seen,      \* history: the accounts each profile has held a token of
  chosen,    \* history: the ref of the last completed `profiles use`
  upset      \* history: an init could not read the settings it then saved, or a
             \* switch came between its reading and its saving them

shared  == <<config, keyring, ids, legacy>>
switch  == <<chosen, upset>>
history == <<seen, switch>>
vars == <<setup, shared, pc, run, local, history>>

\* Settings whose recorded scopes lack a requested one are stale.
Configs == [ref : Profiles, scopes : {"stale", "current"}]
IdMaps  == [Profiles -> Accounts \cup {None}]
Locals  == [target : Profiles \cup {None}, token : Tokens \cup {None},
            email : Accounts \cup {None}, fresh : BOOLEAN,
            config : Configs, ids : IdMaps, left : SUBSET Profiles]

\* Settings without a ref.
Empty == [ref |-> Default, scopes |-> "current"]

Idle == [cmd |-> "api", over |-> None, ref |-> None, quick |-> FALSE]
Blank == [target |-> None, token |-> None, email |-> None, fresh |-> FALSE,
          config |-> Empty,
          ids |-> [r \in Profiles |-> None], left |-> {}]

PCs == {"idle", "migrate", "describe", "has", "check", "verify", "record", "put", "people",
        "reauth", "oauth", "load", "save", "done", "fetch", "call", "store", "clear",
        "profiles", "next", "probe"}

TypeOK ==
  /\ config \in Configs
  /\ keyring \in [Profiles -> Tokens \cup {None}]
  /\ ids \in IdMaps
  /\ setup \in Setups
  /\ legacy \in setup.left \cup {None}
  /\ pc \in [Procs -> PCs]
  /\ run \in [Procs -> Command]
  /\ local \in [Procs -> Locals]
  /\ seen \in [Profiles -> SUBSET Accounts]
  /\ chosen \in Profiles \cup {None}
  /\ upset \in BOOLEAN

\* The legacy token and profile r's token disagree.
ConflictAt(r) == legacy # None /\ keyring[r] \notin {None, legacy}

Holds(k, r) == {a \in Accounts : k[r] # None /\ k[r].account = a}

Init ==
  /\ setup \in Setups
  /\ config \in Configs
  /\ keyring \in [Profiles -> setup.stored]
  /\ ids = [r \in Profiles |-> None]
  /\ legacy \in setup.left
  /\ pc = [p \in Procs |-> "idle"]
  /\ run = [p \in Procs |-> Idle]
  /\ local = [p \in Procs |-> Blank]
  /\ seen = [r \in Profiles |-> Holds(keyring, r)]
  /\ chosen = None
  /\ upset = FALSE

-----------------------------------------------------------------------------
(* Helpers.                                                                *)

\* effectiveRef: what an Open of p would work on now.
Ref(p) == IF run[p].over # None THEN run[p].over ELSE config.ref

\* A call with the token of profile r gets through where `scope` lets in.
Works(r, scope) == /\ keyring[r] # None /\ keyring[r].alive
                   /\ scope \in keyring[r].scopes

Goto(p, from, to) == /\ pc[p] = from
                     /\ pc' = [pc EXCEPT ![p] = to]

\* The command ends, successfully or not.
End(p, from) == /\ pc[p] = from
                /\ pc' = [pc EXCEPT ![p] = "idle"]
                /\ run' = [run EXCEPT ![p] = Idle]
                /\ local' = [local EXCEPT ![p] = Blank]

\* oauth_token of profile r becomes t.
Put(r, t) == /\ keyring' = [keyring EXCEPT ![r] = t]
             /\ seen' = [seen EXCEPT ![r] = @ \cup Holds(keyring', r)]

-----------------------------------------------------------------------------
(* Starting a command.                                                     *)

\* Slip: an override no longer suppresses the migration.
FirstAlwaysMigrates(c) ==
  CASE c.cmd = "init"    -> "migrate"
    [] c.cmd = "api"     -> "migrate"
    [] c.cmd = "setcred" -> "migrate"
    [] c.cmd = "clear"   -> "clear"
    [] c.cmd = "use"     -> "load"
    [] c.cmd = "list"    -> "profiles"

\* Where command c begins: a plain Open or EnsureMigrated migrates, one under
\* an override does not.
First(c) ==
  CASE c.cmd = "init"    -> IF c.over = None THEN "migrate" ELSE "describe"
    [] c.cmd = "api"     -> IF c.over = None THEN "migrate" ELSE "fetch"
    [] c.cmd = "setcred" -> IF c.over = None /\ c.ref = None THEN "migrate" ELSE "store"
    [] c.cmd = "clear"   -> "clear"
    [] c.cmd = "use"     -> "load"
    [] c.cmd = "list"    -> "profiles"

Start(p, c) ==
  /\ c \in setup.runs[p]
  /\ Goto(p, "idle", First(c))
  /\ run' = [run EXCEPT ![p] = c]
  /\ UNCHANGED <<shared, local, history>>

AfterMigrate(c) == CASE c.cmd = "init" -> "describe"
                     [] c.cmd = "api" -> "fetch"
                     [] c.cmd = "setcred" -> "store"

\* The one-time migration, into the ref configured now.
Migrate(p) ==
  /\ ~ConflictAt(Ref(p))
  /\ Goto(p, "migrate", AfterMigrate(run[p]))
  /\ IF legacy = None THEN UNCHANGED <<keyring, seen>> ELSE Put(Ref(p), legacy)
  /\ legacy' = None
  /\ UNCHANGED <<config, ids, run, local, switch>>

MigrateConflict(p) ==
  /\ ConflictAt(Ref(p))
  /\ End(p, "migrate")
  /\ UNCHANGED <<shared, history>>

\* The settings cannot be read, or the keyring does not answer.
OpenFails(p) ==
  /\ \/ \E from \in {"migrate", "store", "clear", "fetch", "profiles", "next"} : End(p, from)
     \/ run[p].cmd = "use" /\ End(p, "load")
  /\ UNCHANGED <<shared, history>>

-----------------------------------------------------------------------------
(* init.                                                                   *)

\* "Setting up profile: <target>"
Describe(p) ==
  /\ Goto(p, "describe", "has")
  /\ local' = [local EXCEPT ![p].target = Ref(p)]
  /\ UNCHANGED <<shared, run, history>>

\* Without the keyring what is announced, if anything, is not from the store.
DescribeFails(p) ==
  /\ Goto(p, "describe", "has")
  /\ UNCHANGED <<shared, run, local, history>>

HasToken(p) ==
  /\ Goto(p, "has", IF keyring[Ref(p)] = None THEN "oauth" ELSE "check")
  /\ UNCHANGED <<shared, run, local, history>>

\* "Fail closed": there may be one.
HasTokenFails(p) ==
  /\ Goto(p, "has", "check")
  /\ UNCHANGED <<shared, run, local, history>>

\* --no-verify accepts the token.
Accept(p, from) == Goto(p, from, IF run[p].quick THEN "done" ELSE "verify")

\* tryExistingToken: the recorded scopes first, then --no-verify.
CheckScopes(p) ==
  /\ IF config.scopes = "stale" THEN Goto(p, "check", "reauth") ELSE Accept(p, "check")
  /\ UNCHANGED <<shared, run, local, history>>

\* Settings that cannot be read are not stale.
CheckScopesFails(p) ==
  /\ Accept(p, "check")
  /\ UNCHANGED <<shared, run, local, history>>

\* GmailVerify, before or after a fresh login.
Verify(p) ==
  /\ Works(Ref(p), "gmail")
  /\ Goto(p, "verify", "record")
  /\ local' = [local EXCEPT ![p].email = keyring[Ref(p)].account]
  /\ UNCHANGED <<shared, run, history>>

\* An expired or revoked token offers a new login, unless it is the new one.
VerifyDead(p) ==
  /\ keyring[Ref(p)] # None /\ ~keyring[Ref(p)].alive /\ ~local[p].fresh
  /\ Goto(p, "verify", "reauth")
  /\ UNCHANGED <<shared, run, local, history>>

\* No token, one that is not for Gmail, a new one that does not work, or no
\* network.
VerifyFails(p) ==
  /\ End(p, "verify")
  /\ UNCHANGED <<shared, history>>

\* Slip: the identity is cached under the configured ref.
RecordConfigured(p) ==
  /\ Goto(p, "record", "put")
  /\ local' = [local EXCEPT ![p].ids = [ids EXCEPT ![config.ref] = local[p].email]]
  /\ UNCHANGED <<shared, run, history>>

\* recordIdentity resolves the ref anew, --check names the profile it probed;
\* the identity cache is loaded ...
Record(p) ==
  /\ Goto(p, "record", "put")
  /\ LET r == IF run[p].cmd = "list" THEN local[p].target ELSE Ref(p)
     IN local' = [local EXCEPT ![p].ids = [ids EXCEPT ![r] = local[p].email]]
  /\ UNCHANGED <<shared, run, history>>

\* ... and write it back.
PutIdentity(p) ==
  /\ Goto(p, "put", IF run[p].cmd = "list" THEN "next" ELSE "people")
  /\ ids' = local[p].ids
  /\ UNCHANGED <<config, keyring, legacy, run, local, history>>

\* Slip: only Gmail is verified.
PeopleSkipped(p) ==
  /\ Goto(p, "people", "done")
  /\ UNCHANGED <<shared, run, local, history>>

\* PeopleGetMe, where the CLI requests the profile scope.
People(p) ==
  /\ "profile" \in setup.requested => Works(Ref(p), "profile")
  /\ Goto(p, "people", "done")
  /\ UNCHANGED <<shared, run, local, history>>

\* Without that scope a new login is offered, but not for the new token.
PeopleStale(p) ==
  /\ "profile" \in setup.requested
  /\ keyring[Ref(p)] # None /\ ~Works(Ref(p), "profile") /\ keyring[Ref(p)].alive
  /\ ~local[p].fresh
  /\ Goto(p, "people", "reauth")
  /\ UNCHANGED <<shared, run, local, history>>

PeopleFails(p) ==
  /\ "profile" \in setup.requested
  /\ End(p, "people")
  /\ UNCHANGED <<shared, history>>

\* promptAndDeleteForReauth, confirmed for the announced target.
Reauth(p) ==
  /\ Goto(p, "reauth", "oauth")
  /\ keyring' = [keyring EXCEPT ![Ref(p)] = None]
  /\ UNCHANGED <<config, ids, legacy, run, local, history>>

\* Slip: the new token goes to the configured ref.
OAuthConfigured(p, t) ==
  /\ t \in setup.granted
  /\ Goto(p, "oauth", "load")
  /\ Put(config.ref, t)
  /\ local' = [local EXCEPT ![p].fresh = TRUE]
  /\ UNCHANGED <<config, ids, legacy, run, switch>>

\* The consent in the browser, for any account and for what the user grants,
\* and storeSetToken.
OAuth(p, t) ==
  /\ t \in setup.granted
  /\ Goto(p, "oauth", "load")
  /\ Put(Ref(p), t)
  /\ local' = [local EXCEPT ![p].fresh = TRUE]
  /\ UNCHANGED <<config, ids, legacy, run, switch>>

\* The user declines, closes the browser or presses Ctrl-C; the keyring refuses.
GiveUp(p) ==
  /\ End(p, "reauth") \/ End(p, "oauth")
  /\ UNCHANGED <<shared, history>>

\* LoadConfig, of init (to save the scopes) and of `profiles use`.
LoadSettings(p) ==
  /\ run[p].cmd = "use" => config.ref # run[p].ref
  /\ Goto(p, "load", "save")
  /\ local' = [local EXCEPT ![p].config = config]
  /\ UNCHANGED <<shared, run, history>>

\* init goes on with empty settings if they cannot be read.
LoadFails(p) ==
  /\ run[p].cmd = "init"
  /\ Goto(p, "load", "save")
  /\ local' = [local EXCEPT ![p].config = Empty]
  /\ upset' = TRUE
  /\ UNCHANGED <<shared, run, seen, chosen>>

\* Slip: the whole run's profile is saved, not only the scopes.
SaveScopesAndRef(p) ==
  /\ run[p].cmd = "init"
  /\ Accept(p, "save")
  /\ config' = [ref |-> Ref(p), scopes |-> "current"]
  /\ UNCHANGED <<keyring, ids, legacy, run, local, history>>

\* init records the scopes it requested, whatever was granted.
SaveScopes(p) ==
  /\ run[p].cmd = "init"
  /\ Accept(p, "save")
  /\ config' = [local[p].config EXCEPT !.scopes = "current"]
  /\ UNCHANGED <<keyring, ids, legacy, run, local, history>>

\* To init that is worth a warning; to `profiles use` it is the end.
SaveFails(p) ==
  /\ \/ run[p].cmd = "init" /\ Accept(p, "save") /\ UNCHANGED <<run, local>>
     \/ run[p].cmd = "use" /\ End(p, "save")
  /\ UNCHANGED <<shared, history>>

Done(p) ==
  /\ End(p, "done")
  /\ UNCHANGED <<shared, history>>

-----------------------------------------------------------------------------
(* The other commands.                                                     *)

\* profiles use <ref>: "already the active profile", or the switch.
AlreadyActive(p) ==
  /\ run[p].cmd = "use" /\ config.ref = run[p].ref
  /\ End(p, "load")
  /\ chosen' = run[p].ref
  /\ UNCHANGED <<shared, seen, upset>>

SaveUse(p) ==
  /\ run[p].cmd = "use"
  /\ End(p, "save")
  /\ config' = [local[p].config EXCEPT !.ref = run[p].ref]
  /\ chosen' = run[p].ref
  /\ upset' = (upset \/ \E q \in Procs : run[q].cmd = "init" /\ pc[q] = "save")
  /\ UNCHANGED <<keyring, ids, legacy, seen>>

\* profiles list --check: every profile with a token, and the active one.
ListProfiles(p) ==
  /\ Goto(p, "profiles", "next")
  /\ local' = [local EXCEPT ![p].left = {r \in Profiles : keyring[r] # None} \cup {Ref(p)}]
  /\ UNCHANGED <<shared, run, history>>

\* The next row, and the client for its ref, when there is a token by now.
NextProfile(p, r) ==
  /\ r \in local[p].left
  /\ Goto(p, "next", IF keyring[r] = None THEN "next" ELSE "probe")
  /\ local' = [local EXCEPT ![p].left = @ \ {r}, ![p].target = r, ![p].token = keyring[r]]
  /\ UNCHANGED <<shared, run, history>>

\* A probe may refresh the token, which persists it to the probed ref.
MayPersist(p) == \/ local[p].token.alive /\ Put(local[p].target, local[p].token)
                 \/ UNCHANGED <<keyring, seen>>

\* VerifyRef answers.
Probe(p) ==
  /\ Goto(p, "probe", "record")
  /\ local[p].token.alive /\ "gmail" \in local[p].token.scopes
  /\ local' = [local EXCEPT ![p].email = local[p].token.account]
  /\ MayPersist(p)
  /\ UNCHANGED <<config, ids, legacy, run, switch>>

\* "expired or revoked", or no answer: the row says so, the listing goes on.
ProbeFails(p) ==
  /\ Goto(p, "probe", "next")
  /\ MayPersist(p)
  /\ UNCHANGED <<config, ids, legacy, run, local, switch>>

Listed(p) ==
  /\ local[p].left = {}
  /\ End(p, "next")
  /\ UNCHANGED <<shared, history>>

\* set-credential: OpenRef(--ref), which takes no override.
StoreCredential(p, t) ==
  /\ t \in setup.stored
  /\ End(p, "store")
  /\ Put(IF run[p].ref # None THEN run[p].ref ELSE config.ref, t)
  /\ UNCHANGED <<config, ids, legacy, switch>>

\* config clear: the ref is resolved and the token deleted on one handle.
Clear(p) ==
  /\ End(p, "clear")
  /\ keyring' = [keyring EXCEPT ![Ref(p)] = None]
  /\ UNCHANGED <<config, ids, legacy, history>>

\* Slip: the token of the effective ref, to be persisted under the configured one.
FetchConfigured(p) ==
  /\ keyring[Ref(p)] # None
  /\ Goto(p, "fetch", "call")
  /\ local' = [local EXCEPT ![p].target = config.ref, ![p].token = keyring[Ref(p)]]
  /\ UNCHANGED <<shared, run, history>>

\* GetHTTPClient captures the ref and the token.
Fetch(p) ==
  /\ keyring[Ref(p)] # None
  /\ Goto(p, "fetch", "call")
  /\ local' = [local EXCEPT ![p].target = Ref(p), ![p].token = keyring[Ref(p)]]
  /\ UNCHANGED <<shared, run, history>>

FetchFails(p) ==
  /\ keyring[Ref(p)] = None
  /\ End(p, "fetch")
  /\ UNCHANGED <<shared, history>>

\* The access token expires; the rotated one is persisted to the captured ref.
Refresh(p) ==
  /\ End(p, "call")
  /\ local[p].token.alive
  /\ Put(local[p].target, local[p].token)
  /\ UNCHANGED <<config, ids, legacy, switch>>

Return(p) ==
  /\ End(p, "call")
  /\ UNCHANGED <<shared, history>>

Step(p) == \/ Migrate(p) \/ MigrateConflict(p) \/ OpenFails(p)
           \/ Describe(p) \/ DescribeFails(p) \/ HasToken(p) \/ HasTokenFails(p)
           \/ CheckScopes(p) \/ CheckScopesFails(p)
           \/ Verify(p) \/ VerifyDead(p) \/ VerifyFails(p)
           \/ Record(p) \/ PutIdentity(p)
           \/ People(p) \/ PeopleStale(p) \/ PeopleFails(p)
           \/ Reauth(p) \/ \E t \in Tokens : OAuth(p, t)
           \/ GiveUp(p) \/ LoadSettings(p) \/ LoadFails(p)
           \/ SaveScopes(p) \/ SaveFails(p) \/ Done(p)
           \/ ListProfiles(p) \/ \E r \in Profiles : NextProfile(p, r)
           \/ Probe(p) \/ ProbeFails(p) \/ Listed(p)
           \/ AlreadyActive(p) \/ SaveUse(p) \/ \E t \in Tokens : StoreCredential(p, t)
           \/ Clear(p) \/ Fetch(p) \/ FetchFails(p) \/ Refresh(p) \/ Return(p)

Next == /\ \E p \in Procs : (\E c \in setup.runs[p] : Start(p, c)) \/ Step(p)
        /\ UNCHANGED setup

Spec == Init /\ [][Next]_vars

-----------------------------------------------------------------------------
(* Properties.                                                             *)

\* "init (re)authenticating whatever the ref points at without saying which
\* profile/account": a process never creates, replaces or deletes a token of a
\* profile other than the one it announced (init, if the keyring was there to
\* be asked), captured (a refresh) or probed (`profiles list --check`), whatever
\* the other processes do to config.yml meanwhile.
ActsOnTarget ==
  [][\A p \in Procs, r \in Profiles :
       /\ pc[p] \in {"reauth", "oauth", "call", "probe"} /\ pc'[p] # pc[p]
       /\ keyring'[r] # keyring[r] /\ local[p].target # None
       => r = local[p].target]_vars

\* An address `profiles list` shows for a profile is one whose token that
\* profile has held, however the identity cache is written by racing runs.
IdentityEarned ==
  /\ TypeOK
  /\ \A r \in Profiles : ids[r] # None => ids[r] \in seen[r]

\* Only one process runs commands.
Alone == \E p \in Procs : \A q \in Procs \ {p} : setup.runs[q] = {}

\* The remediation loop ends: run alone, when init reports success after
\* verification, the token of the profile it works on is alive, good for Gmail,
\* and for the profile if this CLI asks for it, and that is the profile it
\* announced, unless it has saved settings that it could not read.  (Of the
\* other scopes nobody knows whether they were granted.)
InitMeansUsable ==
  Alone => \A p \in Procs : pc[p] = "done" /\ ~run[p].quick =>
    /\ Works(Ref(p), "gmail")
    /\ "profile" \in setup.requested => Works(Ref(p), "profile")
    /\ ~upset /\ local[p].target # None => Ref(p) = local[p].target

\* "running it against an arbitrary ref could write the default's legacy data
\* under the wrong profile": a token left behind by an earlier release is given
\* up only to the profile config.yml names, whatever override the command has.
LegacyHome ==
  [][Alone /\ legacy' # legacy => keyring' = [keyring EXCEPT ![config.ref] = legacy]]_vars

\* "updates the existing oauth_token key ... never a new key": a refresh, of
\* a call or of a probe, finds a token of its own account in the keyring when no
\* other process touches it.
RefreshUpdates ==
  [][Alone => \A p \in Procs :
       pc[p] \in {"call", "probe"} /\ pc'[p] # pc[p] /\ keyring' # keyring =>
         /\ keyring[local[p].target] # None
         /\ keyring[local[p].target].account = local[p].token.account]_vars

\* "Active profile is now <ref>": a completed switch stays, whatever any process
\* runs next, but for an init that read the settings before the switch, or could
\* not read them, and saves what it has.
UseSticks == chosen # None /\ ~upset => config.ref = chosen
===============================================================================
