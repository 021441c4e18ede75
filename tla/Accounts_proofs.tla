---------------------------- MODULE Accounts_proofs ----------------------------
(* Theorems of Accounts, for any processes, profiles, accounts and          *)
(* commands.  Two need a ref that nobody moves from under a running init:   *)
(* one process runs commands, or each init has an override (SteadySetups);  *)
(* `accounts_switch` shows what happens without.                            *)
EXTENDS Accounts, TLAPS

\* No process can move the ref from under another one's init.
Steady ==
  Alone \/ \A p \in Procs : \A c \in setup.runs[p] : c.cmd = "init" => c.over # None

SteadySetups ==
  \A s \in Setups :
    \/ \E p \in Procs : \A q \in Procs \ {p} : s.runs[q] = {}
    \/ \A p \in Procs : \A c \in s.runs[p] : c.cmd = "init" => c.over # None

-----------------------------------------------------------------------------
(* The inductive invariant.                                                *)

\* The steps of init between the announcement and the end, but for those that
\* another command has, too.
Announced == {"has", "check", "verify", "people", "reauth", "oauth", "done"}

\* A process is at a step of a command that it may run.
Program ==
  \A p \in Procs :
    /\ pc[p] # "idle" => run[p] \in setup.runs[p]
    /\ pc[p] \in {"describe"} \cup Announced => run[p].cmd = "init"
    /\ pc[p] \in {"idle", "migrate", "describe"} => local[p].target = None
    /\ pc[p] \in {"load", "save"} => run[p].cmd \in {"init", "use"}
    /\ pc[p] \in {"load", "save"} /\ run[p].cmd = "init" => local[p].fresh
    /\ pc[p] \in {"record", "put"} => run[p].cmd \in {"init", "list"}
    /\ pc[p] \in {"profiles", "next", "probe"} => run[p].cmd = "list"
    /\ pc[p] = "migrate" => run[p].cmd \in {"init", "api", "setcred"} /\ run[p].over = None
    /\ pc[p] \in {"call", "probe"} => local[p].target # None /\ local[p].token # None

\* init works on the profile that it announced, until it has saved settings that
\* it could not read.
Fixed ==
  \A p \in Procs :
    /\ pc[p] \in Announced \cup {"record", "put", "load", "save"} /\ run[p].cmd = "init"
    /\ local[p].target # None
    /\ ~ (upset /\ local[p].fresh /\ pc[p] \in {"verify", "record", "put", "people", "done"})
    => Ref(p) = local[p].target

\* Nothing but a switch moves the configured ref: an init about to save has the
\* one that is there, unless an init has not.
Kept ==
  ~upset =>
    /\ chosen # None => config.ref = chosen
    /\ \A p \in Procs : run[p].cmd = "init" /\ pc[p] = "save" => local[p].config.ref = config.ref

\* What a process on its own has seen of the keyring is still so.
SeenAt(p) ==
  /\ pc[p] \in {"call", "probe"} => keyring[local[p].target] = local[p].token
  /\ run[p].cmd = "init" /\ pc[p] \in {"record", "put", "people"} => Works(Ref(p), "gmail")
  /\ pc[p] = "done" /\ ~run[p].quick =>
       /\ Works(Ref(p), "gmail")
       /\ "profile" \in setup.requested => Works(Ref(p), "profile")

Undisturbed == Alone => \A p \in Procs : SeenAt(p)

\* A profile has held the token that it has ...
Remembered == \A r \in Profiles : keyring[r] # None => keyring[r].account \in seen[r]

\* ... the account in the identity cache ...
Cached == \A r \in Profiles : ids[r] # None => ids[r] \in seen[r]

\* ... and what a process is about to put there, ...
Named(p) == IF run[p].cmd = "list" THEN local[p].target ELSE Ref(p)

EarnedAt(p) ==
  /\ pc[p] = "probe" => local[p].token.account \in seen[local[p].target]
  /\ pc[p] = "record" => /\ run[p].cmd = "list" => local[p].target # None
                         /\ local[p].email \in seen[Named(p)]
  /\ pc[p] = "put" => \A r \in Profiles : local[p].ids[r] # None => local[p].ids[r] \in seen[r]

Earned == Remembered /\ Cached /\ \A p \in Procs : EarnedAt(p)

AccountsInv == TypeOK /\ Program /\ Kept /\ (Steady => Fixed /\ Earned) /\ Undisturbed

-----------------------------------------------------------------------------
(* Types.                                                                  *)

\* The fields of a command, of the settings, and of a process's variables.
LEMMA CommandFields ==
  ASSUME NEW c \in Command
  PROVE  /\ c.over \in Profiles \cup {None} /\ c.ref \in Profiles \cup {None}
         /\ c.cmd \in {"init", "use", "list", "setcred", "clear", "api"}
  BY DEF Command

\* The parts of a config, and the changes made to one.
LEMMA ConfigFields ==
  ASSUME NEW c \in Configs
  PROVE  /\ c.ref \in Profiles
         /\ [c EXCEPT !.scopes = "current"] \in Configs
         /\ [c EXCEPT !.scopes = "current"].ref = c.ref
         /\ \A r \in Profiles : [c EXCEPT !.ref = r] \in Configs
         /\ \A r \in Profiles : [c EXCEPT !.ref = r].ref = r
  BY DEF Configs

\* The parts of what a process keeps, and the changes made to it.
LEMMA LocalFields ==
  ASSUME NEW l \in Locals
  PROVE  /\ l.target \in Profiles \cup {None} /\ l.token \in Tokens \cup {None}
         /\ l.left \subseteq Profiles
         /\ l.email \in Accounts \cup {None} /\ l.config \in Configs /\ l.ids \in IdMaps
         /\ \A x \in Profiles : [l EXCEPT !.target = x] \in Locals
         /\ \A x \in Accounts : [l EXCEPT !.email = x] \in Locals
         /\ [l EXCEPT !.fresh = TRUE] \in Locals
         /\ \A x \in Configs : [l EXCEPT !.config = x] \in Locals
         /\ \A x \in IdMaps : [l EXCEPT !.ids = x] \in Locals
         /\ \A x \in SUBSET Profiles : [l EXCEPT !.left = x] \in Locals
         /\ \A x \in Profiles, y \in Tokens \cup {None} :
              /\ [l EXCEPT !.target = x, !.token = y] \in Locals
              /\ \A z \in SUBSET Profiles :
                   [l EXCEPT !.left = z, !.target = x, !.token = y] \in Locals
  BY DEF Locals

\* What a token is.
LEMMA TokenFields == \A t \in Tokens : t.account \in Accounts /\ t # None
  BY NoneAssumption DEF Tokens

\* What an idle process has is of the right types.
LEMMA Blanks == Empty \in Configs /\ Blank \in Locals /\ Idle \in Command
  BY DefaultAssumption DEF Blank, Empty, Locals, Configs, IdMaps, Idle, Command

\* What storing a token changes.
LEMMA PutGives ==
  ASSUME TypeOK, NEW r \in Profiles, NEW t \in Tokens, Put(r, t)
  PROVE  /\ keyring' = [keyring EXCEPT ![r] = t]
         /\ keyring' \in [Profiles -> Tokens \cup {None}]
         /\ seen' \in [Profiles -> SUBSET Accounts]
         /\ \A x \in Profiles : seen[x] \subseteq seen'[x]
         /\ t.account \in seen'[r]
  <1>1. /\ keyring' = [keyring EXCEPT ![r] = t]
        /\ seen' = [seen EXCEPT ![r] = @ \cup Holds(keyring', r)]
        /\ Holds(keyring', r) \subseteq Accounts
    BY DEF Put, TypeOK, Holds
  <1>2. keyring' \in [Profiles -> Tokens \cup {None}] /\ keyring'[r] = t
    BY <1>1 DEF TypeOK
  <1>3. t.account \in Holds(keyring', r)
    BY <1>2, NoneAssumption DEF Holds, Tokens
  <1> QED
    BY <1>1, <1>2, <1>3 DEF TypeOK

\* The profile a process works on, and the token it puts there.
LEMMA RefTypes ==
  ASSUME TypeOK, NEW p \in Procs
  PROVE  Ref(p) \in Profiles
  BY CommandFields, ConfigFields DEF TypeOK, Ref

\* A call and a probe have a profile and its token.
LEMMA CalledWith ==
  ASSUME TypeOK, Program, NEW p \in Procs, pc[p] \in {"call", "probe"}
  PROVE  local[p].target \in Profiles /\ local[p].token \in Tokens
  <1>1. local[p] \in Locals
    BY DEF TypeOK
  <1>2. local[p].target # None /\ local[p].token # None
    BY DEF Program
  <1> QED
    BY <1>1, <1>2, LocalFields

\* Every step keeps the types.
LEMMA TypeStep ==
  ASSUME TypeOK, Program, [Next]_vars
  PROVE  TypeOK'
  <1> USE Blanks, SetupsAssumption DEF TypeOK, Program, PCs
  <1>1. CASE UNCHANGED vars
    BY <1>1 DEF vars, shared, history, switch
  <1>2. ASSUME NEW p \in Procs, NEW c \in setup.runs[p], Start(p, c), setup' = setup
        PROVE  TypeOK'
    <2>1. c \in Command /\ First(c) \in PCs
      BY <1>2, CommandFields DEF First, PCs
    <2> QED
      BY <1>2, <2>1 DEF Start, Goto, shared, history, switch
  <1>3. ASSUME NEW p \in Procs, Migrate(p), setup' = setup
        PROVE  TypeOK'
    <2>1. CASE legacy = None
      BY <1>3, <2>1 DEF Migrate, Goto, AfterMigrate, switch
    <2>2. CASE legacy # None
      <3>1. Ref(p) \in Profiles /\ legacy \in Tokens /\ Put(Ref(p), legacy)
        BY <1>3, <2>2, RefTypes, SetupsAssumption DEF Migrate
      <3> QED
        BY <1>3, <2>2, <3>1, PutGives DEF Migrate, Goto, AfterMigrate, switch
    <2> QED
      BY <2>1, <2>2
  <1>4. ASSUME NEW p \in Procs, Describe(p), setup' = setup
        PROVE  TypeOK'
    <2>1. Ref(p) \in Profiles
      BY <1>4, RefTypes DEF Describe, Goto
    <2>2. local' \in [Procs -> Locals]
      BY <1>4, <2>1, LocalFields DEF Describe
    <2> QED
      BY <1>4, <2>2 DEF Describe, Goto, shared, history, switch
  <1>5. ASSUME NEW p \in Procs, Verify(p), setup' = setup
        PROVE  TypeOK'
    <2>1. keyring[Ref(p)] \in Tokens
      BY <1>5, RefTypes DEF Verify, Works
    <2>2. local' \in [Procs -> Locals]
      BY <1>5, <2>1, LocalFields, TokenFields DEF Verify
    <2> QED
      BY <1>5, <2>2 DEF Verify, Goto, shared, history, switch
  <1>6. ASSUME NEW p \in Procs, Record(p), setup' = setup
        PROVE  TypeOK'
    <2> DEFINE r == IF run[p].cmd = "list" THEN local[p].target ELSE Ref(p)
    <2>1. [ids EXCEPT ![r] = local[p].email] \in IdMaps
      BY <1>6, LocalFields DEF IdMaps
    <2>2. local' \in [Procs -> Locals]
      BY <1>6, <2>1, LocalFields DEF Record
    <2> QED
      BY <1>6, <2>2 DEF Record, Goto, shared, history, switch
  <1>7. ASSUME NEW p \in Procs, PutIdentity(p), setup' = setup
        PROVE  TypeOK'
    <2>1. local[p].ids \in IdMaps
      BY LocalFields
    <2> QED
      BY <1>7, <2>1 DEF PutIdentity, Goto, history, switch
  <1>8. ASSUME NEW p \in Procs, NEW t \in Tokens, OAuth(p, t), setup' = setup
        PROVE  TypeOK'
    <2>1. Ref(p) \in Profiles /\ Put(Ref(p), t)
      BY <1>8, RefTypes DEF OAuth, Goto
    <2>2. local' \in [Procs -> Locals]
      BY <1>8, LocalFields DEF OAuth
    <2> QED
      BY <1>8, <2>1, <2>2, PutGives DEF OAuth, Goto, End, shared, history, switch
  <1>9. ASSUME NEW p \in Procs, LoadSettings(p) \/ LoadFails(p), setup' = setup
        PROVE  TypeOK'
    <2>1. PICK c \in Configs : local' = [local EXCEPT ![p].config = c]
      BY <1>9, Blanks DEF LoadSettings, LoadFails
    <2>2. local' \in [Procs -> Locals]
      BY <2>1, LocalFields
    <2>3. /\ pc' = [pc EXCEPT ![p] = "save"] /\ UNCHANGED <<shared, run, seen, chosen>>
          /\ upset' \in BOOLEAN
      BY <1>9 DEF LoadSettings, LoadFails, Goto, history, switch
    <2> QED
      BY <1>9, <2>2, <2>3 DEF shared
  <1>10. ASSUME NEW p \in Procs, SaveScopes(p), setup' = setup
        PROVE  TypeOK'
    <2>1. config' \in Configs
      BY <1>10, LocalFields, ConfigFields DEF SaveScopes
    <2> QED
      BY <1>10, <2>1 DEF SaveScopes, Accept, Goto, history, switch
  <1>11. ASSUME NEW p \in Procs, ListProfiles(p), setup' = setup
        PROVE  TypeOK'
    <2>1. {r \in Profiles : keyring[r] # None} \cup {Ref(p)} \in SUBSET Profiles
      BY <1>11, RefTypes DEF ListProfiles, Goto
    <2>2. local' \in [Procs -> Locals]
      BY <1>11, <2>1, LocalFields DEF ListProfiles
    <2> QED
      BY <1>11, <2>2 DEF ListProfiles, Goto, shared, history, switch
  <1>12. ASSUME NEW p \in Procs, NEW r \in Profiles, NextProfile(p, r), setup' = setup
        PROVE  TypeOK'
    <2>1. local[p].left \ {r} \in SUBSET Profiles
      BY <1>12, LocalFields DEF NextProfile, Goto
    <2>2. local' \in [Procs -> Locals]
      BY <1>12, <2>1, LocalFields DEF NextProfile
    <2> QED
      BY <1>12, <2>2 DEF NextProfile, Goto, shared, history, switch
  <1>13. ASSUME NEW p \in Procs, Probe(p), setup' = setup
        PROVE  TypeOK'
    <2>1. local[p].target \in Profiles /\ local[p].token \in Tokens
      BY <1>13, CalledWith DEF Probe, Goto
    <2>2. local' \in [Procs -> Locals]
      BY <1>13, <2>1, LocalFields, TokenFields DEF Probe
    <2>3. keyring' \in [Profiles -> Tokens \cup {None}] /\ seen' \in [Profiles -> SUBSET Accounts]
      BY <1>13, <2>1, PutGives DEF Probe, MayPersist
    <2> QED
      BY <1>13, <2>2, <2>3 DEF Probe, Goto, switch
  <1>14. ASSUME NEW p \in Procs, SaveUse(p), setup' = setup
        PROVE  TypeOK'
    <2>1. run[p].ref \in Profiles
      BY <1>14, CommandFields DEF SaveUse, End
    <2>2. config' \in Configs
      BY <1>14, <2>1, LocalFields, ConfigFields DEF SaveUse
    <2> QED
      BY <1>14, <2>1, <2>2 DEF SaveUse, End
  <1>15. ASSUME NEW p \in Procs, NEW t \in Tokens, StoreCredential(p, t), setup' = setup
        PROVE  TypeOK'
    <2> DEFINE r == IF run[p].ref # None THEN run[p].ref ELSE config.ref
    <2>1. /\ r \in Profiles /\ t \in Tokens
          /\ Put(r, t)
      BY <1>15, CommandFields, ConfigFields DEF StoreCredential, End, Goto
    <2> QED
      BY <1>15, <2>1, PutGives DEF StoreCredential, Goto, End, shared, history, switch
  <1>16. ASSUME NEW p \in Procs, Fetch(p), setup' = setup
        PROVE  TypeOK'
    <2>1. Ref(p) \in Profiles
      BY <1>16, RefTypes DEF Fetch, Goto
    <2>2. local' \in [Procs -> Locals]
      BY <1>16, <2>1, LocalFields DEF Fetch
    <2> QED
      BY <1>16, <2>2 DEF Fetch, Goto, shared, history, switch
  <1>17. ASSUME NEW p \in Procs, Refresh(p), setup' = setup
        PROVE  TypeOK'
    <2>1. pc[p] \in {"call", "probe"} /\ Put(local[p].target, local[p].token)
      BY <1>17 DEF Refresh, Goto, End
    <2>2. local[p].target \in Profiles /\ local[p].token \in Tokens
      BY <2>1, CalledWith
    <2> QED
      BY <1>17, <2>1, <2>2, PutGives DEF Refresh, Goto, End, shared, history, switch
  <1>18. ASSUME NEW p \in Procs, setup' = setup, ProbeFails(p)
        PROVE  TypeOK'
    <2>1. local[p].target \in Profiles /\ local[p].token \in Tokens
      BY <1>18, CalledWith DEF ProbeFails, Goto
    <2>2. keyring' \in [Profiles -> Tokens \cup {None}] /\ seen' \in [Profiles -> SUBSET Accounts]
      BY <1>18, <2>1, PutGives DEF ProbeFails, MayPersist
    <2> QED
      BY <1>18, <2>2 DEF ProbeFails, Goto, switch
  <1>19. ASSUME NEW p \in Procs, setup' = setup, AlreadyActive(p)
        PROVE  TypeOK'
    <2>1. run[p].ref \in Profiles
      BY <1>19, CommandFields DEF AlreadyActive, End
    <2> QED
      BY <1>19, <2>1 DEF AlreadyActive, End, shared
  <1>20. ASSUME NEW p \in Procs, setup' = setup,
               MigrateConflict(p) \/ OpenFails(p) \/ DescribeFails(p) \/
                  HasToken(p) \/ HasTokenFails(p) \/ CheckScopes(p) \/ CheckScopesFails(p) \/
                  VerifyDead(p) \/ VerifyFails(p) \/
                  People(p) \/ PeopleStale(p) \/ PeopleFails(p) \/ Reauth(p)
        PROVE  TypeOK'
    BY <1>20 DEF MigrateConflict, OpenFails, DescribeFails, HasToken, HasTokenFails, CheckScopes,
           CheckScopesFails, VerifyDead, VerifyFails,
           People, PeopleStale, PeopleFails, Reauth, Accept, Goto, End, shared, history, switch
  <1>21. ASSUME NEW p \in Procs, setup' = setup,
               GiveUp(p) \/ SaveFails(p) \/ Done(p) \/
                  Listed(p) \/ Clear(p) \/ FetchFails(p) \/ Return(p)
        PROVE  TypeOK'
    BY <1>21 DEF GiveUp, SaveFails, Done, Listed, Clear, FetchFails, Return, Accept, Goto,
           End, shared, history, switch
  <1> QED
    BY <1>1, <1>2, <1>3, <1>4, <1>5, <1>6, <1>7, <1>8, <1>9, <1>10, <1>11, <1>12,
       <1>13, <1>14, <1>15, <1>16, <1>17, <1>18, <1>19, <1>20, <1>21 DEF Next, Step

\* Where a command begins.
LEMMA FirstFits ==
  ASSUME NEW c \in Command
  PROVE  /\ First(c) \in {"migrate", "describe", "fetch", "store", "clear", "load", "profiles"}
         /\ First(c) = "migrate" => c.cmd \in {"init", "api", "setcred"} /\ c.over = None
         /\ First(c) = "describe" => c.cmd = "init"
         /\ First(c) = "load" => c.cmd = "use"
         /\ First(c) = "profiles" => c.cmd = "list"
  BY CommandFields DEF First

\* A process stays within its command.
LEMMA ProgramStep ==
  ASSUME TypeOK, Program, [Next]_vars
  PROVE  Program'
  <1>0. Blank.target = None
    BY DEF Blank
  <1> USE <1>0 DEF TypeOK, Program, Announced
  <1>1. CASE UNCHANGED vars
    BY <1>1 DEF vars, shared, history, switch
  <1>2. ASSUME NEW p \in Procs, NEW c \in setup.runs[p], Start(p, c), setup' = setup
        PROVE  Program'
    BY <1>2, FirstFits, SetupsAssumption DEF Start, Goto, shared, history, switch
  <1>3. ASSUME NEW p \in Procs, Migrate(p), setup' = setup
        PROVE  Program'
    BY <1>3, RefTypes DEF Migrate, Goto, AfterMigrate
  <1>4. ASSUME NEW p \in Procs, NEW t \in Tokens, OAuth(p, t), setup' = setup
        PROVE  Program'
    BY <1>4 DEF OAuth, Goto, End, shared, history, switch
  <1>5. ASSUME NEW p \in Procs, NEW r \in Profiles, NextProfile(p, r), setup' = setup
        PROVE  Program'
    BY <1>5, NoneAssumption DEF NextProfile, Goto, Locals
  <1>6. ASSUME NEW p \in Procs, NEW t \in Tokens, StoreCredential(p, t), setup' = setup
        PROVE  Program'
    BY <1>6 DEF StoreCredential, Goto, End, shared, history, switch
  <1>7. ASSUME NEW p \in Procs, Fetch(p), setup' = setup
        PROVE  Program'
    BY <1>7, RefTypes, NoneAssumption DEF Fetch, Goto, Locals
  <1>8. ASSUME NEW p \in Procs, setup' = setup,
               MigrateConflict(p) \/ OpenFails(p) \/
                  Describe(p) \/ DescribeFails(p) \/ HasToken(p) \/ HasTokenFails(p) \/
                  CheckScopes(p) \/ CheckScopesFails(p)
        PROVE  Program'
    BY <1>8 DEF MigrateConflict, OpenFails, Describe, DescribeFails, HasToken, HasTokenFails,
           CheckScopes, CheckScopesFails, Accept, Goto, End, shared, history, switch
  <1>9. ASSUME NEW p \in Procs, setup' = setup,
               Verify(p) \/ VerifyDead(p) \/ VerifyFails(p) \/ Record(p) \/ PutIdentity(p) \/
                  People(p) \/ PeopleStale(p) \/ PeopleFails(p) \/ Reauth(p)
        PROVE  Program'
    BY <1>9 DEF Verify, VerifyDead, VerifyFails, Record, PutIdentity, People, PeopleStale,
           PeopleFails, Reauth, Goto, End, shared, history, switch
  <1>10. ASSUME NEW p \in Procs, setup' = setup,
               GiveUp(p) \/ SaveScopes(p) \/ SaveFails(p) \/ Done(p) \/ ListProfiles(p)
        PROVE  Program'
    BY <1>10 DEF GiveUp, SaveScopes, SaveFails, Done, ListProfiles,
           Accept, Goto, End, shared, history, switch
  <1>12. ASSUME NEW p \in Procs, setup' = setup, LoadSettings(p) \/ LoadFails(p)
        PROVE  Program'
    <2>1. \E c \in Configs : local' = [local EXCEPT ![p].config = c]
      BY <1>12, Blanks DEF LoadSettings, LoadFails
    <2>2. local'[p].fresh = local[p].fresh
      BY <2>1 DEF Locals
    <2> QED
      BY <1>12, <2>1, <2>2 DEF LoadSettings, LoadFails, Goto
  <1>11. ASSUME NEW p \in Procs, setup' = setup,
               Probe(p) \/
                  ProbeFails(p) \/ Listed(p) \/ AlreadyActive(p) \/ SaveUse(p) \/ Clear(p) \/
                  FetchFails(p) \/ Refresh(p) \/ Return(p)
        PROVE  Program'
    BY <1>11 DEF Probe, ProbeFails, Listed, AlreadyActive, SaveUse, Clear, FetchFails, Refresh,
           Return, Goto, End, shared, history, switch
  <1> QED
    BY <1>1, <1>2, <1>3, <1>4, <1>5, <1>6, <1>7, <1>8, <1>9, <1>10, <1>11, <1>12 DEF Next, Step

-----------------------------------------------------------------------------
(* init keeps to its profile.                                              *)

\* Who runs what does not change.
LEMMA SetupStays == [Next]_vars => setup' = setup /\ (Alone' <=> Alone) /\ (Steady' <=> Steady)
  <1>1. [Next]_vars => setup' = setup
    BY DEF Next, vars
  <1> QED
    BY <1>1 DEF Alone, Steady

\* When one process runs commands, the others are idle.
LEMMA OthersIdle ==
  ASSUME Alone, Program, NEW p \in Procs, setup.runs[p] # {}
  PROVE  \A q \in Procs \ {p} : pc[q] = "idle"
  BY DEF Alone, Program

\* Every switch stays until an init upsets the settings.
LEMMA KeptStep ==
  ASSUME TypeOK, Program, Kept, [Next]_vars
  PROVE  Kept'
  <1>0. /\ pc \in [Procs -> PCs] /\ run \in [Procs -> Command] /\ local \in [Procs -> Locals]
        /\ config \in Configs
    BY DEF TypeOK
  <1> USE <1>0 DEF Kept
  <1>1. CASE UNCHANGED vars
    BY <1>1 DEF vars, shared, history, switch
  <1>2. ASSUME NEW p \in Procs, NEW c \in setup.runs[p], Start(p, c)
        PROVE  Kept'
    <2>1. c \in Command
      BY <1>2, SetupsAssumption DEF TypeOK
    <2>2. First(c) # "save"
      BY <2>1, FirstFits
    <2> QED
      BY <1>2, <2>1, <2>2 DEF Start, Goto, shared, history, switch
  <1>3. ASSUME NEW p \in Procs, Migrate(p)
        PROVE  Kept'
    <2>1. AfterMigrate(run[p]) # "save"
      BY <1>3 DEF Migrate, Goto, Program, AfterMigrate
    <2> QED
      BY <1>3, <2>1 DEF Migrate, Goto, switch
  <1>4. ASSUME NEW p \in Procs, LoadSettings(p)
        PROVE  Kept'
    <2>1. local' = [local EXCEPT ![p].config = config]
      BY <1>4 DEF LoadSettings
    <2>2. local'[p].config = config
      BY <2>1 DEF Locals
    <2> QED
      BY <1>4, <2>1, <2>2 DEF LoadSettings, Goto, shared, history, switch
  <1>5. ASSUME NEW p \in Procs, LoadFails(p)
        PROVE  Kept'
    BY <1>5 DEF LoadFails
  <1>6. ASSUME NEW p \in Procs, SaveScopes(p)
        PROVE  Kept'
    <2>1. local[p].config \in Configs
      BY LocalFields
    <2>2. ~upset => config'.ref = config.ref
      BY <1>6, <2>1, ConfigFields DEF SaveScopes, Accept, Goto
    <2> QED
      BY <1>6, <2>2 DEF SaveScopes, Accept, Goto, history, switch
  <1>7. ASSUME NEW p \in Procs, SaveUse(p)
        PROVE  Kept'
    <2>1. local[p].config \in Configs /\ run[p].ref \in Profiles
      BY <1>7, LocalFields, CommandFields, SetupsAssumption DEF SaveUse, End, TypeOK, Program
    <2>2. config'.ref = run[p].ref /\ chosen' = run[p].ref
      BY <1>7, <2>1, ConfigFields DEF SaveUse
    <2>3. ~upset' => \A q \in Procs : ~ (run[q].cmd = "init" /\ pc[q] = "save")
      BY <1>7 DEF SaveUse
    <2> QED
      BY <1>7, <2>2, <2>3 DEF SaveUse, End
  <1>8. ASSUME NEW p \in Procs, AlreadyActive(p)
        PROVE  Kept'
    BY <1>8 DEF AlreadyActive, End, shared
  <1>9. ASSUME NEW p \in Procs, UNCHANGED <<config, switch>>,
               \A q \in Procs : pc'[q] = "save" =>
                 pc[q] = "save" /\ run'[q] = run[q] /\ local'[q] = local[q]
        PROVE  Kept'
    BY <1>9 DEF switch
  <1>10. ASSUME NEW p \in Procs, Step(p), ~Migrate(p), ~LoadSettings(p), ~LoadFails(p),
                ~SaveScopes(p), ~SaveUse(p), ~AlreadyActive(p)
         PROVE  /\ UNCHANGED <<config, switch>>
                /\ \A q \in Procs : pc'[q] = "save" =>
                     pc[q] = "save" /\ run'[q] = run[q] /\ local'[q] = local[q]
    <2>1. UNCHANGED <<config, switch>>
      BY <1>10 DEF Step, MigrateConflict, OpenFails, Describe, DescribeFails, HasToken, HasTokenFails,
              CheckScopes, CheckScopesFails, Verify, VerifyDead, VerifyFails, Record,
              PutIdentity, People, PeopleStale, PeopleFails, Reauth, OAuth, GiveUp,
              SaveFails, Done, ListProfiles, NextProfile, Probe, ProbeFails, Listed,
              StoreCredential, Clear, Fetch, FetchFails, Refresh, Return, shared, history
    <2>2. /\ pc'[p] # "save"
          /\ \A q \in Procs \ {p} : pc'[q] = pc[q] /\ run'[q] = run[q] /\ local'[q] = local[q]
      BY <1>10 DEF Step, MigrateConflict, OpenFails, Describe, DescribeFails, HasToken, HasTokenFails,
              CheckScopes, CheckScopesFails, Verify, VerifyDead, VerifyFails, Record,
              PutIdentity, People, PeopleStale, PeopleFails, Reauth, OAuth, GiveUp,
              SaveFails, Done, ListProfiles, NextProfile, Probe, ProbeFails, Listed,
              StoreCredential, Clear, Fetch, FetchFails, Refresh, Return, Accept, Goto, End
    <2> QED
      BY <2>1, <2>2
  <1> QED
    BY <1>1, <1>2, <1>3, <1>4, <1>5, <1>6, <1>7, <1>8, <1>9, <1>10 DEF Next

\* While an init stays where it is, so does the ref that it works on.
LEMMA RefStays ==
  ASSUME TypeOK, Program, Steady, [Next]_vars, NEW q \in Procs, pc[q] # "idle",
         run[q].cmd = "init", pc'[q] = pc[q], run'[q] = run[q]
  PROVE  Ref(q)' = Ref(q)
  <1>1. CASE run[q].over # None
    BY <1>1 DEF Ref
  <1>2. CASE run[q].over = None
    <2>1. \A x \in Procs \ {q} : pc[x] = "idle"
      BY <1>2, OthersIdle DEF Steady, Program
    <2>2. config' = config \/ \E x \in Procs : SaveScopes(x) \/ SaveUse(x)
      BY DEF Next, vars, Start, Step, Migrate, LoadSettings, LoadFails, AlreadyActive, MigrateConflict, OpenFails,
              Describe, DescribeFails, HasToken, HasTokenFails, CheckScopes,
              CheckScopesFails, Verify, VerifyDead, VerifyFails, Record, PutIdentity,
              People, PeopleStale, PeopleFails, Reauth, OAuth, GiveUp, SaveFails, Done,
              ListProfiles, NextProfile, Probe, ProbeFails, Listed, StoreCredential, Clear,
              Fetch, FetchFails, Refresh, Return, shared, history
    <2>3. ASSUME NEW x \in Procs, SaveScopes(x) \/ SaveUse(x) PROVE FALSE
      <3>1. pc[x] = "save" /\ pc'[x] # "save"
        BY <2>3 DEF SaveScopes, SaveUse, Accept, Goto, End, TypeOK
      <3> QED
        BY <2>1, <3>1
    <2> QED
      BY <2>2, <2>3 DEF Ref
  <1> QED
    BY <1>1, <1>2

\* Whatever runs beside it.
LEMMA FixedStep ==
  ASSUME TypeOK, Steady, Program, Kept, Fixed, [Next]_vars
  PROVE  Fixed'
  <1>0. /\ pc \in [Procs -> PCs] /\ run \in [Procs -> Command] /\ local \in [Procs -> Locals]
        /\ config \in Configs /\ (Alone' <=> Alone)
    BY SetupStays DEF TypeOK
  <1>00. /\ \A p \in Procs : pc[p] # "idle" /\ Alone => \A q \in Procs \ {p} : pc[q] = "idle"
         /\ \A p \in Procs : pc[p] # "idle" /\ run[p].cmd = "init" => Alone \/ run[p].over # None
         /\ \A p \in Procs : \A c \in setup.runs[p] : Alone => \A q \in Procs \ {p} : pc[q] = "idle"
    BY OthersIdle DEF Steady, Program
  <1> USE <1>0, <1>00 DEF Fixed, Announced, Ref
  <1>1. CASE UNCHANGED vars
    BY <1>1 DEF vars, shared, history, switch
  <1>2. ASSUME NEW p \in Procs, NEW c \in setup.runs[p], Start(p, c), setup' = setup
        PROVE  Fixed'
    <2>1. c \in Command
      BY <1>2, SetupsAssumption DEF TypeOK
    <2> QED
      BY <1>2, <2>1, FirstFits DEF Start, Goto, shared, history, switch
  <1>3. ASSUME NEW p \in Procs, Migrate(p), setup' = setup
        PROVE  Fixed'
    <2>1. AfterMigrate(run[p]) \in {"describe", "fetch", "store"}
      BY <1>3 DEF Migrate, Goto, Program, AfterMigrate
    <2> QED
      BY <1>3, <2>1 DEF Migrate, Goto, switch
  <1>4. ASSUME NEW p \in Procs, NEW t \in Tokens, OAuth(p, t), setup' = setup
        PROVE  Fixed'
    BY <1>4 DEF OAuth, Goto, End, shared, history, switch
  <1>5. ASSUME NEW p \in Procs, NEW r \in Profiles, NextProfile(p, r), setup' = setup
        PROVE  Fixed'
    BY <1>5 DEF NextProfile, Goto, End, shared, history, switch
  <1>6. ASSUME NEW p \in Procs, Probe(p), setup' = setup
        PROVE  Fixed'
    <2>1. run[p].cmd = "list"
      BY <1>6 DEF Probe, Goto, Program
    <2> QED
      BY <1>6, <2>1 DEF Probe, Goto, switch
  <1>7. ASSUME NEW p \in Procs, NEW t \in Tokens, StoreCredential(p, t), setup' = setup
        PROVE  Fixed'
    BY <1>7 DEF StoreCredential, Goto, End, shared, history, switch
  <1>8. ASSUME NEW p \in Procs, setup' = setup,
               MigrateConflict(p)
        PROVE  Fixed'
    BY <1>8 DEF MigrateConflict, Goto, End, shared, history, switch
  <1>9. ASSUME NEW p \in Procs, setup' = setup,
               Describe(p)
        PROVE  Fixed'
    BY <1>9 DEF Describe, Goto, End, shared, history, switch
  <1>10. ASSUME NEW p \in Procs, setup' = setup,
               HasToken(p)
        PROVE  Fixed'
    BY <1>10 DEF HasToken, Goto, End, shared, history, switch
  <1>11. ASSUME NEW p \in Procs, setup' = setup,
               CheckScopes(p)
        PROVE  Fixed'
    BY <1>11 DEF CheckScopes, Accept, Goto, End, shared, history, switch
  <1>12. ASSUME NEW p \in Procs, setup' = setup,
               Verify(p)
        PROVE  Fixed'
    BY <1>12 DEF Verify, Goto, End, shared, history, switch
  <1>13. ASSUME NEW p \in Procs, setup' = setup,
               VerifyDead(p)
        PROVE  Fixed'
    BY <1>13 DEF VerifyDead, Goto, End, shared, history, switch
  <1>14. ASSUME NEW p \in Procs, setup' = setup,
               VerifyFails(p)
        PROVE  Fixed'
    BY <1>14 DEF VerifyFails, Goto, End, shared, history, switch
  <1>15. ASSUME NEW p \in Procs, setup' = setup,
               Record(p)
        PROVE  Fixed'
    BY <1>15 DEF Record, Goto, End, shared, history, switch
  <1>16. ASSUME NEW p \in Procs, setup' = setup,
               PutIdentity(p)
        PROVE  Fixed'
    BY <1>16 DEF PutIdentity, Goto, End, shared, history, switch
  <1>17. ASSUME NEW p \in Procs, setup' = setup,
               People(p)
        PROVE  Fixed'
    BY <1>17 DEF People, Goto, End, shared, history, switch
  <1>18. ASSUME NEW p \in Procs, setup' = setup,
               PeopleStale(p)
        PROVE  Fixed'
    BY <1>18 DEF PeopleStale, Goto, End, shared, history, switch
  <1>19. ASSUME NEW p \in Procs, setup' = setup,
               PeopleFails(p)
        PROVE  Fixed'
    BY <1>19 DEF PeopleFails, Goto, End, shared, history, switch
  <1>20. ASSUME NEW p \in Procs, setup' = setup,
               Reauth(p)
        PROVE  Fixed'
    BY <1>20 DEF Reauth, Goto, End, shared, history, switch
  <1>21. ASSUME NEW p \in Procs, setup' = setup,
               GiveUp(p)
        PROVE  Fixed'
    BY <1>21 DEF GiveUp, Goto, End, shared, history, switch
  <1>22. ASSUME NEW p \in Procs, setup' = setup,
               LoadSettings(p)
        PROVE  Fixed'
    BY <1>22 DEF LoadSettings, Goto, End, shared, history, switch
  <1>23. ASSUME NEW p \in Procs, setup' = setup,
               SaveScopes(p)
        PROVE  Fixed'
    <2>1. local[p].config \in Configs
      BY LocalFields
    <2>2. ~upset => config'.ref = config.ref
      BY <1>23, <2>1, ConfigFields DEF SaveScopes, Accept, Goto, Kept
    <2>3. ~upset \/ local[p].fresh
      BY <1>23 DEF SaveScopes, Accept, Goto, Program
    <2> QED
      BY <1>23, <2>2, <2>3 DEF SaveScopes, Accept, Goto, history, switch
  <1>24. ASSUME NEW p \in Procs, setup' = setup,
               Done(p)
        PROVE  Fixed'
    BY <1>24 DEF Done, Goto, End, shared, history, switch
  <1>25. ASSUME NEW p \in Procs, setup' = setup,
               ListProfiles(p)
        PROVE  Fixed'
    BY <1>25 DEF ListProfiles, Goto, End, shared, history, switch
  <1>26. ASSUME NEW p \in Procs, setup' = setup,
               ProbeFails(p)
        PROVE  Fixed'
    BY <1>26 DEF ProbeFails, Goto, switch
  <1>27. ASSUME NEW p \in Procs, setup' = setup,
               Listed(p)
        PROVE  Fixed'
    BY <1>27 DEF Listed, Goto, End, shared, history, switch
  <1>28. ASSUME NEW p \in Procs, setup' = setup,
               SaveUse(p)
        PROVE  Fixed'
    BY <1>28 DEF SaveUse, Goto, End, shared, history, switch
  <1>29. ASSUME NEW p \in Procs, setup' = setup,
               Clear(p)
        PROVE  Fixed'
    BY <1>29 DEF Clear, Goto, End, shared, history, switch
  <1>30. ASSUME NEW p \in Procs, setup' = setup,
               Fetch(p)
        PROVE  Fixed'
    BY <1>30 DEF Fetch, Goto, End, shared, history, switch
  <1>31. ASSUME NEW p \in Procs, setup' = setup,
               FetchFails(p)
        PROVE  Fixed'
    BY <1>31 DEF FetchFails, Goto, End, shared, history, switch
  <1>32. ASSUME NEW p \in Procs, setup' = setup,
               Refresh(p)
        PROVE  Fixed'
    BY <1>32 DEF Refresh, Goto, End, shared, history, switch
  <1>33. ASSUME NEW p \in Procs, setup' = setup,
               Return(p)
        PROVE  Fixed'
    BY <1>33 DEF Return, Goto, End, shared, history, switch
  <1>34. ASSUME NEW p \in Procs, setup' = setup,
               OpenFails(p)
        PROVE  Fixed'
    BY <1>34 DEF OpenFails, Goto, End, shared, history, switch
  <1>35. ASSUME NEW p \in Procs, setup' = setup,
               DescribeFails(p)
        PROVE  Fixed'
    BY <1>35 DEF DescribeFails, Program, Goto, End, shared, history, switch
  <1>36. ASSUME NEW p \in Procs, setup' = setup,
               HasTokenFails(p)
        PROVE  Fixed'
    BY <1>36 DEF HasTokenFails, Goto, End, shared, history, switch
  <1>37. ASSUME NEW p \in Procs, setup' = setup,
               CheckScopesFails(p)
        PROVE  Fixed'
    BY <1>37 DEF CheckScopesFails, Accept, Goto, End, shared, history, switch
  <1>38. ASSUME NEW p \in Procs, setup' = setup,
               LoadFails(p)
        PROVE  Fixed'
    BY <1>38 DEF LoadFails, Goto, End, shared, history, switch
  <1>39. ASSUME NEW p \in Procs, setup' = setup,
               SaveFails(p)
        PROVE  Fixed'
    BY <1>39 DEF SaveFails, Accept, Goto, End, shared, history, switch
  <1>40. ASSUME NEW p \in Procs, setup' = setup,
               AlreadyActive(p)
        PROVE  Fixed'
    BY <1>40 DEF AlreadyActive, Goto, End, shared, history, switch
  <1> QED
    BY <1>1, <1>2, <1>3, <1>4, <1>5, <1>6, <1>7, <1>8, <1>9, <1>10, <1>11, <1>12, <1>13, <1>14, <1>15, <1>16, <1>17, <1>18, <1>19, <1>20,
       <1>21, <1>22, <1>23, <1>24, <1>25, <1>26, <1>27, <1>28, <1>29, <1>30, <1>31, <1>32, <1>33, <1>34, <1>35, <1>36, <1>37, <1>38, <1>39, <1>40 DEF Next, Step

-----------------------------------------------------------------------------
(* Which accounts a profile has had.                                       *)

\* A step deletes a profile's token, stores one, or leaves the keyring alone.
LEMMA KeyringSteps ==
  ASSUME TypeOK, Program, [Next]_vars
  PROVE  \/ UNCHANGED <<keyring, seen>>
         \/ \E r \in Profiles : keyring' = [keyring EXCEPT ![r] = None] /\ seen' = seen
         \/ \E r \in Profiles, t \in Tokens : Put(r, t)
  <1>0. /\ legacy \in Tokens \cup {None} /\ \A p \in Procs : Ref(p) \in Profiles
        /\ \A p \in Procs : pc[p] \in {"call", "probe"} =>
             local[p].target \in Profiles /\ local[p].token \in Tokens
    BY RefTypes, TokenFields, LocalFields, SetupsAssumption DEF TypeOK, Program
  <1>1. CASE UNCHANGED vars
    BY <1>1 DEF vars, shared, history, switch
  <1>2. ASSUME NEW p \in Procs, NEW c \in setup.runs[p], Start(p, c)
        PROVE  UNCHANGED <<keyring, seen>>
    BY <1>2 DEF Start, shared, history, switch
  <1>3. ASSUME NEW p \in Procs, Reauth(p) \/ Clear(p)
        PROVE  \E r \in Profiles : keyring' = [keyring EXCEPT ![r] = None] /\ seen' = seen
    BY <1>0, <1>3 DEF Reauth, Clear, history
  <1>4. ASSUME NEW p \in Procs, Migrate(p)
        PROVE  UNCHANGED <<keyring, seen>> \/ \E r \in Profiles, t \in Tokens : Put(r, t)
    BY <1>0, <1>4 DEF Migrate
  <1>5. ASSUME NEW p \in Procs, NEW t \in Tokens, OAuth(p, t)
        PROVE  \E r \in Profiles : Put(r, t)
    BY <1>0, <1>5 DEF OAuth
  <1>6. ASSUME NEW p \in Procs, Probe(p) \/ ProbeFails(p) \/ Refresh(p)
        PROVE  UNCHANGED <<keyring, seen>> \/ \E r \in Profiles, t \in Tokens : Put(r, t)
    BY <1>0, <1>6 DEF Probe, ProbeFails, MayPersist, Refresh, Goto, End
  <1>7. ASSUME NEW p \in Procs, NEW t \in Tokens, StoreCredential(p, t)
        PROVE  \E r \in Profiles : Put(r, t)
    <2>1. (IF run[p].ref # None THEN run[p].ref ELSE config.ref) \in Profiles
      BY CommandFields, ConfigFields DEF TypeOK
    <2> QED
      BY <1>7, <2>1 DEF StoreCredential
  <1>8. ASSUME NEW p \in Procs, Step(p),
               ~ (Migrate(p) \/ Reauth(p) \/ Clear(p) \/ Probe(p) \/ ProbeFails(p) \/ Refresh(p)),
               ~ \E t \in Tokens : OAuth(p, t) \/ StoreCredential(p, t)
        PROVE  UNCHANGED <<keyring, seen>>
    BY <1>8 DEF Step, MigrateConflict, OpenFails, Describe, DescribeFails, HasToken, HasTokenFails,
                CheckScopes, CheckScopesFails, Verify, VerifyDead, VerifyFails,
                Record, PutIdentity, People, PeopleStale, PeopleFails, GiveUp,
                LoadSettings, LoadFails, SaveScopes, SaveFails, Done, ListProfiles, NextProfile,
                Listed, AlreadyActive, SaveUse, Fetch, FetchFails, Return, shared, history
  <1> QED
    BY <1>1, <1>2, <1>3, <1>4, <1>5, <1>6, <1>7, <1>8 DEF Next

\* A profile's history only grows, and holds its token.
LEMMA RememberedStep ==
  ASSUME TypeOK, Program, Remembered, [Next]_vars
  PROVE  Remembered' /\ \A r \in Profiles : seen[r] \subseteq seen'[r]
  <1>1. CASE UNCHANGED <<keyring, seen>>
    BY <1>1 DEF Remembered
  <1>2. ASSUME NEW r \in Profiles, keyring' = [keyring EXCEPT ![r] = None] /\ seen' = seen
        PROVE  Remembered'
    BY <1>2 DEF Remembered, TypeOK
  <1>3. ASSUME NEW r \in Profiles, NEW t \in Tokens, Put(r, t)
        PROVE  Remembered' /\ \A x \in Profiles : seen[x] \subseteq seen'[x]
    <2>1. /\ \A x \in Profiles \ {r} : keyring'[x] = keyring[x]
          /\ keyring'[r] = t /\ t.account \in seen'[r]
          /\ \A x \in Profiles : seen[x] \subseteq seen'[x]
      BY <1>3, PutGives DEF TypeOK
    <2> QED
      BY <2>1 DEF Remembered
  <1> QED
    BY <1>1, <1>2, <1>3, KeyringSteps

\* No address is recorded that a profile has not had.
LEMMA EarnedStep ==
  ASSUME TypeOK, Program, Steady, Earned, [Next]_vars
  PROVE  Earned'
  <1>a. /\ pc \in [Procs -> PCs] /\ local \in [Procs -> Locals] /\ ids \in IdMaps
        /\ \A r \in Profiles : \A a \in seen[r] : a \in seen'[r]
    BY RememberedStep DEF TypeOK, Earned
  <1>b. Remembered'
    BY RememberedStep DEF Earned
  <1>c. ASSUME ids' = ids PROVE Cached'
    BY <1>a, <1>c DEF Cached, Earned
  <1>d. \A q \in Procs : pc'[q] \notin {"probe", "record", "put"} => EarnedAt(q)'
    BY DEF EarnedAt
  <1>e. ASSUME NEW q \in Procs, pc'[q] = pc[q], local'[q] = local[q], run'[q] = run[q]
        PROVE  EarnedAt(q)'
    <2>1. /\ EarnedAt(q) /\ (pc[q] = "probe" => local[q].target \in Profiles)
          /\ pc[q] = "record" => run[q].cmd \in {"init", "list"}
      BY LocalFields DEF TypeOK, Program, Earned
    <2>2. pc[q] = "record" => Named(q) \in Profiles /\ Named(q)' = Named(q)
      BY <1>e, <2>1, RefStays, RefTypes, LocalFields DEF TypeOK, Named, EarnedAt
    <2> QED
      BY <1>a, <1>e, <2>1, <2>2 DEF EarnedAt
  <1> USE <1>a, <1>b, <1>c, <1>d, <1>e DEF Earned
  <1>1. CASE UNCHANGED vars
    BY <1>1 DEF vars, shared, history, switch
  <1>2. ASSUME NEW p \in Procs, NEW c \in setup.runs[p], Start(p, c), setup' = setup
        PROVE  Earned'
    <2>1. pc'[p] \notin {"probe", "record", "put"}
      BY <1>2, FirstFits, SetupsAssumption DEF Start, Goto, TypeOK
    <2> QED
      BY <1>2, <2>1 DEF Start, Goto, shared, history, switch
  <1>3. ASSUME NEW p \in Procs, Migrate(p), setup' = setup
        PROVE  Earned'
    <2>1. pc'[p] \notin {"probe", "record", "put"}
      BY <1>3 DEF Migrate, Goto, Program, AfterMigrate
    <2> QED
      BY <1>3, <2>1 DEF Migrate, Goto
  <1>4. ASSUME NEW p \in Procs, Verify(p), setup' = setup
        PROVE  Earned'
    <2>1. keyring[Ref(p)] # None /\ Ref(p) \in Profiles /\ run[p].cmd = "init"
      BY <1>4, RefTypes DEF Verify, Works, Announced, Program, Goto
    <2>2. keyring[Ref(p)].account \in seen'[Ref(p)]
      BY <1>4, <2>1 DEF Remembered, Verify, history
    <2>3. local'[p].email = keyring[Ref(p)].account /\ Named(p)' = Ref(p)
      BY <1>4, <2>1 DEF Verify, Locals, Named, Ref, shared
    <2>4. EarnedAt(p)'
      BY <1>4, <2>1, <2>2, <2>3, NoneAssumption DEF EarnedAt, Verify, Goto
    <2> QED
      BY <1>4, <2>4 DEF Verify, Goto, shared, history, switch
  <1>5. ASSUME NEW p \in Procs, Record(p), setup' = setup
        PROVE  Earned'
    <2>0. run[p].cmd = "list" => local[p].target \in Profiles
      BY <1>5, LocalFields DEF Record, Goto, EarnedAt
    <2>1. Named(p) \in Profiles /\ local[p].email \in seen[Named(p)]
      BY <1>5, <2>0, RefTypes DEF Record, Goto, EarnedAt, Named
    <2>2. local'[p].ids = [ids EXCEPT ![Named(p)] = local[p].email]
      BY <1>5 DEF Record, Locals, Named
    <2>3. EarnedAt(p)'
      BY <1>5, <2>1, <2>2 DEF EarnedAt, Record, Goto, Cached, IdMaps, history
    <2> QED
      BY <1>5, <2>3 DEF Record, Goto, shared, history, switch
  <1>6. ASSUME NEW p \in Procs, PutIdentity(p), setup' = setup
        PROVE  Earned'
    <2>1. Cached'
      BY <1>6 DEF PutIdentity, EarnedAt, Cached, Goto, history
    <2> QED
      BY <1>6, <2>1 DEF PutIdentity, Goto, history
  <1>7. ASSUME NEW p \in Procs, NEW t \in Tokens, OAuth(p, t), setup' = setup
        PROVE  Earned'
    BY <1>7 DEF OAuth, Goto, End, shared, history, switch
  <1>8. ASSUME NEW p \in Procs, NEW r \in Profiles, NextProfile(p, r), setup' = setup
        PROVE  Earned'
    <2>1. local'[p].target = r /\ local'[p].token = keyring[r]
      BY <1>8 DEF NextProfile, Locals
    <2>2. EarnedAt(p)'
      BY <1>8, <2>1 DEF EarnedAt, NextProfile, Goto, Remembered, history
    <2> QED
      BY <1>8, <2>2 DEF NextProfile, Goto, shared, history, switch
  <1>9. ASSUME NEW p \in Procs, Probe(p), setup' = setup
        PROVE  Earned'
    <2>1. local'[p].target = local[p].target /\ local'[p].email = local[p].token.account
      BY <1>9 DEF Probe, Locals
    <2>2. run[p].cmd = "list" /\ local[p].target \in Profiles /\ Named(p)' = local[p].target
      BY <1>9, <2>1, LocalFields DEF Probe, Goto, Program, Named, TypeOK
    <2>3. EarnedAt(p)'
      BY <1>9, <2>1, <2>2, NoneAssumption DEF EarnedAt, Probe, Goto
    <2> QED
      BY <1>9, <2>3 DEF Probe, Goto
  <1>10. ASSUME NEW p \in Procs, NEW t \in Tokens, StoreCredential(p, t), setup' = setup
        PROVE  Earned'
    BY <1>10 DEF StoreCredential, Goto, End, shared, history, switch
  <1>11. ASSUME NEW p \in Procs, ids' = ids, pc'[p] \notin {"probe", "record", "put"},
                \A q \in Procs \ {p} : pc'[q] = pc[q] /\ local'[q] = local[q] /\ run'[q] = run[q]
         PROVE  Earned'
    BY <1>11
  <1>12. ASSUME NEW p \in Procs, Step(p), ~Migrate(p), ~Verify(p), ~Record(p), ~PutIdentity(p),
                ~Probe(p),
                ~ \E r \in Profiles : NextProfile(p, r),
                ~ \E t \in Tokens : OAuth(p, t) \/ StoreCredential(p, t)
         PROVE  /\ ids' = ids /\ pc'[p] \notin {"probe", "record", "put"}
                /\ \A q \in Procs \ {p} : pc'[q] = pc[q] /\ local'[q] = local[q] /\ run'[q] = run[q]
    <2>1. run \in [Procs -> Command]
      BY DEF TypeOK
    <2> QED
      BY <1>12, <2>1 DEF Step, Accept, Goto, End, shared,
              MigrateConflict, OpenFails, Describe, DescribeFails, HasToken, HasTokenFails,
              CheckScopes, CheckScopesFails, VerifyDead, VerifyFails, People, PeopleStale,
              PeopleFails, Reauth, GiveUp, LoadSettings, LoadFails, SaveScopes, SaveFails,
              Done, ListProfiles, ProbeFails, Listed, AlreadyActive, SaveUse, Clear, Fetch,
              FetchFails, Refresh, Return
  <1> QED
    BY <1>1, <1>2, <1>3, <1>4, <1>5, <1>6, <1>7, <1>8, <1>9, <1>10, <1>11, <1>12 DEF Next

-----------------------------------------------------------------------------
(* A process on its own.                                                   *)

\* Nobody else changes what it has seen.
LEMMA UndisturbedStep ==
  ASSUME TypeOK, Program, Undisturbed, [Next]_vars
  PROVE  Undisturbed'
  <1> SUFFICES ASSUME Alone PROVE \A q \in Procs : SeenAt(q)'
    BY SetupStays DEF Undisturbed
  <1>a. /\ pc \in [Procs -> PCs] /\ run \in [Procs -> Command] /\ local \in [Procs -> Locals]
        /\ \A q \in Procs : SeenAt(q)
    BY DEF TypeOK, Undisturbed
  <1>b. /\ \A p \in Procs : pc[p] # "idle" => \A q \in Procs \ {p} : pc[q] = "idle"
        /\ \A p \in Procs : \A c \in setup.runs[p] : \A q \in Procs \ {p} : pc[q] = "idle"
    BY OthersIdle DEF Program
  <1>c. \A q \in Procs :
          pc'[q] \notin {"call", "probe", "record", "put", "people", "done"} => SeenAt(q)'
    BY DEF SeenAt
  <1>d. ASSUME NEW q \in Procs, pc'[q] = pc[q], run'[q] = run[q], local'[q] = local[q],
               setup' = setup, keyring' = keyring, config' = config
        PROVE  SeenAt(q)'
    BY <1>a, <1>d DEF SeenAt, Works, Ref
  <1> USE <1>a, <1>b, <1>c, <1>d
  <1>1. CASE UNCHANGED vars
    BY <1>1 DEF vars, shared, history, switch
  <1>2. ASSUME NEW p \in Procs, NEW c \in setup.runs[p], Start(p, c), setup' = setup
        PROVE  \A q \in Procs : SeenAt(q)'
    <2>1. pc'[p] \notin {"call", "probe", "record", "put", "people", "done"}
      BY <1>2, FirstFits, SetupsAssumption DEF Start, Goto, TypeOK
    <2> QED
      BY <1>2, <2>1 DEF Start, Goto, shared, history, switch
  <1>3. ASSUME NEW p \in Procs, Migrate(p), setup' = setup
        PROVE  \A q \in Procs : SeenAt(q)'
    <2>1. pc'[p] \notin {"call", "probe", "record", "put", "people", "done"}
      BY <1>3 DEF Migrate, Goto, Program, AfterMigrate
    <2> QED
      BY <1>3, <2>1 DEF Migrate, Goto
  <1>4. ASSUME NEW p \in Procs, setup' = setup,
               CheckScopes(p) \/ CheckScopesFails(p) \/ SaveScopes(p) \/ SaveFails(p)
        PROVE  \A q \in Procs : SeenAt(q)'
    <2>1. SeenAt(p)'
      BY <1>4 DEF SeenAt, CheckScopes, CheckScopesFails, SaveScopes, SaveFails, Accept, Goto, End
    <2> QED
      BY <1>4, <2>1 DEF CheckScopes, CheckScopesFails, SaveScopes, SaveFails, Accept, Goto, End
  <1>5. ASSUME NEW p \in Procs, setup' = setup,
               Verify(p) \/ Record(p) \/ PutIdentity(p) \/ People(p)
        PROVE  \A q \in Procs : SeenAt(q)'
    <2>1. /\ Ref(p)' = Ref(p) /\ keyring' = keyring /\ run'[p] = run[p]
          /\ pc[p] \in {"verify", "record", "put", "people"}
      BY <1>5 DEF Verify, Record, PutIdentity, People, Goto, Ref, shared
    <2>2. run[p].cmd = "init" => Works(Ref(p), "gmail")
      BY <1>5 DEF SeenAt, Verify, Record, PutIdentity, People, Goto
    <2>3. pc'[p] = "done" => /\ run[p].cmd = "init"
                             /\ "profile" \in setup.requested => Works(Ref(p), "profile")
      BY <1>5 DEF Program, Announced, Verify, Record, PutIdentity, People, Goto
    <2>4. pc'[p] \notin {"call", "probe"}
      BY <1>5 DEF Verify, Record, PutIdentity, People, Goto
    <2>5. SeenAt(p)'
      BY <1>5, <2>1, <2>2, <2>3, <2>4 DEF SeenAt, Works
    <2> QED
      BY <1>5, <2>5 DEF Verify, Record, PutIdentity, People, Goto
  <1>6. ASSUME NEW p \in Procs, NEW t \in Tokens, OAuth(p, t), setup' = setup
        PROVE  \A q \in Procs : SeenAt(q)'
    BY <1>6 DEF OAuth, Goto
  <1>7. ASSUME NEW p \in Procs, NEW r \in Profiles, NextProfile(p, r), setup' = setup
        PROVE  \A q \in Procs : SeenAt(q)'
    <2>1. local'[p].target = r /\ local'[p].token = keyring[r]
      BY <1>7 DEF NextProfile, Locals
    <2>2. SeenAt(p)'
      BY <1>7, <2>1 DEF SeenAt, NextProfile, Goto, shared
    <2> QED
      BY <1>7, <2>2 DEF NextProfile, Goto
  <1>8. ASSUME NEW p \in Procs, Probe(p), setup' = setup
        PROVE  \A q \in Procs : SeenAt(q)'
    <2>1. pc'[p] = "record" /\ run'[p].cmd = "list"
      BY <1>8 DEF Probe, Goto, Program
    <2> QED
      BY <1>8, <2>1 DEF Probe, Goto, SeenAt
  <1>9. ASSUME NEW p \in Procs, NEW t \in Tokens, StoreCredential(p, t), setup' = setup
        PROVE  \A q \in Procs : SeenAt(q)'
    BY <1>9 DEF StoreCredential, Goto, End
  <1>10. ASSUME NEW p \in Procs, Fetch(p), setup' = setup
        PROVE  \A q \in Procs : SeenAt(q)'
    <2>1. local'[p].target = Ref(p) /\ local'[p].token = keyring[Ref(p)]
      BY <1>10 DEF Fetch, Locals
    <2>2. SeenAt(p)'
      BY <1>10, <2>1 DEF SeenAt, Fetch, Goto, shared
    <2> QED
      BY <1>10, <2>2 DEF Fetch, Goto
  <1>11. ASSUME NEW p \in Procs, setup' = setup,
               MigrateConflict(p) \/ OpenFails(p) \/
                  Describe(p) \/ DescribeFails(p) \/ HasToken(p) \/ HasTokenFails(p) \/
                  VerifyDead(p) \/ VerifyFails(p) \/ PeopleStale(p)
        PROVE  \A q \in Procs : SeenAt(q)'
    BY <1>11 DEF MigrateConflict, OpenFails, Describe, DescribeFails, HasToken, HasTokenFails,
           VerifyDead, VerifyFails, PeopleStale, Goto, End
  <1>12. ASSUME NEW p \in Procs, setup' = setup,
               PeopleFails(p) \/
                  Reauth(p) \/ GiveUp(p) \/ LoadSettings(p) \/ LoadFails(p) \/ Done(p) \/
                  ListProfiles(p) \/ ProbeFails(p) \/ Listed(p)
        PROVE  \A q \in Procs : SeenAt(q)'
    BY <1>12 DEF PeopleFails, Reauth, GiveUp, LoadSettings, LoadFails, Done, ListProfiles,
           ProbeFails, Listed, Goto, End
  <1>13. ASSUME NEW p \in Procs, setup' = setup,
               AlreadyActive(p) \/ SaveUse(p) \/ Clear(p) \/
                  FetchFails(p) \/ Refresh(p) \/ Return(p)
        PROVE  \A q \in Procs : SeenAt(q)'
    BY <1>13 DEF AlreadyActive, SaveUse, Clear, FetchFails, Refresh, Return, Goto, End
  <1> QED
    BY <1>1, <1>2, <1>3, <1>4, <1>5, <1>6, <1>7, <1>8, <1>9, <1>10, <1>11, <1>12,
       <1>13 DEF Next, Step

-----------------------------------------------------------------------------
(* The theorems.                                                           *)

\* The invariant holds at the start ...
LEMMA InvInit == Init => AccountsInv
  <1> SUFFICES ASSUME Init PROVE AccountsInv
    OBVIOUS
  <1>1. /\ setup \in Setups /\ config \in Configs /\ ids = [r \in Profiles |-> None]
        /\ keyring \in [Profiles -> setup.stored] /\ legacy \in setup.left
        /\ pc = [p \in Procs |-> "idle"] /\ run = [p \in Procs |-> Idle]
        /\ local = [p \in Procs |-> Blank]
        /\ seen = [r \in Profiles |-> Holds(keyring, r)] /\ chosen = None /\ upset = FALSE
    BY DEF Init
  <1>2. keyring \in [Profiles -> Tokens \cup {None}] /\ legacy \in setup.left \cup {None}
    BY <1>1, SetupsAssumption
  <1>3. ids \in IdMaps /\ run \in [Procs -> Command] /\ local \in [Procs -> Locals]
    BY <1>1, Blanks DEF IdMaps
  <1>4. seen \in [Profiles -> SUBSET Accounts]
    BY <1>1 DEF Holds
  <1>5. TypeOK
    BY <1>1, <1>2, <1>3, <1>4 DEF TypeOK, PCs
  <1>6. Remembered
    <2> SUFFICES ASSUME NEW r \in Profiles, keyring[r] # None
                 PROVE  keyring[r].account \in Holds(keyring, r)
      BY <1>1 DEF Remembered
    <2> QED
      BY <1>2, TokenFields DEF Holds
  <1>7. Program /\ Kept /\ Fixed /\ Cached /\ Undisturbed /\ \A p \in Procs : EarnedAt(p)
    BY <1>1 DEF Program, Kept, Fixed, Announced, Cached, Undisturbed, SeenAt, EarnedAt, Blank
  <1> QED
    BY <1>5, <1>6, <1>7 DEF AccountsInv, Earned

\* ... is kept by every step ...
LEMMA InvStep == AccountsInv /\ [Next]_vars => AccountsInv'
  <1> SUFFICES ASSUME AccountsInv, [Next]_vars PROVE AccountsInv'
    OBVIOUS
  <1>1. TypeOK /\ Program /\ Kept /\ Undisturbed /\ (Alone => Steady)
        /\ (Steady => Fixed /\ Earned) /\ (Steady' <=> Steady) /\ (Alone' <=> Alone)
    BY SetupStays DEF AccountsInv, Steady
  <1>2. TypeOK' /\ Program' /\ Kept'
    BY <1>1, TypeStep, ProgramStep, KeptStep
  <1>3. Steady => Fixed' /\ Earned'
    BY <1>1, FixedStep, EarnedStep
  <1>4. Undisturbed'
    BY <1>1, UndisturbedStep
  <1> QED
    BY <1>1, <1>2, <1>3, <1>4 DEF AccountsInv

\* ... and so holds in every state.
LEMMA Invariance == Spec => []AccountsInv
  BY InvInit, InvStep, PTL DEF Spec

\* Under SteadySetups no ref is moved from under an init, ever.
LEMMA AlwaysSteady == ASSUME SteadySetups PROVE Spec => []Steady
  <1>1. Init => Steady
    BY DEF SteadySetups, Init, Steady, Alone
  <1>2. Steady /\ [Next]_vars => Steady'
    BY SetupStays
  <1> QED
    BY <1>1, <1>2, PTL DEF Spec

\* Where no init can have its ref moved from under it, an address shown for a
\* profile is one whose token the profile has held.
THEOREM AddressesEarned == ASSUME SteadySetups PROVE Spec => []IdentityEarned
  <1>1. AccountsInv /\ Steady => IdentityEarned
    BY DEF AccountsInv, Earned, Cached, IdentityEarned
  <1> QED
    BY <1>1, Invariance, AlwaysSteady, PTL

\* There, too, no process touches a token of another profile than the one it
\* announced, captured or probed.
THEOREM TargetsKept == ASSUME SteadySetups PROVE Spec => ActsOnTarget
  <1> DEFINE Acts == \A p \in Procs, r \in Profiles :
                       /\ pc[p] \in {"reauth", "oauth", "call", "probe"} /\ pc'[p] # pc[p]
                       /\ keyring'[r] # keyring[r] /\ local[p].target # None
                       => r = local[p].target
  <1>1. AccountsInv /\ Steady /\ [Next]_vars => [Acts]_vars
    <2> SUFFICES ASSUME AccountsInv, Steady, Next,
                        NEW p \in Procs, NEW r \in Profiles,
                        pc[p] \in {"reauth", "oauth", "call", "probe"}, pc'[p] # pc[p],
                        keyring'[r] # keyring[r], local[p].target # None
                 PROVE  r = local[p].target
      OBVIOUS
    <2>1. /\ TypeOK /\ Program /\ Fixed /\ pc \in [Procs -> PCs]
          /\ keyring \in [Profiles -> Tokens \cup {None}]
      BY DEF AccountsInv, TypeOK
    <2>2. pc[p] \in {"reauth", "oauth"} => Ref(p) = local[p].target
      BY <2>1 DEF Program, Fixed, Announced
    <2>3. PICK q \in Procs : (\E c \in setup.runs[q] : Start(q, c)) \/ Step(q)
      BY DEF Next
    <2>4. q = p
      <3> SUFFICES ASSUME q # p PROVE pc'[p] = pc[p]
        OBVIOUS
      <3> QED
        BY <2>1, <2>3 DEF Start, Step, Accept, Goto, End,
              Migrate, MigrateConflict, OpenFails, Describe, DescribeFails, HasToken,
              HasTokenFails, CheckScopes, CheckScopesFails, Verify, VerifyDead, VerifyFails,
              Record, PutIdentity, People, PeopleStale, PeopleFails, Reauth, OAuth, GiveUp,
              LoadSettings, LoadFails, SaveScopes, SaveFails, Done, ListProfiles,
              NextProfile, Probe, ProbeFails, Listed, AlreadyActive, SaveUse,
              StoreCredential, Clear, Fetch, FetchFails, Refresh, Return
    <2>5. \/ Reauth(p) \/ \E t \in Tokens : OAuth(p, t)
          \/ Probe(p) \/ ProbeFails(p) \/ Refresh(p) \/ keyring' = keyring
      BY <2>3, <2>4 DEF Start, Step, Goto, End, shared,
              Migrate, MigrateConflict, OpenFails, Describe, DescribeFails, HasToken,
              HasTokenFails, CheckScopes, CheckScopesFails, Verify, VerifyDead, VerifyFails,
              Record, PutIdentity, People, PeopleStale, PeopleFails, GiveUp, LoadSettings,
              LoadFails, SaveScopes, SaveFails, Done, ListProfiles, NextProfile, Listed,
              AlreadyActive, SaveUse, StoreCredential, Clear, Fetch, FetchFails, Return
    <2>6. CASE Reauth(p)
      BY <2>1, <2>2, <2>6 DEF Reauth, Goto
    <2>7. ASSUME NEW t \in Tokens, OAuth(p, t) PROVE r = local[p].target
      <3>1. pc[p] = "oauth" /\ keyring' = [keyring EXCEPT ![Ref(p)] = t]
        BY <2>7 DEF OAuth, Goto, Put
      <3> QED
        BY <2>1, <2>2, <3>1
    <2>8. CASE Probe(p) \/ ProbeFails(p) \/ Refresh(p)
      <3>1. keyring' = keyring \/ keyring' = [keyring EXCEPT ![local[p].target] = local[p].token]
        BY <2>8 DEF Probe, ProbeFails, MayPersist, Refresh, Put
      <3> QED
        BY <2>1, <3>1
    <2> QED
      BY <2>5, <2>6, <2>7, <2>8
  <1> QED
    BY <1>1, Invariance, AlwaysSteady, PTL DEF Spec, ActsOnTarget

\* On its own, an init that reports success after its verification leaves the
\* profile that it works on with a token that is alive and lets in to all that
\* init tries, and that is the announced profile unless it has saved settings
\* that it could not read.
THEOREM SuccessIsUsable == Spec => []InitMeansUsable
  <1>1. AccountsInv => InitMeansUsable
    <2> SUFFICES ASSUME AccountsInv, Alone, NEW p \in Procs, pc[p] = "done", ~run[p].quick
                 PROVE  /\ Works(Ref(p), "gmail")
                        /\ "profile" \in setup.requested => Works(Ref(p), "profile")
                        /\ ~upset /\ local[p].target # None => Ref(p) = local[p].target
      BY DEF InitMeansUsable
    <2>1. Fixed /\ run[p].cmd = "init" /\ SeenAt(p)
      BY DEF AccountsInv, Steady, Program, Announced, Undisturbed
    <2> QED
      BY <2>1 DEF SeenAt, Fixed, Announced
  <1> QED
    BY <1>1, Invariance, PTL

\* Whatever the processes run, only an init that could not read the settings, or
\* that had read them before the switch, takes back a switch of the profile.
THEOREM SwitchSticks == Spec => []UseSticks
  <1>1. AccountsInv => UseSticks
    BY DEF AccountsInv, Kept, UseSticks
  <1> QED
    BY <1>1, Invariance, PTL

\* A token of an earlier release goes to the profile config.yml names.
THEOREM LegacyGoesHome == Spec => LegacyHome
  <1> DEFINE Home == Alone /\ legacy' # legacy => keyring' = [keyring EXCEPT ![config.ref] = legacy]
  <1>1. AccountsInv /\ [Next]_vars => [Home]_vars
    <2> SUFFICES ASSUME AccountsInv, Next, legacy' # legacy
                 PROVE  keyring' = [keyring EXCEPT ![config.ref] = legacy]
      OBVIOUS
    <2>1. PICK p \in Procs : (\E c \in setup.runs[p] : Start(p, c)) \/ Step(p)
      BY DEF Next
    <2>2. Migrate(p)
      BY <2>1 DEF Start, Step, shared,
              MigrateConflict, OpenFails, Describe, DescribeFails, HasToken, HasTokenFails,
              CheckScopes, CheckScopesFails, Verify, VerifyDead, VerifyFails, Record,
              PutIdentity, People, PeopleStale, PeopleFails, Reauth, OAuth, GiveUp,
              LoadSettings, LoadFails, SaveScopes, SaveFails, Done, ListProfiles,
              NextProfile, Probe, ProbeFails, Listed, AlreadyActive, SaveUse,
              StoreCredential, Clear, Fetch, FetchFails, Refresh, Return
    <2>3. Ref(p) = config.ref
      BY <2>2 DEF AccountsInv, Program, Migrate, Goto, Ref
    <2> QED
      BY <2>2, <2>3 DEF Migrate, Put
  <1> QED
    BY <1>1, Invariance, PTL DEF Spec, LegacyHome

\* On its own, a refresh finds a token of its account where it puts the new one.
THEOREM RefreshOnlyUpdates == Spec => RefreshUpdates
  <1> DEFINE Updates ==
        Alone => \A p \in Procs :
          pc[p] \in {"call", "probe"} /\ pc'[p] # pc[p] /\ keyring' # keyring =>
            /\ keyring[local[p].target] # None
            /\ keyring[local[p].target].account = local[p].token.account
  <1>1. AccountsInv => [Updates]_vars
    BY DEF AccountsInv, Program, Undisturbed, SeenAt
  <1> QED
    BY <1>1, Invariance, PTL DEF Spec, RefreshUpdates

===============================================================================
