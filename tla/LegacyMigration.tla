--------------------------- MODULE LegacyMigration ---------------------------
(***************************************************************************)
(* keychain.Open and the one-time migration of the OAuth token             *)
(* (keychain/keychain.go, keychain/migrate.go) for the configured          *)
(* credential ref, run by several processes of the CLI that share the      *)
(* legacy places and the keyring and may each fail or be killed between    *)
(* any two I/O steps.                                                      *)
(*                                                                         *)
(* migrateLegacyOverwrite has no lock: discover, the keyring lookup, the   *)
(* SetBundle, every deleter and the final SaveConfig are separate steps    *)
(* here.  What comes before discover (loading config.yml, opening the      *)
(* credstore, and the two file migrations that module FileMigration        *)
(* models) is the single step Prelude, which may fail.                     *)
(***************************************************************************)
EXTENDS Naturals

CONSTANTS
  Procs,          \* running invocations of the CLI
  ItemSources,    \* OS keychain / secret-tool items, deleted in one call
  FileSources,    \* token.json files, overwritten with zeros, then removed
  Rank,           \* Rank[s]: the place of source s in discover's order
  LegacyTokens,   \* tokens an earlier release may have left behind
  Issued,         \* tokens Google issues while the processes run
  Absent,         \* no value
  Zeros,          \* the bytes secureDelete leaves until the file is removed
  Modes,          \* the ways the processes open the store (a subset of AllModes)
  ReadFaults,     \* may reading a legacy place fail (locked keychain, EACCES)?
  TornDelete,     \* may a run end between secureDelete's overwrite and remove?
  MaxFaults       \* bound on the faults of a behaviour

Sources  == ItemSources \cup FileSources
AllModes == {"migrate", "overwrite", "skip"}
Tokens   == LegacyTokens \cup Issued
Bytes    == Tokens \cup {Zeros}

ASSUME ModesAssumption  == Modes \subseteq AllModes
ASSUME RankAssumption   == \A S \in SUBSET Sources :
                             S # {} => \E s \in S : \A t \in S : Rank[s] <= Rank[t]
ASSUME KindAssumption   == ItemSources \cap FileSources = {}
ASSUME AbsentAssumption == Absent \notin Bytes
ASSUME ZerosAssumption  == Zeros \notin Tokens
ASSUME FaultsAssumption == /\ MaxFaults \in Nat
                           /\ ReadFaults \in BOOLEAN
                           /\ TornDelete \in BOOLEAN

VARIABLES
  legacy,   \* what each legacy place holds now
  keyring,  \* the value of oauth_token under the configured ref
  pc,       \* where each process is in Open
  mode,     \* how it was asked to open
  cands,    \* the value discover read in each place, Absent = not a candidate
  todo,     \* the places still to read (discover) or to delete (cleanups)
  faults,   \* faults so far
  origin,   \* history: what each legacy place held at the start
  vault     \* history: every value the keyring has held

procVars == <<pc, mode, cands, todo>>
history  == <<origin, vault>>
vars     == <<legacy, keyring, procVars, faults, history>>

PCs == {"idle", "prelude", "discover", "store", "delete", "unlink", "save", "open"}

TypeOK ==
  /\ legacy  \in [Sources -> Bytes \cup {Absent}]
  /\ keyring \in Bytes \cup {Absent}
  /\ pc      \in [Procs -> PCs]
  /\ mode    \in [Procs -> AllModes]
  /\ cands   \in [Procs -> [Sources -> Bytes \cup {Absent}]]
  /\ todo    \in [Procs -> SUBSET Sources]
  /\ faults  \in 0..MaxFaults
  /\ origin  \in [Sources -> LegacyTokens \cup {Absent}]
  /\ vault   \in SUBSET Bytes

Init ==
  /\ origin \in [Sources -> LegacyTokens \cup {Absent}]
  /\ legacy = origin
  /\ keyring \in Tokens \cup {Absent}
  /\ vault = {keyring} \ {Absent}
  /\ pc = [p \in Procs |-> "idle"]
  /\ mode = [p \in Procs |-> "migrate"]
  /\ cands = [p \in Procs |-> [s \in Sources |-> Absent]]
  /\ todo = [p \in Procs |-> {}]
  /\ faults = 0

-----------------------------------------------------------------------------
(* Helpers.                                                                *)

\* The first source of S in discover's order.
First(S) == CHOOSE s \in S : \A t \in S : Rank[s] <= Rank[t]

\* The candidates discover returned to p.
Found(p) == {s \in Sources : cands[p][s] # Absent}

\* planMigration's `distinct`.
Distinct(p) == {cands[p][s] : s \in Found(p)}

\* planMigration's disagrees(distinct, target).
Disagrees(p, target) == \E v \in Distinct(p) : v # target

\* Slip: the first candidate wins, the others are never compared.
SplitIgnored(p) == FALSE

\* Legacy sources disagree among themselves: len(distinct) > 1.
Split(p) == \E s, t \in Found(p) : cands[p][s] # cands[p][t]

Goto(p, from, to) == /\ pc[p] = from
                     /\ pc' = [pc EXCEPT ![p] = to]

\* Something outside the program's control goes wrong in this step.
Fault == /\ faults < MaxFaults
         /\ faults' = faults + 1

\* The keyring is given the value v.
PutKeyring(v) == /\ keyring' = v
                 /\ vault' = vault \cup {v}

-----------------------------------------------------------------------------
(* Open, one action per I/O step.                                          *)

\* A command starts.  "skip" is every way of reaching the store without the
\* migration: OpenNoMigrate, OpenRef, and Open under a --ref / environment
\* override, which forces runMigration to false.
Start(p, m) ==
  /\ Goto(p, "idle", IF m = "skip" THEN "open" ELSE "prelude")
  /\ mode' = [mode EXCEPT ![p] = m]
  /\ UNCHANGED <<legacy, keyring, cands, todo, faults, history>>

Prelude(p) ==
  /\ Goto(p, "prelude", "discover")
  /\ cands' = [cands EXCEPT ![p] = [s \in Sources |-> Absent]]
  /\ todo' = [todo EXCEPT ![p] = Sources]
  /\ UNCHANGED <<legacy, keyring, mode, faults, history>>

\* discover reads the next place; a read that fails looks like an absent one.
ReadSource(p) ==
  /\ pc[p] = "discover" /\ todo[p] # {}
  /\ LET s == First(todo[p]) IN
       /\ todo' = [todo EXCEPT ![p] = @ \ {s}]
       /\ \/ /\ cands' = [cands EXCEPT ![p][s] = legacy[s]]
             /\ UNCHANGED faults
          \/ /\ ReadFaults /\ Fault
             /\ UNCHANGED cands
  /\ UNCHANGED <<legacy, keyring, pc, mode, history>>

Planning(p) == pc[p] = "discover" /\ todo[p] = {}

\* currentValue: any Get error reads as "no value".
Current(target) == \/ target = keyring /\ UNCHANGED faults
                   \/ target = Absent  /\ keyring # Absent /\ Fault

\* Nothing legacy: the steady state.
PlanNothing(p) ==
  /\ Planning(p) /\ Found(p) = {}
  /\ Goto(p, "discover", "open")
  /\ UNCHANGED <<legacy, keyring, mode, cands, todo, faults, history>>

\* The conflict error, before anything is written or deleted.
PlanConflict(p) ==
  /\ Planning(p) /\ Found(p) # {}
  /\ \E target \in {keyring, Absent} :
       /\ Current(target)
       /\ \/ Split(p)
          \/ target # Absent /\ mode[p] # "overwrite" /\ Disagrees(p, target)
  /\ Goto(p, "discover", "idle")
  /\ UNCHANGED <<legacy, keyring, mode, cands, todo, history>>

\* Slip: a value already in the keyring is reported as an error.
PlanCleanupRefused(p) ==
  /\ Planning(p) /\ Found(p) # {} /\ keyring # Absent
  /\ Goto(p, "discover", "idle")
  /\ UNCHANGED <<legacy, keyring, mode, cands, todo, faults, history>>

\* Slip: "already migrated" returns without removing the leftovers.
PlanCleanupSkipped(p) ==
  /\ Planning(p) /\ Found(p) # {} /\ ~Split(p)
  /\ keyring # Absent /\ ~Disagrees(p, keyring)
  /\ Goto(p, "discover", "open")
  /\ UNCHANGED <<legacy, keyring, mode, cands, todo, faults, history>>

\* The keyring already holds the value: only clean up.
PlanCleanup(p) ==
  /\ Planning(p) /\ Found(p) # {} /\ ~Split(p)
  /\ keyring # Absent /\ ~Disagrees(p, keyring)
  /\ Goto(p, "discover", "delete")
  /\ todo' = [todo EXCEPT ![p] = Found(p)]
  /\ UNCHANGED <<legacy, keyring, mode, cands, faults, history>>

\* Slip: the originals are removed before SetBundle has succeeded.
PlanDeleteFirst(p) ==
  /\ Planning(p) /\ Found(p) # {} /\ ~Split(p) /\ keyring = Absent
  /\ Goto(p, "discover", "delete")
  /\ todo' = [todo EXCEPT ![p] = Found(p)]
  /\ UNCHANGED <<legacy, keyring, mode, cands, faults, history>>

\* One value to write (or one forced by overwrite).
PlanStore(p) ==
  /\ Planning(p) /\ Found(p) # {} /\ ~Split(p)
  /\ \E target \in {keyring, Absent} :
       /\ Current(target)
       /\ target = Absent \/ (mode[p] = "overwrite" /\ Disagrees(p, target))
  /\ Goto(p, "discover", "store")
  /\ UNCHANGED <<legacy, keyring, mode, cands, todo, history>>

\* Slip: WithOverwrite on every migration.
AcceptsAlways(p) == TRUE

\* SetBundle without WithOverwrite refuses a key that exists.
Accepts(p) == keyring = Absent \/ mode[p] = "overwrite"

\* Slip: the value of a fixed place is stored, found there or not.
StoreFixedPlace(p) ==
  /\ Accepts(p)
  /\ Goto(p, "store", "delete")
  /\ PutKeyring(cands[p][First(Sources)])
  /\ todo' = [todo EXCEPT ![p] = Found(p)]
  /\ UNCHANGED <<legacy, mode, cands, faults, origin>>

Store(p) ==
  /\ Accepts(p)
  /\ Goto(p, "store", "delete")
  /\ PutKeyring(cands[p][First(Found(p))])
  /\ todo' = [todo EXCEPT ![p] = Found(p)]
  /\ UNCHANGED <<legacy, mode, cands, faults, origin>>

StoreRefused(p) ==
  /\ ~Accepts(p)
  /\ Goto(p, "store", "idle")
  /\ UNCHANGED <<legacy, keyring, mode, cands, todo, faults, history>>

\* secureDelete overwrites a file that exists with zeros ...
Zero(p) ==
  /\ pc[p] = "delete" /\ todo[p] # {}
  /\ LET s == First(todo[p]) IN
       /\ s \in FileSources /\ legacy[s] # Absent
       /\ legacy' = [legacy EXCEPT ![s] = Zeros]
  /\ Goto(p, "delete", "unlink")
  /\ UNCHANGED <<keyring, mode, cands, todo, faults, history>>

\* ... and then removes it.  keychainDelete and secretToolDelete are one call,
\* and so is secureDelete when the file is gone or cannot be opened to write.
\* In every case a place that is already empty is success.
Delete(p) ==
  /\ pc[p] \in {"delete", "unlink"} /\ todo[p] # {}
  /\ LET s == First(todo[p]) IN
       /\ legacy' = [legacy EXCEPT ![s] = Absent]
       /\ todo' = [todo EXCEPT ![p] = @ \ {s}]
  /\ pc' = [pc EXCEPT ![p] = "delete"]
  /\ UNCHANGED <<keyring, mode, cands, faults, history>>

\* Slip: only the place the value was taken from is cleaned up.
DeletedFirst(p) ==
  /\ todo[p] # Found(p)
  /\ Goto(p, "delete", "save")
  /\ UNCHANGED <<legacy, keyring, mode, cands, todo, faults, history>>

Deleted(p) ==
  /\ todo[p] = {}
  /\ Goto(p, "delete", "save")
  /\ UNCHANGED <<legacy, keyring, mode, cands, todo, faults, history>>

Save(p) ==
  /\ Goto(p, "save", "open")
  /\ UNCHANGED <<legacy, keyring, mode, cands, todo, faults, history>>

\* Any I/O step returns an error, or the process is killed.
Abort(p) ==
  /\ pc[p] # "idle"
  /\ pc[p] = "unlink" => TornDelete
  /\ Fault
  /\ pc' = [pc EXCEPT ![p] = "idle"]
  /\ UNCHANGED <<legacy, keyring, mode, cands, todo, history>>

-----------------------------------------------------------------------------
(* What a command does with the open store.                                *)

\* SetToken: init, set-credential and the refresh persister.
SetToken(p) ==
  /\ pc[p] = "open"
  /\ \E t \in Issued : PutKeyring(t)
  /\ UNCHANGED <<legacy, procVars, faults, origin>>

\* DeleteToken: config clear, and init before a new login.
DeleteToken(p) ==
  /\ pc[p] = "open" /\ keyring # Absent
  /\ keyring' = Absent
  /\ UNCHANGED <<legacy, procVars, faults, history>>

Close(p) ==
  /\ Goto(p, "open", "idle")
  /\ UNCHANGED <<legacy, keyring, mode, cands, todo, faults, history>>

Step(p) ==
  \/ Prelude(p) \/ ReadSource(p)
  \/ PlanNothing(p) \/ PlanConflict(p) \/ PlanCleanup(p) \/ PlanStore(p)
  \/ Store(p) \/ StoreRefused(p)
  \/ Zero(p) \/ Delete(p) \/ Deleted(p) \/ Save(p)

Use(p) == SetToken(p) \/ DeleteToken(p) \/ Close(p)

Next == \E p \in Procs : \/ \E m \in Modes : Start(p, m)
                         \/ Step(p)
                         \/ Abort(p)
                         \/ Use(p)

Spec == Init /\ [][Next]_vars

\* A started process runs to its end, and the user keeps running commands.
Fairness == \A p \in Procs : /\ WF_vars(Step(p))
                             /\ WF_vars(Close(p))
                             /\ \A m \in Modes : WF_vars(Start(p, m))

FairSpec == Spec /\ Fairness

-----------------------------------------------------------------------------
(* Properties.                                                             *)

\* No token is lost: a legacy place no longer holding its original token (it
\* was zeroed, removed or cleared by any process) held one that the keyring
\* has taken in.  This is the order "SetBundle, then the deleters" of
\* migrateLegacyOverwrite under every interleaving, fault and crash.
NoTokenLost ==
  \A s \in Sources : origin[s] # Absent /\ legacy[s] # origin[s]
                       => origin[s] \in vault

LegacyGone == \A s \in Sources : legacy[s] = Absent

\* "After this runs, legacy originals are gone (or init aborted loudly)"
\* (initcmd/init.go): a process that has come through the migrating Open sees
\* no legacy token anywhere, whatever the others are doing.
OpenMeansMigrated ==
  \A p \in Procs : pc[p] = "open" /\ mode[p] # "skip" => LegacyGone

\* s is between a running secureDelete's overwrite and its remove.
InDeletion(s) == \E p \in Procs : pc[p] = "unlink" /\ s = First(todo[p])

Intact(s) == legacy[s] # Absent /\ ~InDeletion(s)

\* A fresh `gro` run would report the conflict error: two places disagree, or
\* one disagrees with the keyring.
Wedged == \E s \in Sources :
            /\ Intact(s)
            /\ \/ keyring # Absent /\ keyring # legacy[s]
               \/ \E t \in Sources : Intact(t) /\ legacy[t] # legacy[s]

\* The migration never inflicts a conflict on itself: from a state in which a
\* run would succeed (or clean up after an interrupted one) no step of any
\* process leads to one in which every later run fails.
NoWedge == [][~Wedged => ~Wedged']_vars

\* Without --overwrite a token issued to this release is never rolled back to
\* a legacy one (or to garbage), however stale the value a migration carries
\* and even when its look at the keyring failed.
FreshTokenKept ==
  [][(keyring \in Issued) => (keyring' \in Issued \cup {Absent})]_vars

\* Where a run can succeed at the start, runs repeated after each fault end
\* with no legacy token left, for good.
Converges == ~Wedged => <>[]LegacyGone

\* The promise of module TokenCustody.
Custody == INSTANCE TokenCustody
             WITH held <- {s \in Sources : origin[s] # Absent /\ legacy[s] = origin[s]}

\* A legacy token is given up only when the keyring has it, one place at a
\* time, and never while the legacy places disagree.
ImplementsCustody == Custody!CSpec
=============================================================================
