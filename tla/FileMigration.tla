---------------------------- MODULE FileMigration ----------------------------
(***************************************************************************)
(* The two file migrations that run inside keychain.Open before the token  *)
(* is looked at (keychain/migrate.go): credentials.json is moved to the    *)
(* oauth_client_path, and config.json is promoted to config.yml.  Open     *)
(* loads the settings first (config/config.go) and, when a token was       *)
(* migrated, saves them again at the end, so the loaded settings travel    *)
(* through the whole run.  Neither the loader nor the savers take a lock.  *)
(* The token migration is in three steps here; LegacyMigration has its     *)
(* inside, and Invocation the process these steps are run by.              *)
(*                                                                         *)
(* The old and new config directory are one here (Linux); Relocation has   *)
(* the case where they differ.                                             *)
(***************************************************************************)
EXTENDS Naturals

CONSTANTS
  Procs,      \* running invocations of the CLI
  Clients,    \* valid OAuth client JSONs
  Settings,   \* what a user may have configured
  Defaults,   \* the settings applyDefaults yields for an empty config
  Absent,     \* no such file
  Invalid,    \* a file that does not parse (a truncated one, for example)
  MaxFaults   \* bound on the failures and crashes of a behaviour

ASSUME FileAssumption == /\ {Absent, Invalid} \cap (Clients \cup Settings) = {}
                         /\ Absent # Invalid
                         /\ Defaults \in Settings
                         /\ MaxFaults \in Nat

VARIABLES
  credentials,  \* the legacy credentials.json
  client,       \* the file at oauth_client_path
  json, yml,    \* config.json and config.yml
  tokens,       \* legacy tokens: none, to be stored, stored already, in conflict
  pc, cfg, got, \* per process: control, loaded settings, bytes of credentials.json
  faults,
  oneFile,      \* oauth_client_path is credentials.json itself
  first,        \* history: what the files held at the start
  unread        \* history: a usable client JSON was taken for missing

vars == <<credentials, client, json, yml, tokens, pc, cfg, got, faults, oneFile, first, unread>>

ClientFile == Clients \cup {Absent, Invalid}
ConfigFile == Settings \cup {Absent}
Tokens == {"none", "legacy", "stored", "conflict"}
PCs == {"idle", "loadJSON", "credentials", "target", "truncate", "fill", "remove",
        "promote", "stat", "save", "unlink", "token", "clean", "resave", "opened", "failed"}

TypeOK ==
  /\ credentials \in ClientFile /\ client \in ClientFile
  /\ json \in ConfigFile /\ yml \in ConfigFile
  /\ tokens \in Tokens
  /\ pc \in [Procs -> PCs]
  /\ cfg \in [Procs -> Settings]
  /\ got \in [Procs -> ClientFile]
  /\ faults \in 0..MaxFaults
  /\ oneFile \in BOOLEAN /\ unread \in BOOLEAN
  /\ first \in [credentials : ClientFile, client : ClientFile,
                json : ConfigFile, yml : ConfigFile]

Init ==
  /\ oneFile \in BOOLEAN
  /\ credentials \in ClientFile /\ client \in ClientFile
  /\ oneFile => client = credentials
  /\ json \in ConfigFile /\ yml \in ConfigFile
  /\ tokens \in Tokens
  /\ pc = [p \in Procs |-> "idle"]
  /\ cfg = [p \in Procs |-> Defaults]
  /\ got = [p \in Procs |-> Absent]
  /\ faults = 0
  /\ first = [credentials |-> credentials, client |-> client, json |-> json, yml |-> yml]
  /\ unread = FALSE

files == <<credentials, client, json, yml, tokens>>
known == <<oneFile, first, unread>>

\* Writing the target, and removing credentials.json.
PutClient(b) == /\ client' = b
                /\ credentials' = IF oneFile THEN b ELSE credentials
DropCredentials == /\ credentials' = Absent
                   /\ client' = IF oneFile THEN Absent ELSE client

Goto(p, from, to) == /\ pc[p] = from
                     /\ pc' = [pc EXCEPT ![p] = to]

-----------------------------------------------------------------------------
(* LoadConfig: config.yml, or config.json once, or the defaults.           *)

LoadYAML(p) ==
  /\ \/ yml # Absent /\ Goto(p, "idle", "credentials") /\ cfg' = [cfg EXCEPT ![p] = yml]
     \/ yml = Absent /\ Goto(p, "idle", "loadJSON") /\ UNCHANGED cfg
  /\ UNCHANGED <<files, got, faults, known>>

\* Slip: config.json is no longer read.
LoadJSONIgnored(p) ==
  /\ Goto(p, "loadJSON", "credentials")
  /\ cfg' = [cfg EXCEPT ![p] = Defaults]
  /\ UNCHANGED <<files, got, faults, known>>

LoadLegacyJSON(p) ==
  /\ Goto(p, "loadJSON", "credentials")
  /\ cfg' = [cfg EXCEPT ![p] = IF json = Absent THEN Defaults ELSE json]
  /\ UNCHANGED <<files, got, faults, known>>

-----------------------------------------------------------------------------
(* migrateOAuthClientJSON.                                                 *)

ReadCredentials(p) ==
  /\ Goto(p, "credentials", IF credentials = Absent THEN "promote" ELSE "target")
  /\ got' = [got EXCEPT ![p] = credentials]
  /\ UNCHANGED <<files, cfg, faults, known>>

\* Whatever keeps it from being read, credentials.json then counts as absent.
CredentialsUnread(p) ==
  /\ faults < MaxFaults /\ faults' = faults + 1
  /\ Goto(p, "credentials", "promote")
  /\ UNCHANGED <<files, cfg, got, known>>

\* Slip: a valid legacy file is installed over a valid target.
InstallAlways(p) ==
  /\ Goto(p, "target", CASE got[p] \in Clients -> "truncate"
                         [] got[p] \notin Clients /\ client \in Clients -> "remove"
                         [] OTHER -> "failed")
  /\ UNCHANGED <<files, cfg, got, faults, known>>

\* Slip: a superseded credentials.json is left in place.
SupersededLeft(p) ==
  /\ Goto(p, "target", CASE client \in Clients -> "promote"
                         [] client \notin Clients /\ got[p] \in Clients -> "truncate"
                         [] OTHER -> "failed")
  /\ UNCHANGED <<files, cfg, got, faults, known>>

\* A valid target supersedes; both unusable is the loud, lossless error;
\* otherwise the bytes read are installed.
ReadTarget(p) ==
  /\ Goto(p, "target", CASE client \in Clients -> "remove"
                         [] client \notin Clients /\ got[p] \in Clients -> "truncate"
                         [] OTHER -> "failed")
  /\ UNCHANGED <<files, cfg, got, faults, known>>

\* So does a target that cannot be read: a valid legacy file is installed over
\* it, whatever it holds.
TargetUnread(p) ==
  /\ faults < MaxFaults /\ faults' = faults + 1
  /\ Goto(p, "target", IF got[p] \in Clients THEN "truncate" ELSE "failed")
  /\ unread' = (unread \/ (got[p] \in Clients /\ client \in Clients))
  /\ UNCHANGED <<files, cfg, got, oneFile, first>>

\* os.WriteFile opens with O_TRUNC and then writes: not atomic.
Truncate(p) ==
  /\ Goto(p, "truncate", "fill")
  /\ PutClient(Invalid)
  /\ UNCHANGED <<json, yml, tokens, cfg, got, faults, known>>

Fill(p) ==
  /\ Goto(p, "fill", "remove")
  /\ PutClient(got[p])
  /\ UNCHANGED <<json, yml, tokens, cfg, got, faults, known>>

RemoveCredentials(p) ==
  /\ Goto(p, "remove", "promote")
  /\ DropCredentials
  /\ UNCHANGED <<json, yml, tokens, cfg, got, faults, known>>

-----------------------------------------------------------------------------
(* promoteLegacyConfigJSON.                                                *)

StatYAML(p) ==
  /\ Goto(p, "promote", IF yml = Absent THEN "stat" ELSE "token")
  /\ UNCHANGED <<files, cfg, got, faults, known>>

StatJSON(p) ==
  /\ Goto(p, "stat", IF json = Absent THEN "token" ELSE "save")
  /\ UNCHANGED <<files, cfg, got, faults, known>>

\* SaveConfig: temp file and rename, so the new file appears whole.
SavePromoted(p) ==
  /\ Goto(p, "save", "unlink")
  /\ yml' = cfg[p]
  /\ UNCHANGED <<credentials, client, json, tokens, cfg, got, faults, known>>

RemoveJSON(p) ==
  /\ Goto(p, "unlink", "token")
  /\ json' = Absent
  /\ UNCHANGED <<credentials, client, yml, tokens, cfg, got, faults, known>>

-----------------------------------------------------------------------------
(* The token migration follows; a run that cleaned up legacy tokens ends   *)
(* with SaveConfig of the settings loaded at its start.                    *)

PlanTokens(p) ==
  /\ tokens # "legacy"
  /\ Goto(p, "token", CASE tokens = "none"     -> "opened"
                        [] tokens = "stored"   -> "clean"
                        [] tokens = "conflict" -> "failed")
  /\ UNCHANGED <<files, cfg, got, faults, known>>

StoreTokens(p) ==
  /\ tokens = "legacy"
  /\ Goto(p, "token", "clean")
  /\ tokens' = "stored"
  /\ UNCHANGED <<credentials, client, json, yml, cfg, got, faults, known>>

CleanTokens(p) ==
  /\ Goto(p, "clean", "resave")
  /\ tokens' = "none"
  /\ UNCHANGED <<credentials, client, json, yml, cfg, got, faults, known>>

TokensMigrated(p) ==
  /\ Goto(p, "resave", "opened")
  /\ yml' = cfg[p]
  /\ UNCHANGED <<credentials, client, json, tokens, cfg, got, faults, known>>

\* Any other I/O error is returned.
Abort(p) ==
  /\ pc[p] \notin {"opened", "failed"} /\ faults < MaxFaults
  /\ faults' = faults + 1
  /\ pc' = [pc EXCEPT ![p] = "failed"]
  /\ UNCHANGED <<files, cfg, got, known>>

\* A read that fails and goes unnoticed.
UnreadStep(p) == CredentialsUnread(p) \/ TargetUnread(p)

\* Every step but the one that stores a token.
FileStep(p) == \/ LoadYAML(p) \/ LoadLegacyJSON(p)
               \/ ReadCredentials(p) \/ ReadTarget(p) \/ Truncate(p) \/ Fill(p)
               \/ RemoveCredentials(p)
               \/ StatYAML(p) \/ StatJSON(p) \/ SavePromoted(p) \/ RemoveJSON(p)
               \/ PlanTokens(p) \/ CleanTokens(p) \/ TokensMigrated(p)

-----------------------------------------------------------------------------
(* Properties.                                                             *)

\* The relocation of the client JSON is lossless, unless it is asked to move
\* the file onto itself: a usable target is never replaced, by a migration that
\* could read it or by an init that was not told to; if there was a usable
\* client JSON, one that was there still is, also while a file is half written;
\* and credentials.json goes only when the target is usable.
ClientKept ==
  ~oneFile =>
    /\ first.client \in Clients /\ ~unread => client = first.client
    /\ {first.client, first.credentials} \cap Clients # {} =>
         {first.client, first.credentials} \cap {client, credentials} \cap Clients # {}
    /\ first.credentials # Absent => credentials # Absent \/ client \in Clients

\* "read transparently once": while config.yml is absent config.json still
\* holds the user's settings, and the config.yml that replaces it holds them.
SettingsKept ==
  /\ first.yml # Absent => yml = first.yml
  /\ first.yml = Absent /\ first.json # Absent =>
       IF yml = Absent THEN json = first.json ELSE yml = first.json
=============================================================================
