------------------------------ MODULE Relocation ------------------------------
(***************************************************************************)
(* The move from the old, hand-rolled config directory to the native one   *)
(* on macOS and Windows (config/relocate.go), and everything that decides  *)
(* which of the four config files a command uses: LoadConfig and           *)
(* LoadConfigForRuntime (config/config.go), the relocation gate of         *)
(* `gro init` (initcmd/init.go), the commands that save settings           *)
(* (`profiles use`, init, the migrations) and `config clear --all`         *)
(* (configcmd/config.go).                                                  *)
(*                                                                         *)
(* One command runs at a time and may be killed between any two file       *)
(* operations; FileMigration has commands that race.                       *)
(***************************************************************************)
EXTENDS Naturals, Sequences

CONSTANTS
  Written,      \* the configs users have authored: what files hold at the start
  Refs,         \* credential refs
  DefaultRef,   \* config.DefaultCredentialRef
  Unset,        \* a field the file does not have
  Absent,       \* no such file
  Malformed,    \* a config file that does not parse
  Client,       \* an OAuth client JSON
  InUse,        \* may the new directory have been in use at the start?
  Commands,     \* the commands the user runs
  MaxCrashes    \* bound on the crashes of a behaviour

Scopes == {Unset, "stale", "current"}
Paths  == {Unset, "old", "new", "custom"}  \* oauth_client_path: old is <old dir>/oauth_client.json
Config == [ref : Refs \cup {Unset}, scopes : Scopes, path : Paths]

AllCommands == {"init", "run", "use", "clear"}

ASSUME WrittenAssumption == /\ Written \subseteq Config
                            /\ DefaultRef \in Refs
                            /\ Unset \notin Refs \cup {"old", "new", "custom"}
                            /\ {Unset, Absent, Malformed, Client} \cap Config = {}
                            /\ Absent # Malformed /\ Client \notin {Absent, Malformed}
ASSUME CommandsAssumption == /\ Commands \subseteq AllCommands
                             /\ InUse \in BOOLEAN /\ MaxCrashes \in Nat

\* The files of a config directory.
Files == {"json", "yml", "credentials", "client"}

ConfigFile == Config \cup {Absent, Malformed}
Dir == {d \in [Files -> ConfigFile \cup {Client}] :
          /\ d["json"] \in ConfigFile /\ d["yml"] \in ConfigFile
          /\ d["credentials"] \in {Absent, Client} /\ d["client"] \in {Absent, Client}}

VARIABLES
  old, new,   \* the two config directories
  custom,     \* the file at an oauth_client_path outside both
  pc, cmd,    \* the running command
  todo,       \* files still to be copied (init) or removed (config clear)
  cfg,        \* the settings it loaded when it opened the store
  crashes,
  wanted,     \* history: the settings the user chose, Unset while that is undecided
  upset,      \* history: an init has replaced settings that it could not read
  start       \* history: the old directory and the Kind at the start

vars == <<old, new, custom, pc, cmd, todo, cfg, crashes, wanted, upset, start>>

-----------------------------------------------------------------------------
(* What the directories mean.                                              *)

Present(d)  == d["yml"] # Absent \/ d["json"] # Absent
Authored(d) == IF d["yml"] # Absent THEN d["yml"] ELSE d["json"]

\* oauthClientPathEquiv: a in the old directory's config, b in the new one's.
PathEquiv(a, b) == a = b \/ (a \in {Unset, "old"} /\ b \in {Unset, "new"})

MaterialEqual(a, b) == /\ a.ref = b.ref
                       /\ a.scopes = b.scopes
                       /\ PathEquiv(a.path, b.path)

Kind ==
  LET o == Authored(old) n == Authored(new) IN
  CASE ~Present(old)                       -> "none"
    [] Present(old) /\ ~Present(new)       -> IF o = Malformed THEN "divergent" ELSE "oldOnly"
    [] Present(old) /\ Present(new)        ->
         IF {o, n} \subseteq Config /\ MaterialEqual(o, n) THEN "equal" ELSE "divergent"

Empty == [ref |-> Unset, scopes |-> Unset, path |-> Unset]

\* Config.applyDefaults.
Applied(c) == [c EXCEPT !.ref  = IF @ = Unset THEN DefaultRef ELSE @,
                        !.path = IF @ = Unset THEN "new" ELSE @]

Failed == Malformed

\* Slip: a conflict without a readable canonical config yields the defaults.
LoadSoft ==
  CASE new["yml"] \in Config -> Applied(new["yml"])
    [] new["yml"] = Malformed -> IF Kind = "divergent" THEN Applied(Empty) ELSE Failed
    [] new["yml"] = Absent /\ Kind = "divergent" -> Applied(Empty)
    [] new["yml"] = Absent /\ Kind = "oldOnly" -> Applied(Authored(old))
    [] new["yml"] = Absent /\ Kind \in {"none", "equal"} ->
         CASE new["json"] = Absent -> Applied(Empty)
           [] new["json"] = Malformed -> Failed
           [] OTHER -> Applied(new["json"])

\* LoadConfigForRuntime: the settings a command gets, or Failed.
Load ==
  CASE new["yml"] \in Config -> Applied(new["yml"])
    [] new["yml"] = Malformed -> Failed
    [] new["yml"] = Absent /\ Kind = "divergent" -> Failed
    [] new["yml"] = Absent /\ Kind = "oldOnly" -> Applied(Authored(old))
    [] new["yml"] = Absent /\ Kind \in {"none", "equal"} ->
         CASE new["json"] = Absent -> Applied(Empty)
           [] new["json"] = Malformed -> Failed
           [] OTHER -> Applied(new["json"])

\* Equal up to which directory's default place the client JSON has.
Same(a, b) == \/ a = b
              \/ /\ {a, b} \subseteq Config
                 /\ a.ref = b.ref /\ a.scopes = b.scopes
                 /\ {a.path, b.path} \subseteq {"old", "new"}

-----------------------------------------------------------------------------

TypeOK ==
  /\ old \in Dir /\ new \in Dir /\ custom \in {Absent, Client}
  /\ pc \in {"idle", "copy", "open", "promote", "remove", "tokens", "scopes", "clear"}
  /\ cmd \in AllCommands
  /\ todo \in Seq(Files \X {"old", "new"}) /\ Len(todo) <= 4
  /\ cfg \in {c \in Config : c.ref # Unset /\ c.path # Unset}
  /\ crashes \in 0..MaxCrashes
  /\ wanted \in Config \cup {Failed, Unset}
  /\ upset \in BOOLEAN
  /\ start \in [dir : Dir, kind : {"none", "oldOnly", "equal", "divergent"}]

InitialDir == [json : Written \cup {Absent, Malformed}, yml : Written \cup {Absent, Malformed},
               credentials : {Absent, Client}, client : {Absent, Client}]

Init ==
  /\ old \in InitialDir
  /\ new \in {d \in InitialDir : d["json"] = Absent \/ d["yml"] = Absent}
  /\ InUse \/ \A f \in Files : new[f] = Absent
  /\ custom = Absent
  /\ pc = "idle" /\ cmd = "run" /\ todo = << >> /\ cfg = Applied(Empty)
  /\ crashes = 0
  /\ wanted = Load /\ upset = FALSE
  /\ start = [dir |-> old, kind |-> Kind]

Goto(from, to) == pc = from /\ pc' = to

-----------------------------------------------------------------------------
(* `gro init`: the relocation gate, before anything else.                  *)

\* What the old directory may hold, in os.ReadDir's order.
CopyList == <<<<"json", "new">>, <<"yml", "new">>, <<"credentials", "new">>, <<"client", "new">>>>

Gate ==
  /\ "init" \in Commands /\ Kind # "divergent"
  /\ Goto("idle", "copy")
  /\ cmd' = "init"
  /\ todo' = IF Kind = "oldOnly" THEN CopyList ELSE << >>
  /\ UNCHANGED <<old, new, custom, cfg, crashes, wanted, upset, start>>

\* Slip: the copy stops after the config file.
CopyConfigOnly ==
  /\ Goto("copy", "copy") /\ todo # << >>
  /\ LET f == todo[1][1] IN
       IF new[f] = Absent THEN new' = [new EXCEPT ![f] = old[f]] ELSE UNCHANGED new
  /\ todo' = IF todo[1][1] = "yml" THEN << >> ELSE Tail(todo)
  /\ UNCHANGED <<old, custom, cmd, cfg, crashes, wanted, upset, start>>

\* One file of ApplyConfigRelocation, atomic; a file that is there is kept, and
\* one that the old directory does not have remains absent.
CopyFile ==
  /\ Goto("copy", "copy") /\ todo # << >>
  /\ LET f == todo[1][1] IN
       IF new[f] = Absent THEN new' = [new EXCEPT ![f] = old[f]] ELSE UNCHANGED new
  /\ todo' = Tail(todo)
  /\ UNCHANGED <<old, custom, cmd, cfg, crashes, wanted, upset, start>>

-----------------------------------------------------------------------------
(* keychain.Open, from init (after the gate) or from any other command.    *)

OpenStore ==
  /\ Load # Failed
  /\ \/ pc = "copy" /\ todo = << >> /\ UNCHANGED cmd
     \/ pc = "idle" /\ "run" \in Commands /\ cmd' = "run"
  /\ pc' = "open"
  /\ cfg' = Load
  /\ UNCHANGED <<old, new, custom, todo, crashes, wanted, upset, start>>

OpenFails ==
  /\ Load = Failed /\ todo = << >>
  /\ Goto("copy", "idle")
  /\ UNCHANGED <<old, new, custom, cmd, todo, cfg, crashes, wanted, upset, start>>

\* migrateOAuthClientJSON: the target may be in the old directory.
MoveClient ==
  /\ Goto("open", "promote")
  /\ IF new["credentials"] = Absent THEN UNCHANGED <<old, new, custom>>
     ELSE CASE cfg.path = "new" ->
                 /\ new' = [new EXCEPT !["credentials"] = Absent, !["client"] = Client]
                 /\ UNCHANGED <<old, custom>>
            [] cfg.path = "old" ->
                 /\ new' = [new EXCEPT !["credentials"] = Absent]
                 /\ old' = [old EXCEPT !["client"] = Client]
                 /\ UNCHANGED custom
            [] cfg.path = "custom" ->
                 /\ new' = [new EXCEPT !["credentials"] = Absent]
                 /\ custom' = Client
                 /\ UNCHANGED old
  /\ UNCHANGED <<cmd, todo, cfg, crashes, wanted, upset, start>>

\* promoteLegacyConfigJSON: SaveConfig ...
Promote ==
  /\ pc = "promote"
  /\ IF new["yml"] = Absent /\ new["json"] # Absent
     THEN new' = [new EXCEPT !["yml"] = cfg] /\ pc' = "remove"
     ELSE pc' = "tokens" /\ UNCHANGED new
  /\ UNCHANGED <<old, custom, cmd, todo, cfg, crashes, wanted, upset, start>>

\* ... and then the remove.
RemoveJSON ==
  /\ Goto("remove", "tokens")
  /\ new' = [new EXCEPT !["json"] = Absent]
  /\ UNCHANGED <<old, custom, cmd, todo, cfg, crashes, wanted, upset, start>>

\* A run that migrated a legacy token ends with SaveConfig.
MigrateTokens(found) ==
  /\ Goto("tokens", IF cmd = "init" THEN "scopes" ELSE "idle")
  /\ IF found THEN new' = [new EXCEPT !["yml"] = cfg] ELSE UNCHANGED new
  /\ UNCHANGED <<old, custom, cmd, todo, cfg, crashes, wanted, upset, start>>

-----------------------------------------------------------------------------
(* The commands' own saves.                                                *)

\* What the user starts from; after a clear that was cut short, what there is.
Known == IF wanted \in Config THEN wanted ELSE Load

\* init after a fresh OAuth flow, or with the existing token accepted.
SaveScopes(fresh) ==
  /\ Goto("scopes", "idle")
  /\ IF fresh
     THEN /\ Load # Failed
          /\ new' = [new EXCEPT !["yml"] = [Load EXCEPT !.scopes = "current"]]
          /\ wanted' = [Known EXCEPT !.scopes = "current"]
     ELSE UNCHANGED <<new, wanted>>
  /\ UNCHANGED <<old, custom, cmd, todo, cfg, crashes, upset, start>>

\* The settings cannot be read now: init goes on with empty ones, and saves them.
SaveBlindly ==
  /\ Goto("scopes", "idle")
  /\ new' = [new EXCEPT !["yml"] = [Empty EXCEPT !.scopes = "current"]]
  /\ upset' = TRUE
  /\ UNCHANGED <<old, custom, cmd, todo, cfg, crashes, wanted, start>>

\* `profiles use`; the store is opened without the migrations.
ProfilesUse(r) ==
  /\ pc = "idle" /\ "use" \in Commands
  /\ Load # Failed /\ Load.ref # r
  /\ new' = [new EXCEPT !["yml"] = [Load EXCEPT !.ref = r]]
  /\ wanted' = [Known EXCEPT !.ref = r]
  /\ cmd' = "use"
  /\ UNCHANGED <<old, custom, pc, todo, cfg, crashes, upset, start>>

\* Slip: the old directory's config.json is forgotten.
ClearListShort == <<<<"yml", "new">>, <<"json", "new">>, <<"yml", "old">>>>

\* configFilesForClear.
ClearList == <<<<"yml", "new">>, <<"json", "new">>, <<"yml", "old">>, <<"json", "old">>>>

\* `config clear --all`: works whatever state the files are in.
Clear ==
  /\ "clear" \in Commands
  /\ Goto("idle", "clear")
  /\ cmd' = "clear"
  /\ todo' = ClearList
  /\ wanted' = Unset
  /\ UNCHANGED <<old, new, custom, cfg, crashes, upset, start>>

RemoveFile ==
  /\ Goto("clear", "clear") /\ todo # << >>
  /\ LET f == todo[1][1] IN
       IF todo[1][2] = "new" THEN new' = [new EXCEPT ![f] = Absent] /\ UNCHANGED old
                             ELSE old' = [old EXCEPT ![f] = Absent] /\ UNCHANGED new
  /\ todo' = Tail(todo)
  /\ UNCHANGED <<custom, cmd, cfg, crashes, wanted, upset, start>>

Cleared ==
  /\ todo = << >>
  /\ Goto("clear", "idle")
  /\ wanted' = Applied(Empty) /\ upset' = FALSE
  /\ UNCHANGED <<old, new, custom, cmd, todo, cfg, crashes, start>>

\* The command is killed, or a file operation fails.
Crash ==
  /\ pc # "idle" /\ crashes < MaxCrashes
  /\ crashes' = crashes + 1
  /\ pc' = "idle" /\ todo' = << >>
  /\ UNCHANGED <<old, new, custom, cmd, cfg, wanted, upset, start>>

Next == \/ Gate \/ CopyFile
        \/ OpenStore \/ OpenFails \/ MoveClient \/ Promote \/ RemoveJSON
        \/ \E b \in BOOLEAN : MigrateTokens(b) \/ SaveScopes(b)
        \/ SaveBlindly
        \/ \E r \in Refs : ProfilesUse(r)
        \/ Clear \/ RemoveFile \/ Cleared
        \/ Crash

Spec == Init /\ [][Next]_vars

-----------------------------------------------------------------------------
(* Properties.                                                             *)

\* No command runs under settings the user did not choose: whatever files are in
\* the two directories, and wherever a relocation, promotion or save was cut
\* short, LoadConfigForRuntime returns the settings last chosen or fails.  (Not
\* from the start of `config clear --all` until one completes, when wanted is
\* Unset, nor after an init that could not read the settings and saved empty
\* ones, until the next full clear.)
NoSilentSwitch ==
  /\ TypeOK
  /\ wanted # Unset /\ ~upset => (Load = Failed \/ Same(Load, wanted))

\* After `config clear --all` no settings survive anywhere: neither form in
\* either directory comes back to life.
ClearResets == [][pc = "clear" /\ pc' = "idle" /\ crashes' = crashes
                    => Kind' = "none" /\ Load' = Applied(Empty)]_vars

\* The file at an oauth_client_path.
At(path) == CASE path = "new" -> new["client"]
              [] path = "old" -> old["client"]
              [] path = "custom" -> custom

\* Directory d provides a client JSON: in credentials.json, or at the default
\* place its config points to.
HasClient(d) == \/ d["credentials"] = Client
                \/ d["client"] = Client /\ Authored(d).path \in {Unset, "old"}

\* The client JSON is where the settings in force look for it, or will be
\* moved there when the store is opened.
ClientThere == At(Load.path) = Client \/ new["credentials"] = Client

\* A relocation that is not cut short takes the client JSON along with the
\* settings, whatever an earlier one that was cut short had already copied.
RelocationCarries ==
  [][pc = "copy" /\ todo # << >> /\ pc' = "copy" /\ todo' = << >> /\ HasClient(old)
       => ClientThere']_vars

\* "copies every file in the old config dir to the new dir ... Idempotent":
\* once init's gate is through, the client JSON that came with the old
\* directory is where the settings in force look for it, or will be moved
\* there; the user is not asked to supply it again.
ClientAvailable ==
  /\ pc = "copy" /\ todo = << >> /\ Load # Failed
  /\ start.kind = "oldOnly" /\ HasClient(start.dir)
  => ClientThere
=============================================================================
