------------------------------ MODULE DriveCache ------------------------------
(***************************************************************************)
(* The cache of the account's shared drives: cache/cache.go, the refresh   *)
(* command that fills it, and the part of `config clear --all` that        *)
(* removes it.  Opening the cache first moves an older one, left in a      *)
(* "cache" directory beside the settings, to the OS cache directory: stat, *)
(* read, write, remove, any of which another process or a kill may follow. *)
(* The settings are looked for in one directory on Linux and in two on     *)
(* macOS and Windows.                                                      *)
(*                                                                         *)
(* The bytes of an old cache have a shape the reader of today takes for a  *)
(* miss ("foreign"), as it does a file cut short ("torn").                 *)
(***************************************************************************)
EXTENDS Integers, Sequences, FiniteSets, FiniteSetsExt

CONSTANTS
  Procs,       \* processes
  Last,        \* the shared drives are 1..Last, listed in this order
  PageSize,    \* drives in one answer of the service
  TTL,         \* how long a list may be served (24h)
  MaxNow,      \* bound on the clock
  MaxChanges,  \* bound on the drives that come and go
  MaxFaults    \* bound on failing steps and kills

ASSUME CacheAssumption ==
  /\ Last \in Nat \ {0} /\ PageSize \in Nat \ {0}
  /\ TTL \in Nat /\ MaxNow \in Nat /\ MaxChanges \in Nat /\ MaxFaults \in Nat

Drives == 1..Last
Ops    == {"lookup", "refresh", "clear", "reset"}
Absent  == [is |-> "absent"]
Torn    == [is |-> "torn"]
Foreign == [is |-> "foreign"]
Nil     == [is |-> "nil"]
Lists   == [is : {"list"}, at : 0..MaxNow, asked : 0..MaxNow, drives : SUBSET Drives]

VARIABLES
  file,        \* drives.json of the cache directory
  open,        \* processes whose os.WriteFile has this very file open
  probes,      \* where an older cache may be, in the order New looks
  legacy,      \* what is there
  drives, born, gone, changes,   \* the account: drives, when they came and went
  now, alone, faults,            \* clock; whether commands run one at a time
  pc, op, k,                     \* per process: control, command, next probe
  token, list, asked,            \* per process: ListSharedDrives
  flawed,      \* history: a step of this process's carry has failed
  wiped        \* history: a full reset has succeeded, with no refresh since

account == <<drives, born, gone, changes>>
disk    == <<file, open, legacy>>
fetch   == <<token, list, asked>>
vars == <<disk, probes, account, now, alone, faults, pc, op, k, fetch, flawed, wiped>>

IsList(f) == f.is = "list"

TypeOK ==
  /\ file \in {Absent, Torn, Foreign} \cup Lists
  /\ open \subseteq {p \in Procs : pc[p] = "fill"} /\ (open # {} => file \in {Torn, Foreign})
  /\ probes \in {<<"config">>, <<"config", "old">>}
  /\ legacy \in [{"config", "old"} -> {"none", "empty", "foreign", "odd"}]
  /\ drives \subseteq Drives /\ born \in [Drives -> -1..MaxNow] /\ gone \in [Drives -> -1..MaxNow]
  /\ changes \in 0..MaxChanges /\ now \in 0..MaxNow
  /\ alone \in BOOLEAN /\ faults \in 0..MaxFaults /\ wiped \in BOOLEAN
  /\ pc \in [Procs -> {"idle", "probe", "look", "carry", "create", "fill", "drop", "rmdir",
                       "read", "list", "store", "clear", "reset", "resetLegacy"}]
  /\ op \in [Procs -> Ops] /\ k \in [Procs -> 1..3] /\ flawed \in [Procs -> BOOLEAN]
  /\ token \in [Procs -> 0..Last] /\ list \in [Procs -> SUBSET Drives]
  /\ asked \in [Procs -> 0..MaxNow]
  /\ alone => Cardinality({p \in Procs : pc[p] # "idle"}) <= 1

\* An install of any age: an old cache in any of its places, whole, without
\* its file, or with a file that cannot be read.
Init ==
  /\ file \in {Absent, Foreign} /\ open = {}
  /\ probes \in {<<"config">>, <<"config", "old">>}
  /\ legacy \in [{"config", "old"} -> {"none", "empty", "foreign", "odd"}]
  /\ Len(probes) = 1 => legacy["old"] = "none"
  /\ drives = Drives \ {Last} /\ born = [d \in Drives |-> -1] /\ gone = [d \in Drives |-> -1]
  /\ changes = 0 /\ now = 0 /\ alone \in BOOLEAN /\ faults = 0 /\ wiped = FALSE
  /\ pc = [p \in Procs |-> "idle"] /\ op = [p \in Procs |-> "lookup"]
  /\ k = [p \in Procs |-> 1] /\ flawed = [p \in Procs |-> FALSE]
  /\ token = [p \in Procs |-> 0] /\ list = [p \in Procs |-> {}]
  /\ asked = [p \in Procs |-> 0]

Goto(p, from, to) == pc[p] = from /\ pc' = [pc EXCEPT ![p] = to]
At(p)   == probes[k[p]]                      \* the old cache being looked at
NextOne(p, from) == Goto(p, from, "probe") /\ k' = [k EXCEPT ![p] = @ + 1]

still == <<probes, account, now, alone>>     \* what no step of a process changes
mine  == <<op, fetch, flawed, wiped>>

\* The process is through with its command.
End(p, from) ==
  /\ Goto(p, from, "idle")
  /\ op' = [op EXCEPT ![p] = "lookup"] /\ k' = [k EXCEPT ![p] = 1]
  /\ token' = [token EXCEPT ![p] = 0] /\ list' = [list EXCEPT ![p] = {}]
  /\ asked' = [asked EXCEPT ![p] = 0] /\ flawed' = [flawed EXCEPT ![p] = FALSE]

-----------------------------------------------------------------------------
(* New: GetCacheDir, then migrateLegacyCacheDir over the probes.           *)

Start(p, o) ==
  /\ alone => \A q \in Procs : pc[q] = "idle"
  /\ Goto(p, "idle", IF o = "reset" THEN "reset" ELSE "probe")
  /\ op' = [op EXCEPT ![p] = o]
  /\ UNCHANGED <<disk, still, faults, k, fetch, flawed, wiped>>

\* os.Stat(legacy): there is an old cache to deal with.
Probe(p) ==
  /\ k[p] <= Len(probes)
  /\ IF legacy[At(p)] = "none" THEN NextOne(p, "probe") ELSE Goto(p, "probe", "look") /\ UNCHANGED k
  /\ UNCHANGED <<disk, still, faults, mine>>

\* All probes done: New returns, the command goes on.
Opened(p) ==
  /\ k[p] > Len(probes)
  /\ \E to \in {"read", "list", "clear"} :
       /\ <<op[p], to>> \in {<<"lookup", "read">>, <<"refresh", "list">>, <<"clear", "clear">>}
       /\ Goto(p, "probe", to)
       /\ asked' = [asked EXCEPT ![p] = IF to = "list" THEN now ELSE 0]
  /\ UNCHANGED <<disk, still, faults, k, op, token, list, flawed, wiped>>

\* Slip: carry without looking for a newer cache.
LookNot(p) == /\ Goto(p, "look", "carry")
              /\ UNCHANGED <<disk, still, faults, k, mine>>

\* os.Stat(newDrives): a cache that is there already wins over the old one.
Look(p) ==
  /\ Goto(p, "look", IF file = Absent THEN "carry" ELSE "drop")
  /\ UNCHANGED <<disk, still, faults, k, mine>>

\* Slip: an old cache without its file is taken for a failure.
CarryFull(p) ==
  /\ pc[p] = "carry"
  /\ \/ legacy[At(p)] = "foreign" /\ Goto(p, "carry", "create") /\ UNCHANGED k
     \/ legacy[At(p)] \in {"none", "empty"} /\ NextOne(p, "carry")
  /\ UNCHANGED <<disk, still, faults, mine>>

\* os.ReadFile(legacyDrives).
Carry(p) ==
  /\ pc[p] = "carry"
  /\ \/ legacy[At(p)] = "foreign" /\ Goto(p, "carry", "create")
     \/ legacy[At(p)] \in {"none", "empty"} /\ Goto(p, "carry", "drop")
  /\ UNCHANGED <<disk, still, faults, k, mine>>

\* os.MkdirAll and os.WriteFile: open and truncate ...
Create(p) ==
  /\ Goto(p, "create", "fill")
  /\ file' = Torn /\ open' = open \cup {p}
  /\ UNCHANGED <<legacy, still, faults, k, mine>>

\* ... then write, into the file that was opened, whatever the name stands for by now.
Fill(p) ==
  /\ Goto(p, "fill", "drop")
  /\ file' = IF p \in open THEN Foreign ELSE file
  /\ open' = open \ {p}
  /\ UNCHANGED <<legacy, still, faults, k, mine>>

\* os.RemoveAll(legacy): the file, then the directory.
Drop(p) ==
  /\ Goto(p, "drop", "rmdir")
  /\ legacy' = [legacy EXCEPT ![At(p)] = IF @ = "none" THEN "none" ELSE "empty"]
  /\ UNCHANGED <<file, open, still, faults, k, mine>>

Rmdir(p) ==
  /\ NextOne(p, "rmdir")
  /\ legacy' = [legacy EXCEPT ![At(p)] = "none"]
  /\ UNCHANGED <<file, open, still, faults, mine>>

\* The probe is given up, New is not.
GiveUp(p) ==
  /\ NextOne(p, pc[p]) /\ open' = open \ {p}
  /\ flawed' = [flawed EXCEPT ![p] = TRUE]
  /\ UNCHANGED <<file, legacy, still, op, fetch, wiped>>

Unreadable(p) ==
  /\ pc[p] = "carry" /\ legacy[At(p)] = "odd"
  /\ GiveUp(p) /\ UNCHANGED faults

\* Any step of the carry may fail.
Abandon(p) ==
  /\ pc[p] \in {"look", "carry", "create", "fill", "drop", "rmdir"}
  /\ faults < MaxFaults /\ faults' = faults + 1
  /\ GiveUp(p)

-----------------------------------------------------------------------------
(* GetDrives, ListSharedDrives with SetDrives, Clear, and the reset.       *)

Fresh(f) == now - f.at <= TTL   \* cli-common's Classify

\* Slip: an expired list is served too.
ServedAnyAge == IF IsList(file) THEN file ELSE Nil

\* GetDrives: a miss unless there is a readable list that has not expired.
Served == IF IsList(file) /\ Fresh(file) THEN file ELSE Nil

Read(p) == /\ End(p, "read")
           /\ UNCHANGED <<disk, still, faults, wiped>>

\* One page of the service: the next drives after the token, and the token
\* of the page to come, 0 (no token) when there is none.
After(n)     == {d \in drives : d > n}
PageFrom(n)  == {d \in After(n) : Cardinality({e \in After(n) : e < d}) < PageSize}
TokenFrom(n) == IF PageFrom(n) = After(n) THEN 0 ELSE Max(PageFrom(n))

\* Slip: the token is never taken over, every page is the first.
PageStuck(p) ==
  /\ list' = [list EXCEPT ![p] = @ \cup PageFrom(token[p])]
  /\ Goto(p, "list", IF TokenFrom(token[p]) = 0 THEN "store" ELSE "list")
  /\ UNCHANGED <<disk, still, faults, k, op, token, asked, flawed, wiped>>

\* One round of the loop in ListSharedDrives.
Page(p) ==
  /\ list' = [list EXCEPT ![p] = @ \cup PageFrom(token[p])]
  /\ token' = [token EXCEPT ![p] = TokenFrom(token[p])]
  /\ Goto(p, "list", IF TokenFrom(token[p]) = 0 THEN "store" ELSE "list")
  /\ UNCHANGED <<disk, still, faults, k, op, asked, flawed, wiped>>

\* SetDrives: a temporary file renamed over drives.json, dated now; a file
\* that was open under that name no longer has it.
Store(p) ==
  /\ End(p, "store")
  /\ file' = [is |-> "list", at |-> now, asked |-> asked[p], drives |-> list[p]]
  /\ open' = {} /\ wiped' = FALSE
  /\ UNCHANGED <<legacy, still, faults>>

\* Clear removes the instance's directory.
Clear(p) ==
  /\ End(p, "clear")
  /\ file' = Absent /\ open' = {}
  /\ UNCHANGED <<legacy, still, faults, wiped>>

\* `config clear --all`: os.RemoveAll(CacheDirPath()) ...
Reset(p) ==
  /\ Goto(p, "reset", "resetLegacy")
  /\ file' = Absent /\ open' = {}
  /\ UNCHANGED <<legacy, still, faults, k, mine>>

\* Slip: the old cache is left to the next New.
ResetNewOnly(p) ==
  /\ End(p, "resetLegacy") /\ wiped' = TRUE
  /\ UNCHANGED <<disk, still, faults>>

\* ... and os.RemoveAll(LegacyCacheDir()); the directory of an install that
\* kept its settings elsewhere is not removed.
ResetLegacy(p) ==
  /\ End(p, "resetLegacy")
  /\ legacy' = [legacy EXCEPT !["config"] = "none"] /\ wiped' = TRUE
  /\ UNCHANGED <<file, open, still, faults>>

\* The command fails: the service, a read or a write returns an error.
Fail(p) ==
  /\ pc[p] \in {"read", "list", "store", "clear", "reset", "resetLegacy"} /\ faults < MaxFaults
  /\ End(p, pc[p]) /\ faults' = faults + 1
  /\ UNCHANGED <<disk, still, wiped>>

\* The process is killed wherever it is.
Kill(p) ==
  /\ pc[p] # "idle" /\ faults < MaxFaults
  /\ End(p, pc[p]) /\ faults' = faults + 1 /\ open' = open \ {p}
  /\ UNCHANGED <<file, legacy, still, wiped>>

-----------------------------------------------------------------------------
\* A shared drive comes or goes; a day passes.
Change(d) ==
  /\ changes < MaxChanges /\ changes' = changes + 1
  /\ IF d \in drives THEN drives' = drives \ {d} /\ gone' = [gone EXCEPT ![d] = now] /\ UNCHANGED born
                     ELSE drives' = drives \cup {d} /\ born' = [born EXCEPT ![d] = now] /\ UNCHANGED gone
  /\ UNCHANGED <<disk, probes, now, alone, faults, pc, k, mine>>

Tick ==
  /\ now < MaxNow /\ now' = now + 1
  /\ UNCHANGED <<disk, probes, account, alone, faults, pc, k, mine>>

Migrate(p) == \/ Probe(p) \/ Look(p) \/ Carry(p) \/ Unreadable(p)
              \/ Create(p) \/ Fill(p) \/ Drop(p) \/ Rmdir(p)
Run(p)     == Opened(p) \/ Read(p) \/ Page(p) \/ Store(p) \/ Clear(p) \/ Reset(p) \/ ResetLegacy(p)

Next ==
  \/ \E p \in Procs : \/ \E o \in Ops : Start(p, o)
                      \/ Migrate(p) \/ Run(p) \/ Abandon(p) \/ Fail(p) \/ Kill(p)
  \/ \E d \in Drives : Change(d)
  \/ Tick

Spec == Init /\ [][Next]_vars

-----------------------------------------------------------------------------
\* A list that GetDrives returns was written less than the TTL ago, holds
\* every drive that has been there since before the refresh began to ask, and
\* none that had gone by then: however many pages the listing took, whatever
\* came and went between them, and whoever else was writing the file.
ServedTrue ==
  /\ TypeOK
  /\ (\E p \in Procs : pc[p] = "read") /\ Served # Nil =>
       /\ now - Served.at <= TTL
       /\ \A d \in drives : born[d] < Served.asked => d \in Served.drives
       /\ \A d \in Served.drives : d \in drives \/ gone[d] >= Served.asked

\* When New returns and no step of its carry has failed, no old cache that
\* could be read is left, in either of its places, even when another process
\* was carrying the same one.
CarriedOnce ==
  \A p \in Procs : pc[p] \in {"read", "list", "store", "clear"} /\ ~flawed[p] =>
    \A i \in DOMAIN probes : legacy[probes[i]] = "none"

\* While commands run one at a time, a list in the cache gives way only to
\* one asked for after it was written, to Clear or to a reset: neither an old
\* cache nor a carry cut short by a kill ever takes its place.
ListStays ==
  [][alone /\ IsList(file) /\ file' # file =>
       \/ IsList(file') /\ file'.asked >= file.at
       \/ \E p \in Procs : pc[p] \in {"clear", "reset"}]_vars

\* After a full reset nothing of any cache comes back before the next
\* refresh: the comment at configcmd/config.go:355, for commands run one at
\* a time on a system that keeps the settings where it always has.
ResetHolds == wiped /\ alone /\ Len(probes) = 1 => file = Absent /\ legacy["config"] = "none"

\* No page is asked for twice: while drives come and go under the paging
\* the token only advances, hence every refresh ends.
PagingAdvances ==
  [][\A p \in Procs : pc'[p] = "list" /\ list'[p] # list[p] => token'[p] > token[p]]_vars
=============================================================================
