------------------------------ MODULE ApiClient ------------------------------
(***************************************************************************)
(* One *gmail.Client shared by the goroutines of a process: the token      *)
(* source that refreshes and persists the OAuth token on the way out of    *)
(* every API call (keychain/token_source.go, auth/auth.go), and the label  *)
(* cache (gmail/client.go).  The token source has a mutex, the cache a     *)
(* sync.RWMutex, and FetchLabels keeps the latter locked during an API     *)
(* call, hence while the former is taken and the keyring is written.       *)
(*                                                                         *)
(* Operations: GetLabelID ("lookup"), GetMessage ("read"), and a change of *)
(* the account's labels through Client.Service() followed by               *)
(* InvalidateLabels ("change").  Every API call asks the token source; the *)
(* cache in front of it inside oauth2.NewClient is left out, so that the   *)
(* goroutines meet at the mutex more often.  Labels are abstracted to the  *)
(* version of the account's label set they were listed from.               *)
(***************************************************************************)
EXTENDS Integers, FiniteSets

CONSTANTS
  Threads,     \* goroutines using the client
  None,        \* holder of a free lock
  Ops,         \* the operations the goroutines call
  MaxRefresh,  \* bound on the refreshes of the access token
  MaxChanges   \* bound on the label changes

ASSUME ClientAssumption ==
  /\ None \notin Threads
  /\ Ops \subseteq {"lookup", "read", "change"}
  /\ MaxRefresh \in Nat \ {0} /\ MaxChanges \in Nat

Access  == 0..MaxRefresh  \* access tokens, in the order Google issues them
Version == 0..MaxChanges  \* the account's label sets, in order
Nil     == -1             \* a nil map

VARIABLES
  base, expired,   \* oauth2's own token and whether it has expired
  current,         \* PersistentTokenSource.current
  stored,          \* the access token in the keyring
  mu,              \* who holds PersistentTokenSource.mu
  writer, queue, readers,        \* labelsMu: holder, waiting writers, readers
  labels, labelsByName, loaded,  \* the cache
  version,         \* the account's labels
  pc, op, call,    \* per goroutine: control, operation, API call
  got, seen,       \* per goroutine: access token, answer of its API call
  persisted, failed,  \* history: access tokens written to the keyring, or not
  writes,          \* history: how often each was handed to the persister
  floor            \* history: the latest change InvalidateLabels has followed

tokens  == <<base, expired, current, stored, mu, persisted, failed, writes>>
lock    == <<writer, queue, readers>>
cache   == <<labels, labelsByName, loaded, floor>>
local   == <<op, call, got, seen>>
vars == <<tokens, lock, cache, version, local, pc>>

PCs == {"idle", "peek", "peeked", "wait", "locked", "resolve", "reply", "invalidate",
        "clear", "token", "refresh", "persist", "send", "answer"}

\* Every lock is held exactly where the code is between taking and releasing it.
TypeOK ==
  /\ base \in Access /\ current \in Access /\ stored \in Access /\ expired \in BOOLEAN
  /\ mu \in Threads \cup {None} /\ writer \in Threads \cup {None}
  /\ queue \subseteq Threads /\ readers \subseteq Threads
  /\ labels \in Version \cup {Nil} /\ labelsByName \in Version \cup {Nil}
  /\ loaded \in BOOLEAN /\ version \in Version /\ floor \in Version
  /\ pc \in [Threads -> PCs]
  /\ op \in [Threads -> {"lookup", "read", "change"}]
  /\ call \in [Threads -> {"list", "get", "change"}]
  /\ got \in [Threads -> Access] /\ seen \in [Threads -> Version]
  /\ persisted \subseteq Access /\ failed \subseteq Access
  /\ writes \in [Access -> Nat]
  /\ \A t \in Threads :
       /\ mu = t <=> pc[t] \in {"refresh", "persist"}
       /\ t \in readers <=> pc[t] \in {"peeked", "reply"}
       /\ t \in queue <=> pc[t] \in {"wait", "clear"}
       /\ writer = t <=> \/ pc[t] = "locked"
                         \/ /\ pc[t] \in {"token", "refresh", "persist", "send", "answer"}
                            /\ call[t] = "list"

Init ==
  /\ base = 0 /\ expired \in BOOLEAN /\ current = 0 /\ stored = 0 /\ mu = None
  /\ writer = None /\ queue = {} /\ readers = {}
  /\ labels = Nil /\ labelsByName = Nil /\ loaded = FALSE
  /\ version = 0 /\ floor = 0
  /\ pc = [t \in Threads |-> "idle"]
  /\ op = [t \in Threads |-> "lookup"] /\ call = [t \in Threads |-> "list"]
  /\ got = [t \in Threads |-> 0] /\ seen = [t \in Threads |-> 0]
  /\ persisted = {0} /\ failed = {} /\ writes = [a \in Access |-> 0]

Goto(t, from, to) == pc[t] = from /\ pc' = [pc EXCEPT ![t] = to]

-----------------------------------------------------------------------------
(* sync.RWMutex: a writer that waits keeps new readers out.                *)

RLock(t)   == writer = None /\ queue = {} /\ readers' = readers \cup {t} /\ UNCHANGED <<writer, queue>>
RUnlock(t) == readers' = readers \ {t} /\ UNCHANGED <<writer, queue>>
Ask(t)     == queue' = queue \cup {t} /\ UNCHANGED <<writer, readers>>
Lock(t)    == /\ writer = None /\ readers = {} /\ t \in queue
              /\ writer' = t /\ queue' = queue \ {t} /\ UNCHANGED readers
Unlock     == writer' = None /\ UNCHANGED <<queue, readers>>

\* Begin the API call c.
Request(t, from, c) == /\ Goto(t, from, "token")
                       /\ call' = [call EXCEPT ![t] = c]

-----------------------------------------------------------------------------
(* GetLabelID and GetMessage: FetchLabels, then their own lookup.          *)

Start(t, o) ==
  /\ op' = [op EXCEPT ![t] = o]
  /\ IF o = "change" THEN Request(t, "idle", "change")
                     ELSE Goto(t, "idle", "peek") /\ UNCHANGED call
  /\ UNCHANGED <<tokens, lock, cache, version, got, seen>>

\* FetchLabels has succeeded: GetMessage sends its own call, GetLabelID
\* looks the name up under a read lock of its own.
Fetched(t, from) == IF op[t] = "read" THEN Request(t, from, "get")
                                      ELSE Goto(t, from, "resolve") /\ UNCHANGED call

\* Under the read lock, look whether the labels are loaded.
Peek(t) ==
  /\ Goto(t, "peek", "peeked") /\ RLock(t)
  /\ UNCHANGED <<tokens, cache, version, local>>

\* Slip: the read lock is kept while the write lock is asked for.
PeekedUpgrades(t) ==
  /\ IF loaded
     THEN Fetched(t, "peeked") /\ RUnlock(t)
     ELSE /\ Goto(t, "peeked", "wait")
          /\ queue' = queue \cup {t}
          /\ UNCHANGED <<writer, readers, call>>
  /\ UNCHANGED <<tokens, cache, version, op, got, seen>>

Peeked(t) ==
  /\ IF loaded
     THEN Fetched(t, "peeked") /\ RUnlock(t)
     ELSE /\ Goto(t, "peeked", "wait")
          /\ readers' = readers \ {t} /\ queue' = queue \cup {t}
          /\ UNCHANGED <<writer, call>>
  /\ UNCHANGED <<tokens, cache, version, op, got, seen>>

\* Slip: the labels are listed without looking again.
RecheckSkipped(t) ==
  /\ Lock(t) /\ Request(t, "wait", "list")
  /\ UNCHANGED <<tokens, cache, version, op, got, seen>>

\* Under the write lock, look again; another goroutine may have listed them.
Recheck(t) ==
  /\ Lock(t)
  /\ IF loaded THEN Goto(t, "wait", "locked") /\ UNCHANGED call
               ELSE Request(t, "wait", "list")
  /\ UNCHANGED <<tokens, cache, version, op, got, seen>>

\* The listing has been answered: fill the cache.
Fill(t) ==
  /\ call[t] = "list" /\ Goto(t, "answer", "locked")
  /\ labels' = seen[t] /\ labelsByName' = seen[t] /\ loaded' = TRUE
  /\ UNCHANGED <<tokens, lock, version, local, floor>>

\* The deferred Unlock, on success.
Release(t) ==
  /\ Unlock /\ Fetched(t, "locked")
  /\ UNCHANGED <<tokens, cache, version, op, got, seen>>

\* The lookup in GetLabelID, or GetLabelName for the labels of a message.
Resolve(t) ==
  /\ Goto(t, "resolve", "reply") /\ RLock(t)
  /\ UNCHANGED <<tokens, cache, version, local>>

Reply(t) ==
  /\ Goto(t, "reply", "idle") /\ RUnlock(t)
  /\ UNCHANGED <<tokens, cache, version, local>>

-----------------------------------------------------------------------------
(* InvalidateLabels.                                                       *)

Invalidate(t) ==
  /\ Goto(t, "invalidate", "clear") /\ Ask(t)
  /\ UNCHANGED <<tokens, cache, version, local>>

Later(v, w) == IF v > w THEN v ELSE w

Cleared(t) ==
  /\ labels' = Nil /\ labelsByName' = Nil /\ loaded' = FALSE
  /\ floor' = Later(floor, seen[t])

\* Slip: the maps are cleared without waiting for the lock.
ClearUnlocked(t) ==
  /\ Goto(t, "clear", "idle")
  /\ queue' = queue \ {t} /\ UNCHANGED <<writer, readers>>
  /\ Cleared(t)
  /\ UNCHANGED <<tokens, version, local>>

\* Lock, clear, Unlock.
Clear(t) ==
  /\ Goto(t, "clear", "idle")
  /\ writer = None /\ readers = {}
  /\ queue' = queue \ {t} /\ UNCHANGED <<writer, readers>>
  /\ Cleared(t)
  /\ UNCHANGED <<tokens, version, local>>

-----------------------------------------------------------------------------
(* PersistentTokenSource.Token, asked by every API call.                   *)

\* Slip: the mutex is not taken.
TokenUnlocked(t) ==
  /\ Goto(t, "token", "refresh")
  /\ UNCHANGED <<tokens, lock, cache, version, local>>

Token(t) ==
  /\ Goto(t, "token", "refresh")
  /\ mu = None /\ mu' = t
  /\ UNCHANGED <<base, expired, current, stored, persisted, failed, writes>>
  /\ UNCHANGED <<lock, cache, version, local>>

\* base.Token: the token it has while that is valid, else a new one.
BaseToken(t) ==
  /\ expired' = FALSE
  /\ base' = IF expired THEN base + 1 ELSE base
  /\ got' = [got EXCEPT ![t] = base']

\* Slip: current is set before it is compared.
RefreshSetsCurrent(t) ==
  /\ Goto(t, "refresh", "persist") /\ BaseToken(t)
  /\ current' = base'
  /\ UNCHANGED <<stored, mu, persisted, failed, writes>>
  /\ UNCHANGED <<lock, cache, version, op, call, seen>>

Refresh(t) ==
  /\ Goto(t, "refresh", "persist") /\ BaseToken(t)
  /\ UNCHANGED <<current, stored, mu, persisted, failed, writes>>
  /\ UNCHANGED <<lock, cache, version, op, call, seen>>

\* A token that differs from current goes to the persister, whose failure is
\* only reported.  The deferred Unlock.
Persist(t) ==
  /\ Goto(t, "persist", "send") /\ mu' = None
  /\ current' = got[t]
  /\ IF got[t] = current THEN UNCHANGED <<stored, persisted, failed, writes>>
     ELSE /\ writes' = [writes EXCEPT ![got[t]] = @ + 1]
          /\ \/ stored' = got[t] /\ persisted' = persisted \cup {got[t]} /\ UNCHANGED failed
             \/ failed' = failed \cup {got[t]} /\ UNCHANGED <<stored, persisted>>
  /\ UNCHANGED <<base, expired, lock, cache, version, local>>

\* An operation ends with an error: FetchLabels' deferred Unlock.
Abort(t, from) ==
  /\ Goto(t, from, "idle")
  /\ IF writer = t THEN Unlock ELSE UNCHANGED lock

\* The refresh fails.
RefreshFails(t) ==
  /\ expired /\ Abort(t, "refresh") /\ mu' = None
  /\ UNCHANGED <<base, expired, current, stored, persisted, failed, writes>>
  /\ UNCHANGED <<cache, version, local>>

\* The service handles the call.
Send(t) ==
  /\ Goto(t, "send", "answer")
  /\ IF call[t] = "change" THEN version < MaxChanges /\ version' = version + 1
                           ELSE UNCHANGED version
  /\ seen' = [seen EXCEPT ![t] = version']
  /\ UNCHANGED <<tokens, lock, cache, op, call, got>>

\* Slip: FetchLabels returns the error with its lock held.
SendFailsLocked(t) ==
  /\ Goto(t, "send", "idle")
  /\ UNCHANGED <<tokens, lock, cache, version, local>>

\* The call fails.
SendFails(t) ==
  /\ Abort(t, "send")
  /\ UNCHANGED <<tokens, cache, version, local>>

\* The answer of a call other than the listing.
Answer(t) ==
  /\ \/ call[t] = "get" /\ Goto(t, "answer", "resolve")
     \/ call[t] = "change" /\ Goto(t, "answer", "invalidate")
  /\ UNCHANGED <<tokens, lock, cache, version, local>>

\* Google's clock.
Expire ==
  /\ ~expired /\ base < MaxRefresh /\ expired' = TRUE
  /\ UNCHANGED <<base, current, stored, mu, persisted, failed, writes>>
  /\ UNCHANGED <<lock, cache, version, local, pc>>

-----------------------------------------------------------------------------
Acquire(t) == Peek(t) \/ Recheck(t) \/ Resolve(t) \/ Clear(t) \/ Token(t)

Continue(t) ==
  \/ Peeked(t) \/ Fill(t) \/ Release(t) \/ Reply(t) \/ Invalidate(t)
  \/ Refresh(t) \/ Persist(t) \/ Send(t) \/ SendFails(t) \/ Answer(t)

Next ==
  \/ \E t \in Threads : \/ \E o \in Ops : Start(t, o)
                        \/ Acquire(t) \/ Continue(t) \/ RefreshFails(t)
  \/ Expire

Spec == Init /\ [][Next]_vars

\* A goroutine that can go on does; sync.Mutex hands over to a waiter that
\* has starved, and sync.RWMutex lets waiting readers in between two writers.
Fairness == \A t \in Threads : WF_vars(Continue(t)) /\ SF_vars(Acquire(t))

FairSpec == Spec /\ Fairness

-----------------------------------------------------------------------------
\* No API call is sent with an access token that the persister was not given:
\* what one goroutine refreshed is written before another can use it, and a
\* token that is not in the keyring is one whose write failed.  It is written
\* once, however many goroutines are given it.
RotationPersisted ==
  /\ \A t \in Threads : pc[t] \in {"send", "answer"} => got[t] \in persisted \cup failed
  /\ \A a \in Access : writes[a] <= 1

\* The keyring never goes back to an older token: two goroutines that refresh
\* one after the other persist in that order.
StoredForward == [][stored' >= stored]_stored

\* A cache that counts as loaded holds both maps, listed after every change
\* that InvalidateLabels has followed; a listing that was under way during
\* the change cannot fill it afterwards.
CacheFresh ==
  loaded /\ writer = None => labels = labelsByName /\ labels >= floor

\* The labels are never listed while they are loaded: goroutines that find
\* the cache empty together make one call between them.
ListedOnce ==
  \A t \in Threads : pc[t] = "send" /\ call[t] = "list" => ~loaded

\* Every operation returns, with an answer or an error: the label lock is
\* held across the token mutex and the API call, and is released by both.
EveryCallReturns == \A t \in Threads : pc[t] # "idle" ~> pc[t] = "idle"
=============================================================================
