-------------------------- MODULE ApiClient_proofs --------------------------
(* Theorems of ApiClient, for any set of goroutines, any number of         *)
(* refreshes and any number of label changes.                              *)
EXTENDS ApiClient, TLAPS

\* TypeOK in two parts: what each variable ranges over ...
Types ==
  /\ base \in Access /\ current \in Access /\ stored \in Access /\ expired \in BOOLEAN
  /\ mu \in Threads \cup {None} /\ writer \in Threads \cup {None}
  /\ queue \subseteq Threads /\ readers \subseteq Threads
  /\ labels \in Version \cup {Nil} /\ labelsByName \in Version \cup {Nil}
  /\ loaded \in BOOLEAN /\ version \in Version /\ floor \in Version
  /\ pc \in [Threads -> PCs]
  /\ op \in [Threads -> {"lookup", "read", "change"}]
  /\ call \in [Threads -> {"list", "get", "change"}]
  /\ got \in [Threads -> Access] /\ seen \in [Threads -> Version]
  /\ persisted \subseteq Access /\ failed \subseteq Access
  /\ writes \in [Access -> Nat]

Calling == {"token", "refresh", "persist", "send", "answer"}

\* ... and who holds which lock.
Held ==
  \A t \in Threads :
    /\ mu = t <=> pc[t] \in {"refresh", "persist"}
    /\ t \in readers <=> pc[t] \in {"peeked", "reply"}
    /\ t \in queue <=> pc[t] \in {"wait", "clear"}
    /\ writer = t <=> pc[t] = "locked" \/ (pc[t] \in Calling /\ call[t] = "list")

\* The type invariant in two parts: the types, and who holds what.
LEMMA TypeParts == TypeOK <=> Types /\ Held
  BY DEF TypeOK, Types, Held, Calling

\* A token that has expired is not the last one.
CanRefresh == expired => base < MaxRefresh

TypeInv == Types /\ Held /\ CanRefresh

\* Every step keeps the types.
LEMMA TypesStep == TypeInv /\ [Next]_vars => Types' /\ CanRefresh'
  <1> SUFFICES ASSUME TypeInv, [Next]_vars PROVE Types' /\ CanRefresh'
    OBVIOUS
  <1> USE ClientAssumption DEF TypeInv, Types, CanRefresh, tokens, lock, cache, local, Goto, PCs
  <1>1. CASE UNCHANGED vars
    BY <1>1 DEF vars
  <1>2. ASSUME NEW t \in Threads, NEW o \in Ops, Start(t, o)
        PROVE  Types' /\ CanRefresh'
    BY <1>2 DEF Start, Request
  <1>3. ASSUME NEW t \in Threads, Peek(t) \/ Resolve(t)
        PROVE  Types' /\ CanRefresh'
    BY <1>3 DEF Peek, Resolve, RLock
  <1>4. ASSUME NEW t \in Threads, Recheck(t)
        PROVE  Types' /\ CanRefresh'
    BY <1>4 DEF Recheck, Lock, Request
  <1>5. ASSUME NEW t \in Threads, Clear(t)
        PROVE  Types' /\ CanRefresh'
    BY <1>5 DEF Clear, Cleared, Later, Nil
  <1>6. ASSUME NEW t \in Threads, Token(t)
        PROVE  Types' /\ CanRefresh'
    BY <1>6 DEF Token
  <1>7. ASSUME NEW t \in Threads, Peeked(t)
        PROVE  Types' /\ CanRefresh'
    BY <1>7 DEF Peeked, Fetched, Request, RUnlock
  <1>8. ASSUME NEW t \in Threads, Fill(t)
        PROVE  Types' /\ CanRefresh'
    BY <1>8 DEF Fill
  <1>9. ASSUME NEW t \in Threads, Release(t)
        PROVE  Types' /\ CanRefresh'
    BY <1>9 DEF Release, Unlock, Fetched, Request
  <1>10. ASSUME NEW t \in Threads, Reply(t) \/ Invalidate(t) \/ Answer(t)
         PROVE  Types' /\ CanRefresh'
    BY <1>10 DEF Reply, RUnlock, Invalidate, Ask, Answer
  <1>11. ASSUME NEW t \in Threads, Refresh(t)
         PROVE  Types' /\ CanRefresh'
    <2>1. base' \in Access /\ expired' = FALSE
      BY <1>11 DEF Refresh, BaseToken, Access
    <2> QED
      BY <1>11, <2>1 DEF Refresh, BaseToken
  <1>12. ASSUME NEW t \in Threads, Persist(t)
         PROVE  Types' /\ CanRefresh'
    BY <1>12 DEF Persist
  <1>13. ASSUME NEW t \in Threads, RefreshFails(t) \/ SendFails(t)
         PROVE  Types' /\ CanRefresh'
    BY <1>13 DEF RefreshFails, SendFails, Abort, Unlock
  <1>14. ASSUME NEW t \in Threads, Send(t)
         PROVE  Types' /\ CanRefresh'
    <2>1. version' \in Version
      BY <1>14 DEF Send, Version
    <2> QED
      BY <1>14, <2>1 DEF Send
  <1>15. CASE Expire
    BY <1>15 DEF Expire
  <1> QED
    BY <1>1, <1>2, <1>3, <1>4, <1>5, <1>6, <1>7, <1>8, <1>9, <1>10, <1>11, <1>12,
       <1>13, <1>14, <1>15 DEF Next, Acquire, Continue

\* Every step keeps the locks with their holders.
LEMMA HeldStep == TypeInv /\ [Next]_vars => Held'
  <1> SUFFICES ASSUME TypeInv, [Next]_vars PROVE Held'
    OBVIOUS
  <1>0. /\ pc \in [Threads -> PCs] /\ call \in [Threads -> {"list", "get", "change"}]
        /\ None \notin Threads /\ Held
    BY ClientAssumption DEF TypeInv, Types
  <1> USE <1>0 DEF Held, Calling, tokens, lock, cache, local, Goto
  <1>1. CASE UNCHANGED vars
    BY <1>1 DEF vars
  <1>2. ASSUME NEW t \in Threads, NEW o \in Ops, Start(t, o)
        PROVE  Held'
    BY <1>2 DEF Start, Request
  <1>3. ASSUME NEW t \in Threads, Peek(t) \/ Resolve(t)
        PROVE  Held'
    BY <1>3 DEF Peek, Resolve, RLock
  <1>4. ASSUME NEW t \in Threads, Recheck(t)
        PROVE  Held'
    BY <1>4 DEF Recheck, Lock, Request
  <1>5. ASSUME NEW t \in Threads, Clear(t)
        PROVE  Held'
    BY <1>5 DEF Clear
  <1>6. ASSUME NEW t \in Threads, Token(t)
        PROVE  Held'
    BY <1>6 DEF Token
  <1>7. ASSUME NEW t \in Threads, Peeked(t)
        PROVE  Held'
    BY <1>7 DEF Peeked, Fetched, Request, RUnlock
  <1>8. ASSUME NEW t \in Threads, Fill(t)
        PROVE  Held'
    BY <1>8 DEF Fill
  <1>9. ASSUME NEW t \in Threads, Release(t)
        PROVE  Held'
    BY <1>9 DEF Release, Unlock, Fetched, Request
  <1>10. ASSUME NEW t \in Threads, Reply(t) \/ Invalidate(t) \/ Answer(t)
         PROVE  Held'
    BY <1>10 DEF Reply, RUnlock, Invalidate, Ask, Answer
  <1>11. ASSUME NEW t \in Threads, Refresh(t) \/ Persist(t) \/ Send(t)
         PROVE  Held'
    BY <1>11 DEF Refresh, Persist, Send
  <1>12. ASSUME NEW t \in Threads, RefreshFails(t) \/ SendFails(t)
         PROVE  Held'
    BY <1>12 DEF RefreshFails, SendFails, Abort, Unlock
  <1>13. CASE Expire
    BY <1>13 DEF Expire
  <1> QED
    BY <1>1, <1>2, <1>3, <1>4, <1>5, <1>6, <1>7, <1>8, <1>9, <1>10, <1>11, <1>12,
       <1>13 DEF Next, Acquire, Continue

\* The initial states have the types.
LEMMA InitTypes == Init => TypeInv
  <1> SUFFICES ASSUME Init PROVE TypeInv
    OBVIOUS
  <1>0. 0 \in Access /\ 0 \in Version
    BY ClientAssumption DEF Access, Version
  <1>1. Types
    BY <1>0 DEF Init, Types, PCs
  <1>2. Held /\ CanRefresh
    BY ClientAssumption DEF Init, Held, Calling, CanRefresh
  <1> QED
    BY <1>1, <1>2 DEF TypeInv

\* Whatever the goroutines do and whatever fails, both locks are held exactly
\* between the place that takes them and the one that releases them.
THEOREM TypeCorrect == Spec => []TypeOK
  <1>1. TypeInv /\ [Next]_vars => TypeInv'
    BY TypesStep, HeldStep DEF TypeInv
  <1>2. TypeInv => TypeOK
    BY TypeParts DEF TypeInv
  <1> QED
    BY <1>1, <1>2, InitTypes, PTL DEF Spec

-----------------------------------------------------------------------------
(* The token.                                                              *)

\* Only the goroutine that holds the mutex between its refresh and its write
\* can have a token ahead of current, and it is the one oauth2 has.
Ahead ==
  /\ current <= base /\ stored <= current
  /\ \A t \in Threads : pc[t] = "persist" => got[t] = base
  /\ base # current => \E t \in Threads : pc[t] = "persist"

\* Every token up to current was handed over once, no later one was.
HandedOver ==
  /\ current \in persisted \cup failed
  /\ \A a \in Access : writes[a] <= 1 /\ (a > current => writes[a] = 0)
  /\ RotationPersisted

TokenInv == TypeInv /\ Ahead /\ HandedOver

\* Every step keeps the tokens in order and handed over.
LEMMA TokenStep == TokenInv /\ [Next]_vars => TokenInv'
  <1> SUFFICES ASSUME TokenInv, [Next]_vars PROVE TokenInv'
    OBVIOUS
  <1>0. TypeInv /\ TypeInv'
    BY TypesStep, HeldStep DEF TypeInv, TokenInv
  <1>1. /\ base \in Nat /\ current \in Nat /\ stored \in Nat
        /\ writes \in [Access -> Nat] /\ Access \subseteq Nat
        /\ pc \in [Threads -> PCs] /\ got \in [Threads -> Access]
    <2>1. Access \subseteq Nat
      BY ClientAssumption DEF Access
    <2> QED
      BY <1>0, <2>1 DEF TypeInv, Types
  <1> USE DEF tokens, lock, cache, local, Goto
  <1>2. ASSUME UNCHANGED <<base, current, stored, persisted, failed, writes, got>>,
               \A t \in Threads : pc'[t] \in {"persist", "send", "answer"} =>
                 \/ pc[t] = pc'[t]
                 \/ pc[t] = "send" /\ pc'[t] = "answer",
               \A t \in Threads : pc[t] = "persist" => pc'[t] = "persist"
        PROVE  TokenInv'
    BY <1>0, <1>2 DEF TokenInv, Ahead, HandedOver, RotationPersisted
  <1>3. ASSUME NEW t \in Threads, Refresh(t)
        PROVE  TokenInv'
    <2>1. /\ pc[t] = "refresh" /\ pc' = [pc EXCEPT ![t] = "persist"]
          /\ base' \in {base, base + 1} /\ got' = [got EXCEPT ![t] = base']
          /\ UNCHANGED <<current, stored, persisted, failed, writes>>
      BY <1>3 DEF Refresh, BaseToken
    <2>2. \A q \in Threads : pc[q] # "persist"
      BY <1>0, <2>1 DEF TypeInv, Held
    <2>3. base = current
      BY <2>2 DEF TokenInv, Ahead
    <2>4. Ahead'
      BY <1>1, <2>1, <2>2, <2>3 DEF TokenInv, Ahead
    <2>5. HandedOver'
      BY <1>1, <2>1 DEF TokenInv, HandedOver, RotationPersisted
    <2> QED
      BY <1>0, <2>4, <2>5 DEF TokenInv
  <1>4. ASSUME NEW t \in Threads, Persist(t)
        PROVE  TokenInv'
    <2>1. /\ pc[t] = "persist" /\ pc' = [pc EXCEPT ![t] = "send"]
          /\ current' = base /\ got[t] = base
          /\ UNCHANGED <<base, got>>
      BY <1>4 DEF Persist, TokenInv, Ahead
    <2>2. \A q \in Threads \ {t} : pc[q] # "persist"
      BY <1>0, <2>1 DEF TypeInv, Held
    <2>3. CASE base = current
      <3>1. UNCHANGED <<stored, persisted, failed, writes>>
        BY <1>4, <2>1, <2>3 DEF Persist
      <3>2. Ahead'
        BY <1>1, <2>1, <2>2, <2>3, <3>1 DEF TokenInv, Ahead
      <3>3. HandedOver'
        BY <1>1, <2>1, <2>3, <3>1 DEF TokenInv, HandedOver, RotationPersisted
      <3> QED
        BY <1>0, <3>2, <3>3 DEF TokenInv
    <2>4. CASE base # current
      <3>1. /\ writes' = [writes EXCEPT ![base] = @ + 1]
            /\ \/ stored' = base /\ persisted' = persisted \cup {base} /\ failed' = failed
               \/ failed' = failed \cup {base} /\ UNCHANGED <<stored, persisted>>
        BY <1>4, <2>1, <2>4 DEF Persist
      <3>2. base > current /\ base \in Access
        BY <1>0, <1>1, <2>4 DEF TokenInv, Ahead, TypeInv, Types
      <3>3. Ahead'
        BY <1>1, <2>1, <2>2, <3>1, <3>2 DEF TokenInv, Ahead
      <3>4. HandedOver'
        BY <1>1, <2>1, <3>1, <3>2 DEF TokenInv, HandedOver, RotationPersisted
      <3> QED
        BY <1>0, <3>3, <3>4 DEF TokenInv
    <2> QED
      BY <2>3, <2>4
  <1>5. CASE UNCHANGED vars
    BY <1>2, <1>5 DEF vars
  <1>6. ASSUME NEW t \in Threads, NEW o \in Ops, Start(t, o)
        PROVE  TokenInv'
    BY <1>1, <1>2, <1>6 DEF Start, Request
  <1>7. ASSUME NEW t \in Threads, Acquire(t)
        PROVE  TokenInv'
    BY <1>1, <1>2, <1>7 DEF Acquire, Peek, Recheck, Resolve, Clear, Token, RLock, Lock,
                            Request
  <1>8. ASSUME NEW t \in Threads,
               \/ Peeked(t) \/ Fill(t) \/ Release(t) \/ Reply(t) \/ Invalidate(t)
               \/ Send(t) \/ SendFails(t) \/ Answer(t)
        PROVE  TokenInv'
    BY <1>1, <1>2, <1>8 DEF Peeked, Fill, Release, Reply, Invalidate, Send, SendFails,
                            Answer, Fetched, Request, Abort
  <1>9. ASSUME NEW t \in Threads, RefreshFails(t)
        PROVE  TokenInv'
    BY <1>1, <1>2, <1>9 DEF RefreshFails, Abort
  <1>10. CASE Expire
    BY <1>2, <1>10 DEF Expire
  <1> QED
    BY <1>3, <1>4, <1>5, <1>6, <1>7, <1>8, <1>9, <1>10 DEF Next, Continue

\* The invariant holds at the start.
LEMMA TokenInit == Init => TokenInv
  <1> SUFFICES ASSUME Init PROVE TokenInv
    OBVIOUS
  <1>1. TypeInv
    BY InitTypes
  <1>2. Ahead /\ HandedOver
    BY ClientAssumption DEF Init, Ahead, HandedOver, RotationPersisted, Access
  <1> QED
    BY <1>1, <1>2 DEF TokenInv

\* However many goroutines refresh at once and whichever writes fail, no call
\* is sent with a token the keyring was not given, and each is given it once.
THEOREM RotationIsPersisted == Spec => []RotationPersisted
  <1>1. TokenInv => RotationPersisted
    BY DEF TokenInv, HandedOver
  <1> QED
    BY <1>1, TokenInit, TokenStep, PTL DEF Spec

\* The token in the keyring is never overwritten by an older one.
THEOREM NeverStoredBack == Spec => StoredForward
  <1>1. TokenInv /\ [Next]_vars => [stored' >= stored]_stored
    <2> SUFFICES ASSUME TokenInv, [Next]_vars, stored' # stored PROVE stored' >= stored
      OBVIOUS
    <2>1. PICK t \in Threads : Persist(t)
      BY DEF Next, vars, tokens, Acquire, Continue, Start, Peek, Recheck, Resolve, Clear, Token,
             Peeked, Fill, Release, Reply, Invalidate, Refresh, Send, SendFails, Answer,
             RefreshFails, Expire
    <2>2. stored' = base
      BY <2>1 DEF Persist, Goto, TokenInv, Ahead
    <2>3. stored <= base
      BY ClientAssumption DEF TokenInv, Ahead, TypeInv, Types, Access
    <2>4. base \in Int /\ stored \in Int
      BY ClientAssumption DEF TokenInv, TypeInv, Types, Access
    <2> QED
      BY <2>2, <2>3, <2>4
  <1> QED
    BY <1>1, TokenInit, TokenStep, PTL DEF Spec, StoredForward

-----------------------------------------------------------------------------
(* The label cache.                                                        *)

\* A listing under way finds the cache empty, and its answer is no older than
\* what InvalidateLabels has followed, which waits for the listing.
Listing ==
  \A t \in Threads :
    /\ pc[t] \in Calling /\ call[t] = "list" => ~loaded
    /\ pc[t] = "answer" /\ call[t] = "list" => seen[t] >= floor

\* Nobody has seen labels that are yet to come; what is loaded is no older
\* than what InvalidateLabels has followed.
Recent ==
  /\ floor <= version /\ \A t \in Threads : seen[t] <= version
  /\ loaded => labels = labelsByName /\ labels >= floor

CacheInv == TypeInv /\ Listing /\ Recent

\* Every step keeps the cache recent and the listings exclusive.
LEMMA CacheStep == CacheInv /\ [Next]_vars => CacheInv'
  <1> SUFFICES ASSUME CacheInv, [Next]_vars PROVE CacheInv'
    OBVIOUS
  <1>0. TypeInv /\ TypeInv'
    BY TypesStep, HeldStep DEF TypeInv, CacheInv
  <1>1. /\ version \in Int /\ floor \in Int /\ seen \in [Threads -> Int]
        /\ pc \in [Threads -> PCs] /\ call \in [Threads -> {"list", "get", "change"}]
    <2>1. Version \subseteq Int
      BY ClientAssumption DEF Version
    <2> QED
      BY <1>0, <2>1 DEF TypeInv, Types
  <1>2. Held /\ None \notin Threads
    BY <1>0, ClientAssumption DEF TypeInv
  <1> USE DEF tokens, lock, cache, local, Goto, Calling
  <1>3. ASSUME UNCHANGED <<labels, labelsByName, loaded, floor, version, seen>>,
               \A t \in Threads :
                 /\ pc'[t] \in Calling /\ call'[t] = "list" =>
                      (pc[t] \in Calling /\ call[t] = "list") \/ ~loaded
                 /\ pc'[t] = "answer" /\ call'[t] = "list" =>
                      pc[t] = "answer" /\ call[t] = "list"
        PROVE  CacheInv'
    BY <1>0, <1>3 DEF CacheInv, Listing, Recent
  <1>4. ASSUME NEW t \in Threads, Send(t)
        PROVE  CacheInv'
    <2>1. /\ pc[t] = "send" /\ pc' = [pc EXCEPT ![t] = "answer"]
          /\ version' \in {version, version + 1} /\ seen' = [seen EXCEPT ![t] = version']
          /\ UNCHANGED <<labels, labelsByName, loaded, floor, call>>
      BY <1>4 DEF Send
    <2>2. Recent'
      BY <1>1, <2>1 DEF CacheInv, Recent
    <2>3. Listing'
      BY <1>1, <2>1 DEF CacheInv, Recent, Listing
    <2> QED
      BY <1>0, <2>2, <2>3 DEF CacheInv
  <1>5. ASSUME NEW t \in Threads, Fill(t)
        PROVE  CacheInv'
    <2>1. /\ pc[t] = "answer" /\ call[t] = "list" /\ pc' = [pc EXCEPT ![t] = "locked"]
          /\ labels' = seen[t] /\ labelsByName' = seen[t] /\ loaded' = TRUE
          /\ UNCHANGED <<floor, version, seen, call>>
      BY <1>5 DEF Fill
    <2>2. writer = t /\ \A q \in Threads \ {t} : ~(pc[q] \in Calling /\ call[q] = "list")
      BY <1>2, <2>1 DEF Held
    <2>3. Listing'
      BY <1>1, <2>1, <2>2 DEF Listing
    <2>4. Recent'
      BY <1>1, <2>1 DEF CacheInv, Recent, Listing
    <2> QED
      BY <1>0, <2>3, <2>4 DEF CacheInv
  <1>6. ASSUME NEW t \in Threads, Clear(t)
        PROVE  CacheInv'
    <2>1. /\ writer = None /\ pc' = [pc EXCEPT ![t] = "idle"]
          /\ loaded' = FALSE /\ floor' \in {floor, seen[t]}
          /\ UNCHANGED <<version, seen, call>>
      BY <1>6 DEF Clear, Cleared, Later
    <2>2. \A q \in Threads : ~(pc[q] \in Calling /\ call[q] = "list")
      BY <1>2, <2>1 DEF Held
    <2>3. Listing'
      BY <1>1, <2>1, <2>2 DEF Listing
    <2>4. Recent'
      BY <1>1, <2>1 DEF CacheInv, Recent
    <2> QED
      BY <1>0, <2>3, <2>4 DEF CacheInv
  <1>7. CASE UNCHANGED vars
    BY <1>3, <1>7 DEF vars
  <1>8. ASSUME NEW t \in Threads, NEW o \in Ops, Start(t, o)
        PROVE  CacheInv'
    BY <1>1, <1>3, <1>8 DEF Start, Request
  <1>9. ASSUME NEW t \in Threads,
               Peek(t) \/ Recheck(t) \/ Resolve(t) \/ Token(t)
        PROVE  CacheInv'
    BY <1>1, <1>3, <1>9 DEF Peek, Recheck, Resolve, Token, Request
  <1>10. ASSUME NEW t \in Threads,
                \/ Peeked(t) \/ Release(t) \/ Reply(t) \/ Invalidate(t)
                \/ Refresh(t) \/ Persist(t) \/ SendFails(t) \/ Answer(t)
                \/ RefreshFails(t)
         PROVE  CacheInv'
    BY <1>1, <1>3, <1>10 DEF Peeked, Release, Reply, Invalidate, Refresh, Persist,
                             SendFails, Answer, RefreshFails, Abort, Fetched, Request
  <1>11. CASE Expire
    BY <1>3, <1>11 DEF Expire
  <1> QED
    BY <1>4, <1>5, <1>6, <1>7, <1>8, <1>9, <1>10, <1>11 DEF Next, Acquire, Continue

\* The invariant holds at the start.
LEMMA CacheInit == Init => CacheInv
  <1> SUFFICES ASSUME Init PROVE CacheInv
    OBVIOUS
  <1>1. Listing /\ Recent
    BY DEF Init, Listing, Recent, Calling
  <1> QED
    BY <1>1, InitTypes DEF CacheInv

\* For any number of goroutines, a loaded cache holds both maps and is never
\* older than a change that InvalidateLabels has followed.
THEOREM CacheIsFresh == Spec => []CacheFresh
  <1>1. CacheInv => CacheFresh
    BY DEF CacheInv, Recent, CacheFresh
  <1> QED
    BY <1>1, CacheInit, CacheStep, PTL DEF Spec

\* For any number of goroutines, no listing is sent while the labels are
\* loaded.
THEOREM ListedOnlyOnce == Spec => []ListedOnce
  <1>1. CacheInv => ListedOnce
    BY DEF CacheInv, Listing, ListedOnce, Calling
  <1> QED
    BY <1>1, CacheInit, CacheStep, PTL DEF Spec
=============================================================================
