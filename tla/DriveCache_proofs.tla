-------------------------- MODULE DriveCache_proofs --------------------------
(* Theorems of DriveCache, for any processes, drives and sizes of a page,  *)
(* any TTL, and any number of changes and faults.                          *)
EXTENDS DriveCache, FiniteSetTheorems, TLAPS

Carrying == {"look", "carry", "create", "fill", "drop", "rmdir"}
Serving  == {"read", "list", "store", "clear"}
Places   == {"config", "old"}

Count == Len(probes)

\* What the old caches and the processes' places among them range over.
Types ==
  /\ Count \in {1, 2}
  /\ legacy \in [Places -> {"none", "empty", "foreign", "odd"}]
  /\ pc \in [Procs -> {"idle", "probe", "look", "carry", "create", "fill", "drop", "rmdir",
                       "read", "list", "store", "clear", "reset", "resetLegacy"}]
  /\ k \in [Procs -> 1..3] /\ flawed \in [Procs -> BOOLEAN]
  /\ asked \in [Procs -> Nat] /\ now \in Nat
  /\ alone \in BOOLEAN /\ wiped \in BOOLEAN

\* A process deals with the old caches in turn, and serves behind the last.
InTurn ==
  \A p \in Procs :
    /\ pc[p] \in Carrying => k[p] <= Count
    /\ pc[p] \in {"idle", "reset", "resetLegacy"} => k[p] = 1
    /\ pc[p] \in {"probe"} => k[p] <= Count + 1
    /\ pc[p] \in Serving => k[p] = Count + 1

\* Behind a process whose steps have not failed there is no old cache left.
Behind ==
  \A p \in Procs : ~flawed[p] => \A i \in 1..k[p]-1 : legacy[probes[i]] = "none"

\* The old caches are looked for in their places.
Probing == DOMAIN probes = 1..Count /\ \A i \in 1..Count : probes[i] \in Places

CarryInv == Types /\ Probing /\ InTurn /\ Behind

\* Where the old caches may be does not change.
LEMMA ProbesStay == [Next]_vars => probes' = probes
  BY DEF Next, Migrate, Run, Start, Probe, Look, Carry, Unreadable, Create, Fill, Drop, Rmdir,
         Opened, Read, Page, Store, Clear, Reset, ResetLegacy, Abandon, GiveUp, Fail, Kill,
         Change, Tick, vars, still

\* No step puts an old cache back.
LEMMA NoneComesBack ==
  ASSUME Types, [Next]_vars
  PROVE  \A x \in Places : legacy[x] = "none" => legacy'[x] = "none"
  <1> USE DEF Types, Places
  <1>1. legacy' = legacy
        \/ \E p \in Procs : legacy' = [legacy EXCEPT ![At(p)] = IF @ = "none" THEN "none" ELSE "empty"]
        \/ \E x : legacy' = [legacy EXCEPT ![x] = "none"]
    BY DEF Next, Migrate, Run, Start, Probe, Look, Carry, Unreadable, Create, Fill, Drop, Rmdir,
           Opened, Read, Page, Store, Clear, Reset, ResetLegacy, Abandon, GiveUp, Fail, Kill,
           Change, Tick, vars, disk, still, account
  <1> QED
    BY <1>1

\* Every step keeps the types and the turn.
LEMMA TurnStep == Types /\ InTurn /\ [Next]_vars => Types' /\ InTurn'
  <1> SUFFICES ASSUME Types, InTurn, [Next]_vars PROVE Types' /\ InTurn'
    OBVIOUS
  <1>0. probes' = probes /\ Count' = Count
    BY ProbesStay DEF Count
  <1> USE <1>0 DEF Types, InTurn, Carrying, Serving, Places, still, account, mine, fetch, disk,
                   Goto, NextOne, At
  <1>1. CASE UNCHANGED vars
    BY <1>1 DEF vars
  <1>2. ASSUME NEW p \in Procs, NEW o \in Ops, Start(p, o)
        PROVE  Types' /\ InTurn'
    BY <1>2 DEF Start
  <1>3. ASSUME NEW p \in Procs, Probe(p)
        PROVE  Types' /\ InTurn'
    <2>1. k[p] \in Nat /\ k[p] <= Count
      BY <1>3 DEF Probe, Count
    <2>2. CASE legacy[At(p)] = "none"
      <3>1. k' = [k EXCEPT ![p] = @ + 1] /\ pc' = [pc EXCEPT ![p] = "probe"] /\ legacy' = legacy
        BY <1>3, <2>2 DEF Probe
      <3> QED
        BY <1>3, <2>1, <3>1 DEF Probe
    <2>3. CASE legacy[At(p)] # "none"
      BY <1>3, <2>1, <2>3 DEF Probe
    <2> QED
      BY <2>2, <2>3
  <1>4. ASSUME NEW p \in Procs, Look(p)
        PROVE  Types' /\ InTurn'
    BY <1>4 DEF Look
  <1>5. ASSUME NEW p \in Procs, Carry(p)
        PROVE  Types' /\ InTurn'
    BY <1>5 DEF Carry
  <1>6. ASSUME NEW p \in Procs, Create(p) \/ Fill(p) \/ Drop(p)
        PROVE  Types' /\ InTurn'
    BY <1>6 DEF Create, Fill, Drop
  <1>7. ASSUME NEW p \in Procs, Rmdir(p)
        PROVE  Types' /\ InTurn'
    <2>1. legacy' \in [Places -> {"none", "empty", "foreign", "odd"}]
      BY <1>7 DEF Rmdir
    <2>2. k' = [k EXCEPT ![p] = @ + 1] /\ pc' = [pc EXCEPT ![p] = "probe"] /\ k[p] <= Count
      BY <1>7 DEF Rmdir
    <2> QED
      BY <1>7, <2>1, <2>2 DEF Rmdir
  <1>8. ASSUME NEW p \in Procs, Unreadable(p) \/ Abandon(p)
        PROVE  Types' /\ InTurn'
    <2>1. pc[p] \in Carrying /\ GiveUp(p)
      BY <1>8 DEF Unreadable, Abandon
    <2> QED
      BY <2>1 DEF GiveUp
  <1>9. ASSUME NEW p \in Procs, Opened(p)
        PROVE  Types' /\ InTurn'
    <2>0. k[p] > Count
      BY <1>9 DEF Opened, Count
    <2>1. k[p] = Count + 1
      BY <1>9, <2>0 DEF Opened
    <2> QED
      BY <1>9, <2>1 DEF Opened
  <1>10. ASSUME NEW p \in Procs, Page(p)
         PROVE  Types' /\ InTurn'
    BY <1>10 DEF Page
  <1>11. ASSUME NEW p \in Procs, Reset(p)
         PROVE  Types' /\ InTurn'
    BY <1>11 DEF Reset
  <1>12. ASSUME NEW p \in Procs, Read(p) \/ Store(p) \/ Clear(p) \/ ResetLegacy(p) \/ Fail(p) \/ Kill(p)
         PROVE  Types' /\ InTurn'
    <2>1. End(p, pc[p]) /\ UNCHANGED still
      BY <1>12 DEF Read, Store, Clear, ResetLegacy, Fail, Kill, End
    <2>2. legacy' = legacy \/ legacy' = [legacy EXCEPT !["config"] = "none"]
      BY <1>12 DEF Read, Store, Clear, ResetLegacy, Fail, Kill
    <2>3. wiped' \in BOOLEAN
      BY <1>12 DEF Read, Store, Clear, ResetLegacy, Fail, Kill
    <2> QED
      BY <2>1, <2>2, <2>3 DEF End
  <1>13. ASSUME NEW d \in Drives, Change(d)
         PROVE  Types' /\ InTurn'
    BY <1>13 DEF Change
  <1>14. CASE Tick
    BY <1>14 DEF Tick
  <1> QED
    BY <1>1, <1>2, <1>3, <1>4, <1>5, <1>6, <1>7, <1>8, <1>9, <1>10, <1>11, <1>12, <1>13, <1>14
       DEF Next, Migrate, Run

\* Every step of a process that goes on to the next old cache leaves none behind.
LEMMA BehindStep == CarryInv /\ [Next]_vars => Behind'
  <1> SUFFICES ASSUME CarryInv, [Next]_vars PROVE Behind'
    OBVIOUS
  <1>0. /\ Types /\ InTurn /\ Behind /\ Types' /\ probes' = probes
        /\ \A x \in Places : legacy[x] = "none" => legacy'[x] = "none"
        /\ Probing
    BY ProbesStay, TurnStep, NoneComesBack DEF CarryInv
  <1>1. ASSUME NEW p \in Procs,
               \/ k'[p] = k[p] /\ flawed'[p] = flawed[p]
               \/ k'[p] = 1
               \/ flawed'[p]
               \/ /\ k'[p] = k[p] + 1 /\ flawed'[p] = flawed[p] /\ k[p] <= Count
                  /\ legacy'[probes[k[p]]] = "none"
        PROVE  ~flawed'[p] => \A i \in 1..k'[p]-1 : legacy'[probes'[i]] = "none"
    <2> SUFFICES ASSUME ~flawed'[p], NEW i \in 1..k'[p]-1 PROVE legacy'[probes[i]] = "none"
      BY <1>0
    <2>0. k[p] \in 1..3 /\ k'[p] \in 1..3 /\ k[p] <= Count + 1 /\ flawed[p] \in BOOLEAN
      BY <1>0 DEF Types, InTurn, Carrying, Serving
    <2>1. CASE i = k[p] /\ k'[p] = k[p] + 1 /\ legacy'[probes[k[p]]] = "none"
      BY <2>1
    <2>2. CASE i < k[p] /\ ~flawed[p]
      <3>1. i \in 1..k[p]-1 /\ i \in 1..Count
        BY <1>0, <2>0, <2>2 DEF Types
      <3> QED
        BY <1>0, <2>2, <3>1 DEF Behind, Probing
    <2> QED
      BY <1>1, <2>0, <2>1, <2>2
  <1>2. ASSUME NEW p \in Procs
        PROVE  \/ k'[p] = k[p] /\ flawed'[p] = flawed[p]
               \/ k'[p] = 1
               \/ flawed'[p]
               \/ /\ k'[p] = k[p] + 1 /\ flawed'[p] = flawed[p] /\ k[p] <= Count
                  /\ legacy'[probes[k[p]]] = "none"
    <2> USE <1>0 DEF Types, Goto, NextOne, At
    <2>1. CASE UNCHANGED <<k, flawed>>
      BY <2>1
    <2>2. ASSUME NEW q \in Procs, Probe(q)
          PROVE  \/ UNCHANGED <<k, flawed>>
                 \/ /\ k[q] <= Count /\ legacy[probes[k[q]]] = "none"
                    /\ k' = [k EXCEPT ![q] = @ + 1] /\ UNCHANGED <<legacy, flawed>>
      <3>1. k[q] <= Count
        BY <2>2 DEF Probe, Count
      <3> QED
        BY <2>2, <3>1 DEF Probe, disk, mine
    <2>3. ASSUME NEW q \in Procs, Rmdir(q)
          PROVE  /\ k[q] <= Count /\ legacy'[probes[k[q]]] = "none"
                 /\ k' = [k EXCEPT ![q] = @ + 1] /\ UNCHANGED flawed
      <3>1. k[q] \in 1..Count
        BY <2>3 DEF Rmdir, InTurn, Carrying
      <3>2. probes[k[q]] \in Places
        BY <1>0, <3>1 DEF Probing
      <3> QED
        BY <2>3, <3>1, <3>2 DEF Rmdir, mine
    <2>4. ASSUME NEW q \in Procs, GiveUp(q)
          PROVE  k' = [k EXCEPT ![q] = @ + 1] /\ flawed' = [flawed EXCEPT ![q] = TRUE]
      BY <2>4 DEF GiveUp
    <2>5. ASSUME NEW q \in Procs, End(q, pc[q])
          PROVE  k' = [k EXCEPT ![q] = 1] /\ flawed' = [flawed EXCEPT ![q] = FALSE]
      BY <2>5 DEF End
    <2>6. \/ UNCHANGED <<k, flawed>>
          \/ \E q \in Procs : Probe(q) \/ Rmdir(q) \/ GiveUp(q) \/ End(q, pc[q])
      BY DEF Next, Migrate, Run, Start, Look, Carry, Unreadable, Create, Fill, Drop,
             Opened, Read, Page, Store, Clear, Reset, ResetLegacy, Abandon, Fail, Kill,
             Change, Tick, vars, account, End, mine
    <2>7. ASSUME NEW q \in Procs, Probe(q) \/ Rmdir(q)
          PROVE  \/ UNCHANGED <<k, flawed>>
                 \/ /\ k[q] <= Count /\ legacy'[probes[k[q]]] = "none"
                    /\ k' = [k EXCEPT ![q] = @ + 1] /\ UNCHANGED flawed
      BY <2>2, <2>3, <2>7
    <2> QED
      BY <2>1, <2>4, <2>5, <2>6, <2>7
  <1> QED
    BY <1>1, <1>2 DEF Behind

\* CarryInv holds at the start.
LEMMA CarryInit == Init => CarryInv
  <1> SUFFICES ASSUME Init PROVE CarryInv
    OBVIOUS
  <1>1. Count \in {1, 2} /\ DOMAIN probes = 1..Count /\ \A i \in 1..Count : probes[i] \in Places
    <2>1. CASE probes = <<"config">>
      BY <2>1 DEF Places, Count
    <2>2. CASE probes = <<"config", "old">>
      BY <2>2 DEF Places, Count
    <2> QED
      BY <2>1, <2>2 DEF Init
  <1>2. Types
    <2>1. /\ pc = [p \in Procs |-> "idle"] /\ k = [p \in Procs |-> 1]
          /\ flawed = [p \in Procs |-> FALSE] /\ asked = [p \in Procs |-> 0]
          /\ now = 0 /\ alone \in BOOLEAN /\ wiped = FALSE
      BY DEF Init
    <2>2. legacy \in [Places -> {"none", "empty", "foreign", "odd"}]
      <3>1. legacy \in [{"config", "old"} -> {"none", "empty", "foreign", "odd"}]
        BY DEF Init
      <3> QED
        BY <3>1 DEF Places
    <2>3. k \in [Procs -> 1..3] /\ flawed \in [Procs -> BOOLEAN] /\ asked \in [Procs -> Nat]
      BY <2>1
    <2>4. Count \in {1, 2}
      BY <1>1
    <2> QED
      BY <2>1, <2>2, <2>3, <2>4 DEF Types
  <1>3. InTurn /\ Behind
    BY <1>1 DEF Init, InTurn, Behind, Carrying, Serving
  <1> QED
    BY <1>1, <1>2, <1>3 DEF CarryInv, Probing

\* When New returns without a failed step, no old cache is left, whatever
\* other processes were carrying, failing or killed at meanwhile.
THEOREM NothingLeftBehind == Spec => []CarriedOnce
  <1>1. CarryInv /\ [Next]_vars => CarryInv'
    <2>1. CarryInv /\ [Next]_vars => Probing'
      BY ProbesStay DEF CarryInv, Probing, Count
    <2> QED
      BY <2>1, TurnStep, BehindStep DEF CarryInv
  <1>2. CarryInv => CarriedOnce
    <2> SUFFICES ASSUME CarryInv, NEW p \in Procs, pc[p] \in Serving, ~flawed[p],
                        NEW i \in DOMAIN probes
                 PROVE  legacy[probes[i]] = "none"
      BY DEF CarriedOnce, Serving
    <2>1. k[p] = Count + 1 /\ Count \in Nat
      BY DEF CarryInv, Types, InTurn
    <2>2. i \in 1..k[p]-1
      BY <2>1 DEF CarryInv, Probing
    <2> QED
      BY <2>2 DEF CarryInv, Behind
  <1> QED
    BY <1>1, <1>2, CarryInit, PTL DEF Spec

-----------------------------------------------------------------------------
(* One command at a time.                                                  *)

Busy(p) == pc[p] # "idle"
Single == alone => \A p, q \in Procs : Busy(p) /\ Busy(q) => p = q

\* A list is not from the future; one that a process finds when it begins to
\* ask for another is older than that, and none is there while it carries.
Ordered ==
  /\ IsList(file) => file.at \in Nat /\ file.at <= now
  /\ \A p \in Procs : asked[p] <= now
  /\ alone => \A p \in Procs :
       /\ pc[p] \in {"carry", "create", "fill"} => ~IsList(file)
       /\ pc[p] \in {"list", "store"} /\ IsList(file) => file.at <= asked[p]

StayInv == Types /\ InTurn /\ Single /\ Ordered

\* What is in a file cut short, an older one or none.
LEMMA NoLists == ~IsList(Absent) /\ ~IsList(Torn) /\ ~IsList(Foreign)
  BY DEF IsList, Absent, Torn, Foreign

\* A command starts while no other runs, and otherwise the running one goes on.
LEMMA SingleStep == Types /\ Single /\ [Next]_vars => Single'
  <1> SUFFICES ASSUME Types, Single, [Next]_vars, alone', NEW p \in Procs, NEW q \in Procs,
                      Busy(p)', Busy(q)'
               PROVE  p = q
    BY DEF Single
  <1>0. alone' = alone
    BY DEF Next, Migrate, Run, Start, Probe, Look, Carry, Unreadable, Create, Fill, Drop, Rmdir,
           Opened, Read, Page, Store, Clear, Reset, ResetLegacy, Abandon, GiveUp, Fail, Kill,
           Change, Tick, vars, still
  <1>1. ASSUME NEW r \in Procs, NEW o \in Ops, Start(r, o)
        PROVE  p = q
    BY <1>0, <1>1 DEF Start, Goto, Busy, Types
  <1>2. CASE UNCHANGED pc
    BY <1>0, <1>2 DEF Single, Busy
  <1>3. ASSUME NEW r \in Procs, pc[r] # "idle", NEW x, pc' = [pc EXCEPT ![r] = x]
        PROVE  p = q
    BY <1>0, <1>3 DEF Single, Busy, Types
  <1>4. ASSUME NEW r \in Procs, Migrate(r) \/ Run(r) \/ Abandon(r) \/ Fail(r) \/ Kill(r)
        PROVE  p = q
    <2>1. pc[r] # "idle" /\ \E x : pc' = [pc EXCEPT ![r] = x]
      BY <1>4 DEF Migrate, Run, Probe, Look, Carry, Unreadable, Create, Fill, Drop, Rmdir,
           Opened, Read, Page, Store, Clear, Reset, ResetLegacy, Abandon, GiveUp, Fail, Kill,
           End, Goto, NextOne
    <2> QED
      BY <1>3, <2>1
  <1>5. CASE (\E d \in Drives : Change(d)) \/ Tick
    BY <1>2, <1>5 DEF Change, Tick
  <1> QED
    BY <1>1, <1>2, <1>4, <1>5 DEF Next, vars

\* Every step keeps a list from being overtaken by something older.
LEMMA OrderedStep == StayInv /\ [Next]_vars => Ordered'
  <1> SUFFICES ASSUME StayInv, [Next]_vars PROVE Ordered'
    OBVIOUS
  <1>0. Types /\ Single /\ Ordered
    BY DEF StayInv
  <1> USE <1>0, NoLists DEF Types, Ordered, still, account, mine, fetch, disk, Goto, NextOne
  <1>1. CASE UNCHANGED vars
    BY <1>1 DEF vars
  <1>2. ASSUME NEW p \in Procs, NEW o \in Ops, Start(p, o)
        PROVE  Ordered'
    BY <1>2 DEF Start
  <1>3. ASSUME NEW p \in Procs, Probe(p)
        PROVE  Ordered'
    BY <1>3 DEF Probe
  <1>4. ASSUME NEW p \in Procs, Look(p)
        PROVE  Ordered'
    BY <1>4 DEF Look
  <1>5. ASSUME NEW p \in Procs, Carry(p)
        PROVE  Ordered'
    BY <1>5 DEF Carry
  <1>6. ASSUME NEW p \in Procs, Create(p)
        PROVE  Ordered'
    BY <1>6 DEF Create
  <1>7. ASSUME NEW p \in Procs, Fill(p)
        PROVE  Ordered'
    <2>1. CASE p \in open
      BY <1>7, <2>1 DEF Fill
    <2>2. CASE p \notin open
      BY <1>7, <2>2 DEF Fill
    <2> QED
      BY <2>1, <2>2
  <1>8. ASSUME NEW p \in Procs, Drop(p) \/ Rmdir(p)
        PROVE  Ordered'
    BY <1>8 DEF Drop, Rmdir
  <1>9. ASSUME NEW p \in Procs, Unreadable(p) \/ Abandon(p)
        PROVE  Ordered'
    BY <1>9 DEF Unreadable, Abandon, GiveUp
  <1>10. ASSUME NEW p \in Procs, Opened(p)
         PROVE  Ordered'
    BY <1>10 DEF Opened
  <1>11. ASSUME NEW p \in Procs, Page(p)
         PROVE  Ordered'
    BY <1>11 DEF Page
  <1>12. ASSUME NEW p \in Procs, Store(p)
         PROVE  Ordered'
    <2>1. pc[p] = "store" /\ pc' = [pc EXCEPT ![p] = "idle"] /\ UNCHANGED <<now, alone>>
          /\ asked' = [asked EXCEPT ![p] = 0]
      BY <1>12 DEF Store, End
    <2>2. IsList(file)' /\ file'.at = now
      BY <1>12 DEF Store, IsList
    <2>3. alone => \A q \in Procs : pc'[q] = "idle"
      BY <2>1 DEF Single, Busy
    <2> QED
      BY <2>1, <2>2, <2>3
  <1>13. ASSUME NEW p \in Procs, Reset(p)
         PROVE  Ordered'
    BY <1>13 DEF Reset
  <1>14. ASSUME NEW p \in Procs, Read(p) \/ Clear(p) \/ ResetLegacy(p) \/ Fail(p) \/ Kill(p)
         PROVE  Ordered'
    <2>1. /\ pc' = [pc EXCEPT ![p] = "idle"] /\ asked' = [asked EXCEPT ![p] = 0]
          /\ UNCHANGED <<now, alone>> /\ (file' = file \/ file' = Absent)
      BY <1>14 DEF Read, Clear, ResetLegacy, Fail, Kill, End
    <2> QED
      BY <2>1
  <1>15. ASSUME NEW d \in Drives, Change(d)
         PROVE  Ordered'
    BY <1>15 DEF Change
  <1>16. CASE Tick
    BY <1>16 DEF Tick
  <1> QED
    BY <1>1, <1>2, <1>3, <1>4, <1>5, <1>6, <1>7, <1>8, <1>9, <1>10, <1>11, <1>12, <1>13, <1>14,
       <1>15, <1>16 DEF Next, Migrate, Run

\* StayInv holds at the start.
LEMMA StayInit == Init => StayInv
  <1> SUFFICES ASSUME Init PROVE StayInv
    OBVIOUS
  <1>1. Types /\ InTurn
    BY CarryInit DEF CarryInv
  <1>2. /\ pc = [p \in Procs |-> "idle"] /\ asked = [p \in Procs |-> 0] /\ now = 0
        /\ ~IsList(file)
    BY NoLists DEF Init
  <1> QED
    BY <1>1, <1>2 DEF StayInv, Single, Busy, Ordered

\* While commands run one at a time, nothing older takes the place of a list:
\* no old cache, and no list asked for before it was written.
THEOREM ListIsKept == Spec => ListStays
  <1>1. StayInv /\ [Next]_vars => StayInv'
    BY TurnStep, SingleStep, OrderedStep DEF StayInv
  <1> DEFINE Stay == alone /\ IsList(file) /\ file' # file =>
                       \/ IsList(file') /\ file'.asked >= file.at
                       \/ \E p \in Procs : pc[p] \in {"clear", "reset"}
  <1>2. StayInv /\ [Next]_vars => [Stay]_vars
    <2> SUFFICES ASSUME StayInv, [Next]_vars, alone, IsList(file), file' # file,
                        ~ \E p \in Procs : pc[p] \in {"clear", "reset"}
                 PROVE  IsList(file') /\ file'.asked >= file.at
      OBVIOUS
    <2>1. ASSUME NEW p \in Procs, Create(p) \/ Fill(p)
          PROVE  FALSE
      BY <2>1 DEF Create, Fill, Goto, StayInv, Ordered
    <2>2. ASSUME NEW p \in Procs, Clear(p) \/ Reset(p)
          PROVE  FALSE
      BY <2>2 DEF Clear, Reset, Goto, End
    <2>3. ASSUME NEW p \in Procs, Store(p)
          PROVE  IsList(file') /\ file'.asked >= file.at
      <3>1. pc[p] = "store"
        BY <2>3 DEF Store, End, Goto
      <3>2. file.at <= asked[p] /\ file.at \in Nat /\ asked[p] \in Nat
        BY <3>1 DEF StayInv, Ordered, Types
      <3>3. IsList(file') /\ file'.asked = asked[p]
        BY <2>3 DEF Store, IsList
      <3> QED
        BY <3>2, <3>3
    <2>4. \E p \in Procs : Create(p) \/ Fill(p) \/ Clear(p) \/ Reset(p) \/ Store(p)
      BY DEF Next, Migrate, Run, Start, Probe, Look, Carry, Unreadable, Drop, Rmdir,
             Opened, Read, Page, ResetLegacy, Abandon, GiveUp, Fail, Kill,
             Change, Tick, vars, disk, account
    <2> QED
      BY <2>1, <2>2, <2>3, <2>4
  <1> QED
    BY <1>1, <1>2, StayInit, PTL DEF Spec, ListStays

-----------------------------------------------------------------------------
(* A full reset.                                                           *)

\* On a system with one place for an old cache: what the reset removes stays
\* away, as nobody has anything to carry.
StaysAway ==
  alone /\ Count = 1 =>
    /\ \A p \in Procs : pc[p] = "resetLegacy" => file = Absent
    /\ wiped => /\ file = Absent /\ legacy["config"] = "none"
                /\ \A p \in Procs : pc[p] \notin Carrying

OnePlace == Count = 1 => probes[1] = "config"

ResetInv == Types /\ Probing /\ InTurn /\ Single /\ OnePlace /\ StaysAway

\* Every step keeps what was reset away.
LEMMA ResetStep == ResetInv /\ [Next]_vars => OnePlace' /\ StaysAway'
  <1> SUFFICES ASSUME ResetInv, [Next]_vars PROVE OnePlace' /\ StaysAway'
    OBVIOUS
  <1>0. /\ Types /\ Probing /\ InTurn /\ Single /\ OnePlace /\ StaysAway
        /\ probes' = probes /\ Count' = Count
    BY ProbesStay DEF ResetInv, Count
  <1>00. OnePlace'
    BY <1>0 DEF OnePlace
  <1> SUFFICES StaysAway'
    BY <1>00
  <1> USE <1>0 DEF Types, StaysAway, Carrying, still, account, mine, fetch, disk, Goto, NextOne
  <1>1. CASE UNCHANGED vars
    BY <1>1 DEF vars
  <1>2. ASSUME NEW p \in Procs, NEW o \in Ops, Start(p, o)
        PROVE  StaysAway'
    BY <1>2 DEF Start
  <1>3. ASSUME NEW p \in Procs, Probe(p)
        PROVE  StaysAway'
    <2>1. CASE Count = 1
      <3>1. k[p] <= Count
        BY <1>3 DEF Probe, Count
      <3>2. At(p) = "config"
        BY <2>1, <3>1 DEF At, OnePlace
      <3> QED
        BY <1>3, <3>2 DEF Probe
    <2>2. CASE Count # 1
      BY <2>2
    <2> QED
      BY <2>1, <2>2
  <1>4. ASSUME NEW p \in Procs, Look(p) \/ Carry(p) \/ Create(p) \/ Fill(p) \/ Drop(p) \/ Rmdir(p)
        PROVE  StaysAway'
    <2>1. /\ pc[p] \in Carrying /\ UNCHANGED <<alone, wiped>>
          /\ \E x \in Carrying \cup {"probe"} : pc' = [pc EXCEPT ![p] = x]
      BY <1>4 DEF Look, Carry, Create, Fill, Drop, Rmdir
    <2>2. alone => \A q \in Procs : q # p => pc[q] = "idle"
      BY <2>1 DEF Single, Busy
    <2> QED
      BY <2>1, <2>2
  <1>5. ASSUME NEW p \in Procs, Unreadable(p) \/ Abandon(p)
        PROVE  StaysAway'
    BY <1>5 DEF Unreadable, Abandon, GiveUp
  <1>6. ASSUME NEW p \in Procs, Opened(p) \/ Page(p)
        PROVE  StaysAway'
    BY <1>6 DEF Opened, Page
  <1>7. ASSUME NEW p \in Procs, Store(p)
        PROVE  StaysAway'
    <2>1. alone => \A q \in Procs : pc'[q] = "idle"
      BY <1>7 DEF Store, End, Single, Busy
    <2> QED
      BY <1>7, <2>1 DEF Store
  <1>8. ASSUME NEW p \in Procs, Reset(p)
        PROVE  StaysAway'
    BY <1>8 DEF Reset
  <1>9. ASSUME NEW p \in Procs, ResetLegacy(p)
        PROVE  StaysAway'
    <2>1. alone => \A q \in Procs : pc'[q] = "idle"
      BY <1>9 DEF ResetLegacy, End, Single, Busy
    <2>2. legacy'["config"] = "none" /\ UNCHANGED <<file, alone>> /\ pc[p] = "resetLegacy"
      BY <1>9 DEF ResetLegacy, End, Places
    <2> QED
      BY <2>1, <2>2
  <1>10. ASSUME NEW p \in Procs, Read(p) \/ Clear(p) \/ Fail(p) \/ Kill(p)
         PROVE  StaysAway'
    <2>1. /\ pc' = [pc EXCEPT ![p] = "idle"] /\ UNCHANGED <<alone, wiped, legacy>>
          /\ (file' = file \/ file' = Absent)
      BY <1>10 DEF Read, Clear, Fail, Kill, End
    <2> QED
      BY <2>1
  <1>11. ASSUME NEW d \in Drives, Change(d)
         PROVE  StaysAway'
    BY <1>11 DEF Change
  <1>12. CASE Tick
    BY <1>12 DEF Tick
  <1> QED
    BY <1>1, <1>2, <1>3, <1>4, <1>5, <1>6, <1>7, <1>8, <1>9, <1>10, <1>11, <1>12
       DEF Next, Migrate, Run

\* After a full reset nothing comes back before the next refresh, with one
\* place for an old cache and one command at a time.
THEOREM ResetStands == Spec => []ResetHolds
  <1>1. Init => ResetInv
    <2> SUFFICES ASSUME Init PROVE ResetInv
      OBVIOUS
    <2>1. Types /\ Probing /\ InTurn /\ Single
      BY CarryInit, StayInit DEF CarryInv, StayInv
    <2>2. OnePlace
      <3>1. CASE probes = <<"config">>
        BY <3>1 DEF OnePlace
      <3>2. CASE probes = <<"config", "old">>
        BY <3>2 DEF OnePlace, Count
      <3> QED
        BY <3>1, <3>2 DEF Init
    <2>3. pc = [p \in Procs |-> "idle"] /\ wiped = FALSE
      BY DEF Init
    <2> QED
      BY <2>1, <2>2, <2>3 DEF ResetInv, StaysAway
  <1>2. ResetInv /\ [Next]_vars => ResetInv'
    <2>1. ResetInv /\ [Next]_vars => Probing'
      BY ProbesStay DEF ResetInv, Probing, Count
    <2> QED
      BY <2>1, TurnStep, SingleStep, ResetStep DEF ResetInv
  <1>3. ResetInv => ResetHolds
    BY DEF ResetInv, StaysAway, ResetHolds, Count
  <1> QED
    BY <1>1, <1>2, <1>3, PTL DEF Spec
-----------------------------------------------------------------------------
(* The pages of a listing.                                                 *)

\* A set of numbers up to n has a least and a greatest element.
LEMMA Extremes ==
  ASSUME NEW n \in Nat, NEW S \in SUBSET (1..n), S # {}
  PROVE  /\ \E x \in S : \A y \in S : x <= y
         /\ Max(S) \in S /\ \A y \in S : y <= Max(S)
  <1>0. \A x \in S : x \in Nat /\ x <= n
    OBVIOUS
  <1> DEFINE T == {m \in Nat : n - m \in S}
  <1>1. T # {}
    <2>1. PICK x \in S : x \in Nat /\ x <= n
      BY <1>0
    <2>2. n - x \in Nat /\ n - (n - x) = x
      BY <2>1
    <2> QED
      BY <2>1, <2>2
  <1>2. \E m \in T : \A y \in T : ~ (<<y, m>> \in OpToRel(<, Nat))
    BY <1>1, NatLessThanWellFounded, WFMin
  <1>3. PICK m \in T : \A y \in T : ~ (y < m)
    BY <1>2 DEF OpToRel
  <1>4. ASSUME NEW y \in S PROVE n - m >= y
    <2>1. y \in Nat /\ y <= n /\ n - (n - y) = y /\ n - y \in Nat
      BY <1>0
    <2>2. n - y \in T
      BY <2>1
    <2> QED
      BY <1>3, <2>1, <2>2
  <1>5. \E x \in S : \A y \in S : x >= y
    BY <1>4
  <1>6. Max(S) \in S /\ \A y \in S : Max(S) >= y
    BY <1>5 DEF Max
  <1>7. S \subseteq Nat
    BY <1>0
  <1>8. \E x \in S : \A y \in S : ~ (<<y, x>> \in OpToRel(<, Nat))
    BY <1>7, NatLessThanWellFounded, WFMin
  <1>9. PICK x \in S : \A y \in S : ~ (y < x)
    BY <1>7, <1>8 DEF OpToRel
  <1>10. \A y \in S : x <= y
    BY <1>7, <1>9
  <1> QED
    BY <1>0, <1>6, <1>10

\* A page has all the drives from its token to the next; the token advances.
LEMMA NextPage ==
  ASSUME drives \subseteq Drives, NEW n \in 0..Last
  PROVE  /\ PageFrom(n) \subseteq drives
         /\ TokenFrom(n) \in 0..Last
         /\ TokenFrom(n) # 0 => TokenFrom(n) > n
         /\ \A d \in drives : d > n /\ (TokenFrom(n) = 0 \/ d <= TokenFrom(n)) => d \in PageFrom(n)
  <1> DEFINE Before(d) == {e \in After(n) : e < d}
  <1>1. After(n) \subseteq 1..Last /\ PageFrom(n) \subseteq After(n) /\ After(n) \subseteq drives
    BY DEF After, PageFrom, Drives
  <1>2. Last \in Nat /\ PageSize \in Nat /\ PageSize > 0
    BY CacheAssumption
  <1>3. ASSUME NEW S \in SUBSET After(n) PROVE IsFiniteSet(S) /\ Cardinality(S) \in Nat
    <2>1. IsFiniteSet(1..Last)
      BY <1>2, FS_Interval
    <2>2. IsFiniteSet(S)
      BY <1>1, <2>1, FS_Subset
    <2> QED
      BY <2>2, FS_CardinalityType
  <1>4. CASE PageFrom(n) = After(n)
    <2>1. TokenFrom(n) = 0
      BY <1>4 DEF TokenFrom
    <2> QED
      BY <1>1, <1>2, <1>4, <2>1 DEF After
  <1>5. CASE PageFrom(n) # After(n)
    <2>1. After(n) # {}
      BY <1>1, <1>5
    <2>2. PICK x \in After(n) : \A y \in After(n) : x <= y
      BY <1>1, <1>2, <2>1, Extremes
    <2>3. Before(x) = {}
      BY <1>1, <2>2
    <2>4. x \in PageFrom(n)
      BY <1>2, <2>2, <2>3, FS_EmptySet DEF PageFrom
    <2>5. /\ TokenFrom(n) \in PageFrom(n)
      BY <1>1, <1>2, <1>5, <2>4, Extremes DEF TokenFrom
    <2>6. TokenFrom(n) \in 1..Last /\ TokenFrom(n) > n
      BY <1>1, <2>5 DEF After
    <2>7. ASSUME NEW d \in drives, d > n, d <= TokenFrom(n)
          PROVE  d \in PageFrom(n)
      <3>1. d \in After(n) /\ d \in 1..Last
        BY <1>1, <2>7 DEF After, Drives
      <3>2. Before(d) \subseteq Before(TokenFrom(n))
        BY <1>1, <2>6, <2>7, <3>1
      <3>3. Cardinality(Before(TokenFrom(n))) < PageSize
        BY <2>5 DEF PageFrom
      <3>4. Cardinality(Before(d)) <= Cardinality(Before(TokenFrom(n)))
        <4>1. IsFiniteSet(Before(TokenFrom(n)))
          BY <1>3
        <4> QED
          BY <3>2, <4>1, FS_Subset
      <3>5. Cardinality(Before(d)) \in Nat /\ Cardinality(Before(TokenFrom(n))) \in Nat
        BY <1>3
      <3>6. Cardinality(Before(d)) < PageSize
        BY <1>2, <3>3, <3>4, <3>5
      <3> QED
        BY <3>1, <3>6 DEF PageFrom
    <2> QED
      BY <1>1, <2>6, <2>7
  <1> QED
    BY <1>4, <1>5

-----------------------------------------------------------------------------
(* What the cache serves.                                                  *)

\* A list asked for at a has every drive up to n that was there before, and
\* none that had gone by then.
Knows(l, a, n) == /\ \A d \in drives : d <= n /\ born[d] < a => d \in l
                  /\ \A d \in l : d \in drives \/ gone[d] >= a

\* A refresh knows the drives up to its token, the cache all of them.
Listing ==
  /\ \A p \in Procs :
       /\ asked[p] <= now
       /\ pc[p] \notin {"list", "store"} => list[p] = {} /\ token[p] = 0
       /\ pc[p] = "list"  => Knows(list[p], asked[p], token[p])
       /\ pc[p] = "store" => Knows(list[p], asked[p], Last)
  /\ IsList(file) => file.asked <= now /\ Knows(file.drives, file.asked, Last)

\* What the other variables range over.
Fields ==
  /\ probes \in {<<"config">>, <<"config", "old">>}
  /\ file \in {Absent, Torn, Foreign} \cup Lists
  /\ open \subseteq {p \in Procs : pc[p] = "fill"} /\ (open # {} => file \in {Torn, Foreign})
  /\ drives \subseteq Drives /\ born \in [Drives -> -1..MaxNow] /\ gone \in [Drives -> -1..MaxNow]
  /\ changes \in 0..MaxChanges /\ now \in 0..MaxNow /\ faults \in 0..MaxFaults
  /\ op \in [Procs -> Ops] /\ token \in [Procs -> 0..Last] /\ list \in [Procs -> SUBSET Drives]
  /\ asked \in [Procs -> 0..MaxNow]

ListingInv == Types /\ InTurn /\ Single /\ Fields /\ Listing

\* The parts make up the type invariant.
LEMMA TypesTogether == ListingInv => TypeOK
  <1> SUFFICES ASSUME ListingInv PROVE TypeOK
    OBVIOUS
  <1> DEFINE B == {p \in Procs : pc[p] # "idle"}
  <1>1. alone => Cardinality(B) <= 1
    <2> SUFFICES ASSUME alone PROVE Cardinality(B) <= 1
      OBVIOUS
    <2>1. CASE B = {}
      BY <2>1, FS_EmptySet
    <2>2. CASE \E p \in Procs : B = {p}
      BY <2>2, FS_Singleton
    <2>3. \A p, q \in B : p = q
      BY DEF ListingInv, Single, Busy
    <2> QED
      BY <2>1, <2>2, <2>3
  <1> QED
    BY <1>1 DEF ListingInv, Types, Fields, TypeOK, Places

\* A step that neither lists nor changes the account.
LEMMA QuietStep ==
  ASSUME Listing, UNCHANGED <<drives, born, gone>>, now' >= now, now \in Nat, now' \in Nat,
         asked \in [Procs -> Nat],
         file' = file \/ ~IsList(file)', Fields,
         \A p \in Procs :
           \/ pc'[p] \notin {"list", "store"} /\ list'[p] = {} /\ token'[p] = 0 /\ asked'[p] = 0
           \/ pc'[p] = pc[p] /\ list'[p] = list[p] /\ token'[p] = token[p] /\ asked'[p] = asked[p]
           \/ /\ pc[p] \notin {"list", "store"} /\ pc'[p] \notin {"list", "store"}
              /\ list'[p] = list[p] /\ token'[p] = token[p] /\ asked'[p] = asked[p]
  PROVE  Listing'
  <1>1. ASSUME NEW p \in Procs
        PROVE  /\ asked'[p] <= now'
               /\ pc'[p] \notin {"list", "store"} => list'[p] = {} /\ token'[p] = 0
               /\ pc'[p] = "list"  => Knows(list'[p], asked'[p], token'[p])
               /\ pc'[p] = "store" => Knows(list'[p], asked'[p], Last)
    BY DEF Listing
  <1>2. ASSUME IsList(file)' PROVE file'.asked <= now' /\ Knows(file'.drives, file'.asked, Last)
    <2>1. IsList(file) /\ file' = file
      BY <1>2 DEF IsList
    <2>2. file.asked \in Nat
      BY <2>1, NoLists DEF Fields, Lists
    <2> QED
      BY <2>1, <2>2 DEF Listing
  <1>3. \A l, a, n : Knows(l, a, n) => Knows(l, a, n)'
    BY DEF Knows
  <1> QED
    BY <1>1, <1>2 DEF Listing, Knows

\* Every step keeps the ranges.
LEMMA FieldsStep == ListingInv /\ [Next]_vars => Fields'
  <1> SUFFICES ASSUME ListingInv, [Next]_vars PROVE Fields'
    OBVIOUS
  <1>0. Types /\ Fields /\ probes' = probes
    BY ProbesStay DEF ListingInv
  <1> USE <1>0, CacheAssumption DEF Types, Fields, still, account, mine, fetch, disk, Goto, NextOne
  <1>1. CASE UNCHANGED vars
    BY <1>1 DEF vars
  <1>2. ASSUME NEW p \in Procs, NEW o \in Ops, Start(p, o)
        PROVE  Fields'
    BY <1>2 DEF Start
  <1>3. ASSUME NEW p \in Procs, Probe(p) \/ Look(p) \/ Carry(p) \/ Drop(p) \/ Rmdir(p) \/ Reset(p)
        PROVE  Fields'
    BY <1>3 DEF Probe, Look, Carry, Drop, Rmdir, Reset
  <1>4. ASSUME NEW p \in Procs, Create(p)
        PROVE  Fields'
    BY <1>4 DEF Create
  <1>5. ASSUME NEW p \in Procs, Fill(p)
        PROVE  Fields'
    BY <1>5 DEF Fill
  <1>6. ASSUME NEW p \in Procs, Unreadable(p) \/ Abandon(p)
        PROVE  Fields'
    <2>1. GiveUp(p) /\ (faults' = faults \/ (faults < MaxFaults /\ faults' = faults + 1))
      BY <1>6 DEF Unreadable, Abandon
    <2> QED
      BY <2>1 DEF GiveUp
  <1>7. ASSUME NEW p \in Procs, Opened(p)
        PROVE  Fields'
    <2>1. asked' \in [Procs -> 0..MaxNow]
      BY <1>7 DEF Opened
    <2> QED
      BY <1>7, <2>1 DEF Opened
  <1>8. ASSUME NEW p \in Procs, Page(p)
        PROVE  Fields'
    <2>1. token[p] \in 0..Last /\ list[p] \in SUBSET Drives
      OBVIOUS
    <2>2. TokenFrom(token[p]) \in 0..Last /\ PageFrom(token[p]) \subseteq Drives
      BY <2>1, NextPage
    <2>3. token' \in [Procs -> 0..Last] /\ list' \in [Procs -> SUBSET Drives]
      BY <1>8, <2>1, <2>2 DEF Page
    <2> QED
      BY <1>8, <2>3 DEF Page
  <1>9. ASSUME NEW p \in Procs, Store(p)
        PROVE  Fields'
    <2>1. file' \in Lists
      BY <1>9 DEF Store, Lists
    <2>2. /\ op' \in [Procs -> Ops] /\ token' \in [Procs -> 0..Last]
          /\ list' \in [Procs -> SUBSET Drives] /\ asked' \in [Procs -> 0..MaxNow]
      BY <1>9 DEF Store, End, Ops
    <2> QED
      BY <1>9, <2>1, <2>2 DEF Store
  <1>10. ASSUME NEW p \in Procs, Read(p) \/ Clear(p) \/ ResetLegacy(p) \/ Fail(p) \/ Kill(p)
         PROVE  Fields'
    <2>1. /\ End(p, pc[p]) /\ UNCHANGED still
          /\ faults' = faults \/ (faults < MaxFaults /\ faults' = faults + 1)
      BY <1>10 DEF Read, Clear, ResetLegacy, Fail, Kill, End
    <2>2. /\ op' \in [Procs -> Ops] /\ token' \in [Procs -> 0..Last]
          /\ list' \in [Procs -> SUBSET Drives] /\ asked' \in [Procs -> 0..MaxNow]
      BY <2>1 DEF End, Ops
    <2>3. \/ UNCHANGED file /\ open' = open \ {p}
          \/ file' = Absent /\ open' = {}
          \/ UNCHANGED <<file, open>> /\ pc[p] # "fill"
      BY <1>10 DEF Read, Clear, ResetLegacy, Fail, Kill, End
    <2>4. pc' = [pc EXCEPT ![p] = "idle"]
      BY <2>1 DEF End
    <2> QED
      BY <2>1, <2>2, <2>3, <2>4
  <1>11. ASSUME NEW d \in Drives, Change(d)
         PROVE  Fields'
    <2>1. /\ drives' \subseteq Drives /\ born' \in [Drives -> -1..MaxNow]
          /\ gone' \in [Drives -> -1..MaxNow] /\ changes' \in 0..MaxChanges
      BY <1>11 DEF Change
    <2> QED
      BY <1>11, <2>1 DEF Change
  <1>12. CASE Tick
    BY <1>12 DEF Tick
  <1> QED
    BY <1>1, <1>2, <1>3, <1>4, <1>5, <1>6, <1>7, <1>8, <1>9, <1>10, <1>11, <1>12
       DEF Next, Migrate, Run

\* Every step keeps what the refreshes and the cache know.
LEMMA ListingStep == ListingInv /\ [Next]_vars => Listing'
  <1> SUFFICES ASSUME ListingInv, [Next]_vars PROVE Listing'
    OBVIOUS
  <1>0. Types /\ Fields /\ Listing
    BY DEF ListingInv
  <1>00. /\ now \in Nat /\ asked \in [Procs -> Nat]
         /\ IsList(file) => file.asked \in Nat /\ file.drives \subseteq Drives
    BY <1>0, NoLists DEF Types, Fields, Lists
  <1>1. CASE UNCHANGED vars
    BY <1>0, <1>1 DEF vars, disk, fetch, account, Listing, Knows
  <1>2. ASSUME NEW p \in Procs, NEW o \in Ops, Start(p, o)
        PROVE  Listing'
    BY <1>0, <1>00, <1>2, QuietStep DEF Start, Goto, Types, disk, still, account, fetch
  <1>3. ASSUME NEW p \in Procs,
               Probe(p) \/ Look(p) \/ Carry(p) \/ Create(p) \/ Fill(p) \/ Drop(p) \/ Rmdir(p) \/ Reset(p)
        PROVE  Listing'
    <2>1. /\ pc[p] \notin {"list", "store"}
          /\ \E x : x \notin {"list", "store"} /\ pc' = [pc EXCEPT ![p] = x]
          /\ UNCHANGED <<list, token, asked, drives, born, gone, now>>
          /\ file' = file \/ file' \in {Absent, Torn, Foreign}
      BY <1>3 DEF Probe, Look, Carry, Create, Fill, Drop, Rmdir, Reset, Goto, NextOne,
                  disk, still, account, mine, fetch
    <2> QED
      BY <1>0, <1>00, <2>1, NoLists, QuietStep DEF Types, IsList
  <1>4. ASSUME NEW p \in Procs, Unreadable(p) \/ Abandon(p)
        PROVE  Listing'
    <2>1. /\ pc[p] \notin {"list", "store"} /\ pc' = [pc EXCEPT ![p] = "probe"]
          /\ UNCHANGED <<list, token, asked, drives, born, gone, now, file>>
      BY <1>4 DEF Unreadable, Abandon, GiveUp, NextOne, Goto, still, account, fetch
    <2> QED
      BY <1>0, <1>00, <2>1, QuietStep DEF Types
  <1>5. ASSUME NEW p \in Procs, Opened(p)
        PROVE  Listing'
    <2>1. /\ pc[p] = "probe" /\ UNCHANGED <<list, token, drives, born, gone, now, file>>
          /\ \E to \in {"read", "list", "clear"} :
               /\ pc' = [pc EXCEPT ![p] = to]
               /\ asked' = [asked EXCEPT ![p] = IF to = "list" THEN now ELSE 0]
      BY <1>5 DEF Opened, Goto, disk, still, account
    <2>2. list[p] = {} /\ token[p] = 0
      BY <1>0, <2>1 DEF Listing
    <2>3. \A a : Knows({}, a, 0)
      BY <1>0 DEF Knows, Fields, Drives
    <2>4. \A l, a, n : Knows(l, a, n)' <=> Knows(l, a, n)
      BY <2>1 DEF Knows
    <2>5. ASSUME NEW q \in Procs
          PROVE  /\ asked'[q] <= now
                 /\ pc'[q] \notin {"list", "store"} => list[q] = {} /\ token[q] = 0
                 /\ pc'[q] = "list"  => Knows(list[q], asked'[q], token[q])
                 /\ pc'[q] = "store" => Knows(list[q], asked'[q], Last)
      <3>1. CASE q = p
        BY <1>0, <1>00, <2>1, <2>2, <2>3, <3>1 DEF Types
      <3>2. CASE q # p
        BY <1>0, <1>00, <2>1, <3>2 DEF Types, Listing
      <3> QED
        BY <3>1, <3>2
    <2> QED
      BY <1>0, <2>1, <2>4, <2>5 DEF Listing, IsList, Knows
  <1>6. ASSUME NEW p \in Procs, Page(p)
        PROVE  Listing'
    <2> DEFINE n == token[p]
               t == TokenFrom(n)
               l == list[p] \cup PageFrom(n)
    <2>1. /\ pc[p] = "list" /\ UNCHANGED <<asked, drives, born, gone, now, file>>
          /\ pc' = [pc EXCEPT ![p] = IF t = 0 THEN "store" ELSE "list"]
          /\ list' = [list EXCEPT ![p] = l] /\ token' = [token EXCEPT ![p] = t]
      BY <1>6 DEF Page, Goto, disk, still, account
    <2>2. /\ Knows(list[p], asked[p], n) /\ asked[p] <= now
          /\ n \in 0..Last /\ drives \subseteq Drives
      BY <1>0, <2>1 DEF Listing, Fields
    <2>3. /\ PageFrom(n) \subseteq drives
          /\ \A d \in drives : d > n /\ (t = 0 \/ d <= t) => d \in PageFrom(n)
      BY <2>2, NextPage
    <2>4. ASSUME NEW m, m = t \/ t = 0
          PROVE  Knows(l, asked[p], m)
      <3>1. ASSUME NEW d \in drives, d <= m, born[d] < asked[p]
            PROVE  d \in l
        <4>1. d \in Nat /\ n \in Nat
          BY <2>2, CacheAssumption DEF Drives
        <4>2. CASE d <= n
          BY <2>2, <3>1, <4>2 DEF Knows
        <4>3. CASE d > n
          BY <2>3, <2>4, <3>1, <4>3
        <4> QED
          BY <4>1, <4>2, <4>3
      <3>2. ASSUME NEW d \in l
            PROVE  d \in drives \/ gone[d] >= asked[p]
        BY <2>2, <2>3 DEF Knows
      <3> QED
        BY <3>1, <3>2 DEF Knows
    <2>5. ASSUME NEW q \in Procs
          PROVE  /\ asked[q] <= now
                 /\ pc'[q] \notin {"list", "store"} => list'[q] = {} /\ token'[q] = 0
                 /\ pc'[q] = "list"  => Knows(list'[q], asked[q], token'[q])
                 /\ pc'[q] = "store" => Knows(list'[q], asked[q], Last)
      <3> HIDE DEF n, t, l
      <3>0. /\ pc'[p] = IF t = 0 THEN "store" ELSE "list"
            /\ list'[p] = l /\ token'[p] = t
            /\ q # p => pc'[q] = pc[q] /\ list'[q] = list[q] /\ token'[q] = token[q]
        BY <1>0, <2>1 DEF Types, Fields
      <3>1. CASE q = p
        BY <2>2, <2>4, <3>0, <3>1
      <3>2. CASE q # p
        BY <1>0, <3>0, <3>2 DEF Listing
      <3> QED
        BY <3>1, <3>2
    <2>6. \A x, a, m : Knows(x, a, m)' <=> Knows(x, a, m)
      BY <2>1 DEF Knows
    <2> QED
      BY <1>0, <2>1, <2>5, <2>6 DEF Listing, IsList, Knows
  <1>7. ASSUME NEW p \in Procs, Store(p)
        PROVE  Listing'
    <2>1. /\ pc[p] = "store" /\ UNCHANGED <<drives, born, gone, now>>
          /\ pc' = [pc EXCEPT ![p] = "idle"] /\ list' = [list EXCEPT ![p] = {}]
          /\ token' = [token EXCEPT ![p] = 0] /\ asked' = [asked EXCEPT ![p] = 0]
          /\ file'.asked = asked[p] /\ file'.drives = list[p]
      BY <1>7 DEF Store, End, Goto, still, account
    <2>2. \A x, a, m : Knows(x, a, m)' <=> Knows(x, a, m)
      BY <2>1 DEF Knows
    <2>3. Knows(list[p], asked[p], Last) /\ asked[p] <= now
      BY <1>0, <2>1 DEF Listing
    <2>4. ASSUME NEW q \in Procs
          PROVE  /\ asked'[q] <= now
                 /\ pc'[q] \notin {"list", "store"} => list'[q] = {} /\ token'[q] = 0
                 /\ pc'[q] = "list"  => Knows(list'[q], asked'[q], token'[q])
                 /\ pc'[q] = "store" => Knows(list'[q], asked'[q], Last)
      <3>1. CASE q = p
        BY <1>0, <1>00, <2>1, <3>1 DEF Types, Fields
      <3>2. CASE q # p
        BY <1>0, <2>1, <3>2 DEF Types, Fields, Listing
      <3> QED
        BY <3>1, <3>2
    <2> QED
      BY <2>1, <2>2, <2>3, <2>4 DEF Listing, Knows
  <1>8. ASSUME NEW p \in Procs, Read(p) \/ Clear(p) \/ ResetLegacy(p) \/ Fail(p) \/ Kill(p)
        PROVE  Listing'
    <2>1. /\ UNCHANGED <<drives, born, gone, now>> /\ (file' = file \/ file' = Absent)
          /\ pc' = [pc EXCEPT ![p] = "idle"] /\ list' = [list EXCEPT ![p] = {}]
          /\ token' = [token EXCEPT ![p] = 0] /\ asked' = [asked EXCEPT ![p] = 0]
      BY <1>8 DEF Read, Clear, ResetLegacy, Fail, Kill, End, Goto, still, account, disk
    <2> QED
      BY <1>0, <1>00, <2>1, NoLists, QuietStep DEF Types, Fields, IsList
  <1>9. ASSUME NEW d \in Drives, Change(d)
        PROVE  Listing'
    <2>1. UNCHANGED <<file, pc, list, token, asked, now>>
      BY <1>9 DEF Change, mine, fetch, disk
    <2> DEFINE Still(l, a, n) == /\ \A e \in drives' : e <= n /\ born'[e] < a => e \in l
                                 /\ \A e \in l : e \in drives' \/ gone'[e] >= a
    <2>2. ASSUME NEW l, NEW a \in Nat, NEW n, a <= now, Knows(l, a, n), l \subseteq Drives
          PROVE  Still(l, a, n)
      <3>1. CASE d \in drives
        BY <1>0, <1>00, <1>9, <2>2, <3>1 DEF Change, Knows, Fields
      <3>2. CASE d \notin drives
        BY <1>0, <1>00, <1>9, <2>2, <3>2 DEF Change, Knows, Fields
      <3> QED
        BY <3>1, <3>2
    <2>3. ASSUME NEW q \in Procs
          PROVE  /\ pc[q] = "list"  => Knows(list[q], asked[q], token[q])'
                 /\ pc[q] = "store" => Knows(list[q], asked[q], Last)'
      <3>1. asked[q] \in Nat /\ asked[q] <= now /\ list[q] \subseteq Drives
        BY <1>0, <1>00 DEF Listing, Fields
      <3>2. /\ pc[q] = "list"  => Still(list[q], asked[q], token[q])
            /\ pc[q] = "store" => Still(list[q], asked[q], Last)
        BY <1>0, <2>2, <3>1 DEF Listing
      <3> QED
        BY <2>1, <3>2 DEF Knows
    <2>4. IsList(file) => Knows(file.drives, file.asked, Last)'
      <3>1. IsList(file) => Still(file.drives, file.asked, Last)
        BY <1>0, <1>00, <2>2 DEF Listing
      <3> QED
        BY <2>1, <3>1 DEF Knows
    <2> QED
      BY <1>0, <2>1, <2>3, <2>4 DEF Listing, IsList
  <1>10. CASE Tick
    <2>1. UNCHANGED <<file, pc, list, token, asked, drives, born, gone>> /\ now' = now + 1
      BY <1>10 DEF Tick, disk, account, mine, fetch
    <2> QED
      BY <1>0, <1>00, <2>1, QuietStep
  <1> QED
    BY <1>1, <1>2, <1>3, <1>4, <1>5, <1>6, <1>7, <1>8, <1>9, <1>10 DEF Next, Migrate, Run

\* ListingInv holds at the start.
LEMMA ListingInit == Init => ListingInv
  <1> SUFFICES ASSUME Init PROVE ListingInv
    OBVIOUS
  <1>1. Types /\ InTurn /\ Single /\ ~IsList(file)
    BY StayInit, NoLists DEF StayInv, Init
  <1>2. Fields
    <2>1. /\ op = [p \in Procs |-> "lookup"] /\ token = [p \in Procs |-> 0]
          /\ list = [p \in Procs |-> {}] /\ asked = [p \in Procs |-> 0]
          /\ born = [d \in Drives |-> -1] /\ gone = [d \in Drives |-> -1]
      BY DEF Init
    <2>2. -1 \in -1..MaxNow /\ 0 \in 0..Last /\ 0 \in 0..MaxNow
      BY CacheAssumption
    <2> QED
      BY <2>1, <2>2, CacheAssumption DEF Init, Fields, Ops
  <1>3. Listing
    BY <1>1 DEF Init, Listing
  <1> QED
    BY <1>1, <1>2, <1>3 DEF ListingInv

\* Every step keeps ListingInv.
LEMMA ListingKept == ListingInv /\ [Next]_vars => ListingInv'
  BY TurnStep, SingleStep, FieldsStep, ListingStep DEF ListingInv

\* What GetDrives returns has not expired, misses no drive that was there
\* before the refresh began to ask and has none that had gone by then, however
\* many pages there were, whatever changed between them, and whatever other
\* processes wrote, removed, failed or were killed at.
THEOREM CacheServesTrue == Spec => []ServedTrue
  <1>1. ListingInv => ServedTrue
    <2> SUFFICES ASSUME ListingInv, Served # Nil
                 PROVE  /\ now - Served.at <= TTL
                        /\ \A d \in drives : born[d] < Served.asked => d \in Served.drives
                        /\ \A d \in Served.drives : d \in drives \/ gone[d] >= Served.asked
      BY TypesTogether DEF ServedTrue
    <2>1. Served = file /\ IsList(file) /\ now - file.at <= TTL
      BY DEF Served, Fresh
    <2>2. Knows(file.drives, file.asked, Last)
      BY <2>1 DEF ListingInv, Listing
    <2>3. \A d \in drives : d <= Last
      BY CacheAssumption DEF ListingInv, Fields, Drives
    <2> QED
      BY <2>1, <2>2, <2>3 DEF Knows
  <1> QED
    BY <1>1, ListingInit, ListingKept, PTL DEF Spec

\* A listing never asks for the same page twice: its token only grows, hence
\* it ends, whatever changes under it.
THEOREM PagesAdvance == Spec => PagingAdvances
  <1> DEFINE Advance == \A p \in Procs : pc'[p] = "list" /\ list'[p] # list[p] => token'[p] > token[p]
  <1>1. ListingInv /\ [Next]_vars => [Advance]_vars
    <2> SUFFICES ASSUME ListingInv, [Next]_vars, NEW p \in Procs,
                        pc'[p] = "list", list'[p] # list[p]
                 PROVE  token'[p] > token[p]
      OBVIOUS
    <2>0. Types /\ Fields
      BY DEF ListingInv
    <2>1. ASSUME NEW q \in Procs, End(q, pc[q])
          PROVE  FALSE
      BY <2>0, <2>1 DEF End, Goto, Types, Fields
    <2>2. ASSUME NEW q \in Procs, Page(q)
          PROVE  token'[p] > token[p]
      <3>1. q = p /\ TokenFrom(token[p]) # 0 /\ token'[p] = TokenFrom(token[p])
        BY <2>0, <2>2 DEF Page, Goto, Types, Fields
      <3>2. token[p] \in 0..Last /\ drives \subseteq Drives
        BY <2>0 DEF Fields
      <3> QED
        BY <3>1, <3>2, NextPage
    <2>3. ASSUME NEW q \in Procs, Read(q) \/ Store(q) \/ Clear(q) \/ ResetLegacy(q) \/ Fail(q) \/ Kill(q)
          PROVE  End(q, pc[q])
      BY <2>3 DEF Read, Store, Clear, ResetLegacy, Fail, Kill, End, Goto
    <2>4. \/ UNCHANGED list
          \/ \E q \in Procs : \/ Read(q) \/ Store(q) \/ Clear(q) \/ ResetLegacy(q) \/ Fail(q) \/ Kill(q)
                              \/ Page(q)
      BY DEF Next, Migrate, Run, Start, Probe, Look, Carry, Unreadable, Create, Fill, Drop, Rmdir,
             Opened, Reset, Abandon, GiveUp, Change, Tick, vars, fetch, mine
    <2> QED
      BY <2>1, <2>2, <2>3, <2>4
  <1> QED
    BY <1>1, ListingInit, ListingKept, PTL DEF Spec, PagingAdvances
=============================================================================
