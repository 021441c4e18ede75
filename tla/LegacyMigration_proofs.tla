----------------------- MODULE LegacyMigration_proofs -----------------------
(* Theorems of LegacyMigration, for any set of processes, places and tokens. *)
EXTENDS LegacyMigration, TLAPS

\* discover's order picks a member of every non-empty set of places.
LEMMA FirstIn ==
  ASSUME NEW S \in SUBSET Sources, S # {}
  PROVE  First(S) \in S
  BY RankAssumption DEF First

\* The candidates discover returned are places.
LEMMA FoundSources == \A p \in Procs : Found(p) \in SUBSET Sources
  BY DEF Found

-----------------------------------------------------------------------------
(* Type correctness.                                                       *)

\* A process about to call SetBundle found something, all of it equal.
Planned == \A p \in Procs : pc[p] = "store" => Found(p) # {} /\ ~Split(p)

\* Every step of every process keeps each variable in its type.
LEMMA TypeStep == TypeOK /\ Planned /\ [Next]_vars => TypeOK'
  <1> SUFFICES ASSUME TypeOK, Planned, [Next]_vars PROVE TypeOK'
    OBVIOUS
  <1> USE DEF TypeOK, history, procVars
  <1>1. CASE UNCHANGED vars
    BY <1>1 DEF vars
  <1>2. ASSUME NEW p \in Procs, NEW m \in Modes, Start(p, m)
        PROVE  TypeOK'
    BY <1>2, ModesAssumption DEF Start, Goto, PCs
  <1>3. ASSUME NEW p \in Procs, Prelude(p)
        PROVE  TypeOK'
    BY <1>3 DEF Prelude, Goto, PCs
  <1>4. ASSUME NEW p \in Procs, ReadSource(p)
        PROVE  TypeOK'
    <2> DEFINE s == First(todo[p])
    <2>1. s \in Sources /\ todo[p] \in SUBSET Sources
      BY <1>4, FirstIn DEF ReadSource
    <2>2. todo' \in [Procs -> SUBSET Sources]
      BY <1>4, <2>1 DEF ReadSource
    <2>3. cands' \in [Procs -> [Sources -> Bytes \cup {Absent}]]
      BY <1>4, <2>1 DEF ReadSource
    <2>4. faults' \in 0..MaxFaults
      BY <1>4, FaultsAssumption DEF ReadSource, Fault
    <2> QED
      BY <1>4, <2>2, <2>3, <2>4 DEF ReadSource
  <1>5. ASSUME NEW p \in Procs,
               PlanNothing(p) \/ PlanCleanup(p) \/ StoreRefused(p) \/ Deleted(p) \/ Save(p)
        PROVE  TypeOK'
    BY <1>5, FoundSources
       DEF PlanNothing, PlanCleanup, StoreRefused, Deleted, Save, Goto, PCs
  <1>6. ASSUME NEW p \in Procs, PlanConflict(p) \/ PlanStore(p)
        PROVE  TypeOK'
    <2>1. faults' \in 0..MaxFaults
      BY <1>6, FaultsAssumption DEF PlanConflict, PlanStore, Current, Fault
    <2> QED
      BY <1>6, <2>1 DEF PlanConflict, PlanStore, Goto, PCs
  <1>7. ASSUME NEW p \in Procs, Store(p)
        PROVE  TypeOK'
    <2>1. First(Found(p)) \in Found(p)
      BY <1>7, FirstIn, FoundSources DEF Planned, Store, Goto
    <2>2. cands[p][First(Found(p))] \in Bytes
      BY <2>1 DEF Found
    <2> QED
      BY <1>7, <2>2, FoundSources DEF Store, PutKeyring, Goto, PCs
  <1>8. ASSUME NEW p \in Procs, Zero(p)
        PROVE  TypeOK'
    BY <1>8 DEF Zero, Goto, PCs, Bytes
  <1>9. ASSUME NEW p \in Procs, Delete(p)
        PROVE  TypeOK'
    BY <1>9, FirstIn DEF Delete, PCs
  <1>10. ASSUME NEW p \in Procs, Abort(p)
         PROVE  TypeOK'
    BY <1>10, FaultsAssumption DEF Abort, PCs, Fault
  <1>11. ASSUME NEW p \in Procs, Use(p)
         PROVE  TypeOK'
    BY <1>11 DEF Use, SetToken, DeleteToken, Close, Goto, PCs, PutKeyring, Bytes, Tokens
  <1> QED
    BY <1>1, <1>2, <1>3, <1>4, <1>5, <1>6, <1>7, <1>8, <1>9, <1>10, <1>11 DEF Next, Step

\* Every step keeps the value a process is about to store well defined.
LEMMA PlannedStep == TypeOK /\ Planned /\ [Next]_vars => Planned'
  <1> SUFFICES ASSUME TypeOK, Planned, [Next]_vars,
                      NEW q \in Procs, pc'[q] = "store"
               PROVE  Found(q)' # {} /\ ~Split(q)'
    BY DEF Planned
  <1> USE DEF TypeOK, history, procVars
  <1>1. CASE UNCHANGED vars
    BY <1>1 DEF vars, Planned, Found, Split
  <1>2. ASSUME NEW p \in Procs, PlanStore(p)
        PROVE  Found(q)' # {} /\ ~Split(q)'
    BY <1>2 DEF PlanStore, Goto, Planned, Found, Split
  <1>3. ASSUME NEW p \in Procs, Prelude(p) \/ ReadSource(p)
        PROVE  Found(q)' # {} /\ ~Split(q)'
    <2>1. pc[q] = "store" /\ q # p /\ cands'[q] = cands[q]
      BY <1>3 DEF Prelude, ReadSource, Goto
    <2> QED
      BY <2>1 DEF Planned, Found, Split
  <1>4. ASSUME NEW p \in Procs,
               \/ \E m \in Modes : Start(p, m)
               \/ PlanNothing(p) \/ PlanConflict(p) \/ PlanCleanup(p)
               \/ Store(p) \/ StoreRefused(p)
               \/ Zero(p) \/ Delete(p) \/ Deleted(p) \/ Save(p)
               \/ Abort(p) \/ Use(p)
        PROVE  Found(q)' # {} /\ ~Split(q)'
    <2>1. cands' = cands
      BY <1>4 DEF Start, PlanNothing, PlanConflict, PlanCleanup, Store, StoreRefused,
                  Zero, Delete, Deleted, Save, Abort, Use, SetToken, DeleteToken, Close
    <2>2. pc[q] = "store"
      BY <1>4 DEF Start, PlanNothing, PlanConflict, PlanCleanup, Store, StoreRefused,
                  Zero, Delete, Deleted, Save, Abort, Use, SetToken, DeleteToken, Close, Goto
    <2> QED
      BY <2>1, <2>2 DEF Planned, Found, Split
  <1> QED
    BY <1>1, <1>2, <1>3, <1>4 DEF Next, Step

\* Type correctness of the token migration: whatever the processes do and
\* whatever fails, every variable keeps its type.
THEOREM TypeCorrect == Spec => [](TypeOK /\ Planned)
  <1>1. Init => TypeOK /\ Planned
    BY FaultsAssumption DEF Init, TypeOK, Planned, PCs, AllModes, Bytes, Tokens
  <1>2. TypeOK /\ Planned /\ [Next]_vars => (TypeOK /\ Planned)'
    BY TypeStep, PlannedStep
  <1> QED
    BY <1>1, <1>2, PTL DEF Spec

-----------------------------------------------------------------------------
(* No token is lost.                                                       *)

\* What discover or a legacy place shows is the original, zeros or nothing.
Genuine ==
  /\ \A s \in Sources : legacy[s] \in {Absent, origin[s], Zeros}
  /\ \A p \in Procs, s \in Sources : cands[p][s] \in {Absent, origin[s], Zeros}

\* The keyring, and a place's original once it may be touched, is in the vault.
Banked ==
  /\ keyring # Absent => keyring \in vault
  /\ NoTokenLost
  /\ \A p \in Procs, s \in Sources :
       \/ cands[p][s] = Zeros
       \/ pc[p] \in {"delete", "unlink"} /\ s \in todo[p]
       => origin[s] \in vault \cup {Absent}

LossInv == TypeOK /\ Planned /\ Genuine /\ Banked

\* Every step that writes the keyring or a legacy place keeps LossInv.
LEMMA LossStep == LossInv /\ [Next]_vars => LossInv'
  <1> SUFFICES ASSUME LossInv, [Next]_vars PROVE LossInv'
    OBVIOUS
  <1> USE DEF LossInv, TypeOK, history, procVars, Genuine
  <1>0. TypeOK' /\ Planned'
    BY TypeStep, PlannedStep
  <1>1. CASE UNCHANGED vars
    BY <1>0, <1>1 DEF vars, Banked, NoTokenLost
  <1>2. ASSUME NEW p \in Procs,
               \/ \E m \in Modes : Start(p, m)
               \/ PlanNothing(p) \/ PlanConflict(p) \/ PlanStore(p)
               \/ StoreRefused(p) \/ Deleted(p) \/ Save(p) \/ Abort(p) \/ Close(p)
        PROVE  LossInv'
    <2>1. /\ UNCHANGED <<legacy, keyring, cands, todo, origin, vault>>
          /\ \A q \in Procs : pc'[q] \in {"delete", "unlink"} => pc[q] = pc'[q]
      BY <1>2 DEF Start, PlanNothing, PlanConflict, PlanStore, StoreRefused, Deleted,
                  Save, Abort, Close, Goto
    <2>2. Genuine' /\ Banked'
      BY <2>1 DEF Banked, NoTokenLost
    <2> QED
      BY <1>0, <2>2
  <1>3. ASSUME NEW p \in Procs, Prelude(p)
        PROVE  LossInv'
    <2>1. Genuine' /\ Banked'
      BY <1>3, ZerosAssumption, AbsentAssumption
         DEF Prelude, Goto, Banked, NoTokenLost, Bytes
    <2> QED
      BY <1>0, <2>1
  <1>4. ASSUME NEW p \in Procs, ReadSource(p)
        PROVE  LossInv'
    <2> DEFINE s == First(todo[p])
    <2>1. s \in Sources
      BY <1>4, FirstIn DEF ReadSource
    <2>2. \/ cands' = [cands EXCEPT ![p][s] = legacy[s]]
          \/ cands' = cands
      BY <1>4 DEF ReadSource
    <2>3. Genuine'
      BY <1>4, <2>1, <2>2 DEF ReadSource
    <2>4. Banked'
      BY <1>4, <2>1, <2>2, ZerosAssumption, AbsentAssumption
         DEF ReadSource, Banked, NoTokenLost, Bytes, Tokens
    <2> QED
      BY <1>0, <2>3, <2>4
  <1>5. ASSUME NEW p \in Procs, PlanCleanup(p)
        PROVE  LossInv'
    <2>1. \A s \in Found(p) : cands[p][s] = keyring
      BY <1>5 DEF PlanCleanup, Disagrees, Distinct
    <2>2. Banked'
      BY <1>5, <2>1 DEF PlanCleanup, Goto, Banked, NoTokenLost, Found
    <2> QED
      BY <1>0, <1>5, <2>2 DEF PlanCleanup
  <1>6. ASSUME NEW p \in Procs, Store(p)
        PROVE  LossInv'
    <2> DEFINE v == cands[p][First(Found(p))]
    <2>1. First(Found(p)) \in Found(p)
      BY <1>6, FirstIn, FoundSources DEF Planned, Store, Goto
    <2>2. \A s \in Found(p) : cands[p][s] = v
      BY <1>6, <2>1 DEF Planned, Store, Goto, Split
    <2>3. keyring' = v /\ vault' = vault \cup {v}
      BY <1>6 DEF Store, PutKeyring
    <2>4. \A s \in Found(p) : origin[s] \in vault' \cup {Absent}
      BY <2>2, <2>3 DEF Found, Banked
    <2>5. Banked'
      BY <1>6, <2>3, <2>4 DEF Store, Goto, Banked, NoTokenLost
    <2> QED
      BY <1>0, <1>6, <2>5 DEF Store
  <1>7. ASSUME NEW p \in Procs, Zero(p) \/ Delete(p)
        PROVE  LossInv'
    <2> DEFINE s == First(todo[p])
    <2>1. s \in todo[p] /\ s \in Sources /\ pc[p] \in {"delete", "unlink"}
      BY <1>7, FirstIn DEF Zero, Delete
    <2>2. origin[s] \in vault \cup {Absent}
      BY <2>1 DEF Banked
    <2>3. /\ legacy' \in {[legacy EXCEPT ![s] = Zeros], [legacy EXCEPT ![s] = Absent]}
          /\ UNCHANGED <<keyring, cands, origin, vault>>
      BY <1>7 DEF Zero, Delete
    <2>4. \A q \in Procs : pc'[q] \in {"delete", "unlink"} =>
             pc[q] \in {"delete", "unlink"} /\ todo'[q] \subseteq todo[q]
      BY <1>7, <2>1 DEF Zero, Delete, Goto
    <2>5. Genuine' /\ Banked'
      BY <2>1, <2>2, <2>3, <2>4 DEF Banked, NoTokenLost
    <2> QED
      BY <1>0, <2>5
  <1>8. ASSUME NEW p \in Procs, SetToken(p) \/ DeleteToken(p)
        PROVE  LossInv'
    <2>1. Genuine' /\ Banked'
      BY <1>8 DEF SetToken, DeleteToken, PutKeyring, Banked, NoTokenLost
    <2> QED
      BY <1>0, <2>1
  <1> QED
    BY <1>1, <1>2, <1>3, <1>4, <1>5, <1>6, <1>7, <1>8 DEF Next, Step, Use

\* No token is lost: whatever the mode, the interleaving, the failed reads and
\* the crashes, a legacy place is given up only after the keyring has held its
\* token.
THEOREM TokensKept == Spec => []NoTokenLost
  <1>1. Init => LossInv
    <2> SUFFICES ASSUME Init PROVE LossInv
      OBVIOUS
    <2>1. TypeOK /\ Planned
      BY FaultsAssumption DEF Init, TypeOK, Planned, PCs, AllModes, Bytes, Tokens
    <2>2. Genuine
      BY DEF Init, Genuine
    <2>3. Banked
      BY ZerosAssumption, AbsentAssumption DEF Init, Banked, NoTokenLost, Bytes
    <2> QED
      BY <2>1, <2>2, <2>3 DEF LossInv
  <1>2. LossInv => NoTokenLost
    BY DEF LossInv, Banked
  <1> QED
    BY <1>1, <1>2, LossStep, PTL DEF Spec

-----------------------------------------------------------------------------
(* A process that has come through the migrating Open sees nothing legacy. *)

\* What p has left behind it is empty, and stays empty.
Swept ==
  \A p \in Procs, s \in Sources :
    \/ pc[p] = "discover" /\ s \notin todo[p] /\ cands[p][s] = Absent
    \/ pc[p] = "store" /\ cands[p][s] = Absent
    \/ pc[p] \in {"delete", "unlink"} /\ s \notin todo[p]
    \/ pc[p] = "save"
    \/ pc[p] = "open" /\ mode[p] # "skip"
    => legacy[s] = Absent

SweptInv == TypeOK /\ Planned /\ Swept

\* An empty legacy place is never filled again.
LEMMA EmptyStays ==
  TypeOK /\ [Next]_vars =>
    \A s \in Sources : legacy[s] = Absent => legacy'[s] = Absent
  <1> SUFFICES ASSUME TypeOK, [Next]_vars, NEW s \in Sources, legacy[s] = Absent
               PROVE  legacy'[s] = Absent
    OBVIOUS
  <1> USE DEF TypeOK, history, procVars
  <1>1. ASSUME NEW p \in Procs, Zero(p) \/ Delete(p)
        PROVE  legacy'[s] = Absent
    BY <1>1 DEF Zero, Delete
  <1>2. CASE UNCHANGED legacy
    BY <1>2
  <1>3. \/ UNCHANGED legacy
        \/ \E p \in Procs : Zero(p) \/ Delete(p)
    BY DEF Next, Step, Use, vars, Start, Prelude, ReadSource, PlanNothing, PlanConflict,
           PlanCleanup, PlanStore, Store, StoreRefused, Deleted, Save, Abort, SetToken,
           DeleteToken, Close
  <1> QED
    BY <1>1, <1>2, <1>3

\* When every read succeeds, every step keeps what lies behind p empty.
LEMMA SweptStep ==
  ASSUME ReadFaults = FALSE
  PROVE  SweptInv /\ [Next]_vars => SweptInv'
  <1> SUFFICES ASSUME SweptInv, [Next]_vars PROVE SweptInv'
    OBVIOUS
  <1> USE DEF SweptInv, TypeOK, history, procVars
  <1>0. TypeOK' /\ Planned'
    BY TypeStep, PlannedStep
  <1>e. \A s \in Sources : legacy[s] = Absent => legacy'[s] = Absent
    BY EmptyStays
  <1>1. CASE UNCHANGED vars
    BY <1>0, <1>1 DEF vars, Swept
  <1>2. ASSUME NEW p \in Procs, \E m \in Modes : Start(p, m)
        PROVE  Swept'
    BY <1>2, <1>e, ModesAssumption DEF Start, Goto, Swept, AllModes
  <1>3. ASSUME NEW p \in Procs, Prelude(p)
        PROVE  Swept'
    BY <1>3, <1>e DEF Prelude, Goto, Swept
  <1>4. ASSUME NEW p \in Procs, ReadSource(p)
        PROVE  Swept'
    <2> DEFINE r == First(todo[p])
    <2>1. r \in Sources
      BY <1>4, FirstIn DEF ReadSource
    <2>2. cands' = [cands EXCEPT ![p][r] = legacy[r]]
      BY <1>4 DEF ReadSource
    <2> QED
      BY <1>4, <2>1, <2>2 DEF ReadSource, Swept
  <1>5. ASSUME NEW p \in Procs,
               \/ PlanNothing(p) \/ PlanConflict(p) \/ PlanCleanup(p) \/ PlanStore(p)
               \/ Store(p) \/ StoreRefused(p) \/ Deleted(p) \/ Save(p) \/ Abort(p)
        PROVE  Swept'
    BY <1>5 DEF PlanNothing, PlanConflict, PlanCleanup, PlanStore, Store, StoreRefused,
                Deleted, Save, Abort, Goto, Planning, Found, Swept
  <1>6. ASSUME NEW p \in Procs, Zero(p)
        PROVE  Swept'
    BY <1>6, <1>e DEF Zero, Goto, Swept
  <1>7. ASSUME NEW p \in Procs, Delete(p)
        PROVE  Swept'
    <2> DEFINE r == First(todo[p])
    <2>1. r \in Sources
      BY <1>7, FirstIn DEF Delete
    <2>2. legacy'[r] = Absent
      BY <1>7, <2>1 DEF Delete
    <2> QED
      BY <1>7, <1>e, <2>1, <2>2 DEF Delete, Swept
  <1>8. ASSUME NEW p \in Procs, Use(p)
        PROVE  Swept'
    BY <1>8 DEF Use, SetToken, DeleteToken, Close, Goto, Swept
  <1> QED
    BY <1>0, <1>1, <1>2, <1>3, <1>4, <1>5, <1>6, <1>7, <1>8 DEF Next, Step

\* When no read of a legacy place fails, a command that got its store from the
\* migrating Open runs with every legacy token gone, and none ever comes back.
THEOREM MigratedWhenOpen ==
  ASSUME ReadFaults = FALSE
  PROVE  Spec => []OpenMeansMigrated
  <1>1. Init => SweptInv
    <2> SUFFICES ASSUME Init PROVE SweptInv
      OBVIOUS
    <2>1. TypeOK /\ Planned
      BY FaultsAssumption DEF Init, TypeOK, Planned, PCs, AllModes, Bytes, Tokens
    <2> QED
      BY <2>1 DEF Init, SweptInv, Swept
  <1>2. SweptInv /\ [Next]_vars => SweptInv'
    BY SweptStep
  <1>3. SweptInv => OpenMeansMigrated
    BY DEF SweptInv, Swept, OpenMeansMigrated, LegacyGone
  <1> QED
    BY <1>1, <1>2, <1>3, PTL DEF Spec

-----------------------------------------------------------------------------
(* A token issued to this release is not rolled back.                      *)

\* No process was started to force a legacy value.
NoForce == mode \in [Procs -> AllModes \ {"overwrite"}]

\* Without --overwrite a fresh token in the keyring is replaced only by a
\* fresh one or removed, whatever a concurrent or stale migration carries.
THEOREM FreshKept ==
  ASSUME "overwrite" \notin Modes
  PROVE  Spec => FreshTokenKept
  <1>1. Init => NoForce
    BY DEF Init, NoForce, AllModes
  <1>2. NoForce /\ [Next]_vars => NoForce'
    <2> SUFFICES ASSUME NoForce, [Next]_vars PROVE NoForce'
      OBVIOUS
    <2>1. ASSUME NEW p \in Procs, NEW m \in Modes, Start(p, m)
          PROVE  NoForce'
      BY <2>1, ModesAssumption DEF Start, NoForce
    <2>2. \/ UNCHANGED mode
          \/ \E p \in Procs : \E m \in Modes : Start(p, m)
      BY DEF Next, Step, Use, vars, Prelude, ReadSource, PlanNothing, PlanConflict,
             PlanCleanup, PlanStore, Store, StoreRefused, Zero, Delete, Deleted, Save, Abort,
             SetToken, DeleteToken, Close, procVars
    <2> QED
      BY <2>1, <2>2 DEF NoForce
  <1>3. NoForce /\ [Next]_vars =>
          [(keyring \in Issued) => (keyring' \in Issued \cup {Absent})]_vars
    <2> SUFFICES ASSUME NoForce, Next, keyring \in Issued
                 PROVE  keyring' \in Issued \cup {Absent}
      BY DEF vars
    <2>1. keyring # Absent
      BY AbsentAssumption DEF Bytes, Tokens
    <2>2. ASSUME NEW p \in Procs PROVE ~Store(p)
      BY <2>1, <2>2 DEF Store, Accepts, NoForce
    <2>3. \/ UNCHANGED keyring
          \/ \E p \in Procs : SetToken(p) \/ DeleteToken(p)
      BY <2>2 DEF Next, Step, Use, Start, Prelude, ReadSource, PlanNothing, PlanConflict,
             PlanCleanup, PlanStore, StoreRefused, Zero, Delete, Deleted, Save, Abort, Close,
             history
    <2> QED
      BY <2>3 DEF SetToken, DeleteToken, PutKeyring
  <1> QED
    BY <1>1, <1>2, <1>3, PTL DEF Spec, FreshTokenKept

-----------------------------------------------------------------------------
(* The migration implements TokenCustody.                                  *)

\* A place is touched, and a value carried, only when the places agree.
Agreed ==
  \/ \E s \in Sources : legacy[s] # origin[s]
  \/ \E p \in Procs : pc[p] \in {"store", "delete", "unlink"}
  => Custody!Agree

\* Zeros are seen only where an original has been overwritten.
ZerosTrace ==
  \A s \in Sources :
    /\ legacy[s] = Zeros => origin[s] # Absent
    /\ \A p \in Procs : cands[p][s] = Zeros =>
                           origin[s] # Absent /\ legacy[s] \in {Zeros, Absent}

CustodyInv == LossInv /\ SweptInv /\ Agreed /\ ZerosTrace

\* With every place read and no disagreement seen, the originals agree, unless
\* one was touched before, when they were already known to.
LEMMA SeenAgreement ==
  ASSUME CustodyInv, NEW p \in Procs, Planning(p), ~Split(p)
  PROVE  Custody!Agree
  <1> USE DEF CustodyInv, LossInv, SweptInv, TypeOK
  <1>1. CASE \E s \in Sources : legacy[s] # origin[s]
    BY <1>1 DEF Agreed
  <1>2. CASE \A s \in Sources : legacy[s] = origin[s]
    <2> SUFFICES ASSUME NEW s \in Sources, NEW t \in Sources,
                        origin[s] # Absent, origin[t] # Absent
                 PROVE  origin[s] = origin[t]
      BY DEF Custody!Agree
    <2>1. ASSUME NEW r \in Sources, origin[r] # Absent
          PROVE  cands[p][r] # Absent
      BY <1>2, <2>1 DEF Swept, Planning
    <2>2. CASE cands[p][s] = origin[s] /\ cands[p][t] = origin[t]
      BY <2>1, <2>2 DEF Split, Found
    <2>3. CASE cands[p][s] = Zeros \/ cands[p][t] = Zeros
      BY <1>2, <2>3, ZerosAssumption, AbsentAssumption DEF ZerosTrace, Tokens, Bytes
    <2> QED
      BY <2>1, <2>2, <2>3 DEF Genuine
  <1> QED
    BY <1>1, <1>2

\* Every step keeps ZerosTrace.
LEMMA ZerosStep == LossInv /\ ZerosTrace /\ [Next]_vars => ZerosTrace'
  <1> SUFFICES ASSUME LossInv, ZerosTrace, [Next]_vars PROVE ZerosTrace'
    OBVIOUS
  <1> USE DEF LossInv, TypeOK, history, procVars, ZerosTrace
  <1>1. ASSUME NEW p \in Procs, Zero(p) \/ Delete(p)
        PROVE  ZerosTrace'
    <2> DEFINE r == First(todo[p])
    <2>1. r \in Sources
      BY <1>1, FirstIn DEF Zero, Delete
    <2>2. \/ legacy' = [legacy EXCEPT ![r] = Absent]
          \/ legacy[r] # Absent /\ legacy' = [legacy EXCEPT ![r] = Zeros]
      BY <1>1 DEF Zero, Delete
    <2>3. legacy[r] # Absent => origin[r] # Absent
      BY <2>1 DEF Genuine
    <2>4. UNCHANGED <<cands, origin>>
      BY <1>1 DEF Zero, Delete
    <2> QED
      BY <2>1, <2>2, <2>3, <2>4
  <1>2. ASSUME NEW p \in Procs, Prelude(p)
        PROVE  ZerosTrace'
    BY <1>2, AbsentAssumption DEF Prelude, Bytes
  <1>3. ASSUME NEW p \in Procs, ReadSource(p)
        PROVE  ZerosTrace'
    <2> DEFINE r == First(todo[p])
    <2>1. r \in Sources
      BY <1>3, FirstIn DEF ReadSource
    <2>2. cands' = [cands EXCEPT ![p][r] = legacy[r]] \/ cands' = cands
      BY <1>3 DEF ReadSource
    <2> QED
      BY <1>3, <2>1, <2>2 DEF ReadSource
  <1>4. \/ UNCHANGED <<legacy, cands, origin>>
        \/ \E p \in Procs : Zero(p) \/ Delete(p) \/ Prelude(p) \/ ReadSource(p)
    BY DEF Next, Step, Use, vars, Start, PlanNothing, PlanConflict, PlanCleanup, PlanStore,
           Store, StoreRefused, Deleted, Save, Abort, SetToken, DeleteToken, Close
  <1> QED
    BY <1>1, <1>2, <1>3, <1>4

\* Every step keeps Agreed, where every place can be read.
LEMMA AgreedStep ==
  ASSUME ReadFaults = FALSE
  PROVE  CustodyInv /\ [Next]_vars => Agreed'
  <1> SUFFICES ASSUME CustodyInv, [Next]_vars PROVE Agreed'
    OBVIOUS
  <1> USE DEF CustodyInv, LossInv, TypeOK, history, procVars
  <1>0. Custody!Agree => Custody!Agree'
    <2>1. UNCHANGED origin
      BY DEF Next, Step, Use, vars, Start, Prelude, ReadSource, PlanNothing, PlanConflict,
             PlanCleanup, PlanStore, Store, StoreRefused, Zero, Delete, Deleted, Save, Abort,
             SetToken, DeleteToken, Close, PutKeyring
    <2> QED
      BY <2>1 DEF Custody!Agree
  <1>1. ASSUME NEW p \in Procs, PlanCleanup(p) \/ PlanStore(p)
        PROVE  Agreed'
    BY <1>0, <1>1, SeenAgreement DEF PlanCleanup, PlanStore, Agreed
  <1>2. ASSUME NEW p \in Procs, Store(p) \/ Zero(p) \/ Delete(p)
        PROVE  Agreed'
    BY <1>0, <1>2 DEF Store, Zero, Delete, Goto, Agreed
  <1>3. CASE /\ UNCHANGED <<legacy, origin>>
             /\ \A p \in Procs : pc'[p] \in {"store", "delete", "unlink"} => pc[p] = pc'[p]
    BY <1>0, <1>3 DEF Agreed
  <1>4. ASSUME NEW p \in Procs, NEW m \in Modes, Start(p, m)
        PROVE  Agreed'
    BY <1>3, <1>4 DEF Start, Goto
  <1>5. ASSUME NEW p \in Procs,
               \/ Prelude(p) \/ ReadSource(p) \/ PlanNothing(p) \/ PlanConflict(p)
               \/ StoreRefused(p) \/ Deleted(p) \/ Save(p) \/ Abort(p) \/ Use(p)
        PROVE  Agreed'
    <2>1. UNCHANGED <<legacy, origin>>
      BY <1>5 DEF Prelude, ReadSource, PlanNothing, PlanConflict, StoreRefused, Deleted, Save,
                  Abort, Use, SetToken, DeleteToken, Close
    <2>2. \A q \in Procs : pc'[q] \in {"store", "delete", "unlink"} => pc[q] = pc'[q]
      BY <1>5 DEF Prelude, ReadSource, PlanNothing, PlanConflict, StoreRefused, Deleted, Save,
                  Abort, Use, SetToken, DeleteToken, Close, Goto
    <2> QED
      BY <1>3, <2>1, <2>2
  <1>6. CASE UNCHANGED vars
    BY <1>3, <1>6 DEF vars
  <1> QED
    BY <1>1, <1>2, <1>4, <1>5, <1>6 DEF Next, Step

\* A step of a process is a step of TokenCustody or leaves it unchanged.
LEMMA CustodyStep ==
  CustodyInv /\ [Next]_vars => [Custody!CNext]_(Custody!cvars)
  <1> SUFFICES ASSUME CustodyInv, [Next]_vars
               PROVE  Custody!CNext \/ UNCHANGED Custody!cvars
    OBVIOUS
  <1> USE DEF CustodyInv, LossInv, TypeOK, history, procVars
  <1> DEFINE held == {s \in Sources : origin[s] # Absent /\ legacy[s] = origin[s]}
  <1>1. ASSUME NEW p \in Procs, Zero(p) \/ Delete(p)
        PROVE  Custody!CNext \/ UNCHANGED Custody!cvars
    <2> DEFINE r == First(todo[p])
    <2>1. r \in todo[p] /\ r \in Sources /\ pc[p] \in {"delete", "unlink"}
      BY <1>1, FirstIn DEF Zero, Delete
    <2>2. Custody!Agree
      BY <2>1 DEF Agreed
    <2>3. origin[r] \in vault \cup {Absent}
      BY <2>1 DEF Banked
    <2>4. UNCHANGED <<origin, keyring, vault>>
      BY <1>1 DEF Zero, Delete
    <2>5. legacy' \in {[legacy EXCEPT ![r] = Zeros], [legacy EXCEPT ![r] = Absent]}
      BY <1>1 DEF Zero, Delete
    <2>6. held' = held \ {r}
      BY <2>1, <2>4, <2>5, ZerosAssumption, AbsentAssumption DEF Tokens, Bytes
    <2>7. CASE r \in held
      <3>1. \E s \in Sources : Custody!Release(s)
        BY <2>1, <2>2, <2>3, <2>4, <2>6, <2>7 DEF Custody!Release
      <3> QED
        BY <3>1 DEF Custody!CNext
    <2>8. CASE r \notin held
      BY <2>4, <2>6, <2>8 DEF Custody!cvars
    <2> QED
      BY <2>7, <2>8
  <1>2. ASSUME NEW p \in Procs, Store(p) \/ SetToken(p)
        PROVE  Custody!CNext \/ UNCHANGED Custody!cvars
    <2>1. UNCHANGED <<legacy, origin>>
      BY <1>2 DEF Store, SetToken
    <2>2. PICK t : keyring' = t /\ vault' = vault \cup {t}
      BY <1>2 DEF Store, SetToken, PutKeyring
    <2>3. Custody!Deposit(t) /\ t \in vault'
      BY <2>1, <2>2 DEF Custody!Deposit
    <2> QED
      BY <2>3 DEF Custody!CNext
  <1>3. ASSUME NEW p \in Procs, DeleteToken(p)
        PROVE  Custody!CNext \/ UNCHANGED Custody!cvars
    <2>1. Custody!Withdraw
      BY <1>3 DEF DeleteToken, Custody!Withdraw
    <2> QED
      BY <2>1 DEF Custody!CNext
  <1>4. CASE UNCHANGED <<legacy, keyring, origin, vault>>
    BY <1>4 DEF Custody!cvars
  <1>5. \/ UNCHANGED <<legacy, keyring, origin, vault>>
        \/ \E p \in Procs : Zero(p) \/ Delete(p) \/ Store(p) \/ SetToken(p) \/ DeleteToken(p)
    BY DEF Next, Step, Use, vars, Start, Prelude, ReadSource, PlanNothing, PlanConflict,
           PlanCleanup, PlanStore, StoreRefused, Deleted, Save, Abort, Close
  <1> QED
    BY <1>1, <1>2, <1>3, <1>4, <1>5

\* When no read of a legacy place fails, the migration implements TokenCustody:
\* places give their token up one at a time, only once the keyring has held it
\* and only when the originals agreed, in every interleaving and after every
\* crash.
THEOREM CustodyImplemented ==
  ASSUME ReadFaults = FALSE
  PROVE  Spec => ImplementsCustody
  <1>1. Init => CustodyInv /\ Custody!CInit
    <2> SUFFICES ASSUME Init PROVE CustodyInv /\ Custody!CInit
      OBVIOUS
    <2>1. TypeOK /\ Planned
      BY FaultsAssumption DEF Init, TypeOK, Planned, PCs, AllModes, Bytes, Tokens
    <2>2. Genuine /\ Swept /\ Agreed
      BY DEF Init, Genuine, Swept, Agreed
    <2>3. Banked /\ ZerosTrace
      BY ZerosAssumption, AbsentAssumption DEF Init, Banked, ZerosTrace, NoTokenLost, Bytes, Tokens
    <2>4. Custody!CInit
      BY DEF Init, Custody!CInit
    <2> QED
      BY <2>1, <2>2, <2>3, <2>4 DEF CustodyInv, LossInv, SweptInv
  <1>2. CustodyInv /\ [Next]_vars => CustodyInv'
    BY LossStep, SweptStep, ZerosStep, AgreedStep DEF CustodyInv
  <1>3. CustodyInv /\ [Next]_vars => [Custody!CNext]_(Custody!cvars)
    BY CustodyStep
  <1> QED
    BY <1>1, <1>2, <1>3, PTL DEF Spec, ImplementsCustody, Custody!CSpec

-----------------------------------------------------------------------------
(* The migration never inflicts a conflict on itself.                      *)

\* The places a running secureDelete has overwritten and not yet removed.
Deletions == {s \in Sources : InDeletion(s)}

\* A zeroed file is one a running secureDelete is about to remove, and no
\* process got its store without the migration.
Guarded ==
  /\ \A s \in Sources : legacy[s] = Zeros => s \in Deletions
  /\ \A p \in Procs : mode[p] # "skip"

\* The places whose token no process is deleting.
Whole == {s \in Sources \ Deletions : legacy[s] # Absent}

WedgeInv == LossInv /\ SweptInv /\ ZerosTrace /\ Guarded

\* A step that leaves unlinking processes alone neither starts nor ends the
\* deletion of a place.
LEMMA DeletionsKept ==
  ASSUME \A p \in Procs : /\ pc[p] = "unlink" \/ pc'[p] = "unlink" => pc'[p] = pc[p]
                          /\ pc[p] = "unlink" => todo'[p] = todo[p]
  PROVE  Deletions' = Deletions
  BY DEF Deletions, InDeletion

\* Only Zero and Delete begin or end the deletion of a place.
LEMMA OtherSteps ==
  ASSUME TornDelete = FALSE, TypeOK, [Next]_vars,
         \A p \in Procs : ~Zero(p) /\ ~Delete(p)
  PROVE  UNCHANGED legacy /\ Deletions' = Deletions
  <1> USE DEF TypeOK, history, procVars
  <1>1. UNCHANGED legacy
    BY DEF Next, Step, Use, vars, Start, Prelude, ReadSource, PlanNothing, PlanConflict,
           PlanCleanup, PlanStore, Store, StoreRefused, Deleted, Save, Abort, SetToken,
           DeleteToken, Close
  <1>2. ASSUME NEW q \in Procs, NEW p \in Procs,
               \/ \E m \in Modes : Start(q, m)
               \/ Prelude(q) \/ ReadSource(q) \/ PlanNothing(q) \/ PlanConflict(q)
               \/ PlanCleanup(q) \/ PlanStore(q)
        PROVE  /\ pc[p] = "unlink" \/ pc'[p] = "unlink" => pc'[p] = pc[p]
               /\ pc[p] = "unlink" => todo'[p] = todo[p]
    BY <1>2 DEF Start, Prelude, ReadSource, PlanNothing, PlanConflict, PlanCleanup,
                PlanStore, Goto
  <1>3. ASSUME NEW q \in Procs, NEW p \in Procs,
               \/ Store(q) \/ StoreRefused(q) \/ Deleted(q) \/ Save(q) \/ Abort(q) \/ Use(q)
        PROVE  /\ pc[p] = "unlink" \/ pc'[p] = "unlink" => pc'[p] = pc[p]
               /\ pc[p] = "unlink" => todo'[p] = todo[p]
    BY <1>3 DEF Store, StoreRefused, Deleted, Save, Abort, Use, SetToken, DeleteToken,
                Close, Goto
  <1>4. \A p \in Procs : /\ pc[p] = "unlink" \/ pc'[p] = "unlink" => pc'[p] = pc[p]
                         /\ pc[p] = "unlink" => todo'[p] = todo[p]
    BY <1>2, <1>3 DEF Next, Step, vars
  <1> QED
    BY <1>1, <1>4, DeletionsKept

\* What Zero and Delete do to the deletions under way: p's place is being
\* deleted or empty, every other stays as it is.
LEMMA DeletingStep ==
  ASSUME TypeOK, NEW p \in Procs, Zero(p) \/ Delete(p)
  PROVE  LET r == First(todo[p])
         IN  /\ r \in Sources
             /\ \/ r \in Deletions' /\ legacy' = [legacy EXCEPT ![r] = Zeros]
                \/ legacy' = [legacy EXCEPT ![r] = Absent]
             /\ Deletions \ {r} \subseteq Deletions'
  <1> USE DEF TypeOK, history, procVars
  <1> DEFINE r == First(todo[p])
  <1>1. r \in Sources
    BY FirstIn DEF Zero, Delete
  <1>2. ASSUME NEW s \in Deletions \ {r}
        PROVE  s \in Deletions'
    <2>1. PICK q \in Procs : pc[q] = "unlink" /\ s = First(todo[q])
      BY DEF Deletions, InDeletion
    <2>2. q # p
      BY <2>1, <1>2
    <2>3. pc'[q] = "unlink" /\ todo'[q] = todo[q]
      BY <2>1, <2>2 DEF Zero, Delete, Goto
    <2> QED
      BY <2>1, <2>3 DEF Deletions, InDeletion
  <1>3. CASE Zero(p)
    <2>1. legacy' = [legacy EXCEPT ![r] = Zeros]
      BY <1>3 DEF Zero
    <2>2. pc'[p] = "unlink" /\ todo'[p] = todo[p]
      BY <1>3 DEF Zero, Goto
    <2>3. r \in Deletions'
      BY <1>1, <2>2 DEF Deletions, InDeletion
    <2> QED
      BY <1>1, <1>2, <2>1, <2>3
  <1>4. CASE Delete(p)
    <2>1. legacy' = [legacy EXCEPT ![r] = Absent]
      BY <1>4 DEF Delete
    <2> QED
      BY <1>1, <1>2, <2>1
  <1> QED
    BY <1>3, <1>4

\* Every step keeps Guarded, where no deletion is torn and every open migrates.
LEMMA GuardedStep ==
  ASSUME TornDelete = FALSE, "skip" \notin Modes
  PROVE  TypeOK /\ Guarded /\ [Next]_vars => Guarded'
  <1> SUFFICES ASSUME TypeOK, Guarded, [Next]_vars PROVE Guarded'
    OBVIOUS
  <1> USE DEF TypeOK
  <1>1. \A p \in Procs : mode'[p] # "skip"
    <2>1. ASSUME NEW p \in Procs, NEW m \in Modes, Start(p, m)
          PROVE  \A q \in Procs : mode'[q] # "skip"
      BY <2>1 DEF Start, Guarded
    <2>2. \/ UNCHANGED mode
          \/ \E p \in Procs : \E m \in Modes : Start(p, m)
      BY DEF Next, Step, Use, vars, Prelude, ReadSource, PlanNothing, PlanConflict,
             PlanCleanup, PlanStore, Store, StoreRefused, Zero, Delete, Deleted, Save, Abort,
             SetToken, DeleteToken, Close, procVars
    <2> QED
      BY <2>1, <2>2 DEF Guarded
  <1>2. ASSUME NEW s \in Sources, legacy'[s] = Zeros
        PROVE  s \in Deletions'
    <2>1. ASSUME NEW p \in Procs, Zero(p) \/ Delete(p)
          PROVE  s \in Deletions'
      <3> DEFINE r == First(todo[p])
      <3>1. /\ r \in Sources
            /\ \/ r \in Deletions' /\ legacy' = [legacy EXCEPT ![r] = Zeros]
               \/ legacy' = [legacy EXCEPT ![r] = Absent]
            /\ Deletions \ {r} \subseteq Deletions'
        BY <2>1, DeletingStep
      <3>2. CASE s = r
        BY <1>2, <3>1, <3>2, AbsentAssumption DEF Bytes
      <3>3. CASE s # r
        <4>1. legacy[s] = Zeros
          BY <1>2, <3>1, <3>3
        <4> QED
          BY <3>1, <3>3, <4>1 DEF Guarded
      <3> QED
        BY <3>2, <3>3
    <2>2. CASE \A p \in Procs : ~Zero(p) /\ ~Delete(p)
      <3>1. UNCHANGED legacy /\ Deletions' = Deletions
        BY <2>2, OtherSteps
      <3> QED
        BY <1>2, <3>1 DEF Guarded
    <2> QED
      BY <2>1, <2>2
  <1> QED
    BY <1>1, <1>2 DEF Guarded

\* What a process stores is what every intact place holds: it read them all,
\* and what it did not find there is gone.
LEMMA StoredAgrees ==
  ASSUME WedgeInv, NEW p \in Procs, Store(p), NEW s \in Sources, Intact(s)
  PROVE  keyring' = legacy[s]
  <1> USE DEF WedgeInv, LossInv, SweptInv, TypeOK
  <1> DEFINE v == cands[p][First(Found(p))]
  <1>1. pc[p] = "store" /\ keyring' = v
    BY DEF Store, Goto, PutKeyring
  <1>2. First(Found(p)) \in Found(p)
    BY <1>1, FirstIn, FoundSources DEF Planned
  <1>3. legacy[s] # Absent /\ legacy[s] # Zeros
    BY DEF Intact, Guarded, Deletions
  <1>4. cands[p][s] # Absent /\ cands[p][s] # Zeros
    BY <1>1, <1>3 DEF Swept, ZerosTrace
  <1>5. cands[p][s] = v
    BY <1>1, <1>2, <1>4 DEF Planned, Split, Found
  <1>6. cands[p][s] = legacy[s]
    BY <1>3, <1>4 DEF Genuine
  <1> QED
    BY <1>1, <1>5, <1>6

\* No step of any process brings about a conflict between the intact places and
\* the keyring, or among the intact places.
LEMMA WedgeStep ==
  ASSUME TornDelete = FALSE
  PROVE  WedgeInv /\ [Next]_vars /\ ~Wedged => ~Wedged'
  <1> SUFFICES ASSUME WedgeInv, [Next]_vars, Wedged' PROVE Wedged
    OBVIOUS
  <1> USE DEF WedgeInv, LossInv, SweptInv, TypeOK, history, procVars
  <1>1. \A s \in Whole' : s \in Whole /\ legacy'[s] = legacy[s]
    <2>1. ASSUME NEW p \in Procs, Zero(p) \/ Delete(p), NEW s \in Whole'
          PROVE  s \in Whole /\ legacy'[s] = legacy[s]
      <3> DEFINE r == First(todo[p])
      <3>1. /\ r \in Sources
            /\ \/ r \in Deletions' /\ legacy' = [legacy EXCEPT ![r] = Zeros]
               \/ legacy' = [legacy EXCEPT ![r] = Absent]
            /\ Deletions \ {r} \subseteq Deletions'
        BY <2>1, DeletingStep
      <3>2. s # r
        BY <2>1, <3>1, AbsentAssumption DEF Whole
      <3>3. legacy'[s] = legacy[s]
        BY <2>1, <3>1, <3>2 DEF Whole
      <3> QED
        BY <2>1, <3>1, <3>2, <3>3 DEF Whole
    <2>2. CASE \A p \in Procs : ~Zero(p) /\ ~Delete(p)
      <3>1. UNCHANGED legacy /\ Deletions' = Deletions
        BY <2>2, OtherSteps
      <3> QED
        BY <3>1 DEF Whole
    <2> QED
      BY <2>1, <2>2
  <1>2. PICK s \in Whole' : \/ keyring' # Absent /\ keyring' # legacy'[s]
                            \/ \E t \in Whole' : legacy'[t] # legacy'[s]
    BY DEF Wedged, Whole, Intact, Deletions
  <1>3. CASE \E t \in Whole' : legacy'[t] # legacy'[s]
    BY <1>1, <1>2, <1>3 DEF Wedged, Whole, Intact, Deletions
  <1>4. CASE keyring' # Absent /\ keyring' # legacy'[s]
    <2>1. s \in Sources /\ Intact(s) /\ legacy'[s] = legacy[s]
      BY <1>1, <1>2 DEF Whole, Intact, Deletions
    <2>2. ASSUME NEW p \in Procs PROVE ~Store(p)
      BY <1>4, <2>1, StoredAgrees
    <2>3. ASSUME NEW p \in Procs PROVE ~SetToken(p)
      BY <2>1 DEF SetToken, Swept, Guarded, Intact
    <2>4. keyring' = keyring
      <3>1. \/ UNCHANGED keyring
            \/ \E p \in Procs : DeleteToken(p)
        BY <2>2, <2>3 DEF Next, Step, Use, vars, Start, Prelude, ReadSource, PlanNothing,
             PlanConflict, PlanCleanup, PlanStore, StoreRefused, Zero, Delete, Deleted,
             Save, Abort, Close
      <3> QED
        BY <1>4, <3>1 DEF DeleteToken
    <2> QED
      BY <1>4, <2>1, <2>4 DEF Wedged
  <1> QED
    BY <1>2, <1>3, <1>4

\* When no read of a legacy place fails, no run ends between secureDelete's
\* overwrite and its remove, and no command goes round the migration, then from
\* a state in which a run would succeed no step of any process, stale
\* migrations and --overwrite included, leads to one in which every later run
\* reports the conflict error.
THEOREM NeverWedged ==
  ASSUME ReadFaults = FALSE, TornDelete = FALSE, "skip" \notin Modes
  PROVE  Spec => NoWedge
  <1>1. Init => WedgeInv
    <2> SUFFICES ASSUME Init PROVE WedgeInv
      OBVIOUS
    <2>1. TypeOK /\ Planned
      BY FaultsAssumption DEF Init, TypeOK, Planned, PCs, AllModes, Bytes, Tokens
    <2>2. Genuine /\ Swept
      BY DEF Init, Genuine, Swept
    <2>3. Banked /\ ZerosTrace
      BY ZerosAssumption, AbsentAssumption DEF Init, Banked, ZerosTrace, NoTokenLost, Bytes, Tokens
    <2>4. Guarded
      BY ZerosAssumption, AbsentAssumption DEF Init, Guarded, Bytes, Tokens
    <2> QED
      BY <2>1, <2>2, <2>3, <2>4 DEF WedgeInv, LossInv, SweptInv
  <1>2. WedgeInv /\ [Next]_vars => WedgeInv'
    BY LossStep, SweptStep, ZerosStep, GuardedStep DEF WedgeInv, LossInv
  <1>3. WedgeInv /\ [Next]_vars => [~Wedged => ~Wedged']_vars
    BY WedgeStep
  <1> QED
    BY <1>1, <1>2, <1>3, PTL DEF Spec, NoWedge
=============================================================================
