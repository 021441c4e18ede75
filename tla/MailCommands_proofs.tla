-------------------------- MODULE MailCommands_proofs --------------------------
(***************************************************************************)
(* Theorems of MailCommands, for any command lines, mailbox, message and   *)
(* archive: what holds of the bulk commands by BulkModify_proofs, of a     *)
(* download, of a draft, and of what `mail read` shows (module Reading) by *)
(* the invariants below.                                                   *)
(***************************************************************************)
EXTENDS Reading, FiniteSetTheorems, SequenceTheorems, WellFoundedInduction, TLAPS

\* A non-empty set of numbers has a least one.
LEMMA Least ==
  ASSUME NEW S \in SUBSET Nat, S # {}
  PROVE  \E x \in S : \A y \in S : x <= y
  <1>1. \E x \in S : \A y \in S : ~ (<<y, x>> \in OpToRel(<, Nat))
    BY NatLessThanWellFounded, WFMin
  <1>2. PICK x \in S : \A y \in S : ~ (y < x)
    BY <1>1 DEF OpToRel
  <1>3. \A y \in S : x <= y
    BY <1>2
  <1> QED
    BY <1>3

\* What holds of 0, and of n + 1 if it does of n, holds of every number.
LEMMA Induction ==
  ASSUME NEW S \in SUBSET Nat, 0 \in S, \A n \in S : n + 1 \in S
  PROVE  S = Nat
  <1> SUFFICES ASSUME Nat \ S # {} PROVE FALSE
    OBVIOUS
  <1>1. PICK n \in Nat \ S : \A k \in Nat \ S : n <= k
    BY Least
  <1>2. n - 1 \in Nat /\ n - 1 \notin Nat \ S
    BY <1>1
  <1> QED
    BY <1>1, <1>2

\* What holds of n if it does of all before holds of every number.
LEMMA StrongInduction ==
  ASSUME NEW S \in SUBSET Nat, \A n \in Nat : (\A k \in Nat : k < n => k \in S) => n \in S
  PROVE  S = Nat
  <1> SUFFICES ASSUME Nat \ S # {} PROVE FALSE
    OBVIOUS
  <1>1. PICK n \in Nat \ S : \A k \in Nat \ S : n <= k
    BY Least
  <1>2. \A k \in Nat : k < n => k \in S
    BY <1>1
  <1> QED
    BY <1>1, <1>2

\* A function that is defined step by step up to N.
Steps(N, V) == [1..N -> [V -> V]]
Stepped(f, N, V, b, onward) ==
  f \in [0..N -> V] /\ f[0] = b /\ \A i \in 1..N : f[i] = onward[i][f[i-1]]

\* It exists.
LEMMA Stepwise ==
  ASSUME NEW N \in Nat, NEW V, NEW b \in V, NEW onward \in Steps(N, V)
  PROVE  \E f : Stepped(f, N, V, b, onward)
  <1> DEFINE Good(f, n) == f[0] = b /\ \A i \in 1..N : i <= n => f[i] = onward[i][f[i-1]]
             S == {n \in Nat : n <= N => \E f \in [0..N -> V] : Good(f, n)}
  <1>1. 0 \in S
    <2> DEFINE f == [i \in 0..N |-> b]
    <2>1. f \in [0..N -> V] /\ f[0] = b
      OBVIOUS
    <2>2. \A i \in 1..N : ~(i <= 0)
      OBVIOUS
    <2> QED
      BY <2>1, <2>2
  <1>2. ASSUME NEW n \in S PROVE n + 1 \in S
    <2> SUFFICES ASSUME n + 1 <= N PROVE \E f \in [0..N -> V] : Good(f, n + 1)
      OBVIOUS
    <2>1. PICK f \in [0..N -> V] : Good(f, n)
      OBVIOUS
    <2> DEFINE g == [i \in 0..N |-> IF i = n + 1 THEN onward[n+1][f[n]] ELSE f[i]]
    <2>2. n + 1 \in 1..N /\ n \in 0..N /\ n \in Nat
      OBVIOUS
    <2>3. onward[n+1] \in [V -> V] /\ f[n] \in V
      BY <2>2 DEF Steps
    <2>4. onward[n+1][f[n]] \in V
      BY <2>3
    <2>5. g \in [0..N -> V]
      BY <2>4
    <2>6. g[0] = b
      BY <2>1, <2>2
    <2>7. ASSUME NEW i \in 1..N, i <= n + 1 PROVE g[i] = onward[i][g[i-1]]
      <3>1. i \in 0..N /\ i - 1 \in 0..N /\ i - 1 # n + 1
        BY <2>2, <2>7
      <3>2. g[i-1] = f[i-1]
        BY <3>1
      <3>3. CASE i = n + 1
        BY <2>2, <3>1, <3>2, <3>3
      <3>4. CASE i # n + 1
        <4>1. i <= n
          BY <2>2, <2>7, <3>4
        <4> QED
          BY <2>1, <3>1, <3>2, <3>4, <4>1
      <3> QED
        BY <3>3, <3>4
    <2> HIDE DEF g
    <2> QED
      BY <2>5, <2>6, <2>7
  <1>3. N \in S
    <2>1. S \in SUBSET Nat /\ \A n \in S : n + 1 \in S
      BY <1>2
    <2> HIDE DEF S
    <2> QED
      BY <1>1, <2>1, Induction
  <1>4. PICK f \in [0..N -> V] : Good(f, N)
    BY <1>3
  <1> QED
    BY <1>4 DEF Stepped

\* The k-th of a finite set of indices is one of them, grows with k, and each
\* of them is the k-th for some k.
LEMMA NthIndex ==
  ASSUME NEW I \in SUBSET Nat, IsFiniteSet(I)
  PROVE  /\ Cardinality(I) \in Nat
         /\ \A k \in 1..Cardinality(I) : Nth(I, k) \in I
         /\ \A j, k \in 1..Cardinality(I) : j < k => Nth(I, j) < Nth(I, k)
         /\ \A i \in I : \E k \in 1..Cardinality(I) : Nth(I, k) = i
  <1> DEFINE upTo(i) == {j \in I : j <= i}
             n == Cardinality(I)
             rank == [i \in I |-> Cardinality(upTo(i))]
  <1>1. \A i \in I : /\ IsFiniteSet(upTo(i)) /\ Cardinality(upTo(i)) \in Nat
                     /\ Cardinality(upTo(i)) <= n
    <2> SUFFICES ASSUME NEW i \in I
                 PROVE  /\ IsFiniteSet(upTo(i)) /\ Cardinality(upTo(i)) \in Nat
                        /\ Cardinality(upTo(i)) <= n
      OBVIOUS
    <2>1. upTo(i) \in SUBSET I
      OBVIOUS
    <2> HIDE DEF upTo
    <2> QED
      BY <2>1, FS_Subset, FS_CardinalityType
  <1>2. n \in Nat
    BY FS_CardinalityType
  <1>3. ASSUME NEW i \in I PROVE Cardinality(upTo(i)) # 0
    <2>1. i \in upTo(i)
      OBVIOUS
    <2> HIDE DEF upTo
    <2> QED
      BY <1>1, <2>1, FS_EmptySet
  <1>4. ASSUME NEW i \in I, NEW j \in I, i < j
        PROVE  Cardinality(upTo(i)) < Cardinality(upTo(j))
    <2>0. i \in Nat /\ j \in Nat /\ \A x \in I : x \in Nat
      OBVIOUS
    <2>a. \A x \in I : x <= i => x <= j
      <3> SUFFICES ASSUME NEW x \in I, x <= i PROVE x <= j
        OBVIOUS
      <3> QED
        BY <1>4, <2>0
    <2>b. j <= j /\ ~(j <= i)
      BY <1>4, <2>0
    <2>1. upTo(i) \in SUBSET upTo(j) /\ j \in upTo(j) /\ j \notin upTo(i)
      BY <2>a, <2>b
    <2> HIDE DEF upTo
    <2>2. Cardinality(upTo(i)) <= Cardinality(upTo(j)) /\ Cardinality(upTo(i)) # Cardinality(upTo(j))
      BY <1>1, <2>1, FS_Subset
    <2> QED
      BY <1>1, <2>2
  <1>5. rank \in Injection(I, 1..n)
    <2>1. rank \in [I -> 1..n]
      BY <1>1, <1>2, <1>3
    <2>2. \A i, j \in I : rank[i] = rank[j] => i = j
      BY <1>1, <1>4
    <2> QED
      BY <2>1, <2>2 DEF Injection, IsInjective
  <1>6. rank \in Surjection(I, 1..n)
    <2>1. IsFiniteSet(1..n) /\ Cardinality(1..n) = n
      BY <1>2, FS_Interval
    <2> QED
      BY <1>5, <2>1, FS_Injection
  <1>7. \A k \in 1..n : \E i \in I : Cardinality(upTo(i)) = k
    BY <1>6 DEF Surjection
  <1>8. \A k \in 1..n : Nth(I, k) \in I /\ Cardinality(upTo(Nth(I, k))) = k
    BY <1>7 DEF Nth
  <1>9. \A j, k \in 1..n : j < k => Nth(I, j) < Nth(I, k)
    <2> SUFFICES ASSUME NEW j \in 1..n, NEW k \in 1..n, j < k
                 PROVE  Nth(I, j) < Nth(I, k)
      OBVIOUS
    <2> DEFINE x == Nth(I, j)
               y == Nth(I, k)
    <2>1. x \in I /\ y \in I /\ Cardinality(upTo(x)) = j /\ Cardinality(upTo(y)) = k
      BY <1>8
    <2> HIDE DEF x, y, upTo
    <2>2. x \in Nat /\ y \in Nat
      BY <2>1
    <2>3. x = y \/ y < x => j >= k
      BY <1>4, <2>1
    <2>4. x < y
      BY <2>2, <2>3
    <2> QED
      BY <2>4 DEF x, y
  <1>10. ASSUME NEW i \in I PROVE \E k \in 1..n : Nth(I, k) = i
    <2> DEFINE k == Cardinality(upTo(i))
    <2>1. k \in 1..n
      BY <1>1, <1>2, <1>3
    <2>2. Nth(I, k) \in I /\ Cardinality(upTo(Nth(I, k))) = k
      BY <1>8, <2>1
    <2>3. rank[Nth(I, k)] = rank[i]
      BY <2>2
    <2>4. Nth(I, k) = i
      BY <1>5, <2>2, <2>3 DEF Injection, IsInjective
    <2> QED
      BY <2>1, <2>4
  <1> QED
    BY <1>2, <1>8, <1>9, <1>10

\* A selection has the elements at the chosen indices, in their order.
LEMMA SelectedElements ==
  ASSUME NEW S, NEW s \in Seq(S), NEW I \in SUBSET (DOMAIN s)
  PROVE  /\ Cardinality(I) \in Nat
         /\ Selected(s, I) \in Seq(S) /\ Len(Selected(s, I)) = Cardinality(I)
         /\ \A k \in 1..Cardinality(I) : Nth(I, k) \in I /\ Selected(s, I)[k] = s[Nth(I, k)]
         /\ \A j, k \in 1..Cardinality(I) : j < k => Nth(I, j) < Nth(I, k)
         /\ \A i \in I : \E k \in 1..Cardinality(I) : Nth(I, k) = i
         /\ Range(Selected(s, I)) = {s[i] : i \in I}
  <1> DEFINE len == Len(s)
             n == Cardinality(I)
  <1>1. len \in Nat /\ DOMAIN s = 1..len /\ \A i \in 1..len : s[i] \in S
    OBVIOUS
  <1>2. I \in SUBSET Nat /\ IsFiniteSet(I)
    <2> HIDE DEF len
    <2>1. IsFiniteSet(1..len) /\ I \in SUBSET (1..len)
      BY <1>1, FS_Interval
    <2> QED
      BY <1>1, <2>1, FS_Subset
  <1>3. /\ n \in Nat
        /\ \A k \in 1..n : Nth(I, k) \in I
        /\ \A j, k \in 1..n : j < k => Nth(I, j) < Nth(I, k)
        /\ \A i \in I : \E k \in 1..n : Nth(I, k) = i
    BY <1>2, NthIndex
  <1> HIDE DEF n, len
  <1>4. \A k \in 1..n : s[Nth(I, k)] \in S
    BY <1>1, <1>3
  <1>5. Selected(s, I) = [k \in 1..n |-> s[Nth(I, k)]]
    BY DEF Selected, n
  <1>6. Selected(s, I) \in Seq(S) /\ Len(Selected(s, I)) = n
    BY <1>3, <1>4, <1>5
  <1>7. Range(Selected(s, I)) = {s[i] : i \in I}
    BY <1>3, <1>5 DEF Range
  <1> QED
    BY <1>3, <1>5, <1>6, <1>7 DEF n
-----------------------------------------------------------------------------
(* The bulk commands: what BulkModify_proofs shows of them, here.          *)

BulkProofs == INSTANCE BulkModify_proofs

\* The instance with the proofs is the one of MailCommands.
LEMMA SameBulk ==
  /\ Bulk!BulkConstants <=> BulkProofs!BulkConstants
  /\ Bulk!Init <=> BulkProofs!Init
  /\ Bulk!Next <=> BulkProofs!Next
  /\ Bulk!TypeOK <=> BulkProofs!TypeOK
  /\ Bulk!TouchedPrefix <=> BulkProofs!TouchedPrefix
  /\ Bulk!Drains <=> BulkProofs!Drains
  /\ Bulk!Named = BulkProofs!Named /\ Bulk!Sources = BulkProofs!Sources
  /\ Bulk!Categories = BulkProofs!Categories
  /\ \A S : Bulk!Cardinality(S) = BulkProofs!Cardinality(S)
  /\ \A L : Bulk!Apply(L) = BulkProofs!Apply(L)
  <1>0. /\ \A S : Bulk!IsFiniteSet(S) <=> BulkProofs!IsFiniteSet(S)
        /\ \A S : Bulk!Cardinality(S) = BulkProofs!Cardinality(S)
        /\ \A s : Bulk!Range(s) = BulkProofs!Range(s)
        /\ \A s : Bulk!IsInjective(s) <=> BulkProofs!IsInjective(s)
    BY DEF Bulk!IsFiniteSet, BulkProofs!IsFiniteSet, Bulk!Cardinality, BulkProofs!Cardinality,
           Bulk!Range, BulkProofs!Range, Bulk!IsInjective, BulkProofs!IsInjective
  <1>1. Bulk!Labels = BulkProofs!Labels /\ Bulk!Verbs = BulkProofs!Verbs
        /\ Bulk!Categories = BulkProofs!Categories
    BY DEF Bulk!Labels, BulkProofs!Labels, Bulk!Verbs, BulkProofs!Verbs,
           Bulk!Categories, BulkProofs!Categories
  <1>2. Bulk!BulkConstants <=> BulkProofs!BulkConstants
    BY <1>0, <1>1 DEF Bulk!BulkConstants, BulkProofs!BulkConstants
  <1>3. Bulk!Named = BulkProofs!Named /\ Bulk!Sources = BulkProofs!Sources
        /\ Bulk!Matching = BulkProofs!Matching
    BY <1>0 DEF Bulk!Named, BulkProofs!Named, Bulk!Sources, BulkProofs!Sources,
           Bulk!Matching, BulkProofs!Matching
  <1>4. Bulk!Init <=> BulkProofs!Init
    BY <1>3 DEF Bulk!Init, BulkProofs!Init
  <1>5. Bulk!Change = BulkProofs!Change
    BY <1>1 DEF Bulk!Change, BulkProofs!Change, Bulk!Effect, BulkProofs!Effect
  <1>6. \A L : Bulk!Apply(L) = BulkProofs!Apply(L)
    BY <1>5 DEF Bulk!Apply, BulkProofs!Apply
  <1>7. Bulk!Page = BulkProofs!Page
    BY <1>0, <1>3 DEF Bulk!Page, BulkProofs!Page
  <1>8. Bulk!Through = BulkProofs!Through
    BY DEF Bulk!Through, BulkProofs!Through
  <1>9. Bulk!Chunk = BulkProofs!Chunk
    BY <1>8 DEF Bulk!Chunk, BulkProofs!Chunk
  <1>10. Bulk!Changed <=> BulkProofs!Changed
    BY <1>6, <1>9 DEF Bulk!Changed, BulkProofs!Changed
  <1>11. (Bulk!NewClient <=> BulkProofs!NewClient) /\ (Bulk!ResolveLabel <=> BulkProofs!ResolveLabel)
    BY <1>1 DEF Bulk!NewClient, BulkProofs!NewClient, Bulk!ResolveLabel, BulkProofs!ResolveLabel,
                Bulk!Goto, BulkProofs!Goto, Bulk!mailbox, BulkProofs!mailbox,
                Bulk!history, BulkProofs!history
  <1>12. Bulk!ResolveIDs <=> BulkProofs!ResolveIDs
    BY <1>3, <1>7 DEF Bulk!ResolveIDs, BulkProofs!ResolveIDs, Bulk!Goto, BulkProofs!Goto,
                      Bulk!mailbox, BulkProofs!mailbox
  <1>13. (Bulk!Send <=> BulkProofs!Send) /\ (Bulk!SendFails <=> BulkProofs!SendFails)
    BY <1>8, <1>10 DEF Bulk!Send, BulkProofs!Send, Bulk!SendFails, BulkProofs!SendFails,
                       Bulk!Goto, BulkProofs!Goto
  <1>14. (Bulk!Done <=> BulkProofs!Done) /\ (Bulk!Refuse <=> BulkProofs!Refuse)
    BY <1>0, <1>3 DEF Bulk!Done, BulkProofs!Done, Bulk!Refuse, BulkProofs!Refuse, Bulk!Goto, BulkProofs!Goto,
                Bulk!mailbox, BulkProofs!mailbox, Bulk!history, BulkProofs!history
  <1>15. /\ Bulk!Again <=> BulkProofs!Again
         /\ \A x : Bulk!Arrive(x) <=> BulkProofs!Arrive(x)
         /\ \A x : Bulk!Move(x) <=> BulkProofs!Move(x)
    BY DEF Bulk!Again, BulkProofs!Again, Bulk!Arrive, BulkProofs!Arrive, Bulk!Move, BulkProofs!Move,
           Bulk!mailbox, BulkProofs!mailbox
  <1>16. Bulk!Next <=> BulkProofs!Next
    BY <1>11, <1>12, <1>13, <1>14, <1>15
       DEF Bulk!Next, BulkProofs!Next, Bulk!Command, BulkProofs!Command
  <1>17. Bulk!TypeOK <=> BulkProofs!TypeOK
    BY <1>1 DEF Bulk!TypeOK, BulkProofs!TypeOK
  <1>18. Bulk!TouchedPrefix <=> BulkProofs!TouchedPrefix
    BY <1>0, <1>8 DEF Bulk!TouchedPrefix, BulkProofs!TouchedPrefix
  <1>19. Bulk!Drains <=> BulkProofs!Drains
    BY <1>0, <1>3, <1>5 DEF Bulk!Drains, BulkProofs!Drains
  <1> QED
    BY <1>0, <1>1, <1>2, <1>3, <1>4, <1>6, <1>16, <1>17, <1>18, <1>19

BulkInv == BulkProofs!BulkInv /\ BulkProofs!Shrinks

\* The invariant of the bulk commands holds whatever command runs.
LEMMA BulkInvariant == MailSpec => []BulkInv
  <1>0. BulkProofs!BulkConstants
    BY BulkAssumption, SameBulk
  <1>1. MailInit => BulkInv
    <2>1. MailInit => BulkProofs!Init
      BY SameBulk DEF MailInit
    <2>2. BulkProofs!Init => BulkProofs!BulkInv
      BY <1>0, BulkProofs!BulkInit
    <2>3. BulkProofs!Init => BulkProofs!Shrinks
      BY DEF BulkProofs!Init, BulkProofs!Shrinks
    <2> QED
      BY <2>1, <2>2, <2>3 DEF BulkInv
  <1>2. BulkInv /\ [MailNext]_<<kind, vars, bulkVars, downloadVars>> => BulkInv'
    <2> SUFFICES ASSUME BulkInv, [MailNext]_<<kind, vars, bulkVars, downloadVars>>
                 PROVE  BulkInv'
      OBVIOUS
    <2>1. BulkProofs!Next \/ UNCHANGED bulkVars
      BY SameBulk DEF MailNext
    <2>2. [BulkProofs!Next]_(BulkProofs!vars)
      BY <2>1 DEF bulkVars, BulkProofs!vars, BulkProofs!mailbox, BulkProofs!history
    <2> QED
      BY <1>0, <2>2, BulkProofs!BulkStep, BulkProofs!ShrinksStep DEF BulkInv
  <1> QED
    BY <1>1, <1>2, PTL DEF MailSpec

\* However a bulk run ends, the messages it has changed are those of the calls
\* that succeeded and at most one chunk more; success means all of them.
THEOREM BulkChunks == MailSpec => []BulkTouchedPrefix
  <1>1. BulkInv => BulkTouchedPrefix
    BY BulkProofs!PrefixHolds, SameBulk DEF BulkInv, BulkTouchedPrefix
  <1> QED
    BY <1>1, BulkInvariant, PTL

\* A bulk command changes a message only if it was asked for, and only as
\* asked; one that is refused changes none.
THEOREM BulkAsked == MailSpec => BulkOnlyAsked
  <1>0. BulkProofs!BulkConstants
    BY BulkAssumption, SameBulk
  <1>1. BulkInv /\ [MailNext]_<<kind, vars, bulkVars, downloadVars>>
          => [BulkProofs!AskedStep]_(Bulk!vars)
    <2> SUFFICES ASSUME BulkInv, [MailNext]_<<kind, vars, bulkVars, downloadVars>>
                 PROVE  BulkProofs!AskedStep \/ UNCHANGED Bulk!vars
      OBVIOUS
    <2>1. BulkProofs!Next \/ UNCHANGED bulkVars
      BY SameBulk DEF MailNext
    <2>2. CASE BulkProofs!Next
      BY <1>0, <2>2, BulkProofs!AskedHolds DEF BulkInv
    <2>3. CASE UNCHANGED bulkVars
      BY <2>3 DEF bulkVars, Bulk!vars, Bulk!mailbox, Bulk!history
    <2> QED
      BY <2>1, <2>2, <2>3
  <1>2. BulkProofs!AskedStep <=> Bulk!AskedStep
    BY SameBulk DEF BulkProofs!AskedStep, Bulk!AskedStep
  <1>3. BulkInv /\ [MailNext]_<<kind, vars, bulkVars, downloadVars>> => [Bulk!AskedStep]_(Bulk!vars)
    BY <1>1, <1>2
  <1> QED
    BY <1>3, BulkInvariant, PTL DEF MailSpec, BulkOnlyAsked, Bulk!OnlyAsked

\* A command that takes off the label it searches for leaves a page less of it
\* with every run that succeeds, or nothing, if nobody else interferes.
THEOREM BulkPages == MailSpec => []BulkDrains
  <1>0. BulkProofs!BulkConstants
    BY BulkAssumption, SameBulk
  <1>1. BulkInv => BulkDrains
    BY <1>0, BulkProofs!DrainsHolds, SameBulk DEF BulkInv, BulkDrains
  <1> QED
    BY <1>1, BulkInvariant, PTL

-----------------------------------------------------------------------------
(* What is unpacked of an archive.                                         *)

\* The operators that Attachments takes from elsewhere are the ones here.
LEMMA SameOperators ==
  /\ \A S : Download!IsFiniteSet(S) <=> IsFiniteSet(S)
  /\ \A S : Download!Cardinality(S) = Cardinality(S)
  /\ \A s : Download!Range(s) = Range(s)
  /\ \A s : Download!IsInjective(s) <=> IsInjective(s)
  /\ \A s, I : Download!Selected(s, I) = Selected(s, I)
  /\ \A s : Download!FlattenSeq(s) = FlattenSeq(s)
  <1>1. /\ \A S : Download!IsFiniteSet(S) <=> IsFiniteSet(S)
        /\ \A S : Download!Cardinality(S) = Cardinality(S)
        /\ \A s : Download!Range(s) = Range(s)
        /\ \A s : Download!IsInjective(s) <=> IsInjective(s)
    BY DEF Download!IsFiniteSet, IsFiniteSet, Download!Cardinality, Cardinality,
           Download!Range, Range, Download!IsInjective, IsInjective
  <1>2. \A I, k : Download!Nth(I, k) = Nth(I, k)
    BY <1>1 DEF Download!Nth, Nth
  <1>3. \A s : Download!FlattenSeq(s) = FlattenSeq(s)
    BY DEF Download!FlattenSeq, FlattenSeq
  <1> QED
    BY <1>1, <1>2, <1>3 DEF Download!Selected, Selected

\* Fewer files have no more bytes.
LEMMA BytesShrink ==
  ASSUME NEW some, NEW fewer \in SUBSET some, IsFiniteSet(Download!Bytes(some))
  PROVE  /\ IsFiniteSet(Download!Bytes(fewer))
         /\ Cardinality(Download!Bytes(fewer)) <= Cardinality(Download!Bytes(some))
  <1>1. Download!Bytes(fewer) \in SUBSET Download!Bytes(some)
    BY DEF Download!Bytes
  <1> QED
    BY <1>1, FS_Subset

\* One more file adds as many bytes as it has.
LEMMA BytesGrow ==
  ASSUME NEW some, NEW n, NEW k \in Nat, IsFiniteSet(Download!Bytes(some))
  PROVE  LET more == some \cup {[name |-> n, size |-> k]} IN
         /\ IsFiniteSet(Download!Bytes(more))
         /\ Cardinality(Download!Bytes(more)) <= Cardinality(Download!Bytes(some)) + k
  <1> DEFINE new == {n} \X (1..k)
             old == Download!Bytes(some)
  <1>1. Download!Bytes(some \cup {[name |-> n, size |-> k]}) = old \cup new
    <2>1. \A X, b : b \in Download!Bytes(X) <=> \E u \in X : b \in {u.name} \X (1..u.size)
      BY DEF Download!Bytes
    <2> DEFINE file == [name |-> n, size |-> k]
    <2>2. {file.name} \X (1..file.size) = new
      OBVIOUS
    <2> HIDE DEF file, new
    <2>3. \A b : b \in Download!Bytes(some \cup {file}) <=> b \in old \cup new
      BY <2>1, <2>2
    <2>4. Download!Bytes(some \cup {file}) = old \cup new
      BY <2>3
    <2> QED
      BY <2>4 DEF file
  <1>2. IsFiniteSet(new) /\ Cardinality(new) = k
    <2>1. IsFiniteSet({n}) /\ Cardinality({n}) = 1
      BY FS_Singleton
    <2>2. IsFiniteSet(1..k) /\ Cardinality(1..k) = k
      BY FS_Interval
    <2>3. IsFiniteSet(new) /\ Cardinality(new) = 1 * k
      BY <2>1, <2>2, FS_Product
    <2> QED
      BY <2>3
  <1>3. IsFiniteSet(old \cap new) /\ Cardinality(old \cap new) \in Nat
        /\ Cardinality(old) \in Nat
    BY FS_Intersection, FS_CardinalityType
  <1> HIDE DEF new, old
  <1>4. /\ IsFiniteSet(old \cup new)
        /\ Cardinality(old \cup new) = Cardinality(old) + k - Cardinality(old \cap new)
    BY <1>2, FS_Union DEF old
  <1>5. Cardinality(old \cup new) <= Cardinality(old) + k
    BY <1>3, <1>4
  <1> QED
    BY <1>1, <1>4, <1>5 DEF old

\* The files of an archive but the one at which its extraction ended.
Rest == {u \in unpacked : u.name \notin Download!Cut}

\* While an archive is unpacked, its files hold no more than what was counted
\* of it, and are no more than the entries that were passed; once that has ended,
\* the same is true of all but the last.
UnzipInv ==
  /\ IsFiniteSet(unpacked) /\ Cardinality(unpacked) <= MaxFiles
  /\ \A u \in unpacked : u.size <= MaxFileSize + 1
  /\ IsFiniteSet(Download!Bytes(unpacked))
  /\ total \in 0..MaxTotalSize + MaxFileSize
  /\ \A u \in Rest : u.size <= MaxFileSize
  /\ Cardinality(Download!Bytes(Rest)) <= MaxTotalSize
  /\ stage = "unpack" =>
       /\ archive \in Archives /\ Len(archive) <= MaxFiles /\ entry \in DOMAIN archive
       /\ Cardinality(unpacked) < entry /\ total <= MaxTotalSize
       /\ Cardinality(Download!Bytes(unpacked)) <= total

\* The constants of Attachments, by the operators here.
LEMMA DownloadConstants ==
  /\ MaxFileSize \in Nat /\ MaxTotalSize \in Nat /\ MaxFiles \in Nat /\ MaxDepth \in Nat
  /\ \A z \in Archives : Len(z) \in Nat /\ DOMAIN z = 1..Len(z)
                         /\ \A i \in DOMAIN z : z[i].size \in Nat
  <1>1. \A z \in Archives : z \in Seq(Range(z)) /\ \A e \in Range(z) : e.size \in Nat
    BY AttachmentAssumption, SameOperators DEF Download!Limits
  <1>2. ASSUME NEW z \in Archives
        PROVE  Len(z) \in Nat /\ DOMAIN z = 1..Len(z) /\ \A i \in DOMAIN z : z[i].size \in Nat
    <2>1. z \in Seq(Range(z)) /\ \A e \in Range(z) : e.size \in Nat
      BY <1>1
    <2>2. Len(z) \in Nat /\ DOMAIN z = 1..Len(z)
      BY <2>1
    <2>3. \A i \in DOMAIN z : z[i] \in Range(z)
      BY DEF Range
    <2> QED
      BY <2>1, <2>2, <2>3
  <1> QED
    BY <1>2, AttachmentAssumption DEF Download!Limits

\* What Written is.
LEMMA WrittenIs ==
  ASSUME NEW e, e.size \in Nat
  PROVE  /\ Download!Written(e) \in Nat
         /\ Download!Written(e) <= MaxFileSize + 1
  BY DownloadConstants DEF Download!Written

\* What one more file on disk does to the invariant.
LEMMA OneMore ==
  ASSUME NEW n, NEW k \in Nat, UnzipInv
  PROVE  LET more == {u \in unpacked : u.name # n} \cup {[name |-> n, size |-> k]} IN
         /\ IsFiniteSet(more) /\ Cardinality(more) \in Nat
         /\ Cardinality(more) <= Cardinality(unpacked) + 1
         /\ IsFiniteSet(Download!Bytes(more)) /\ Cardinality(Download!Bytes(more)) \in Nat
         /\ Cardinality(Download!Bytes(more)) <= Cardinality(Download!Bytes(unpacked)) + k
  <1> DEFINE rest == {u \in unpacked : u.name # n}
             new  == [name |-> n, size |-> k]
  <1>1. rest \in SUBSET unpacked
    OBVIOUS
  <1> HIDE DEF rest
  <1>3. IsFiniteSet(rest) /\ Cardinality(rest) <= Cardinality(unpacked)
        /\ Cardinality(rest) \in Nat /\ Cardinality(unpacked) \in Nat
    BY <1>1, FS_Subset, FS_CardinalityType DEF UnzipInv
  <1>4. /\ IsFiniteSet(Download!Bytes(rest))
        /\ Cardinality(Download!Bytes(rest)) <= Cardinality(Download!Bytes(unpacked))
        /\ Cardinality(Download!Bytes(rest)) \in Nat
        /\ Cardinality(Download!Bytes(unpacked)) \in Nat
    BY <1>1, BytesShrink, FS_CardinalityType DEF UnzipInv
  <1>5. /\ IsFiniteSet(Download!Bytes(rest \cup {new}))
        /\ Cardinality(Download!Bytes(rest \cup {new})) <= Cardinality(Download!Bytes(rest)) + k
    BY <1>4, BytesGrow
  <1> HIDE DEF new
  <1>6. IsFiniteSet(rest \cup {new})
        /\ (Cardinality(rest \cup {new}) = Cardinality(rest)
            \/ Cardinality(rest \cup {new}) = Cardinality(rest) + 1)
    BY <1>3, FS_AddElement
  <1>7. Cardinality(Download!Bytes(rest \cup {new})) \in Nat /\ Cardinality(rest \cup {new}) \in Nat
    BY <1>5, <1>6, FS_CardinalityType
  <1>8. /\ Cardinality(rest \cup {new}) <= Cardinality(unpacked) + 1
        /\ Cardinality(Download!Bytes(rest \cup {new})) <= Cardinality(Download!Bytes(unpacked)) + k
    BY <1>3, <1>4, <1>5, <1>6, <1>7
  <1> QED
    BY <1>5, <1>6, <1>7, <1>8 DEF rest, new

\* While an archive is unpacked, some of its files hold no more than is allowed.
LEMMA SomeWithin ==
  ASSUME UnzipInv, stage = "unpack", NEW some \in SUBSET unpacked
  PROVE  /\ \A u \in some : u.size <= MaxFileSize
         /\ Cardinality(Download!Bytes(some)) <= MaxTotalSize
  <1>1. Rest = unpacked
    BY DEF Rest, Download!Cut
  <1>2. /\ IsFiniteSet(Download!Bytes(some))
        /\ Cardinality(Download!Bytes(some)) <= Cardinality(Download!Bytes(unpacked))
        /\ IsFiniteSet(Download!Bytes(unpacked))
    BY BytesShrink DEF UnzipInv
  <1>3. /\ Cardinality(Download!Bytes(some)) \in Nat /\ Cardinality(Download!Bytes(unpacked)) \in Nat
    BY <1>2, FS_CardinalityType
  <1> QED
    BY <1>1, <1>2, <1>3, DownloadConstants DEF UnzipInv

\* What ends an extraction at an entry leaves at most that entry's file behind
\* of what was not counted.
LEMMA EndsWithin ==
  ASSUME UnzipInv, stage = "unpack", stage' = "over", archive' = archive, entry' = entry,
         \A u \in unpacked' : u \in unpacked \/ u.name = archive[entry].name,
         total' \in 0..MaxTotalSize + MaxFileSize,
         IsFiniteSet(unpacked'), Cardinality(unpacked') <= MaxFiles,
         \A u \in unpacked' : u.size <= MaxFileSize + 1,
         IsFiniteSet(Download!Bytes(unpacked'))
  PROVE  UnzipInv'
  <1>1. Download!Cut' = {archive[entry].name}
    BY DEF Download!Cut, UnzipInv
  <1>2. Rest' \in SUBSET unpacked
    BY <1>1 DEF Rest
  <1>3. /\ \A u \in Rest' : u.size <= MaxFileSize
        /\ Cardinality(Download!Bytes(Rest')) <= MaxTotalSize
    BY <1>2, SomeWithin
  <1>4. Download!Bytes(unpacked)' = Download!Bytes(unpacked') /\ Download!Bytes(Rest)' = Download!Bytes(Rest')
    BY DEF Download!Bytes
  <1> QED
    BY <1>3, <1>4 DEF UnzipInv

\* The entry that is unpacked, and what was unpacked before it.
LEMMA Unpacking ==
  ASSUME UnzipInv, stage = "unpack"
  PROVE  /\ archive[entry].size \in Nat /\ entry \in Nat /\ entry <= Len(archive)
         /\ archive \in Archives /\ entry \in DOMAIN archive
         /\ DOMAIN archive = 1..Len(archive) /\ Len(archive) \in Nat /\ Len(archive) <= MaxFiles
         /\ Download!Written(archive[entry]) \in Nat
         /\ Download!Written(archive[entry]) <= MaxFileSize + 1
         /\ Cardinality(unpacked) \in Nat /\ Cardinality(Download!Bytes(unpacked)) \in Nat
         /\ Cardinality(unpacked) < entry
         /\ total \in Nat /\ total <= MaxTotalSize
         /\ Cardinality(Download!Bytes(unpacked)) <= total
         /\ \A u \in unpacked : u.size <= MaxFileSize
  <1>1. archive \in Archives /\ entry \in DOMAIN archive
    BY DEF UnzipInv
  <1>2. archive[entry].size \in Nat /\ DOMAIN archive = 1..Len(archive) /\ Len(archive) \in Nat
    BY <1>1, DownloadConstants
  <1>3. Cardinality(unpacked) \in Nat /\ Cardinality(Download!Bytes(unpacked)) \in Nat
    BY FS_CardinalityType DEF UnzipInv
  <1>4. \A u \in unpacked : u.size <= MaxFileSize
    BY SomeWithin
  <1>5. total \in Nat
    BY DownloadConstants DEF UnzipInv
  <1> QED
    BY <1>1, <1>2, <1>3, <1>4, <1>5, WrittenIs DEF UnzipInv

\* What a file that is left does to the invariant.
LEMMA LeaveIs ==
  ASSUME UnzipInv, stage = "unpack", NEW k \in Nat, k <= MaxFileSize + 1,
         Download!Leave(archive[entry], k)
  PROVE  /\ IsFiniteSet(unpacked') /\ Cardinality(unpacked') \in Nat
         /\ Cardinality(unpacked') <= Cardinality(unpacked) + 1
         /\ Cardinality(unpacked') <= MaxFiles
         /\ \A u \in unpacked' : u.size <= MaxFileSize + 1
         /\ \A u \in unpacked' : u.size <= MaxFileSize \/ u.size = k
         /\ \A u \in unpacked' : u \in unpacked \/ u.name = archive[entry].name
         /\ IsFiniteSet(Download!Bytes(unpacked')) /\ Cardinality(Download!Bytes(unpacked')) \in Nat
         /\ Cardinality(Download!Bytes(unpacked')) <= Cardinality(Download!Bytes(unpacked)) + k
  <1> DEFINE n == archive[entry].name
  <1>1. unpacked' = {u \in unpacked : u.name # n} \cup {[name |-> n, size |-> k]}
    BY DEF Download!Leave
  <1> HIDE DEF n
  <1>2. /\ IsFiniteSet(unpacked') /\ Cardinality(unpacked') \in Nat
        /\ Cardinality(unpacked') <= Cardinality(unpacked) + 1
        /\ IsFiniteSet(Download!Bytes(unpacked')) /\ Cardinality(Download!Bytes(unpacked')) \in Nat
        /\ Cardinality(Download!Bytes(unpacked')) <= Cardinality(Download!Bytes(unpacked)) + k
    BY <1>1, OneMore
  <1>3. Cardinality(unpacked') <= MaxFiles
    BY <1>2, Unpacking, DownloadConstants
  <1>4. /\ \A u \in unpacked' : u.size <= MaxFileSize + 1
        /\ \A u \in unpacked' : u.size <= MaxFileSize \/ u.size = k
        /\ \A u \in unpacked' : u \in unpacked \/ u.name = n
    BY <1>1, Unpacking DEF UnzipInv
  <1> QED
    BY <1>2, <1>3, <1>4 DEF n

\* A step that unpacks nothing.
LEMMA UnzipQuiet ==
  ASSUME UnzipInv, UNCHANGED <<archive, entry, total, unpacked>>,
         stage' = stage \/ (stage # "unpack" /\ stage' # "unpack") \/ (stage = "unpack" /\ stage' = "over")
  PROVE  UnzipInv'
  <1>1. CASE stage = "unpack" /\ stage' = "over"
    BY <1>1, EndsWithin DEF UnzipInv
  <1>2. CASE stage' = stage \/ (stage # "unpack" /\ stage' # "unpack")
    <2>1. Rest' = Rest /\ Download!Bytes(unpacked)' = Download!Bytes(unpacked)
          /\ Download!Bytes(Rest)' = Download!Bytes(Rest)
      BY <1>2 DEF Rest, Download!Cut, Download!Bytes
    <2> QED
      BY <1>2, <2>1 DEF UnzipInv
  <1> QED
    BY <1>1, <1>2

\* An entry is unpacked.
LEMMA UnpackCounts ==
  ASSUME UnzipInv, Download!Unpack
  PROVE  UnzipInv'
  <1> DEFINE e == archive[entry]
  <1>1. /\ stage = "unpack" /\ entry' = entry + 1 /\ archive' = archive
        /\ stage' = IF entry = Len(archive) THEN "over" ELSE "unpack"
    BY DEF Download!Unpack, Download!Go
  <1>2. /\ archive' \in Archives /\ Len(archive') <= MaxFiles
        /\ entry # Len(archive) => entry' \in DOMAIN archive'
        /\ entry = Len(archive) => entry' \notin DOMAIN archive'
    BY <1>1, Unpacking
  <1>3. /\ IsFiniteSet(unpacked') /\ Cardinality(unpacked') <= MaxFiles /\ Cardinality(unpacked') < entry'
        /\ \A u \in unpacked' : u.size <= MaxFileSize
        /\ IsFiniteSet(Download!Bytes(unpacked'))
        /\ Cardinality(Download!Bytes(unpacked')) <= total'
        /\ total' \in Nat /\ total' <= MaxTotalSize
    <2>1. CASE e.dir
      <3>1. UNCHANGED <<total, unpacked>>
        BY <2>1 DEF Download!Unpack
      <3> QED
        BY <1>1, <3>1, Unpacking DEF UnzipInv
    <2>2. CASE ~e.dir
      <3>1. /\ Download!Written(e) <= MaxFileSize /\ total' = total + Download!Written(e)
            /\ total' <= MaxTotalSize /\ Download!Leave(e, Download!Written(e))
        BY <2>2 DEF Download!Unpack, Download!Counted
      <3>2. Download!Written(e) \in Nat /\ Download!Written(e) <= MaxFileSize + 1
        BY <1>1, Unpacking
      <3>3. /\ IsFiniteSet(unpacked') /\ Cardinality(unpacked') \in Nat
            /\ Cardinality(unpacked') <= Cardinality(unpacked) + 1
            /\ Cardinality(unpacked') <= MaxFiles
            /\ \A u \in unpacked' : u.size <= MaxFileSize \/ u.size = Download!Written(e)
            /\ IsFiniteSet(Download!Bytes(unpacked')) /\ Cardinality(Download!Bytes(unpacked')) \in Nat
            /\ Cardinality(Download!Bytes(unpacked'))
                 <= Cardinality(Download!Bytes(unpacked)) + Download!Written(e)
        BY <1>1, <3>1, <3>2, LeaveIs
      <3> HIDE DEF e
      <3> QED
        BY <1>1, <3>1, <3>2, <3>3, Unpacking
    <2> QED
      BY <2>1, <2>2
  <1>4. Download!Cut' = {}
    BY <1>1, <1>2 DEF Download!Cut
  <1>5. Rest' = unpacked' /\ Download!Bytes(unpacked)' = Download!Bytes(unpacked')
        /\ Download!Bytes(Rest)' = Download!Bytes(Rest')
    BY <1>4 DEF Rest, Download!Bytes
  <1>6. Cardinality(Download!Bytes(unpacked')) \in Nat
    BY <1>3, FS_CardinalityType
  <1>7. /\ Cardinality(Download!Bytes(unpacked')) <= MaxTotalSize
        /\ total' \in 0..MaxTotalSize + MaxFileSize
    BY <1>3, <1>6, DownloadConstants
  <1>8. \A u \in unpacked' : u.size <= MaxFileSize + 1
    <2> SUFFICES ASSUME NEW u \in unpacked' PROVE u.size <= MaxFileSize + 1
      OBVIOUS
    <2>1. CASE e.dir
      BY <2>1 DEF Download!Unpack, UnzipInv
    <2>2. CASE ~e.dir
      BY <1>1, <2>2, Unpacking, LeaveIs DEF Download!Unpack
    <2> QED
      BY <2>1, <2>2
  <1> QED
    BY <1>1, <1>2, <1>3, <1>5, <1>7, <1>8 DEF UnzipInv

\* An entry ends the extraction.
LEMMA CopyCounts ==
  ASSUME UnzipInv, Download!CopyStops
  PROVE  UnzipInv'
  <1> DEFINE e == archive[entry]
  <1>1. stage = "unpack" /\ stage' = "over" /\ entry' = entry /\ archive' = archive
    BY DEF Download!CopyStops, Download!Go
  <1>2. Download!Written(e) \in Nat /\ Download!Written(e) <= MaxFileSize + 1
    BY <1>1, Unpacking
  <1>3. total \in 0..MaxTotalSize + MaxFileSize
    BY DEF UnzipInv
  <1>4. CASE (\E k \in 0..Download!Written(e) : Download!Leave(e, k)) /\ UNCHANGED total
    <2>1. PICK k \in 0..Download!Written(e) : Download!Leave(e, k)
      BY <1>4
    <2>2. k \in Nat /\ k <= MaxFileSize + 1
      BY <1>2, DownloadConstants
    <2> QED
      BY <1>1, <1>3, <1>4, <2>1, <2>2, LeaveIs, EndsWithin
  <1>5. CASE UNCHANGED total /\ unpacked' = {u \in unpacked : u.name # e.name}
    <2>1. unpacked' \in SUBSET unpacked
      BY <1>5
    <2>2. IsFiniteSet(unpacked') /\ Cardinality(unpacked') <= Cardinality(unpacked)
          /\ Cardinality(unpacked') \in Nat
      BY <2>1, FS_Subset, FS_CardinalityType DEF UnzipInv
    <2>3. IsFiniteSet(Download!Bytes(unpacked'))
      BY <2>1, BytesShrink DEF UnzipInv
    <2>4. Cardinality(unpacked') <= MaxFiles
      BY <1>1, <2>2, Unpacking, DownloadConstants
    <2>5. \A u \in unpacked' : u.size <= MaxFileSize + 1
      BY <2>1 DEF UnzipInv
    <2> QED
      BY <1>1, <1>3, <1>5, <2>1, <2>2, <2>3, <2>4, <2>5, EndsWithin
  <1>6. CASE /\ Download!Written(e) <= MaxFileSize
             /\ total' = total + Download!Written(e) /\ Download!Leave(e, Download!Written(e))
    <2>1. total' \in 0..MaxTotalSize + MaxFileSize
      BY <1>1, <1>2, <1>6, Unpacking, DownloadConstants
    <2> QED
      BY <1>1, <1>2, <1>6, <2>1, LeaveIs, EndsWithin
  <1> QED
    BY <1>4, <1>5, <1>6 DEF Download!CopyStops, Download!Counted

\* Every step of a download keeps UnzipInv.
LEMMA UnzipStep == UnzipInv /\ [Download!Next]_(Download!vars) => UnzipInv'
  <1> SUFFICES ASSUME UnzipInv, [Download!Next]_(Download!vars)
               PROVE  UnzipInv'
    OBVIOUS
  <1>1. CASE Download!Open
    <2>1. /\ archive' \in Archives /\ Len(archive') <= MaxFiles
          /\ entry' = 1 /\ total' = 0 /\ unpacked' = {}
          /\ stage' = IF archive' = <<>> THEN "over" ELSE "unpack"
      BY <1>1 DEF Download!Open, Download!Valid, Download!Go
    <2>2. IsFiniteSet({}) /\ Cardinality({}) = 0
      BY FS_EmptySet
    <2>3. archive' # <<>> => 1 \in DOMAIN archive'
      <3>1. archive' \in Seq(Range(archive'))
        BY <2>1, AttachmentAssumption, SameOperators DEF Download!Limits
      <3> QED
        BY <3>1
    <2>4. Rest' = {} /\ Download!Bytes({}) = {}
      BY <2>1 DEF Rest, Download!Bytes
    <2>5. Download!Bytes(unpacked)' = {} /\ Download!Bytes(Rest)' = {}
      BY <2>1, <2>4 DEF Download!Bytes
    <2>6. /\ IsFiniteSet(Download!Bytes(unpacked)') /\ IsFiniteSet(unpacked')
          /\ Cardinality(Download!Bytes(unpacked)') = 0 /\ Cardinality(Download!Bytes(Rest)') = 0
          /\ Cardinality(unpacked') = 0
      BY <2>1, <2>2, <2>5, Zenon
    <2>7. 0 \in 0..MaxTotalSize + MaxFileSize /\ 0 <= MaxTotalSize /\ 0 <= MaxFiles
      BY DownloadConstants
    <2> QED
      BY <2>1, <2>3, <2>4, <2>6, <2>7 DEF UnzipInv
  <1>2. CASE UNCHANGED Download!vars
    BY <1>2, UnzipQuiet DEF Download!vars, Download!unzip
  <1>3. CASE Download!UnpackStops
    BY <1>3, UnzipQuiet DEF Download!UnpackStops, Download!unzip, Download!Go
  <1>4. CASE Download!List \/ Download!ListFails \/ Download!Choose \/ Download!Save
             \/ Download!SaveFails \/ Download!Over \/ Download!OpenFails
    <2>1. UNCHANGED <<archive, entry, total, unpacked>>
      BY <1>4 DEF Download!List, Download!ListFails, Download!Choose, Download!Save,
                  Download!SaveFails, Download!Over, Download!OpenFails, Download!unzip
    <2>2. stage # "unpack" /\ stage' # "unpack"
      BY <1>4 DEF Download!List, Download!ListFails, Download!Choose, Download!Save,
                  Download!SaveFails, Download!Over, Download!OpenFails, Download!Go
    <2> QED
      BY <2>1, <2>2, UnzipQuiet
  <1> QED
    BY <1>1, <1>2, <1>3, <1>4, UnpackCounts, CopyCounts DEF Download!Next

\* UnzipInv holds before a download.
LEMMA UnzipInit == Download!Init => UnzipInv
  <1> SUFFICES ASSUME Download!Init PROVE UnzipInv
    OBVIOUS
  <1>1. stage = "start" /\ total = 0 /\ unpacked = {}
    BY DEF Download!Init
  <1>2. Download!Bytes(unpacked) = {} /\ Rest = {} /\ Download!Bytes(Rest) = {}
    BY <1>1 DEF Download!Bytes, Rest
  <1>3. IsFiniteSet({}) /\ Cardinality({}) = 0
    BY FS_EmptySet
  <1>4. MaxFiles \in Nat /\ MaxTotalSize \in Nat /\ MaxFileSize \in Nat
    BY DownloadConstants
  <1> QED
    BY <1>1, <1>2, <1>3, <1>4 DEF UnzipInv

\* A step of MailCommands is a step of a download, or none.
LEMMA DownloadSteps ==
  [MailNext]_<<kind, vars, bulkVars, downloadVars>> => [Download!Next]_(Download!vars)
  <1> SUFFICES ASSUME [MailNext]_<<kind, vars, bulkVars, downloadVars>>
               PROVE  Download!Next \/ UNCHANGED Download!vars
    OBVIOUS
  <1>1. Download!Next \/ UNCHANGED downloadVars
    BY DEF MailNext
  <1> QED
    BY <1>1 DEF downloadVars, Download!vars, Download!naming, Download!output, Download!unzip

\* Whatever an archive declares and wherever its extraction ends or fails: what
\* is unpacked of it stays within the limits, but for the last file, which is
\* larger than a file may be by one byte at most.
THEOREM UnpackingBounded == MailSpec => []DownloadBounded
  <1>1. MailInit => UnzipInv
    BY UnzipInit DEF MailInit
  <1>2. UnzipInv => DownloadBounded
    BY SameOperators DEF UnzipInv, Rest, DownloadBounded, Download!Bounded
  <1> QED
    BY <1>1, <1>2, DownloadSteps, UnzipStep, PTL DEF MailSpec

-----------------------------------------------------------------------------
(* The walk down the parts of a message.                                   *)

Attachment == [part : Parts, path : Seq(Nat)]

\* What parts are made of.
LEMMA TreeOfParts ==
  /\ None \notin Parts /\ Messages \subseteq Parts
  /\ Height \in [Parts -> Nat]
  /\ \A p \in Parts : /\ p.parts \in Seq(Parts)
                      /\ \A c \in DOMAIN p.parts : /\ p.parts[c] \in Parts /\ c \in Nat
                                                   /\ Height[p.parts[c]] < Height[p]
  <1>1. /\ None \notin Parts /\ Messages \subseteq Parts
        /\ Height \in [Parts -> Nat]
        /\ \A p \in Parts : /\ p.parts \in Seq(Parts)
                            /\ \A c \in DOMAIN p.parts : Height[p.parts[c]] < Height[p]
    BY AttachmentAssumption DEF Download!Limits
  <1>2. ASSUME NEW p \in Parts, NEW c \in DOMAIN p.parts PROVE p.parts[c] \in Parts /\ c \in Nat
    <2>1. p.parts \in Seq(Parts)
      BY <1>1
    <2> QED
      BY <2>1
  <1> QED
    BY <1>1, <1>2

\* The parts on the way along a path.
Followed(f, x, path) ==
  /\ Download!FindPart(x, path) = f[Len(path)] /\ f[0] = x
  /\ \A k \in 1..Len(path) : f[k] = Download!Child(f[k - 1], path[k])

\* Every path of numbers can be followed.
LEMMA PathFollowed ==
  ASSUME NEW x \in Parts, NEW path \in Seq(Nat)
  PROVE  \E f : Followed(f, x, path)
  <1> DEFINE n == Len(path)
             Eq(g) == [k \in 0..n |-> IF k = 0 THEN x ELSE Download!Child(g[k - 1], path[k])]
             f == CHOOSE current : current = Eq(current)
             V == Parts \cup {None}
             onward == [k \in 1..n |-> [v \in V |-> Download!Child(v, path[k])]]
  <1>1. n \in Nat
    OBVIOUS
  <1>2. \A c : \A v \in V : Download!Child(v, c) \in V
    BY TreeOfParts DEF Download!Child
  <1>3. onward \in [(1..n) -> [V -> V]]
    BY <1>2
  <1>4. PICK g \in [0..n -> V] : g[0] = x /\ \A k \in 1..n : g[k] = onward[k][g[k-1]]
    <2>1. n \in Nat /\ x \in V /\ onward \in Steps(n, V)
      BY <1>1, <1>3 DEF Steps
    <2> HIDE DEF onward, n, V
    <2>2. \E g : Stepped(g, n, V, x, onward)
      BY <2>1, Stepwise, Zenon
    <2> QED
      BY <2>2 DEF Stepped
  <1>5. g = Eq(g)
    <2>1. \A k \in 1..n : k - 1 \in 0..n
      BY <1>1
    <2>2. \A k \in 1..n : g[k] = Download!Child(g[k-1], path[k])
      BY <1>4, <2>1
    <2>3. \A k \in 0..n : k # 0 => k \in 1..n
      BY <1>1
    <2> QED
      BY <1>4, <2>2, <2>3
  <1>6. f = Eq(f)
    <2> HIDE DEF Eq
    <2> QED
      BY <1>5
  <1>7. Download!FindPart(x, path) = f[n]
    BY DEF Download!FindPart
  <1>8. f[0] = x /\ \A k \in 1..n : f[k] = Download!Child(f[k - 1], path[k])
    <2> HIDE DEF f
    <2>1. \A k \in 1..n : k \in 0..n /\ k # 0
      BY <1>1
    <2> QED
      BY <1>1, <1>6, <2>1
  <1> QED
    BY <1>7, <1>8 DEF Followed

\* One index more leads one part further down.
LEMMA OneFurther ==
  ASSUME NEW x \in Parts, NEW path \in Seq(Nat), NEW c \in Nat
  PROVE  Download!FindPart(x, Append(path, c)) = Download!Child(Download!FindPart(x, path), c)
  <1> DEFINE n == Len(path)
             long == Append(path, c)
  <1>1. /\ n \in Nat /\ long \in Seq(Nat) /\ Len(long) = n + 1
        /\ long[n + 1] = c /\ \A k \in 1..n : long[k] = path[k]
    OBVIOUS
  <1>2. PICK f : Followed(f, x, path)
    BY PathFollowed
  <1> HIDE DEF long
  <1>3. PICK g : Followed(g, x, long)
    BY <1>1, PathFollowed
  <1>4. /\ Download!FindPart(x, path) = f[n] /\ f[0] = x
        /\ \A k \in 1..n : f[k] = Download!Child(f[k - 1], path[k])
        /\ Download!FindPart(x, long) = g[n + 1] /\ g[0] = x
        /\ \A k \in 1..n + 1 : g[k] = Download!Child(g[k - 1], long[k])
    BY <1>1, <1>2, <1>3 DEF Followed
  <1> HIDE DEF n
  <1> DEFINE S == {k \in Nat : k <= n => f[k] = g[k]}
  <1>5. 0 \in S
    BY <1>4
  <1>6. ASSUME NEW k \in S PROVE k + 1 \in S
    <2> SUFFICES ASSUME k + 1 <= n PROVE f[k + 1] = g[k + 1]
      OBVIOUS
    <2>1. k + 1 \in 1..n /\ k + 1 \in 1..n + 1 /\ (k + 1) - 1 = k /\ k <= n
      BY <1>1
    <2>2. f[k + 1] = Download!Child(f[k], path[k + 1]) /\ g[k + 1] = Download!Child(g[k], long[k + 1])
      BY <1>4, <2>1
    <2> QED
      BY <1>1, <2>1, <2>2
  <1>7. n \in S
    <2>1. S \in SUBSET Nat /\ \A k \in S : k + 1 \in S
      BY <1>6
    <2> HIDE DEF S
    <2> QED
      BY <1>1, <1>5, <2>1, Induction
  <1>8. g[n + 1] = Download!Child(g[n], c)
    <2>1. n + 1 \in 1..n + 1 /\ (n + 1) - 1 = n
      BY <1>1
    <2> QED
      BY <1>1, <1>4, <2>1
  <1> QED
    BY <1>1, <1>4, <1>7, <1>8 DEF long

\* All the paths in a listing differ.
Apart(s) == \A i, j \in 1..Len(s) : s[i].path = s[j].path => i = j

\* All the paths in some listings differ.
AllApart(seqs) ==
  \A c, d \in 1..Len(seqs) : \A i \in 1..Len(seqs[c]), j \in 1..Len(seqs[d]) :
     seqs[c][i].path = seqs[d][j].path => c = d /\ i = j

\* What FlattenSeq makes of the first k of some listings is f[k].
Joined(f, seqs) ==
  /\ FlattenSeq(seqs) = f[Len(seqs)] /\ f[1] = seqs[1]
  /\ \A k \in 2..Len(seqs) : f[k] = f[k - 1] \o seqs[k]

\* Sequences can be joined one by one.
LEMMA JoinedOneByOne ==
  ASSUME NEW U, NEW seqs \in Seq(Seq(U)), Len(seqs) # 0
  PROVE  \E f : Joined(f, seqs)
  <1> DEFINE n == Len(seqs)
             V == Seq(U)
             Eq(g) == [k \in 1..n |-> IF k = 1 THEN seqs[k] ELSE g[k - 1] \o seqs[k]]
             f == CHOOSE flatten : flatten = Eq(flatten)
             onward == [k \in 1..n |-> [v \in V |-> v \o seqs[k]]]
  <1>1. n \in Nat /\ n >= 1 /\ \A k \in 1..n : seqs[k] \in V
    OBVIOUS
  <1>2. onward \in Steps(n, V) /\ <<>> \in V
    <2>1. \A v \in V, k \in 1..n : v \o seqs[k] \in V
      BY <1>1
    <2> QED
      BY <2>1 DEF Steps
  <1>3. PICK h : h \in [0..n -> V] /\ h[0] = <<>> /\ \A k \in 1..n : h[k] = onward[k][h[k-1]]
    <2> HIDE DEF onward, n, V
    <2>1. \E h : Stepped(h, n, V, <<>>, onward)
      BY <1>1, <1>2, Stepwise, Zenon
    <2> QED
      BY <2>1 DEF Stepped
  <1>4. \A k \in 1..n : h[k] = h[k-1] \o seqs[k] /\ h[k-1] \in V
    <2>1. \A k \in 1..n : k - 1 \in 0..n
      BY <1>1
    <2> QED
      BY <1>3, <2>1
  <1> DEFINE g == [k \in 1..n |-> h[k]]
  <1>5. g = Eq(g)
    <2>1. ASSUME NEW k \in 1..n
          PROVE  h[k] = IF k = 1 THEN seqs[k] ELSE g[k - 1] \o seqs[k]
      <3>1. CASE k = 1
        <4>0. k - 1 = 0 /\ seqs[k] \in V
          BY <1>1, <3>1
        <4>1. h[k] = h[0] \o seqs[k]
          BY <1>4, <4>0
        <4>2. <<>> \o seqs[k] = seqs[k]
          BY <4>0
        <4> QED
          BY <1>3, <3>1, <4>1, <4>2
      <3>2. CASE k # 1
        <4>1. k - 1 \in 1..n
          BY <1>1, <3>2
        <4> QED
          BY <1>4, <3>2, <4>1
      <3> QED
        BY <3>1, <3>2
    <2> QED
      BY <2>1
  <1>6. f = Eq(f)
    <2> HIDE DEF Eq, g
    <2> QED
      BY <1>5
  <1>7. FlattenSeq(seqs) = f[n]
    BY DEF FlattenSeq
  <1>8. f[1] = seqs[1] /\ \A k \in 2..n : f[k] = f[k - 1] \o seqs[k]
    <2> HIDE DEF f
    <2>1. 1 \in 1..n /\ \A k \in 2..n : k \in 1..n /\ k # 1
      BY <1>1
    <2> QED
      BY <1>6, <2>1
  <1> QED
    BY <1>7, <1>8 DEF Joined

\* A listing has attachments of the first k listings only, and all its paths
\* differ.
Kept(s, seqs, k) ==
  /\ s \in Seq(Attachment) /\ Apart(s)
  /\ \A i \in 1..Len(s) : \E c \in 1..k : \E j \in 1..Len(seqs[c]) : s[i] = seqs[c][j]

\* With one more listing the result stays Kept.
LEMMA OneMoreKept ==
  ASSUME NEW seqs \in Seq(Seq(Attachment)), AllApart(seqs),
         NEW k \in 1..Len(seqs), k + 1 <= Len(seqs), NEW s, Kept(s, seqs, k)
  PROVE  Kept(s \o seqs[k+1], seqs, k + 1)
  <1> DEFINE B == seqs[k+1]
             C == s \o B
             a == Len(s)
  <1>1. /\ s \in Seq(Attachment) /\ B \in Seq(Attachment) /\ k \in Nat
        /\ k + 1 \in 1..Len(seqs)
    BY DEF Kept
  <1>2. \A i, j \in 1..Len(B) : B[i].path = B[j].path => i = j
    BY <1>1 DEF AllApart
  <1>3. ASSUME NEW i \in 1..a, NEW j \in 1..Len(B), s[i].path = B[j].path PROVE FALSE
    <2>1. PICK c \in 1..k : \E l \in 1..Len(seqs[c]) : s[i] = seqs[c][l]
      BY DEF Kept
    <2>2. PICK l \in 1..Len(seqs[c]) : s[i] = seqs[c][l]
      BY <2>1
    <2>3. c \in 1..Len(seqs) /\ c # k + 1
      BY <1>1
    <2>4. seqs[c][l].path = seqs[k+1][j].path
      BY <1>3, <2>2
    <2> QED
      BY <1>1, <2>3, <2>4 DEF AllApart
  <1>4. \A c \in 1..k : c \in 1..k+1
    BY <1>1
  <1>5. \A j \in 1..Len(B) : \E c \in 1..k+1 : \E l \in 1..Len(seqs[c]) : B[j] = seqs[c][l]
    <2>1. k + 1 \in 1..k+1
      BY <1>1
    <2> QED
      BY <2>1
  <1>6. \A i \in 1..a : \E c \in 1..k+1 : \E l \in 1..Len(seqs[c]) : s[i] = seqs[c][l]
    BY <1>4 DEF Kept
  <1> HIDE DEF B
  <1>7. /\ C \in Seq(Attachment) /\ a \in Nat /\ Len(B) \in Nat /\ Len(C) = a + Len(B)
        /\ \A i \in 1..a : C[i] = s[i]
        /\ \A i \in 1..Len(B) : C[a + i] = B[i]
    BY <1>1
  <1>8. \A i \in 1..Len(C) : i \in 1..a \/ (i - a \in 1..Len(B) /\ i = a + (i - a))
    BY <1>7
  <1> HIDE DEF C, a
  <1>9. \A i \in 1..Len(C) : \E c \in 1..k+1 : \E l \in 1..Len(seqs[c]) : C[i] = seqs[c][l]
    <2> SUFFICES ASSUME NEW i \in 1..Len(C)
                 PROVE  \E c \in 1..k+1 : \E l \in 1..Len(seqs[c]) : C[i] = seqs[c][l]
      OBVIOUS
    <2>1. CASE i \in 1..a
      BY <1>6, <1>7, <2>1
    <2>2. CASE i - a \in 1..Len(B) /\ i = a + (i - a)
      <3>1. C[i] = B[i - a]
        BY <1>7, <2>2
      <3> QED
        BY <1>5, <2>2, <3>1
    <2> QED
      BY <1>8, <2>1, <2>2
  <1>10. Apart(C)
    <2> SUFFICES ASSUME NEW i \in 1..Len(C), NEW j \in 1..Len(C), C[i].path = C[j].path PROVE i = j
      BY DEF Apart
    <2>1. CASE i \in 1..a /\ j \in 1..a
      BY <1>7, <2>1 DEF Kept, Apart, a
    <2>2. CASE i - a \in 1..Len(B) /\ i = a + (i - a) /\ j - a \in 1..Len(B) /\ j = a + (j - a)
      <3>1. C[i] = B[i - a] /\ C[j] = B[j - a]
        BY <1>7, <2>2
      <3>2. i - a = j - a
        BY <1>2, <2>2, <3>1
      <3> QED
        BY <2>2, <3>2
    <2>3. CASE i \in 1..a /\ j - a \in 1..Len(B) /\ j = a + (j - a)
      BY <1>3, <1>7, <2>3
    <2>4. CASE j \in 1..a /\ i - a \in 1..Len(B) /\ i = a + (i - a)
      BY <1>3, <1>7, <2>4
    <2> QED
      BY <1>8, <2>1, <2>2, <2>3, <2>4
  <1> QED
    BY <1>7, <1>9, <1>10 DEF Kept, C, B

\* Listings put together have their attachments and no others, with paths as
\* different as they were.
LEMMA FlattenKeeps ==
  ASSUME NEW seqs \in Seq(Seq(Attachment)), AllApart(seqs)
  PROVE  Kept(Download!FlattenSeq(seqs), seqs, Len(seqs))
  <1>1. CASE Len(seqs) = 0
    <2>0. FlattenSeq(seqs) = <<>>
      BY <1>1 DEF FlattenSeq
    <2>1. Download!FlattenSeq(seqs) = <<>>
      BY <2>0, SameOperators
    <2> QED
      BY <2>1 DEF Apart, Kept
  <1>2. CASE Len(seqs) # 0
    <2> DEFINE n == Len(seqs)
    <2>1. PICK f : Joined(f, seqs)
      BY <1>2, JoinedOneByOne
    <2>2. n \in Nat /\ n >= 1
      BY <1>2
    <2> DEFINE S == {k \in Nat : k + 1 <= n => Kept(f[k+1], seqs, k+1)}
    <2>3. 0 \in S
      <3>1. f[1] = seqs[1] /\ 1 \in 1..n /\ seqs[1] \in Seq(Attachment)
        BY <2>1, <2>2 DEF Joined
      <3>2. Kept(seqs[1], seqs, 1)
        BY <2>2, <3>1 DEF Apart, AllApart, Kept
      <3>3. f[0 + 1] = seqs[1] /\ 0 + 1 = 1
        BY <3>1
      <3> QED
        BY <3>2, <3>3
    <2>4. ASSUME NEW k \in S PROVE k + 1 \in S
      <3> SUFFICES ASSUME (k + 1) + 1 <= n PROVE Kept(f[(k+1)+1], seqs, (k+1)+1)
        OBVIOUS
      <3>1. k + 1 \in 1..n /\ (k + 1) + 1 \in 2..n /\ ((k + 1) + 1) - 1 = k + 1 /\ k + 1 <= n
        BY <2>2
      <3>2. Kept(f[k+1], seqs, k+1)
        BY <3>1
      <3>3. f[(k+1)+1] = f[k+1] \o seqs[(k+1)+1]
        BY <2>1, <3>1 DEF Joined
      <3> QED
        BY <3>1, <3>2, <3>3, OneMoreKept
    <2>5. n - 1 \in S
      <3>1. S \in SUBSET Nat /\ \A k \in S : k + 1 \in S
        BY <2>4
      <3>2. n - 1 \in Nat
        BY <2>2
      <3> HIDE DEF S, n
      <3> QED
        BY <2>3, <3>1, <3>2, Induction
    <2>6. (n - 1) + 1 = n
      BY <2>2
    <2> HIDE DEF n
    <2>7. Kept(f[n], seqs, n)
      BY <2>2, <2>5, <2>6
    <2> QED
      BY <2>1, <2>7, SameOperators DEF Joined, n
  <1> QED
    BY <1>1, <1>2

\* What is listed of a part when f is what is listed of those inside it.
ListedBy(f, p) ==
  [path \in Seq(Nat) |->
     Download!Itself(p, path) \o
     Download!FlattenSeq([c \in DOMAIN p.parts |-> f[p.parts[c]][Append(path, c)]])]

\* It depends on nothing else.
LEMMA ListedAlike ==
  ASSUME NEW f, NEW g, NEW p \in Parts, \A c \in DOMAIN p.parts : f[p.parts[c]] = g[p.parts[c]]
  PROVE  ListedBy(f, p) = ListedBy(g, p)
  <1>1. ASSUME NEW path \in Seq(Nat)
        PROVE  [c \in DOMAIN p.parts |-> f[p.parts[c]][Append(path, c)]]
             = [c \in DOMAIN p.parts |-> g[p.parts[c]][Append(path, c)]]
    OBVIOUS
  <1> QED
    BY <1>1 DEF ListedBy

\* A listing of the parts of less than some height.
ListedBelow(f, n) == \A p \in Parts : Height[p] < n => f[p] = ListedBy(f, p)

\* Two listings agree where both are defined.
LEMMA ListedAgree ==
  ASSUME NEW f, NEW n, NEW g, NEW m, ListedBelow(f, n), ListedBelow(g, m),
         n \in Nat, m \in Nat,
         NEW p \in Parts, Height[p] < n, Height[p] < m
  PROVE  f[p] = g[p]
  <1> DEFINE S == {h \in Nat : \A q \in Parts : Height[q] = h /\ h < n /\ h < m => f[q] = g[q]}
  <1>1. ASSUME NEW h \in Nat, \A k \in Nat : k < h => k \in S
        PROVE  h \in S
    <2> SUFFICES ASSUME NEW q \in Parts, Height[q] = h, h < n, h < m
                 PROVE  f[q] = g[q]
      OBVIOUS
    <2>1. ASSUME NEW c \in DOMAIN q.parts PROVE f[q.parts[c]] = g[q.parts[c]]
      <3>1. /\ q.parts[c] \in Parts /\ Height[q.parts[c]] \in Nat
            /\ Height[q.parts[c]] < h
        BY TreeOfParts
      <3>2. Height[q.parts[c]] < n /\ Height[q.parts[c]] < m
        BY <3>1
      <3> QED
        BY <1>1, <3>1, <3>2
    <2>2. ListedBy(f, q) = ListedBy(g, q)
      BY <2>1, ListedAlike
    <2> QED
      BY <2>2 DEF ListedBelow
  <1>2. S = Nat
    <2>1. S \in SUBSET Nat
      OBVIOUS
    <2> HIDE DEF S
    <2> QED
      BY <1>1, <2>1, StrongInduction
  <1>3. Height[p] \in Nat
    BY TreeOfParts
  <1>4. Height[p] \in S
    <2> HIDE DEF S
    <2> QED
      BY <1>2, <1>3
  <1> QED
    BY <1>3, <1>4

\* Every height has a listing of the parts below it.
LEMMA ListedUpTo == \A n \in Nat : \E f : ListedBelow(f, n)
  <1> DEFINE S == {n \in Nat : \E f : ListedBelow(f, n)}
  <1>1. 0 \in S
    <2>1. \A p \in Parts : ~(Height[p] < 0)
      BY TreeOfParts
    <2> QED
      BY <2>1 DEF ListedBelow
  <1>2. ASSUME NEW n \in S PROVE n + 1 \in S
    <2>1. PICK f : ListedBelow(f, n)
      OBVIOUS
    <2> DEFINE g == [p \in Parts |-> ListedBy(f, p)]
    <2>2. ASSUME NEW p \in Parts, Height[p] < n + 1 PROVE g[p] = ListedBy(g, p)
      <3>1. ASSUME NEW c \in DOMAIN p.parts PROVE f[p.parts[c]] = g[p.parts[c]]
        <4>1. /\ p.parts[c] \in Parts /\ Height[p.parts[c]] \in Nat /\ Height[p] \in Nat
              /\ Height[p.parts[c]] < Height[p]
          BY TreeOfParts
        <4>2. Height[p.parts[c]] < n
          BY <2>2, <4>1
        <4> QED
          BY <2>1, <4>1, <4>2 DEF ListedBelow
      <3> HIDE DEF g
      <3>2. ListedBy(f, p) = ListedBy(g, p)
        BY <3>1, ListedAlike
      <3> QED
        BY <3>2 DEF g
    <2> HIDE DEF g
    <2>3. ListedBelow(g, n + 1)
      BY <2>2 DEF ListedBelow
    <2> QED
      BY <2>3
  <1>3. S = Nat
    <2>1. S \in SUBSET Nat /\ \A n \in S : n + 1 \in S
      BY <1>2
    <2> HIDE DEF S
    <2> QED
      BY <1>1, <2>1, Induction
  <1> QED
    BY <1>3

\* The walk down the parts does what its definition says.
LEMMA Extracted ==
  ASSUME NEW x \in Parts, NEW path \in Seq(Nat)
  PROVE  Download!ExtractAttachments(x, path) =
           Download!Itself(x, path) \o
           Download!FlattenSeq([c \in DOMAIN x.parts |->
             Download!ExtractAttachments(x.parts[c], Append(path, c))])
  <1> DEFINE Eq(f) == [part \in Parts |-> ListedBy(f, part)]
             E == CHOOSE extract : extract = Eq(extract)
             G(n) == CHOOSE f : ListedBelow(f, n)
             g == [p \in Parts |-> G(Height[p] + 1)[p]]
  <1>1. \A n \in Nat : ListedBelow(G(n), n)
    BY ListedUpTo
  <1>2. ASSUME NEW p \in Parts PROVE g[p] = ListedBy(g, p)
    <2> DEFINE n == Height[p] + 1
    <2>1. n \in Nat /\ Height[p] < n /\ Height[p] \in Nat
      BY TreeOfParts
    <2>2. ASSUME NEW c \in DOMAIN p.parts PROVE g[p.parts[c]] = G(n)[p.parts[c]]
      <3> DEFINE q == p.parts[c]
                 m == Height[q] + 1
      <3>1. q \in Parts /\ Height[q] \in Nat /\ m \in Nat /\ Height[q] < m /\ Height[q] < n
        BY <2>1, TreeOfParts
      <3>2. g[q] = G(m)[q]
        BY <3>1
      <3>3. ListedBelow(G(m), m) /\ ListedBelow(G(n), n)
        BY <1>1, <2>1, <3>1
      <3> HIDE DEF n, m, g, G, q
      <3>4. G(m)[q] = G(n)[q]
        BY <2>1, <3>1, <3>3, ListedAgree
      <3> QED
        BY <3>2, <3>4 DEF q
    <2>3. g[p] = G(n)[p]
      OBVIOUS
    <2>4. G(n)[p] = ListedBy(G(n), p)
      <3> HIDE DEF G, n
      <3> QED
        BY <1>1, <2>1 DEF ListedBelow
    <2> HIDE DEF G, g, n
    <2>5. ListedBy(g, p) = ListedBy(G(n), p)
      BY <2>2, ListedAlike
    <2> QED
      BY <2>3, <2>4, <2>5
  <1>3. g = Eq(g)
    BY <1>2
  <1>4. E = Eq(E)
    <2> HIDE DEF g, Eq
    <2> QED
      BY <1>3
  <1>5. \A p : \A q : Download!ExtractAttachments(p, q) = E[p][q]
    BY DEF Download!ExtractAttachments, ListedBy
  <1>6. E[x][path] = Download!Itself(x, path) \o
                     Download!FlattenSeq([c \in DOMAIN x.parts |-> E[x.parts[c]][Append(path, c)]])
    <2> HIDE DEF E
    <2>1. E[x] = ListedBy(E, x)
      BY <1>4
    <2> QED
      BY <2>1 DEF ListedBy
  <1> HIDE DEF E
  <1>7. [c \in DOMAIN x.parts |-> E[x.parts[c]][Append(path, c)]]
      = [c \in DOMAIN x.parts |-> Download!ExtractAttachments(x.parts[c], Append(path, c))]
    BY <1>5
  <1> QED
    BY <1>5, <1>6, <1>7

\* A path goes on where another ends.
Below(q, path) == Len(path) <= Len(q) /\ \A k \in 1..Len(path) : q[k] = path[k]

\* A listing of what is below a path in x: each path is its own, and leads to
\* its part.
WayBack(x, path, s) ==
  /\ s \in Seq(Attachment) /\ Apart(s)
  /\ \A i \in 1..Len(s) : Below(s[i].path, path) /\ Download!FindPart(x, s[i].path) = s[i].part

\* The empty path leads to the part itself.
LEMMA FirstOfPath ==
  ASSUME NEW x \in Parts
  PROVE  Download!FindPart(x, <<>>) = x
  <1>1. <<>> \in Seq(Nat) /\ Len(<<>>) = 0
    OBVIOUS
  <1>2. PICK f : Followed(f, x, <<>>)
    BY <1>1, PathFollowed
  <1> QED
    BY <1>1, <1>2 DEF Followed

\* If the listings of its children lead back, so does that of a part.
LEMMA PartLeadsBack ==
  ASSUME NEW x \in Parts, NEW path \in Seq(Nat), NEW p \in Parts,
         Download!FindPart(x, path) = p,
         \A c \in DOMAIN p.parts :
           WayBack(x, Append(path, c), Download!ExtractAttachments(p.parts[c], Append(path, c)))
  PROVE  WayBack(x, path, Download!ExtractAttachments(p, path))
  <1> DEFINE n == Len(path)
             Kids(c) == Download!ExtractAttachments(p.parts[c], Append(path, c))
             seqs == [c \in DOMAIN p.parts |-> Kids(c)]
             flat == Download!FlattenSeq(seqs)
             all  == Download!ExtractAttachments(p, path)
  <1>1. all = Download!Itself(p, path) \o flat
    BY Extracted
  <1>2. \A c \in DOMAIN p.parts : WayBack(x, Append(path, c), Kids(c)) /\ c \in Nat
    BY TreeOfParts
  <1> HIDE DEF Kids
  <1>3. /\ DOMAIN p.parts = 1..Len(p.parts) /\ Len(p.parts) \in Nat
        /\ seqs \in Seq(Seq(Attachment)) /\ Len(seqs) = Len(p.parts)
        /\ \A c \in 1..Len(seqs) : seqs[c] = Kids(c) /\ c \in DOMAIN p.parts
    <2>1. p.parts \in Seq(Parts)
      BY TreeOfParts
    <2>2. DOMAIN p.parts = 1..Len(p.parts) /\ Len(p.parts) \in Nat
      BY <2>1
    <2>3. \A c \in DOMAIN p.parts : Kids(c) \in Seq(Attachment)
      BY <1>2 DEF WayBack
    <2> QED
      BY <2>2, <2>3
  <1> HIDE DEF seqs
  <1>4. \A c \in 1..Len(seqs) : \A i \in 1..Len(seqs[c]) :
          /\ seqs[c][i] \in Attachment
          /\ n + 1 <= Len(seqs[c][i].path) /\ seqs[c][i].path[n+1] = c
          /\ \A k \in 1..n : seqs[c][i].path[k] = path[k]
          /\ Download!FindPart(x, seqs[c][i].path) = seqs[c][i].part
    <2> SUFFICES ASSUME NEW c \in 1..Len(seqs), NEW i \in 1..Len(seqs[c])
                 PROVE  /\ seqs[c][i] \in Attachment
                        /\ n + 1 <= Len(seqs[c][i].path) /\ seqs[c][i].path[n+1] = c
                        /\ \A k \in 1..n : seqs[c][i].path[k] = path[k]
                        /\ Download!FindPart(x, seqs[c][i].path) = seqs[c][i].part
      OBVIOUS
    <2>1. WayBack(x, Append(path, c), seqs[c]) /\ c \in Nat
      BY <1>2, <1>3
    <2> DEFINE long == Append(path, c)
    <2>2. /\ n \in Nat /\ Len(long) = n + 1 /\ long[n + 1] = c
          /\ \A k \in 1..n : long[k] = path[k]
      BY <2>1
    <2>3. Below(seqs[c][i].path, long)
      BY <2>1 DEF WayBack
    <2> HIDE DEF long
    <2>4. n + 1 \in 1..Len(long) /\ \A k \in 1..n : k \in 1..Len(long)
      BY <2>2
    <2>5. /\ n + 1 <= Len(seqs[c][i].path) /\ seqs[c][i].path[n+1] = c
          /\ \A k \in 1..n : seqs[c][i].path[k] = path[k]
      BY <2>2, <2>3, <2>4 DEF Below
    <2> QED
      BY <2>1, <2>5 DEF WayBack
  <1>5. AllApart(seqs)
    <2> SUFFICES ASSUME NEW c \in 1..Len(seqs), NEW d \in 1..Len(seqs),
                        NEW i \in 1..Len(seqs[c]), NEW j \in 1..Len(seqs[d]),
                        seqs[c][i].path = seqs[d][j].path
                 PROVE  c = d /\ i = j
      BY DEF AllApart
    <2>1. c = d
      <3>1. seqs[c][i].path[n+1] = c
        BY <1>4
      <3>2. seqs[d][j].path[n+1] = d
        BY <1>4
      <3> QED
        BY <3>1, <3>2
    <2>2. Apart(seqs[c])
      BY <1>2, <1>3 DEF WayBack
    <2> QED
      BY <2>1, <2>2 DEF Apart
  <1>6. Kept(flat, seqs, Len(seqs))
    BY <1>3, <1>5, FlattenKeeps
  <1> HIDE DEF flat, n
  <1>7. /\ flat \in Seq(Attachment) /\ Apart(flat)
        /\ \A i \in 1..Len(flat) :
             /\ n + 1 <= Len(flat[i].path)
             /\ \A k \in 1..n : flat[i].path[k] = path[k]
             /\ Download!FindPart(x, flat[i].path) = flat[i].part
    <2>1. flat \in Seq(Attachment) /\ Apart(flat)
      BY <1>6 DEF Kept
    <2>2. ASSUME NEW i \in 1..Len(flat)
          PROVE  /\ n + 1 <= Len(flat[i].path)
                 /\ \A k \in 1..n : flat[i].path[k] = path[k]
                 /\ Download!FindPart(x, flat[i].path) = flat[i].part
      <3>1. PICK c \in 1..Len(seqs) : \E j \in 1..Len(seqs[c]) : flat[i] = seqs[c][j]
        BY <1>6 DEF Kept
      <3>2. PICK j \in 1..Len(seqs[c]) : flat[i] = seqs[c][j]
        BY <3>1
      <3> QED
        BY <1>4, <3>2
    <2> QED
      BY <2>1, <2>2
  <1> HIDE DEF all
  <1>8. n \in Nat /\ n = Len(path)
    BY DEF n
  <1>9. CASE ~Download!IsAttachment(p)
    <2>1. all = flat
      BY <1>1, <1>7, <1>9 DEF Download!Itself
    <2>2. \A i \in 1..Len(flat) : Below(flat[i].path, path)
      <3> SUFFICES ASSUME NEW i \in 1..Len(flat) PROVE Below(flat[i].path, path)
        OBVIOUS
      <3>1. Len(flat[i].path) \in Nat
        BY <1>7 DEF Attachment
      <3> QED
        BY <1>7, <1>8, <3>1 DEF Below
    <2> QED
      BY <1>7, <2>1, <2>2 DEF WayBack, all
  <1>10. CASE Download!IsAttachment(p)
    <2> DEFINE e == [part |-> p, path |-> path]
    <2>1. all = <<e>> \o flat
      BY <1>1, <1>10 DEF Download!Itself
    <2>2. e \in Attachment /\ e.path = path /\ e.part = p
      BY DEF Attachment
    <2> HIDE DEF e
    <2>3. /\ all \in Seq(Attachment) /\ Len(all) = Len(flat) + 1 /\ Len(flat) \in Nat
          /\ all[1] = e /\ \A i \in 1..Len(flat) : all[i + 1] = flat[i]
      BY <1>7, <2>1, <2>2
    <2>4. \A i \in 1..Len(all) : i = 1 \/ (i - 1 \in 1..Len(flat) /\ all[i] = flat[i - 1] /\ i \in Nat)
      <3> SUFFICES ASSUME NEW i \in 1..Len(all), i # 1
                   PROVE  i - 1 \in 1..Len(flat) /\ all[i] = flat[i - 1] /\ i \in Nat
        OBVIOUS
      <3>1. i - 1 \in 1..Len(flat) /\ (i - 1) + 1 = i /\ i \in Nat
        BY <2>3
      <3> QED
        BY <2>3, <3>1
    <2>5. Apart(all)
      <3> SUFFICES ASSUME NEW i \in 1..Len(all), NEW j \in 1..Len(all), all[i].path = all[j].path
                   PROVE  i = j
        BY DEF Apart
      <3>1. \A k \in 1..Len(flat) : flat[k].path # path
        BY <1>7, <1>8
      <3>2. CASE i # 1 /\ j # 1
        <4>1. i - 1 \in 1..Len(flat) /\ j - 1 \in 1..Len(flat) /\ i \in Nat /\ j \in Nat
          BY <2>4, <3>2
        <4>2. flat[i - 1].path = flat[j - 1].path
          BY <2>4, <3>2
        <4>3. i - 1 = j - 1
          BY <1>7, <4>1, <4>2 DEF Apart
        <4> QED
          BY <4>1, <4>3
      <3> QED
        BY <2>2, <2>3, <2>4, <3>1, <3>2
    <2>6. ASSUME NEW i \in 1..Len(all)
          PROVE  Below(all[i].path, path) /\ Download!FindPart(x, all[i].path) = all[i].part
      <3>1. CASE i = 1
        BY <1>8, <2>2, <2>3, <3>1 DEF Below
      <3>2. CASE i # 1
        <4>1. i - 1 \in 1..Len(flat) /\ all[i] = flat[i - 1]
          BY <2>4, <3>2
        <4>2. Len(flat[i - 1].path) \in Nat
          BY <1>7, <4>1 DEF Attachment
        <4> QED
          BY <1>7, <1>8, <4>1, <4>2 DEF Below
      <3> QED
        BY <3>1, <3>2
    <2> QED
      BY <2>3, <2>5, <2>6 DEF WayBack, all
  <1> QED
    BY <1>9, <1>10

\* The walk down the parts of a message lists each attachment with a path of
\* its own that leads back to it.
LEMMA ListingLeadsBack ==
  ASSUME NEW x \in Messages
  PROVE  LET all == Download!ExtractAttachments(x, <<>>) IN
         /\ all \in Seq(Attachment) /\ Apart(all)
         /\ \A i \in 1..Len(all) : Download!FindPart(x, all[i].path) = all[i].part
  <1> DEFINE Back(p) == \A path \in Seq(Nat) : Download!FindPart(x, path) = p =>
                          WayBack(x, path, Download!ExtractAttachments(p, path))
             S == {h \in Nat : \A p \in Parts : Height[p] = h => Back(p)}
  <1>0. x \in Parts
    BY TreeOfParts
  <1>1. ASSUME NEW h \in Nat, \A k \in Nat : k < h => k \in S
        PROVE  h \in S
    <2> SUFFICES ASSUME NEW p \in Parts, Height[p] = h,
                        NEW path \in Seq(Nat), Download!FindPart(x, path) = p
                 PROVE  WayBack(x, path, Download!ExtractAttachments(p, path))
      OBVIOUS
    <2>1. ASSUME NEW c \in DOMAIN p.parts
          PROVE  WayBack(x, Append(path, c), Download!ExtractAttachments(p.parts[c], Append(path, c)))
      <3>1. /\ p.parts[c] \in Parts /\ c \in Nat /\ Height[p.parts[c]] \in Nat
            /\ Height[p.parts[c]] < h
        BY TreeOfParts
      <3>2. Back(p.parts[c])
        BY <1>1, <3>1
      <3>3. Append(path, c) \in Seq(Nat)
        BY <3>1
      <3>4. Download!FindPart(x, Append(path, c)) = p.parts[c]
        BY <1>0, <3>1, OneFurther, TreeOfParts DEF Download!Child
      <3> QED
        BY <3>2, <3>3, <3>4
    <2> QED
      BY <1>0, <2>1, PartLeadsBack
  <1>2. S = Nat
    <2>1. S \in SUBSET Nat
      OBVIOUS
    <2> HIDE DEF S
    <2> QED
      BY <1>1, <2>1, StrongInduction
  <1>3. Back(x)
    <2>1. Height[x] \in Nat
      BY <1>0, TreeOfParts
    <2>2. Height[x] \in S
      BY <1>2, <2>1
    <2> QED
      BY <1>0, <2>2
  <1>4. WayBack(x, <<>>, Download!ExtractAttachments(x, <<>>))
    <2>1. <<>> \in Seq(Nat) /\ Download!FindPart(x, <<>>) = x
      BY <1>0, FirstOfPath
    <2> QED
      BY <1>3, <2>1
  <1> QED
    BY <1>4 DEF WayBack

-----------------------------------------------------------------------------
(* What is downloaded.                                                     *)

\* The attachments to download are some of those listed.
TodoInv ==
  /\ message \in Messages
  /\ todo \in Seq(Attachment)
  /\ Apart(todo)
  /\ \A i \in 1..Len(todo) : Download!FindPart(message, todo[i].path) = todo[i].part
  /\ at \in 1..Len(todo) + 1
  /\ stage \in {"start", "name", "fetch", "open", "unpack", "over", "done", "failed"}
  /\ stage \in {"name", "fetch", "open", "unpack", "over"} => at <= Len(todo)
  /\ stage = "start" => todo = <<>>

Before == {"start", "name", "done", "failed"}   \* no attachment is being dealt with
Handled  == IF stage \in Before THEN at - 1 ELSE at   \* those that have got a name

Own(i) == todo[i].part.name
NoneBefore(i) == \A s \in 1..i-1 : Own(s) # Own(i)

\* No more names are taken than attachments have got one, and a taken name
\* that is the own name of some attachment is that of one which has its name.
NamesInv ==
  /\ DOMAIN next = Download!Names(todo) /\ \A n \in DOMAIN next : next[n] \in Nat
  /\ used \subseteq Download!FileNames
  /\ IsFiniteSet(used) /\ Cardinality(used) <= Handled
  /\ \A u \in used : u \in Download!Names(todo) => \E s \in 1..Handled : Own(s) = u
  /\ name = None <=> stage \in Before
  /\ name # None => name \in used /\ (NoneBefore(at) => name = Own(at))

\* Each report is of an attachment that was dealt with, under a name of its own.
ReportsInv ==
  /\ IsFiniteSet(reported)
  /\ \A r \in reported :
       /\ r.name \in used
       /\ \E i \in 1..Handled : todo[i] = r.att /\ (NoneBefore(i) => r.name = Own(i))
  /\ \A r, q \in reported : r.name = q.name => r = q
  /\ stage = "fetch" => \A r \in reported : r.name # name

DownloadInv == TodoInv /\ NamesInv /\ ReportsInv

\* The directory has what the undisturbed reports say, and what is unpacked is an
\* archive that was reported.
DiskInv ==
  /\ \A f \in files : f.name \notin dirs
  /\ \A r \in reported : Download!Undisturbed(r) =>
       [name |-> Clean(r.name), what |-> r.att.part.data] \in files
  /\ stage \in {"open", "unpack"} =>
       request.extract /\ \E q \in reported : q.name = name /\ Download!IsZip(q.att, q.name)

\* What the names of the parts are.
LEMMA PartNames ==
  /\ \A p \in Parts : p.name \in Download!FileNames
  /\ Messages \subseteq Parts /\ None \notin Download!FileNames
  /\ \A n \in Download!FileNames : \A k \in Nat : Download!Suffixed(n, k) \in Download!FileNames
  /\ \A n \in Download!FileNames : \A j, k \in Nat :
       Download!Suffixed(n, j) = Download!Suffixed(n, k) => j = k
  <1>1. /\ \A p \in Parts : p.name \in Download!FileNames
        /\ Messages \subseteq Parts /\ None \notin Download!FileNames
    BY AttachmentAssumption DEF Download!Limits
  <1>2. ASSUME NEW n \in Download!FileNames, NEW k \in Nat
        PROVE  /\ Download!Suffixed(n, k) \in Download!FileNames
               /\ Download!Suffixed(n, k).made = Append(n.made, k)
               /\ n.made \in Seq(Nat)
    <2>1. n.made \in Seq(Nat)
      BY DEF Download!FileNames
    <2>2. Append(n.made, k) \in Seq(Nat)
      BY <2>1
    <2>3. [n EXCEPT !.made = Append(@, k)].made = Append(n.made, k)
      BY DEF Download!FileNames
    <2>4. [n EXCEPT !.made = Append(@, k)] \in Download!FileNames
      BY <2>2 DEF Download!FileNames
    <2> QED
      BY <2>1, <2>3, <2>4 DEF Download!Suffixed
  <1>3. ASSUME NEW n \in Download!FileNames, NEW j \in Nat, NEW k \in Nat,
               Download!Suffixed(n, j) = Download!Suffixed(n, k)
        PROVE  j = k
    <2>1. Append(n.made, j) = Append(n.made, k) /\ n.made \in Seq(Nat)
      BY <1>2, <1>3
    <2>2. Append(n.made, j)[Len(n.made) + 1] = j /\ Append(n.made, k)[Len(n.made) + 1] = k
      BY <2>1
    <2> QED
      BY <2>1, <2>2
  <1> QED
    BY <1>1, <1>2, <1>3

\* The names of the attachments to download.
LEMMA TodoNames ==
  ASSUME TodoInv
  PROVE  /\ Len(todo) \in Nat
         /\ \A i \in 1..Len(todo) : /\ todo[i] \in Attachment /\ todo[i].part \in Parts
                                    /\ Own(i) \in Download!FileNames
                                    /\ Own(i) \in Download!Names(todo)
         /\ Download!Names(todo) = {Own(i) : i \in 1..Len(todo)}
         /\ IsFiniteSet(Download!Names(todo)) /\ Cardinality(Download!Names(todo)) <= Len(todo)
  <1>1. Len(todo) \in Nat /\ DOMAIN todo = 1..Len(todo)
    BY DEF TodoInv
  <1>2. \A i \in 1..Len(todo) : todo[i] \in Attachment /\ todo[i].part \in Parts
    <2>1. \A i \in 1..Len(todo) : todo[i] \in Attachment
      BY DEF TodoInv
    <2> QED
      BY <2>1 DEF Attachment
  <1>3. Download!Names(todo) = {Own(i) : i \in 1..Len(todo)}
    BY <1>1, SameOperators DEF Download!Names, Range, Own
  <1>4. IsFiniteSet(Download!Names(todo)) /\ Cardinality(Download!Names(todo)) <= Len(todo)
    <2> DEFINE own == [i \in 1..Len(todo) |-> Own(i)]
               len == Len(todo)
    <2>1. own \in Surjection(1..len, Download!Names(todo))
      BY <1>3 DEF Surjection
    <2>0. len \in Nat
      BY <1>1
    <2> HIDE DEF own, len
    <2>2. IsFiniteSet(1..len) /\ Cardinality(1..len) = len
      BY <2>0, FS_Interval
    <2>3. IsFiniteSet(Download!Names(todo)) /\ Cardinality(Download!Names(todo)) <= len
      BY <2>1, <2>2, FS_Surjection
    <2> QED
      BY <2>3 DEF len
  <1> QED
    BY <1>1, <1>2, <1>3, <1>4, PartNames DEF Own

\* Among the suffixes that are tried there is a free one: as many names are
\* taken as there are attachments, at most, and as many attachments have one.
LEMMA SuffixFree ==
  ASSUME TodoInv, NamesInv, Cardinality(used) <= Len(todo),
         NEW n \in Download!Names(todo)
  PROVE  /\ n \in Download!FileNames /\ Download!Suffix(n) \in Nat
         /\ Download!Suffixed(n, Download!Suffix(n)) \notin used \cup Download!Names(todo)
  <1> DEFINE taken == used \cup Download!Names(todo)
             from  == next[n]
             len   == Len(todo)
             tried == from .. from + 2 * len
             free  == {s \in tried : Download!Suffixed(n, s) \notin taken}
  <1>1. from \in Nat /\ len \in Nat /\ n \in Download!FileNames
    BY TodoNames DEF NamesInv
  <1>2. IsFiniteSet(taken) /\ Cardinality(taken) <= 2 * len /\ Cardinality(taken) \in Nat
    <2>1. IsFiniteSet(used) /\ Cardinality(used) \in Nat /\ Cardinality(used) <= len
      BY FS_CardinalityType DEF NamesInv
    <2> DEFINE names == Download!Names(todo)
    <2>2. IsFiniteSet(names) /\ Cardinality(names) \in Nat /\ Cardinality(names) <= len
      BY TodoNames, FS_CardinalityType
    <2> HIDE DEF names, len
    <2>3. IsFiniteSet(used \cap names) /\ Cardinality(used \cap names) \in Nat
      BY <2>1, FS_Intersection, FS_CardinalityType
    <2>4. /\ IsFiniteSet(used \cup names)
          /\ Cardinality(used \cup names)
               = Cardinality(used) + Cardinality(names) - Cardinality(used \cap names)
      BY <2>1, <2>2, FS_Union
    <2>5. Cardinality(used \cup names) \in Nat
      BY <2>4, FS_CardinalityType
    <2>6. Cardinality(used \cup names) <= 2 * len
      BY <1>1, <2>1, <2>2, <2>3, <2>4 DEF len
    <2> QED
      BY <2>4, <2>5, <2>6 DEF names
  <1>3. IsFiniteSet(tried) /\ Cardinality(tried) = 2 * len + 1 /\ tried \subseteq Nat
    <2> DEFINE to == from + 2 * len
    <2> HIDE DEF from, len
    <2>1. from \in Int /\ to \in Int /\ ~(from > to) /\ to - from + 1 = 2 * len + 1
      BY <1>1
    <2>2. from .. to \subseteq Nat
      BY <1>1
    <2> HIDE DEF to
    <2>3. IsFiniteSet(from .. to) /\ Cardinality(from .. to) = to - from + 1
      BY <2>1, FS_Interval
    <2> QED
      BY <2>1, <2>2, <2>3 DEF to
  <1>4. free # {}
    <2> SUFFICES ASSUME free = {} PROVE FALSE
      OBVIOUS
    <2> DEFINE f == [s \in tried |-> Download!Suffixed(n, s)]
    <2> HIDE DEF tried, taken
    <2>1. f \in [tried -> taken]
      OBVIOUS
    <2>2. Cardinality(taken) < Cardinality(tried)
      BY <1>1, <1>2, <1>3
    <2>3. \E x, y \in tried : x # y /\ f[x] = f[y]
      <3> HIDE DEF f
      <3> QED
        BY <1>2, <1>3, <2>1, <2>2, FS_PigeonHole
    <2>4. PICK x \in tried, y \in tried : x # y /\ f[x] = f[y]
      BY <2>3
    <2> QED
      BY <1>1, <1>3, <2>4, PartNames
  <1>5. free \in SUBSET Nat
    BY <1>3
  <1>6. PICK s \in free : \A t \in free : s <= t
    <2> HIDE DEF free
    <2> QED
      BY <1>4, <1>5, Least
  <1>7. s \in tried /\ Download!Suffixed(n, s) \notin taken /\ s \in Nat
    BY <1>3
  <1>8. \A t \in from .. s - 1 : Download!Suffixed(n, t) \in taken
    <2> SUFFICES ASSUME NEW t \in from .. s - 1, Download!Suffixed(n, t) \notin taken
                 PROVE  FALSE
      OBVIOUS
    <2> HIDE DEF from, len, taken
    <2>1. t \in tried /\ t < s /\ t \in Nat
      BY <1>1, <1>7
    <2>2. s <= t
      BY <1>6, <2>1
    <2> QED
      BY <1>7, <2>1, <2>2
  <1>9. \E x \in tried : /\ Download!Suffixed(n, x) \notin taken
                         /\ \A t \in from .. x - 1 : Download!Suffixed(n, t) \in taken
    BY <1>7, <1>8
  <1>10. Download!Suffix(n) \in tried /\ Download!Suffixed(n, Download!Suffix(n)) \notin taken
    BY <1>9 DEF Download!Suffix
  <1> QED
    BY <1>1, <1>3, <1>10

\* A step that names nothing and reports nothing.
LEMMA QuietStep ==
  ASSUME DownloadInv, UNCHANGED <<message, todo, at, used, next, name, reported>>,
         stage' = stage
         \/ (stage' = "failed" /\ stage = "start")
         \/ (stage' \in {"unpack", "over"} /\ stage \in {"fetch", "open", "unpack"})
  PROVE  DownloadInv'
  <1>1. (stage' \in Before <=> stage \in Before) /\ (stage' = "fetch" => stage = "fetch")
        /\ Handled' = Handled
    BY DEF Before, Handled
  <1>2. TodoInv'
    BY DEF DownloadInv, TodoInv
  <1>3. NamesInv'
    <2>1. Download!Names(todo)' = Download!Names(todo)
      BY DEF Download!Names, Download!Range
    <2> QED
      BY <1>1, <2>1 DEF DownloadInv, NamesInv, Own, NoneBefore
  <1>4. ReportsInv'
    BY <1>1 DEF DownloadInv, ReportsInv, Own, NoneBefore
  <1> QED
    BY <1>2, <1>3, <1>4 DEF DownloadInv

\* The listing gives some of the attachments, each with its way back.
LEMMA ListStep ==
  ASSUME DownloadInv, Download!List
  PROVE  DownloadInv'
  <1> DEFINE all == Download!ExtractAttachments(message, <<>>)
             chosen == {i \in DOMAIN all : request.filename \in {None, all[i].part.name}}
             n == Cardinality(chosen)
  <1>1. /\ stage = "start" /\ todo = <<>> /\ at = 1
        /\ used = {} /\ name = None /\ reported = {}
    <2>1. stage = "start" /\ todo = <<>>
      BY DEF Download!List, DownloadInv, TodoInv
    <2>2. at = 1 /\ Handled = 0
      BY <2>1 DEF DownloadInv, TodoInv, Handled, Before
    <2>3. IsFiniteSet(used) /\ Cardinality(used) \in Nat /\ Cardinality(used) <= 0
      BY <2>2, FS_CardinalityType DEF DownloadInv, NamesInv
    <2>4. used = {}
      BY <2>3, FS_EmptySet
    <2> QED
      BY <2>1, <2>2, <2>4 DEF DownloadInv, NamesInv, ReportsInv, Before
  <1>2. /\ all \in Seq(Attachment)
        /\ \A i, j \in 1..Len(all) : all[i].path = all[j].path => i = j
        /\ \A i \in 1..Len(all) : Download!FindPart(message, all[i].path) = all[i].part
    BY ListingLeadsBack DEF Apart, DownloadInv, TodoInv
  <1>3. /\ todo' = Selected(all, chosen)
        /\ stage' = CASE todo' # <<>> -> "name"
                      [] all = <<>>   -> "done"
                      [] OTHER        -> "failed"
        /\ next' = [x \in Download!Names(todo') |-> 2]
        /\ UNCHANGED <<message, at, used, name, reported>>
    BY SameOperators DEF Download!List, Download!output
  <1> HIDE DEF all
  <1>4. chosen \in SUBSET (DOMAIN all) /\ DOMAIN all = 1..Len(all)
    BY <1>2
  <1> HIDE DEF chosen
  <1>5. /\ n \in Nat /\ todo' \in Seq(Attachment) /\ Len(todo') = n
        /\ \A k \in 1..n : Nth(chosen, k) \in chosen /\ todo'[k] = all[Nth(chosen, k)]
        /\ \A j, k \in 1..n : j < k => Nth(chosen, j) < Nth(chosen, k)
    BY <1>2, <1>3, <1>4, SelectedElements
  <1> HIDE DEF n
  <1>6. \A k \in 1..n : Download!FindPart(message, todo'[k].path) = todo'[k].part
    BY <1>2, <1>4, <1>5
  <1>7. ASSUME NEW j \in 1..n, NEW k \in 1..n, todo'[j].path = todo'[k].path
        PROVE  j = k
    <2>1. Nth(chosen, j) = Nth(chosen, k)
      BY <1>2, <1>4, <1>5, <1>7
    <2>2. Nth(chosen, j) \in Nat /\ Nth(chosen, k) \in Nat /\ j \in Nat /\ k \in Nat
      BY <1>2, <1>4, <1>5
    <2>3. ~(j < k) /\ ~(k < j)
      BY <1>5, <2>1, <2>2
    <2> QED
      BY <2>2, <2>3
  <1>8. stage' \in {"name", "done", "failed"} /\ (stage' = "name" => todo' # <<>>)
    BY <1>3
  <1>9. TodoInv'
    <2>1. todo' # <<>> => Len(todo') >= 1
      BY <1>5
    <2>2. at' = 1 /\ message' = message
      BY <1>1, <1>3
    <2>3. message' \in Messages
      BY <2>2 DEF DownloadInv, TodoInv
    <2> QED
      BY <1>5, <1>6, <1>7, <1>8, <2>1, <2>2, <2>3 DEF TodoInv, Apart
  <1>10. Handled' = 0 /\ stage' \in Before
    BY <1>1, <1>3, <1>8 DEF Handled, Before
  <1>11. NamesInv'
    <2>1. DOMAIN next' = Download!Names(todo') /\ \A x \in DOMAIN next' : next'[x] \in Nat
      BY <1>3
    <2>2. Download!Names(todo)' = Download!Names(todo')
      BY DEF Download!Names, Download!Range
    <2>3. IsFiniteSet({}) /\ Cardinality({}) = 0
      BY FS_EmptySet
    <2>4. used' = {} /\ name' = None
      BY <1>1, <1>3
    <2> QED
      BY <1>10, <2>1, <2>2, <2>3, <2>4 DEF NamesInv
  <1>12. ReportsInv'
    <2>1. reported' = {} /\ stage' # "fetch"
      BY <1>1, <1>3, <1>8
    <2> QED
      BY <2>1, FS_EmptySet DEF ReportsInv
  <1> QED
    BY <1>9, <1>11, <1>12 DEF DownloadInv

\* An attachment is named as nothing is named yet; with a name that was made
\* up, its own name is taken by an earlier one.
LEMMA ChooseStep ==
  ASSUME DownloadInv, Download!Choose
  PROVE  DownloadInv'
  <1> DEFINE own == Own(at)
             made == Download!Suffixed(own, Download!Suffix(own))
             names == Download!Names(todo)
  <1>1. /\ stage = "name" /\ at \in 1..Len(todo) /\ at \in Nat /\ Len(todo) \in Nat
        /\ Handled = at - 1 /\ name = None
    <2>1. stage = "name"
      BY DEF Download!Choose
    <2>2. at \in 1..Len(todo)
      BY <2>1 DEF DownloadInv, TodoInv
    <2> QED
      BY <2>1, <2>2, TodoNames DEF DownloadInv, NamesInv, Handled, Before
  <1>2. /\ own \in names /\ own \in Download!FileNames
        /\ IsFiniteSet(used) /\ Cardinality(used) \in Nat /\ Cardinality(used) <= at - 1
    BY <1>1, TodoNames, FS_CardinalityType DEF DownloadInv, NamesInv
  <1>3. Download!Suffix(own) \in Nat /\ made \notin used \cup names /\ made \in Download!FileNames
    <2>1. Cardinality(used) <= Len(todo)
      BY <1>1, <1>2
    <2> QED
      BY <1>2, <2>1, SuffixFree, PartNames DEF DownloadInv
  <1>4. /\ name' = IF own \in used THEN made ELSE own
        /\ used' = used \cup {name'}
        /\ next' = IF own \in used THEN [next EXCEPT ![own] = Download!Suffix(own) + 1] ELSE next
        /\ stage' \in {"over", "fetch"}
        /\ UNCHANGED <<message, todo, at, reported>>
    BY DEF Download!Choose, Download!Go, Download!output, Own
  <1> HIDE DEF made, own, names
  <1>5. name' \notin used /\ name' \in Download!FileNames /\ name' # None
    BY <1>2, <1>3, <1>4, PartNames
  <1>6. Handled' = at /\ ~(stage' \in Before)
    BY <1>4 DEF Handled, Before
  <1>7. TodoInv'
    BY <1>1, <1>4 DEF DownloadInv, TodoInv
  <1>8. names' = names
    BY <1>4 DEF Download!Names, Download!Range, names
  <1>9. NamesInv'
    <2>1. DOMAIN next' = names /\ \A n \in DOMAIN next' : next'[n] \in Nat
      BY <1>2, <1>3, <1>4 DEF DownloadInv, NamesInv, names
    <2>2. /\ used' \subseteq Download!FileNames /\ IsFiniteSet(used')
          /\ Cardinality(used') <= at
      <3>1. IsFiniteSet(used') /\ Cardinality(used') = Cardinality(used) + 1
        BY <1>2, <1>4, <1>5, FS_AddElement
      <3> QED
        BY <1>1, <1>2, <1>4, <1>5, <3>1 DEF DownloadInv, NamesInv
    <2>3. \A u \in used : u \in names => \E s \in 1..at-1 : Own(s) = u
      BY <1>1 DEF DownloadInv, NamesInv, names
    <2>4. ASSUME NEW u \in used', u \in names PROVE \E s \in 1..at : Own(s) = u
      <3>1. CASE u \in used
        <4>1. PICK s \in 1..at-1 : Own(s) = u
          BY <2>3, <2>4, <3>1
        <4> QED
          BY <1>1, <4>1
      <3>2. CASE u = name'
        <4>1. name' = own
          BY <1>3, <1>4, <2>4, <3>2
        <4>2. at \in 1..at
          BY <1>1
        <4> QED
          BY <3>2, <4>1, <4>2 DEF own
      <3> QED
        BY <1>4, <2>4, <3>1, <3>2
    <2>5. NoneBefore(at) => name' = Own(at)
      <3> SUFFICES ASSUME NoneBefore(at) PROVE own \notin used
        BY <1>4 DEF own
      <3>1. ~ \E s \in 1..at-1 : Own(s) = own
        BY DEF NoneBefore, own
      <3> QED
        BY <1>2, <2>3, <3>1
    <2>6. (NoneBefore(at))' <=> NoneBefore(at)
      BY <1>4 DEF NoneBefore, Own
    <2>7. (Own(at))' = Own(at)
      BY <1>4 DEF Own
    <2>8. (\A u \in used : u \in names => \E s \in 1..Handled : Own(s) = u)'
      BY <1>4, <1>6, <1>8, <2>4 DEF Own
    <2> QED
      BY <1>4, <1>5, <1>6, <1>8, <2>1, <2>2, <2>5, <2>6, <2>7, <2>8 DEF NamesInv, names
  <1>10. ReportsInv'
    <2>1. \A r \in reported : r.name \in used
      BY DEF DownloadInv, ReportsInv
    <2>2. ASSUME NEW r \in reported
          PROVE  \E i \in 1..at : todo[i] = r.att /\ (NoneBefore(i) => r.name = Own(i))
      <3>1. PICK i \in 1..at-1 : todo[i] = r.att /\ (NoneBefore(i) => r.name = Own(i))
        BY <1>1 DEF DownloadInv, ReportsInv
      <3>2. i \in 1..at
        BY <1>1
      <3> QED
        BY <3>1, <3>2
    <2>3. (\A r \in reported :
             \E i \in 1..Handled : todo[i] = r.att /\ (NoneBefore(i) => r.name = Own(i)))'
      BY <1>4, <1>6, <2>2 DEF NoneBefore, Own
    <2> QED
      BY <1>4, <1>5, <2>1, <2>3 DEF DownloadInv, ReportsInv
  <1> QED
    BY <1>7, <1>9, <1>10 DEF DownloadInv

\* What the steps that deal with an attachment begin with.
LEMMA Dealing ==
  ASSUME DownloadInv, stage \in {"fetch", "open", "over"}
  PROVE  /\ at \in 1..Len(todo) /\ at \in Nat /\ Len(todo) \in Nat
         /\ name # None /\ name \in used /\ (NoneBefore(at) => name = Own(at))
         /\ Handled = at /\ todo[at] \in Attachment
         /\ Download!FindPart(message, todo[at].path) = todo[at].part
  <1>1. at \in 1..Len(todo) /\ Len(todo) \in Nat
    BY TodoNames DEF DownloadInv, TodoInv
  <1> QED
    BY <1>1, TodoNames DEF DownloadInv, TodoInv, NamesInv, Before, Handled

\* A file is saved under a name that no report has.
LEMMA SaveStep ==
  ASSUME DownloadInv, Download!Save \/ Download!SaveFails
  PROVE  DownloadInv'
  <1>0. /\ stage = "fetch" /\ stage' \in {"open", "over"}
        /\ UNCHANGED <<message, todo, at, used, next, name>>
    BY DEF Download!Save, Download!SaveFails, Download!Go, Download!naming
  <1>1. CASE Download!SaveFails
    BY <1>0, <1>1, QuietStep DEF Download!SaveFails, Download!Go
  <1>2. CASE Download!Save
    <2> DEFINE new == [name |-> name, att |-> todo[at]]
    <2>1. /\ at \in 1..Len(todo) /\ name \in used /\ (NoneBefore(at) => name = Own(at))
          /\ Handled = at /\ at \in Nat
      BY <1>0, Dealing
    <2>2. Handled' = at /\ stage' \notin Before /\ stage \notin Before
      BY <1>0, <2>1 DEF Handled, Before
    <2>3. TodoInv'
      BY <1>0, <2>1 DEF DownloadInv, TodoInv
    <2>4. NamesInv'
      <3>1. Download!Names(todo)' = Download!Names(todo)
        BY <1>0 DEF Download!Names, Download!Range
      <3> QED
        BY <1>0, <2>1, <2>2, <3>1 DEF DownloadInv, NamesInv, Own, NoneBefore
    <2>5. reported' = reported \cup {new}
      BY <1>2 DEF Download!Save
    <2>6. /\ \E i \in 1..at : todo[i] = new.att /\ (NoneBefore(i) => new.name = Own(i))
          /\ new.name \in used
      BY <2>1
    <2>7. \A r \in reported : r.name # new.name
      BY <1>0 DEF DownloadInv, ReportsInv
    <2> HIDE DEF new
    <2>8. \A r \in reported' :
            /\ r.name \in used'
            /\ \E i \in 1..at : todo[i] = r.att /\ (NoneBefore(i) => r.name = Own(i))
      BY <1>0, <2>1, <2>5, <2>6 DEF DownloadInv, ReportsInv
    <2>9. (\A r \in reported :
             \E i \in 1..Handled : todo[i] = r.att /\ (NoneBefore(i) => r.name = Own(i)))'
      BY <1>0, <2>2, <2>8 DEF NoneBefore, Own
    <2>10. \A r, q \in reported' : r.name = q.name => r = q
      BY <2>5, <2>7 DEF DownloadInv, ReportsInv
    <2>11. IsFiniteSet(reported')
      BY <2>5, FS_AddElement DEF DownloadInv, ReportsInv
    <2>12. ReportsInv'
      BY <1>0, <2>8, <2>9, <2>10, <2>11 DEF ReportsInv
    <2> QED
      BY <2>3, <2>4, <2>12 DEF DownloadInv
  <1> QED
    BY <1>1, <1>2

\* One attachment is done with, and the next one has no name yet.
LEMMA OverStep ==
  ASSUME DownloadInv, Download!Over
  PROVE  DownloadInv'
  <1>0. /\ stage = "over" /\ stage' = (IF at = Len(todo) THEN "done" ELSE "name")
        /\ at' = at + 1 /\ name' = None
        /\ UNCHANGED <<message, todo, used, next, reported>>
    BY DEF Download!Over, Download!Go, Download!output
  <1>1. at \in 1..Len(todo) /\ at \in Nat /\ Len(todo) \in Nat /\ Handled = at
    BY <1>0, Dealing
  <1>2. Handled' = at /\ stage' \in Before
    BY <1>0, <1>1 DEF Handled, Before
  <1>3. at' \in 1..Len(todo) + 1 /\ (stage' = "name" => at' <= Len(todo))
    BY <1>0, <1>1
  <1>4. TodoInv'
    BY <1>0, <1>3 DEF DownloadInv, TodoInv
  <1>5. NamesInv'
    <2>1. Download!Names(todo)' = Download!Names(todo)
      BY <1>0 DEF Download!Names, Download!Range
    <2> QED
      BY <1>0, <1>1, <1>2, <2>1 DEF DownloadInv, NamesInv, Own
  <1>6. ReportsInv'
    BY <1>0, <1>1, <1>2 DEF DownloadInv, ReportsInv, Own, NoneBefore
  <1> QED
    BY <1>4, <1>5, <1>6 DEF DownloadInv

\* Every step of a download keeps DownloadInv.
LEMMA DownloadStep == DownloadInv /\ [Download!Next]_(Download!vars) => DownloadInv'
  <1> SUFFICES ASSUME DownloadInv, [Download!Next]_(Download!vars)
               PROVE  DownloadInv'
    OBVIOUS
  <1>1. CASE Download!ListFails \/ Download!Open \/ Download!OpenFails \/ Download!Unpack
             \/ Download!UnpackStops \/ Download!CopyStops \/ UNCHANGED Download!vars
    <2>1. /\ UNCHANGED <<message, todo, at, used, next, name, reported>>
          /\ \/ stage' = stage
             \/ stage' = "failed" /\ stage = "start"
             \/ stage' \in {"unpack", "over"} /\ stage \in {"fetch", "open", "unpack"}
      BY <1>1 DEF Download!ListFails, Download!Open, Download!OpenFails, Download!Unpack,
                  Download!UnpackStops, Download!CopyStops,
                  Download!vars, Download!Go, Download!naming, Download!output
    <2> QED
      BY <2>1, QuietStep
  <1> QED
    BY <1>1, ListStep, ChooseStep, SaveStep, OverStep DEF Download!Next

\* More names and more reports disturb no fewer reports.
LEMMA DisturbedStays ==
  ASSUME NEW r, used \subseteq used', reported \subseteq reported', request' = request,
         Download!Undisturbed(r)'
  PROVE  Download!Undisturbed(r)
  BY DEF Download!Undisturbed, Download!IsZip

\* A step that leaves the disk alone, but for new directories.
LEMMA DiskKept ==
  ASSUME DiskInv, used \subseteq used', reported' = reported, request' = request, files' = files,
         \A f \in files : f.name \notin dirs',
         stage' \in {"open", "unpack"} => stage \in {"open", "unpack"} /\ name' = name
  PROVE  DiskInv'
  BY DisturbedStays DEF DiskInv, Download!IsZip

\* A file is saved, in whole or in part, over none of another undisturbed report.
LEMMA DiskSave ==
  ASSUME DownloadInv, DiskInv, Download!Save \/ Download!SaveFails
  PROVE  DiskInv'
  <1>1. /\ stage = "fetch" /\ used' = used /\ request' = request /\ dirs' = dirs /\ name' = name
        /\ reported \subseteq reported'
    BY DEF Download!Save, Download!SaveFails, Download!Go, Download!naming
  <1>2. ASSUME NEW what, Clean(name) \notin dirs, files' = Download!Put(Clean(name), what)
        PROVE  /\ \A f \in files' : f.name \notin dirs'
               /\ \A r \in reported : Download!Undisturbed(r)' =>
                    [name |-> Clean(r.name), what |-> r.att.part.data] \in files'
               /\ [name |-> Clean(name), what |-> what] \in files'
    <2>1. files' = {f \in files : f.name # Clean(name)} \cup {[name |-> Clean(name), what |-> what]}
      BY <1>2 DEF Download!Put
    <2>2. name \in used /\ \A r \in reported : r.name # name
      BY <1>1, Dealing DEF DownloadInv, ReportsInv
    <2>3. ASSUME NEW r \in reported, Download!Undisturbed(r)'
          PROVE  [name |-> Clean(r.name), what |-> r.att.part.data] \in files'
      <3>1. Download!Undisturbed(r)
        BY <1>1, <2>3, DisturbedStays
      <3>2. Clean(name) # Clean(r.name)
        BY <2>2, <3>1 DEF Download!Undisturbed
      <3> QED
        BY <2>1, <3>1, <3>2 DEF DiskInv
    <2> QED
      BY <1>1, <1>2, <2>1, <2>3 DEF DiskInv
  <1>3. CASE Download!SaveFails
    <2>1. reported' = reported /\ stage' = "over"
          /\ (files' = files \/ (Clean(name) \notin dirs /\ files' = Download!Put(Clean(name), None)))
      BY <1>3 DEF Download!SaveFails, Download!Go
    <2>2. CASE files' = files
      BY <1>1, <2>1, <2>2, DiskKept DEF DiskInv
    <2>3. CASE Clean(name) \notin dirs /\ files' = Download!Put(Clean(name), None)
      BY <1>1, <1>2, <2>1, <2>3 DEF DiskInv
    <2> QED
      BY <2>1, <2>2, <2>3
  <1>4. CASE Download!Save
    <2> DEFINE what == Download!Fetched(todo[at])
               new  == [name |-> name, att |-> todo[at]]
    <2>1. /\ what # None /\ Clean(name) \notin dirs /\ files' = Download!Put(Clean(name), what)
          /\ reported' = reported \cup {new}
      BY <1>4 DEF Download!Save
    <2>2. what = todo[at].part.data
      BY <1>1, <2>1, Dealing DEF Download!Fetched
    <2>3. /\ \A f \in files' : f.name \notin dirs'
          /\ \A r \in reported : Download!Undisturbed(r)' =>
               [name |-> Clean(r.name), what |-> r.att.part.data] \in files'
          /\ [name |-> Clean(new.name), what |-> new.att.part.data] \in files'
      BY <1>2, <2>1, <2>2
    <2>4. stage' \in {"open", "unpack"} => request.extract /\ Download!IsZip(todo[at], name)
      BY <1>4 DEF Download!Save, Download!Go
    <2>5. (stage \in {"open", "unpack"} =>
             request.extract /\ \E q \in reported : q.name = name /\ Download!IsZip(q.att, q.name))'
      <3>1. new \in reported' /\ new.name = name /\ new.att = todo[at]
        BY <2>1
      <3> HIDE DEF new
      <3> QED
        BY <1>1, <2>4, <3>1 DEF Download!IsZip
    <2> HIDE DEF what, new
    <2>6. \A r \in reported' : Download!Undisturbed(r)' =>
            [name |-> Clean(r.name), what |-> r.att.part.data] \in files'
      BY <2>1, <2>3
    <2> QED
      BY <2>3, <2>5, <2>6 DEF DiskInv
  <1> QED
    BY <1>3, <1>4

\* An entry of an archive is written over no file of an undisturbed report.
LEMMA DiskUnpack ==
  ASSUME DiskInv, UnzipInv, stage = "unpack",
         Download!Mkdirs(archive[entry], Download!Around(archive[entry])),
         UNCHANGED <<used, reported, request, name>>, stage' \in {"unpack", "over"},
         \/ files' = files
         \/ /\ Download!Place(archive[entry]) \notin dirs'
            /\ \/ files' = Download!Put(Download!Place(archive[entry]), None)
               \/ files' = {f \in files : f.name # Download!Place(archive[entry])}
  PROVE  DiskInv'
  <1> DEFINE p == Download!Place(archive[entry])
  <1>1. \A f \in files : f.name \notin dirs'
    BY DEF Download!Mkdirs, DiskInv
  <1>2. CASE files' = files
    BY <1>1, <1>2, DiskKept
  <1>3. CASE /\ p \notin dirs'
             /\ \/ files' = Download!Put(p, None) \/ files' = {f \in files : f.name # p}
    <2>1. /\ \A f \in files : f.name # p => f \in files'
          /\ \A f \in files' : f \in files \/ f.name = p
      BY <1>3 DEF Download!Put
    <2>2. \A f \in files' : f.name \notin dirs'
      BY <1>1, <1>3, <2>1
    <2>3. ASSUME NEW r \in reported, Download!Undisturbed(r)'
          PROVE  [name |-> Clean(r.name), what |-> r.att.part.data] \in files'
      <3>1. Download!Undisturbed(r)
        BY <2>3, DisturbedStays
      <3>2. PICK q \in reported : q.name = name /\ Download!IsZip(q.att, q.name)
        BY DEF DiskInv
      <3>3. archive \in Archives /\ archive[entry] \in Range(archive)
        BY Unpacking DEF Range
      <3>4. Join(Download!Dir(q.name), archive[entry].name) # Clean(r.name)
        BY <3>1, <3>2, <3>3, SameOperators DEF Download!Undisturbed, DiskInv
      <3>5. p # Clean(r.name)
        BY <3>2, <3>4 DEF Download!Place
      <3> QED
        BY <2>1, <3>1, <3>5 DEF DiskInv
    <2>4. (stage \in {"open", "unpack"} =>
             request.extract /\ \E q \in reported : q.name = name /\ Download!IsZip(q.att, q.name))'
      BY DEF DiskInv, Download!IsZip
    <2> QED
      BY <2>2, <2>3, <2>4 DEF DiskInv
  <1> QED
    BY <1>2, <1>3

\* Every step of a download keeps DiskInv.
LEMMA DiskStep == DownloadInv /\ UnzipInv /\ DiskInv /\ [Download!Next]_(Download!vars) => DiskInv'
  <1> SUFFICES ASSUME DownloadInv, UnzipInv, DiskInv, [Download!Next]_(Download!vars)
               PROVE  DiskInv'
    OBVIOUS
  <1>1. CASE Download!List \/ Download!ListFails \/ Download!Choose \/ Download!Over
             \/ Download!OpenFails \/ UNCHANGED Download!vars
    <2>1. /\ used \subseteq used' /\ UNCHANGED <<reported, request, files, dirs>>
          /\ stage' \in {"open", "unpack"} => stage' = stage /\ name' = name
      BY <1>1 DEF Download!List, Download!ListFails, Download!Choose, Download!Over,
                  Download!OpenFails, Download!vars, Download!Go, Download!naming, Download!output
    <2> QED
      BY <2>1, DiskKept DEF DiskInv
  <1>2. CASE Download!Open
    <2>1. /\ stage = "open" /\ UNCHANGED <<used, reported, request, files, name>>
          /\ dirs' = dirs \cup {Download!Dir(name)} /\ \A f \in files : f.name # Download!Dir(name)
      BY <1>2 DEF Download!Open, Download!naming
    <2> QED
      BY <2>1, DiskKept DEF DiskInv
  <1>3. CASE Download!Unpack \/ Download!CopyStops
    <2>1. /\ stage = "unpack" /\ stage' \in {"unpack", "over"}
          /\ Download!Mkdirs(archive[entry], Download!Around(archive[entry]))
          /\ UNCHANGED <<used, reported, request, name>>
      BY <1>3 DEF Download!Unpack, Download!CopyStops, Download!Go, Download!naming
    <2>2. \/ files' = files
          \/ /\ Download!Place(archive[entry]) \notin dirs'
             /\ \/ files' = Download!Put(Download!Place(archive[entry]), None)
                \/ files' = {f \in files : f.name # Download!Place(archive[entry])}
      BY <1>3 DEF Download!Unpack, Download!CopyStops, Download!Leave
    <2> QED
      BY <2>1, <2>2, DiskUnpack
  <1>4. CASE Download!UnpackStops
    <2>1. /\ stage = "unpack" /\ stage' = "over"
          /\ dirs' = dirs \/ \E made : Download!Mkdirs(archive[entry], made)
          /\ UNCHANGED <<used, reported, request, name, files>>
      BY <1>4 DEF Download!UnpackStops, Download!Go, Download!naming
    <2> QED
      BY <2>1, DiskKept DEF DiskInv, Download!Mkdirs
  <1> QED
    BY <1>1, <1>2, <1>3, <1>4, DiskSave DEF Download!Next

\* DownloadInv and DiskInv hold before a download.
LEMMA DownloadInit == Download!Init => DownloadInv /\ DiskInv
  <1> SUFFICES ASSUME Download!Init PROVE DownloadInv /\ DiskInv
    OBVIOUS
  <1>1. /\ message \in Messages /\ stage = "start" /\ todo = <<>> /\ at = 1 /\ used = {}
        /\ next = <<>> /\ name = None /\ files = {} /\ reported = {}
    BY DEF Download!Init
  <1>2. Handled = 0 /\ stage \in Before
    BY <1>1 DEF Handled, Before
  <1>3. IsFiniteSet({}) /\ Cardinality({}) = 0
    BY FS_EmptySet
  <1>4. TodoInv
    BY <1>1 DEF TodoInv, Apart
  <1>5. Download!Names(todo) = {} /\ DOMAIN next = {}
    BY <1>1, <1>4, TodoNames
  <1>6. NamesInv
    BY <1>1, <1>2, <1>3, <1>5 DEF NamesInv
  <1>7. ReportsInv
    BY <1>1, <1>3 DEF ReportsInv
  <1>8. DiskInv
    BY <1>1 DEF DiskInv
  <1> QED
    BY <1>4, <1>6, <1>7, <1>8 DEF DownloadInv

ArchiveInv == archive \in Archives \cup {<<>>}

\* What of the invariants the property is about.
LEMMA DownloadHolds == DownloadInv /\ DiskInv /\ UnzipInv /\ ArchiveInv => DownloadIntact
  <1> SUFFICES ASSUME DownloadInv, DiskInv, UnzipInv, ArchiveInv
               PROVE  DownloadIntact
    OBVIOUS
  <1>1. Len(todo) \in Nat /\ DOMAIN todo = 1..Len(todo)
    BY DEF DownloadInv, TodoInv
  <1>2. Download!TypeOK
    <2>1. Range(next) \subseteq Nat /\ DOMAIN next = Download!Names(todo)
      BY DEF DownloadInv, NamesInv, Range
    <2>2. {f.name : f \in files} \cap dirs = {} /\ {r.name : r \in reported} \subseteq used
      BY DEF DownloadInv, ReportsInv, DiskInv
    <2>3. name = None <=> stage \in {"start", "name", "done", "failed"}
      BY DEF DownloadInv, NamesInv, Before
    <2>4. name # None => name \in used
      BY DEF DownloadInv, NamesInv
    <2>5. /\ at \in 1..Len(todo) + 1
          /\ stage \in {"name", "fetch", "open", "unpack", "over"} => at <= Len(todo)
          /\ stage \in {"start", "name", "fetch", "open", "unpack", "over", "done", "failed"}
      BY DEF DownloadInv, TodoInv
    <2>6. total \in 0..MaxTotalSize + MaxFileSize /\ (stage = "unpack" => entry \in DOMAIN archive)
      BY DEF UnzipInv
    <2> QED
      BY <2>1, <2>2, <2>3, <2>4, <2>5, <2>6, SameOperators DEF Download!TypeOK, ArchiveInv
  <1>3. Download!Intact
    <2>1. Download!IsInjective([t \in DOMAIN todo |-> todo[t].path])
      BY <1>1 DEF Download!IsInjective, DownloadInv, TodoInv, Apart
    <2>2. \A a \in Range(todo) : Download!FindPart(message, a.path) = a.part
      BY <1>1 DEF Range, DownloadInv, TodoInv
    <2>3. \A r \in reported : Download!Undisturbed(r) =>
            [name |-> Clean(r.name), what |-> r.att.part.data] \in files
      BY DEF DiskInv
    <2>4. Cardinality({r.name : r \in reported}) = Cardinality(reported)
      <3> DEFINE nameOf == [r \in reported |-> r.name]
      <3>1. nameOf \in Bijection(reported, {r.name : r \in reported})
        BY DEF DownloadInv, ReportsInv, Bijection, Injection, Surjection, IsInjective
      <3>2. ExistsBijection(reported, {r.name : r \in reported})
        BY <3>1 DEF ExistsBijection
      <3> QED
        BY <3>2, FS_Bijection DEF DownloadInv, ReportsInv
    <2> QED
      BY <2>1, <2>2, <2>3, <2>4, SameOperators DEF Download!Intact
  <1>4. Download!KeepsName
    <2> SUFFICES ASSUME NEW r \in reported, NEW t \in 1..Len(todo), todo[t] = r.att,
                        \A s \in 1..t-1 : todo[s].part.name # r.att.part.name
                 PROVE  r.name = r.att.part.name
      BY <1>1 DEF Download!KeepsName
    <2>1. PICK i \in 1..Handled : todo[i] = r.att /\ (NoneBefore(i) => r.name = Own(i))
      BY DEF DownloadInv, ReportsInv
    <2>2. i \in 1..Len(todo)
      BY <1>1 DEF Handled, Before, DownloadInv, TodoInv
    <2>3. i = t
      BY <2>1, <2>2 DEF DownloadInv, TodoInv, Apart
    <2> QED
      BY <2>1, <2>3 DEF NoneBefore, Own
  <1> QED
    BY <1>2, <1>3, <1>4 DEF DownloadIntact

\* Downloaded attachments are whole when the command ends, under the reported
\* names, each its own, whatever was saved or unpacked at any other path; names
\* made up for some take no other's away.
THEOREM DownloadsWhole == MailSpec => []DownloadIntact
  <1>1. MailInit => DownloadInv /\ DiskInv /\ UnzipInv /\ ArchiveInv
    BY DownloadInit, UnzipInit DEF MailInit, Download!Init, ArchiveInv
  <1>2. ArchiveInv /\ [Download!Next]_(Download!vars) => ArchiveInv'
    BY DEF ArchiveInv, Download!Next, Download!List, Download!ListFails, Download!Choose, Download!Save,
           Download!SaveFails, Download!Over, Download!Open, Download!OpenFails, Download!Unpack,
           Download!UnpackStops, Download!CopyStops, Download!vars, Download!unzip
  <1>3. DownloadInv /\ UnzipInv /\ DiskInv /\ [Download!Next]_(Download!vars) => DownloadInv' /\ DiskInv'
    BY DownloadStep, DiskStep
  <1> QED
    BY <1>1, <1>2, <1>3, DownloadSteps, UnzipStep, DownloadHolds, PTL DEF MailSpec

-----------------------------------------------------------------------------
(* The draft.                                                              *)

\* The addresses are filtered to those of others, each once in one spelling.
LEMMA FilterSelfKeeps ==
  ASSUME NEW addrs \in Seq(Addrs), NEW mine
  PROVE  LET kept == FilterSelf(addrs, mine) IN
         /\ kept \in Seq(Addrs) /\ Range(kept) \subseteq Addrs
         /\ Cardinality({Lower[a] : a \in Range(kept)}) = Len(kept)
         /\ {Lower[a] : a \in Range(kept)} = {Lower[a] : a \in Range(addrs)} \ mine
  <1> DEFINE I == {i \in DOMAIN addrs : /\ Lower[addrs[i]] \notin mine
                                        /\ \A j \in 1..i-1 : Lower[addrs[j]] # Lower[addrs[i]]}
             kept == FilterSelf(addrs, mine)
             n == Cardinality(I)
             lows == {Lower[a] : a \in Range(kept)}
  <1>1. Len(addrs) \in Nat /\ DOMAIN addrs = 1..Len(addrs) /\ \A i \in DOMAIN addrs : addrs[i] \in Addrs
    OBVIOUS
  <1>2. kept = Selected(addrs, I) /\ I \in SUBSET (DOMAIN addrs)
    BY DEF FilterSelf
  <1>3. \A i \in I : /\ i \in DOMAIN addrs /\ Lower[addrs[i]] \notin mine
                     /\ \A j \in 1..i-1 : Lower[addrs[j]] # Lower[addrs[i]]
    OBVIOUS
  <1>4. \A i \in DOMAIN addrs : Lower[addrs[i]] \in mine \/ i \in I
                                \/ \E j \in 1..i-1 : Lower[addrs[j]] = Lower[addrs[i]]
    OBVIOUS
  <1> HIDE DEF I, kept
  <1>5. /\ n \in Nat /\ kept \in Seq(Addrs) /\ Len(kept) = n
        /\ \A k \in 1..n : Nth(I, k) \in I /\ kept[k] = addrs[Nth(I, k)]
        /\ \A j, k \in 1..n : j < k => Nth(I, j) < Nth(I, k)
        /\ Range(kept) = {addrs[i] : i \in I}
    BY <1>2, SelectedElements
  <1> HIDE DEF n
  <1>6. Range(kept) \subseteq Addrs
    BY <1>1, <1>3, <1>5
  <1>7. lows = {Lower[addrs[i]] : i \in I}
    BY <1>5
  <1>8. Cardinality(lows) = n
    <2> DEFINE f == [k \in 1..n |-> Lower[kept[k]]]
    <2>1. \A j, k \in 1..n : j < k => f[j] # f[k]
      <3> SUFFICES ASSUME NEW j \in 1..n, NEW k \in 1..n, j < k
                   PROVE  Lower[kept[j]] # Lower[kept[k]]
        OBVIOUS
      <3> DEFINE x == Nth(I, j)
                 y == Nth(I, k)
      <3>1. x \in I /\ y \in I /\ x < y /\ kept[j] = addrs[x] /\ kept[k] = addrs[y]
        BY <1>5
      <3> HIDE DEF x, y
      <3>2. x \in 1..y-1
        BY <1>1, <1>3, <3>1
      <3> QED
        BY <1>3, <3>1, <3>2
    <2>2. \A j, k \in 1..n : f[j] = f[k] => j = k
      <3> SUFFICES ASSUME NEW j \in 1..n, NEW k \in 1..n, f[j] = f[k] PROVE j = k
        OBVIOUS
      <3> HIDE DEF f
      <3>1. j \in Nat /\ k \in Nat /\ ~(j < k) /\ ~(k < j)
        BY <1>5, <2>1
      <3> QED
        BY <3>1
    <2>3. {f[k] : k \in 1..n} = lows
      <3>1. Range(kept) = {kept[k] : k \in 1..n}
        BY <1>5 DEF Range
      <3> QED
        BY <3>1
    <2>4. f \in Bijection(1..n, lows)
      <3>1. f \in [1..n -> lows]
        BY <2>3
      <3> HIDE DEF f, lows
      <3> QED
        BY <2>2, <2>3, <3>1 DEF Bijection, Injection, Surjection, IsInjective
    <2>5. IsFiniteSet(1..n) /\ Cardinality(1..n) = n
      BY <1>5, FS_Interval
    <2> HIDE DEF lows, f
    <2>6. ExistsBijection(1..n, lows)
      BY <2>4 DEF ExistsBijection
    <2> QED
      BY <2>5, <2>6, FS_Bijection
  <1>9. lows = {Lower[a] : a \in Range(addrs)} \ mine
    <2>1. ASSUME NEW i \in DOMAIN addrs, Lower[addrs[i]] \notin mine
          PROVE  Lower[addrs[i]] \in lows
      <3> DEFINE same == {j \in DOMAIN addrs : Lower[addrs[j]] = Lower[addrs[i]]}
      <3>1. same \in SUBSET Nat /\ i \in same
        BY <1>1
      <3>2. PICK j \in same : \A k \in same : j <= k
        <4> HIDE DEF same
        <4> QED
          BY <3>1, Least
      <3>3. j \in DOMAIN addrs /\ Lower[addrs[j]] = Lower[addrs[i]] /\ j \in Nat
        BY <1>1
      <3>4. ~ \E k \in 1..j-1 : Lower[addrs[k]] = Lower[addrs[j]]
        <4> SUFFICES ASSUME NEW k \in 1..j-1, Lower[addrs[k]] = Lower[addrs[j]] PROVE FALSE
          OBVIOUS
        <4>1. k \in DOMAIN addrs /\ k < j /\ k \in Nat
          BY <1>1, <3>3
        <4>2. k \in same
          BY <3>3, <4>1
        <4> QED
          BY <3>2, <3>3, <4>1, <4>2
      <3>5. j \in I
        BY <1>4, <2>1, <3>3, <3>4
      <3> QED
        BY <1>7, <3>3, <3>5
    <2>2. Range(addrs) = {addrs[i] : i \in DOMAIN addrs}
      BY DEF Range
    <2>3. lows \subseteq {Lower[a] : a \in Range(addrs)} \ mine
      BY <1>3, <1>7, <2>2
    <2>4. {Lower[a] : a \in Range(addrs)} \ mine \subseteq lows
      BY <2>1, <2>2
    <2> QED
      BY <2>3, <2>4
  <1> QED
    BY <1>5, <1>6, <1>8, <1>9 DEF kept

\* The chain of the source is kept, and ends with its Message-Id.
LEMMA ReferencesKept ==
  ASSUME NEW S, NEW chain \in Seq(S), NEW id
  PROVE  LET refs == BuildReferences(chain, id) IN
         /\ IsPrefix(chain, refs) /\ Last(refs) = id
         /\ IsInjective(chain) /\ id \notin Range(Front(chain)) => IsInjective(refs)
  <1> DEFINE n == Len(chain)
             refs == BuildReferences(chain, id)
  <1>1. n \in Nat /\ DOMAIN chain = 1..n /\ chain \in Seq(S \cup {id})
    OBVIOUS
  <1>2. CASE chain # <<>> /\ Last(chain) = id
    <2>1. refs = chain
      BY <1>2 DEF BuildReferences
    <2>2. IsPrefix(chain, chain)
      BY DEF IsPrefix
    <2> QED
      BY <1>2, <2>1, <2>2
  <1>3. CASE ~(chain # <<>> /\ Last(chain) = id)
    <2>1. refs = Append(chain, id)
      BY <1>3 DEF BuildReferences
    <2>2. /\ refs \in Seq(S \cup {id}) /\ Len(refs) = n + 1 /\ refs[n + 1] = id
          /\ \A i \in 1..n : refs[i] = chain[i]
          /\ DOMAIN refs = 1..n+1
      BY <1>1, <2>1
    <2> HIDE DEF refs
    <2>3. SubSeq(chain, 1, n) = SubSeq(refs, 1, n)
      BY <1>1, <2>2
    <2>4. IsPrefix(chain, refs) /\ Last(refs) = id
      BY <1>1, <2>2, <2>3 DEF IsPrefix, Last
    <2>5. ASSUME IsInjective(chain), id \notin Range(Front(chain))
          PROVE  IsInjective(refs)
      <3>1. \A i \in 1..n : chain[i] # id
        <4> SUFFICES ASSUME NEW i \in 1..n, chain[i] = id PROVE FALSE
          OBVIOUS
        <4>1. i # n
          <5>1. chain # <<>>
            BY <1>1
          <5> QED
            BY <1>3, <5>1 DEF Last
        <4>2. n - 1 \in Nat /\ i \in 1..n-1
          <5>1. n \in Nat /\ i \in Nat /\ 1 <= i /\ i <= n
            BY <1>1
          <5> HIDE DEF n
          <5> QED
            BY <4>1, <5>1
        <4>3. Len(Front(chain)) = n - 1 /\ Front(chain)[i] = chain[i] /\ DOMAIN Front(chain) = 1..n-1
          BY <1>1, <4>2 DEF Front
        <4> QED
          BY <2>5, <4>2, <4>3 DEF Range
      <3>2. \A i, j \in 1..n : chain[i] = chain[j] => i = j
        BY <1>1, <2>5 DEF IsInjective
      <3>3. \A i \in 1..n+1 : i \in 1..n \/ i = n + 1
        BY <1>1
      <3>4. \A i, j \in 1..n+1 : refs[i] = refs[j] => i = j
        BY <2>2, <3>1, <3>2, <3>3
      <3> QED
        BY <2>2, <3>4 DEF IsInjective
    <2> QED
      BY <2>4, <2>5 DEF refs
  <1> QED
    BY <1>2, <1>3

\* The draft as the command line alone makes it.
Composed ==
  [Empty EXCEPT
     !.to = OrNone(cmd.to), !.cc = OrNone(cmd.cc), !.bcc = OrNone(cmd.bcc),
     !.from = cmd.from, !.subject = cmd.subject, !.attach = cmd.attach,
     !.body = IF cmd.formats = {"plain"} THEN Plain(cmd.authored)
              ELSE HTML(cmd.authored, cmd.balanced)]

\* The addresses of the user.
Mine == {Lower[a] : a \in {Me} \cup ({cmd.from} \ {None})}

Addressed(d) == /\ Range(d.to) \cup Range(d.cc) \cup Range(d.bcc) \subseteq Addrs
                /\ d.from \in Addrs \cup {None}

\* What the command line says, a draft says.
Overridden(d) ==
  /\ Given(cmd.to) => d.to = cmd.to
  /\ Given(cmd.cc) => d.cc = cmd.cc
  /\ Given(cmd.subject) => d.subject = cmd.subject
  /\ d.bcc = OrNone(cmd.bcc) /\ d.from = cmd.from

\* A reply is in the thread of its source.
Threaded(d) ==
  IsReply =>
    /\ d.thread = source.thread /\ d.inReplyTo = source.id
    /\ IsPrefix(source.refs, d.refs) /\ Last(d.refs) = source.id
    /\ IsInjective(source.refs) /\ source.id \notin Range(Front(source.refs)) => IsInjective(d.refs)

\* A reply to all goes to each of the others once.
Copied(d) ==
  IsReply /\ Needs.cc =>
    /\ Cardinality({Lower[a] : a \in Range(d.cc)}) = Len(d.cc)
    /\ {Lower[a] : a \in Range(d.cc)} =
         {Lower[a] : a \in Range(source.to) \cup Range(source.cc)} \ Mine

Complete(d) == Overridden(d) /\ Threaded(d) /\ Copied(d)

Fetched == {source, [source EXCEPT !.body = None]}

\* What a draft is at each step of the command; a stored one is complete, and
\* has passed the guard.
DraftInv ==
  /\ \E S \in Cases : \E c \in S : cmd = c.cmd /\ source = c.source
  /\ pc \in Step /\ self \subseteq Range(Lower) /\ src \in {None} \cup Fetched
  /\ pc = "flags" => draft = Empty
  /\ pc \in {"client", "fetch", "profile", "derive"} => draft = Composed /\ Problems = {}
  /\ pc \in {"fetch", "profile", "derive"} => IsReply
  /\ pc \in {"profile", "derive"} => src \in Fetched
  /\ pc = "derive" /\ Needs.cc => self = Mine
  /\ Addressed(draft)
  /\ pc \in {"flags", "client", "fetch", "profile", "derive", "create"} => drafts = {}
  /\ pc = "create" => Complete(draft)
  /\ \A d \in drafts : d = draft /\ Complete(d) /\ d.to # <<>> /\ Illegal \notin Headers(d)

\* The types of a command line and of a source.
LEMMA CaseTypes ==
  ASSUME DraftInv
  PROVE  /\ cmd.to \in Headed /\ cmd.cc \in Headed /\ cmd.bcc \in Headed
         /\ cmd.from \in {None, Malformed, Illegal} \cup Addrs
         /\ source = [f \in Fields |-> source[f]]
         /\ source.refs \in Seq(Range(source.refs))
         /\ source.from \in {None, Malformed} \cup Addrs
         /\ source.to \in {Malformed} \cup Seq(Addrs) /\ source.cc \in {Malformed} \cup Seq(Addrs)
         /\ \A x \in Fetched : \A f \in Fields \ {"body"} : x[f] = source[f]
  <1>0. PICK S \in Cases : \E c \in S : cmd = c.cmd /\ source = c.source
    BY DEF DraftInv
  <1>1. PICK c \in S : cmd = c.cmd /\ source = c.source
    BY <1>0
  <1>2. /\ cmd.to \in Headed /\ cmd.cc \in Headed /\ cmd.bcc \in Headed
        /\ cmd.from \in {None, Malformed, Illegal} \cup Addrs
        /\ DOMAIN source = Fields /\ source = [f \in Fields |-> source[f]]
        /\ source.refs \in Seq(Range(source.refs))
        /\ source.from \in {None, Malformed} \cup Addrs
        /\ source.to \in {Malformed} \cup Seq(Addrs) /\ source.cc \in {Malformed} \cup Seq(Addrs)
    BY <1>1, DraftAssumption DEF DraftConstants
  <1>3. \A f \in Fields \ {"body"} : [source EXCEPT !.body = None][f] = source[f]
    BY <1>2
  <1> QED
    BY <1>2, <1>3 DEF Fetched

\* What is parsed of a command line without problems.
LEMMA ComposedTypes ==
  ASSUME DraftInv, Problems = {}
  PROVE  /\ OrNone(cmd.to) \in Seq(Addrs) /\ OrNone(cmd.cc) \in Seq(Addrs)
         /\ OrNone(cmd.bcc) \in Seq(Addrs)
         /\ cmd.from \in Addrs \cup {None}
         /\ Addressed(Composed) /\ Overridden(Composed)
         /\ DOMAIN Composed = {"thread", "inReplyTo", "refs", "from", "to", "cc", "bcc",
                               "subject", "attach", "body"}
         /\ Composed.to = OrNone(cmd.to) /\ Composed.cc = OrNone(cmd.cc)
         /\ Composed.bcc = OrNone(cmd.bcc) /\ Composed.from = cmd.from
         /\ Composed.subject = cmd.subject
  <1>1. /\ Illegal \notin {cmd.to, cmd.cc, cmd.bcc, cmd.from, cmd.subject}
        /\ Malformed \notin {cmd.to, cmd.cc, cmd.bcc, cmd.from}
    <2>1. "illegal" \notin Problems /\ "address" \notin Problems
      OBVIOUS
    <2> QED
      BY <2>1 DEF Problems
  <1>2. /\ OrNone(cmd.to) \in Seq(Addrs) /\ OrNone(cmd.cc) \in Seq(Addrs)
        /\ OrNone(cmd.bcc) \in Seq(Addrs)
        /\ cmd.from \in Addrs \cup {None}
    BY <1>1, CaseTypes DEF OrNone, Given, Headed
  <1>3. /\ DOMAIN Composed = {"thread", "inReplyTo", "refs", "from", "to", "cc", "bcc",
                              "subject", "attach", "body"}
        /\ Composed.to = OrNone(cmd.to) /\ Composed.cc = OrNone(cmd.cc)
        /\ Composed.bcc = OrNone(cmd.bcc) /\ Composed.from = cmd.from
        /\ Composed.subject = cmd.subject
    BY DEF Composed, Empty
  <1>4. Overridden(Composed)
    BY <1>3 DEF Overridden, OrNone
  <1>5. \A s \in Seq(Addrs) : Range(s) \subseteq Addrs
    BY DEF Range
  <1>6. Addressed(Composed)
    BY <1>2, <1>3, <1>5 DEF Addressed
  <1> QED
    BY <1>2, <1>3, <1>4, <1>6

\* The defaults that are derived complete a reply.
LEMMA DeriveStep ==
  ASSUME DraftInv, Derive
  PROVE  Addressed(draft') /\ Complete(draft')
  <1>1. /\ pc = "derive" /\ ~Underivable /\ IsReply
        /\ src \in Fetched /\ draft = Composed /\ Problems = {}
        /\ UNCHANGED <<cmd, source, src, self>>
        /\ Needs.cc => self = Mine
    BY DEF Derive, DraftInv
  <1> DEFINE refs == BuildReferences(source.refs, source.id)
             to   == IF Needs.to THEN <<source.from>> ELSE OrNone(cmd.to)
             cc   == IF Needs.cc THEN FilterSelf(source.to \o source.cc, Mine) ELSE OrNone(cmd.cc)
             subject == IF Needs.subject THEN AddRePrefix(src.subject) ELSE cmd.subject
  <1>2. /\ src.id = source.id /\ src.refs = source.refs /\ src.thread = source.thread
        /\ src.from = source.from /\ src.to = source.to /\ src.cc = source.cc
    BY <1>1, CaseTypes DEF Fields
  <1>3. /\ draft'.thread = source.thread /\ draft'.inReplyTo = source.id
        /\ draft'.refs = refs /\ draft'.to = to /\ draft'.cc = cc
        /\ draft'.subject = subject
        /\ draft'.bcc = OrNone(cmd.bcc) /\ draft'.from = cmd.from
    BY <1>1, <1>2, ComposedTypes DEF Derive
  <1> HIDE DEF refs, to, cc, subject
  <1>4. Range(to) \subseteq Addrs
    <2>1. CASE Needs.to
      <3>1. source.from \in Addrs
        BY <1>1, <1>2, <2>1, CaseTypes DEF Underivable
      <3> QED
        BY <2>1, <3>1 DEF to, Range
    <2>2. CASE ~Needs.to
      BY <1>1, <2>2, ComposedTypes DEF to, Range
    <2> QED
      BY <2>1, <2>2
  <1>5. ASSUME Needs.cc PROVE Copied(draft') /\ Range(cc) \subseteq Addrs
    <2>1. source.to \in Seq(Addrs) /\ source.cc \in Seq(Addrs)
      BY <1>1, <1>2, <1>5, CaseTypes DEF Underivable
    <2>2. /\ source.to \o source.cc \in Seq(Addrs)
          /\ Range(source.to \o source.cc) = Range(source.to) \cup Range(source.cc)
      <3> DEFINE s == source.to
                 t == source.cc
      <3>1. s \in Seq(Addrs) /\ t \in Seq(Addrs)
        BY <2>1
      <3> HIDE DEF s, t
      <3>2. /\ s \o t \in Seq(Addrs) /\ Len(s) \in Nat /\ Len(t) \in Nat
            /\ DOMAIN (s \o t) = 1..Len(s) + Len(t) /\ DOMAIN s = 1..Len(s) /\ DOMAIN t = 1..Len(t)
            /\ \A i \in 1..Len(s) : (s \o t)[i] = s[i]
            /\ \A i \in 1..Len(t) : (s \o t)[Len(s) + i] = t[i]
        BY <3>1
      <3>3. ASSUME NEW i \in DOMAIN (s \o t) PROVE (s \o t)[i] \in Range(s) \cup Range(t)
        <4>1. CASE i <= Len(s)
          <5>1. i \in 1..Len(s)
            BY <3>2, <3>3, <4>1
          <5> QED
            BY <3>2, <5>1 DEF Range
        <4>2. CASE ~(i <= Len(s))
          <5>1. i - Len(s) \in 1..Len(t) /\ Len(s) + (i - Len(s)) = i
            BY <3>2, <3>3, <4>2
          <5> QED
            BY <3>2, <5>1 DEF Range
        <4> QED
          BY <4>1, <4>2
      <3>4. ASSUME NEW i \in 1..Len(s) PROVE s[i] \in Range(s \o t)
        <4>1. i \in DOMAIN (s \o t)
          BY <3>2
        <4> QED
          BY <3>2, <4>1 DEF Range
      <3>5. ASSUME NEW i \in 1..Len(t) PROVE t[i] \in Range(s \o t)
        <4>1. Len(s) + i \in DOMAIN (s \o t)
          BY <3>2
        <4> QED
          BY <3>2, <4>1 DEF Range
      <3>6. Range(s \o t) \subseteq Range(s) \cup Range(t)
        BY <3>3 DEF Range
      <3>7. Range(s) \cup Range(t) \subseteq Range(s \o t)
        <4> DEFINE R == Range(s \o t)
        <4>1. (\A i \in 1..Len(s) : s[i] \in R) /\ (\A i \in 1..Len(t) : t[i] \in R)
          BY <3>4, <3>5
        <4> HIDE DEF R
        <4>2. Range(s) \cup Range(t) \subseteq R
          BY <3>2, <4>1 DEF Range
        <4> QED
          BY <4>2 DEF R
      <3> QED
        BY <3>2, <3>6, <3>7 DEF s, t
    <2>3. cc = FilterSelf(source.to \o source.cc, Mine)
      BY <1>5 DEF cc
    <2>4. /\ Range(cc) \subseteq Addrs
          /\ Cardinality({Lower[a] : a \in Range(cc)}) = Len(cc)
          /\ {Lower[a] : a \in Range(cc)} =
               {Lower[a] : a \in Range(source.to) \cup Range(source.cc)} \ Mine
      BY <2>2, <2>3, FilterSelfKeeps
    <2> QED
      BY <1>3, <2>4 DEF Copied
  <1>6. ASSUME ~Needs.cc PROVE Copied(draft') /\ Range(cc) \subseteq Addrs
    <2>1. cc = OrNone(cmd.cc)
      BY <1>6 DEF cc
    <2> QED
      BY <1>1, <1>6, <2>1, ComposedTypes DEF Copied, Range
  <1>7. Copied(draft') /\ Range(cc) \subseteq Addrs
    BY <1>5, <1>6
  <1>8. Addressed(draft')
    <2>1. Range(OrNone(cmd.bcc)) \subseteq Addrs /\ cmd.from \in Addrs \cup {None}
      BY <1>1, ComposedTypes DEF Range
    <2> QED
      BY <1>3, <1>4, <1>7, <2>1 DEF Addressed
  <1>9. Overridden(draft')
    <2>1. /\ Given(cmd.to) => to = cmd.to
          /\ Given(cmd.cc) => cc = cmd.cc
          /\ Given(cmd.subject) => subject = cmd.subject
      BY DEF Needs, OrNone, to, cc, subject
    <2> QED
      BY <1>3, <2>1 DEF Overridden
  <1>10. Threaded(draft')
    <2>1. source.refs \in Seq(Range(source.refs))
      BY CaseTypes
    <2>2. /\ IsPrefix(source.refs, refs) /\ Last(refs) = source.id
          /\ IsInjective(source.refs) /\ source.id \notin Range(Front(source.refs)) => IsInjective(refs)
      BY <2>1, ReferencesKept DEF refs
    <2> QED
      BY <1>3, <2>2 DEF Threaded
  <1> QED
    BY <1>7, <1>8, <1>9, <1>10 DEF Complete

\* DraftInv holds before a draft.
LEMMA DraftInit == Init => DraftInv
  <1> SUFFICES ASSUME Init PROVE DraftInv
    OBVIOUS
  <1>1. Addressed(Empty)
    BY DEF Addressed, Empty, Range
  <1> QED
    BY <1>1 DEF Init, DraftInv, Step

\* Every step keeps it.
LEMMA DraftStep == DraftInv /\ [Next]_vars => DraftInv'
  <1> SUFFICES ASSUME DraftInv, [Next]_vars PROVE DraftInv'
    OBVIOUS
  <1> DEFINE Goal ==
        /\ pc' \in Step /\ self' \subseteq Range(Lower) /\ src' \in {None} \cup Fetched
        /\ pc' = "flags" => draft' = Empty
        /\ pc' \in {"client", "fetch", "profile", "derive"} => draft' = Composed /\ Problems = {}
        /\ pc' \in {"fetch", "profile", "derive"} => IsReply
        /\ pc' \in {"profile", "derive"} => src' \in Fetched
        /\ pc' = "derive" /\ Needs.cc => self' = Mine
        /\ Addressed(draft')
        /\ pc' \in {"flags", "client", "fetch", "profile", "derive", "create"} => drafts' = {}
        /\ pc' = "create" => Complete(draft')
        /\ \A d \in drafts' : d = draft' /\ Complete(d) /\ d.to # <<>> /\ Illegal \notin Headers(d)
  <1>0. UNCHANGED <<cmd, source>>
    BY DEF Next, Reject, Compose, ComposeFails, NewClient, FetchSource, FetchProfile, ServiceFails,
           Derive, DeriveFails, BuildFails, CreateDraft, CreateFails, Read, Fail, vars
  <1>1. Goal => DraftInv'
    <2> SUFFICES ASSUME Goal PROVE DraftInv'
      OBVIOUS
    <2>1. (\E S \in Cases : \E c \in S : cmd = c.cmd /\ source = c.source)'
      BY <1>0 DEF DraftInv
    <2>2. /\ Composed' = Composed /\ Problems' = Problems /\ (IsReply' <=> IsReply)
          /\ Needs' = Needs /\ Mine' = Mine /\ Fetched' = Fetched
      BY <1>0 DEF Composed, OrNone, Given, Problems, IsReply, Needs, Mine, Fetched
    <2>3. Addressed(draft)' <=> Addressed(draft')
      BY DEF Addressed
    <2>4. \A d : Overridden(d)' <=> Overridden(d)
      BY <1>0 DEF Overridden, Given, OrNone
    <2>5. \A d : (Threaded(d)' <=> Threaded(d)) /\ (Copied(d)' <=> Copied(d))
      BY <1>0, <2>2 DEF Threaded, Copied
    <2> QED
      BY <2>1, <2>2, <2>3, <2>4, <2>5 DEF DraftInv, Complete
  <1>2. SUFFICES Goal
    BY <1>1
  <1>3. CASE UNCHANGED <<cmd, source, src, self, draft, drafts>>
             /\ (pc' = pc \/ pc' \in {"failed", "shown"})
    BY <1>3 DEF DraftInv, Step
  <1>4. CASE UNCHANGED vars \/ Reject \/ ComposeFails \/ ServiceFails \/ DeriveFails \/ BuildFails
             \/ CreateFails \/ \E m \in drafts \cup {source} : Read(m.body)
    BY <1>3, <1>4 DEF vars, Reject, ComposeFails, ServiceFails, DeriveFails, BuildFails, CreateFails,
                     Read, Fail
  <1>5. CASE Compose
    <2>1. pc = "flags" /\ pc' = "client" /\ draft' = Composed /\ Problems = {} /\ drafts' = drafts
          /\ self' = self /\ src' = src
      BY <1>5 DEF Compose, Composed
    <2>2. Addressed(Composed)
      BY <2>1, ComposedTypes
    <2> HIDE DEF Composed
    <2> QED
      BY <2>1, <2>2 DEF DraftInv, Step
  <1>6. CASE NewClient
    <2>1. /\ pc = "client" /\ pc' = (IF IsReply THEN "fetch" ELSE "create")
          /\ UNCHANGED <<src, self, draft, drafts>>
      BY <1>6 DEF NewClient
    <2>2. ~IsReply => Complete(Composed)
      BY <2>1, ComposedTypes DEF DraftInv, Complete, Threaded, Copied
    <2> QED
      BY <2>1, <2>2 DEF DraftInv, Step
  <1>7. CASE FetchSource
    BY <1>7 DEF FetchSource, DraftInv, Step, Fetched
  <1>8. CASE FetchProfile
    <2>1. pc = "profile" /\ pc' = "derive" /\ self' = Mine /\ UNCHANGED <<src, draft, drafts>>
      BY <1>8 DEF FetchProfile, Mine
    <2>2. Mine \subseteq Range(Lower)
      <3>1. cmd.from \in Addrs \cup {None}
        BY <2>1, ComposedTypes DEF DraftInv
      <3> QED
        BY <3>1, DraftAssumption DEF DraftConstants, Mine, Range
    <2> QED
      BY <2>1, <2>2 DEF DraftInv, Step
  <1>9. CASE Derive
    <2>1. pc = "derive" /\ pc' = "create" /\ UNCHANGED <<src, self, drafts>>
      BY <1>9 DEF Derive
    <2>2. Addressed(draft') /\ Complete(draft')
      BY <1>9, DeriveStep
    <2> QED
      BY <2>1, <2>2 DEF DraftInv, Step
  <1>10. CASE CreateDraft
    <2>1. /\ pc = "create" /\ pc' \in {"created", "failed"} /\ UNCHANGED <<src, self, draft>>
          /\ draft.to # <<>> /\ Illegal \notin Headers(draft) /\ drafts' = drafts \cup {draft}
      BY <1>10 DEF CreateDraft, GuardHeaderInjection
    <2> QED
      BY <2>1 DEF DraftInv, Step
  <1> QED
    BY <1>4, <1>5, <1>6, <1>7, <1>8, <1>9, <1>10 DEF Next

\* DraftInv holds of every state.
LEMMA DraftInvariant == MailSpec => []DraftInv
  <1>1. MailInit => DraftInv
    BY DraftInit DEF MailInit
  <1>2. DraftInv /\ [MailNext]_<<kind, vars, bulkVars, downloadVars>> => DraftInv'
    <2>1. [MailNext]_<<kind, vars, bulkVars, downloadVars>> => [Next]_vars
      BY DEF MailNext
    <2> QED
      BY <2>1, DraftStep
  <1> QED
    BY <1>1, <1>2, PTL DEF MailSpec

\* A draft that is stored is the one that was asked for, and can be sent: its
\* headers are clean, what the flags say wins, and a reply is in its thread.
THEOREM DraftAsAsked == MailSpec => []DraftFaithful
  <1>1. DraftInv => DraftFaithful
    <2> SUFFICES ASSUME DraftInv PROVE DraftFaithful
      OBVIOUS
    <2>1. TypeOK
      BY DEF DraftInv, TypeOK, Addressed, Fetched
    <2>2. HeadersClean /\ OverridesWin
      BY DEF DraftInv, HeadersClean, OverridesWin, Complete, Overridden
    <2>3. ReplyThreaded
      BY DEF DraftInv, ReplyThreaded, Complete, Threaded
    <2> QED
      BY <2>1, <2>2, <2>3 DEF DraftFaithful
  <1> QED
    BY <1>1, DraftInvariant, PTL

\* A reply to all copies everyone the source went to, each once and in one
\* spelling, and never the user.
THEOREM CopiedOnce == MailSpec => []EveryoneOnce
  <1>1. DraftInv => EveryoneOnce
    BY DEF DraftInv, EveryoneOnce, Complete, Copied, Mine
  <1> QED
    BY <1>1, DraftInvariant, PTL

-----------------------------------------------------------------------------
(* What is elided of a plain body.                                         *)

\* What Min returns of a set of numbers.
LEMMA MinIs ==
  ASSUME NEW S \in SUBSET Nat, S # {}
  PROVE  Min(S) \in S /\ \A y \in S : Min(S) <= y
  BY Least DEF Min

\* The first line from i on that is none of some kinds.
LEMMA FirstNotIs ==
  ASSUME NEW s \in Seq(Line), NEW i \in 1..Len(s) + 1, NEW kinds, NEW m \in i..Len(s) + 1
  PROVE  FirstNot(s, i, kinds) = m <=> /\ m <= Len(s) => s[m] \notin kinds
                                       /\ \A k \in i..m-1 : s[k] \in kinds
  <1> DEFINE S == {k \in i..(Len(s) + 1) : k <= Len(s) => s[k] \notin kinds}
  <1>1. Len(s) \in Nat /\ i \in Nat /\ m \in Nat /\ i <= m /\ m <= Len(s) + 1 /\ 1 <= i
    OBVIOUS
  <1>2. \A k : k \in S <=> /\ k \in Nat /\ i <= k /\ k <= Len(s) + 1
                           /\ k <= Len(s) => s[k] \notin kinds
    BY <1>1
  <1> HIDE DEF S
  <1>3. S \in SUBSET Nat /\ S # {}
    <2>1. Len(s) + 1 \in S
      BY <1>1, <1>2
    <2> QED
      BY <1>2, <2>1
  <1>4. Min(S) \in S /\ \A k \in S : Min(S) <= k
    BY <1>3, MinIs
  <1>5. FirstNot(s, i, kinds) = Min(S)
    BY DEF FirstNot, S
  <1>6. ASSUME Min(S) = m
        PROVE  /\ m <= Len(s) => s[m] \notin kinds
               /\ \A k \in i..m-1 : s[k] \in kinds
    <2>1. ASSUME NEW k \in i..m-1 PROVE s[k] \in kinds
      <3>1. k \in Nat /\ i <= k /\ k < m /\ k <= Len(s)
        BY <1>1
      <3>2. k \notin S
        BY <1>1, <1>4, <1>6, <3>1
      <3> QED
        BY <1>1, <1>2, <3>1, <3>2
    <2> QED
      BY <1>2, <1>4, <1>6, <2>1
  <1>7. ASSUME m <= Len(s) => s[m] \notin kinds, \A k \in i..m-1 : s[k] \in kinds
        PROVE  Min(S) = m
    <2>1. m \in S
      BY <1>1, <1>2, <1>7
    <2>2. ~(Min(S) < m)
      <3> SUFFICES ASSUME Min(S) < m PROVE FALSE
        OBVIOUS
      <3>1. Min(S) \in Nat /\ i <= Min(S) /\ Min(S) <= Len(s) /\ s[Min(S)] \notin kinds
        BY <1>1, <1>2, <1>4
      <3>2. Min(S) \in i..m-1
        BY <1>1, <3>1
      <3> QED
        BY <1>7, <3>1, <3>2
    <2>3. Min(S) \in Nat /\ Min(S) <= m
      BY <1>3, <1>4, <2>1
    <2> QED
      BY <1>1, <2>2, <2>3
  <1>8. FirstNot(s, i, kinds) = m <=> Min(S) = m
    BY <1>5
  <1> HIDE DEF S
  <1> QED
    BY <1>6, <1>7, <1>8, Zenon

\* There is such a line, or the end.
LEMMA FirstNotTypes ==
  ASSUME NEW s \in Seq(Line), NEW i \in 1..Len(s) + 1, NEW kinds
  PROVE  FirstNot(s, i, kinds) \in i..Len(s) + 1
  <1> DEFINE S == {k \in i..(Len(s) + 1) : k <= Len(s) => s[k] \notin kinds}
  <1>1. Len(s) \in Nat
    OBVIOUS
  <1>2. Len(s) + 1 \in S /\ S \in SUBSET Nat
    BY <1>1
  <1>3. Min(S) \in S
    <2> HIDE DEF S
    <2> QED
      BY <1>2, MinIs
  <1> QED
    BY <1>3 DEF FirstNot

\* A body is cut where an attribution or a marker begins.
LEMMA CutLine ==
  ASSUME NEW s \in Seq(Line), NEW i \in Cuts(s)
  PROVE  i \in 1..Len(s) /\ s[i] \in {"attribution", "on", "marker"}
  BY DEF Cuts, AttributionEnd

\* What the elision leaves of a body that it cuts has no place to be cut.
LEMMA NoCutLeft ==
  ASSUME NEW s \in Seq(Line), NEW c \in Cuts(s), \A i \in Cuts(s) : c <= i,
         NEW t \in Seq(Line), Len(t) = c, t[c] = "elided", \A k \in 1..c-1 : t[k] = s[k]
  PROVE  Cuts(t) = {}
  <1>0. /\ c \in 1..Len(s) /\ s[c] \in {"attribution", "on", "marker"}
        /\ c \in Nat /\ Len(s) \in Nat /\ 1 <= c /\ c <= Len(s)
    BY CutLine
  <1> SUFFICES ASSUME NEW i \in Cuts(t) PROVE FALSE
    OBVIOUS
  <1>1. i \in 1..c /\ i \in Nat /\ i < c
    <2>1. i \in 1..c /\ t[i] # "elided"
      BY CutLine
    <2> QED
      BY <1>0, <2>1
  <1>2. CASE \E e \in AttributionEnd(t, i) : HasQuotedSuffix(t, e)
    <2>1. PICK e \in AttributionEnd(t, i) : HasQuotedSuffix(t, e)
      BY <1>2
    <2>2. e \in 1..c /\ e # c
      BY <1>0, <1>1 DEF AttributionEnd
    <2>3. c \in (e+1)..Len(t)
      BY <1>0, <2>2
    <2> QED
      BY <2>1, <2>3 DEF HasQuotedSuffix, Quoted
  <1>3. CASE t[i] = "marker" /\ HasReplyHeaderBlock(t, i + 1)
    <2> DEFINE start == FirstNot(t, i + 1, {"blank"})
               end   == FirstNot(t, start, Header)
    <2>1. start \in i+1..c+1 /\ start \in 1..c+1
      <3>1. i + 1 \in 1..Len(t) + 1
        BY <1>0, <1>1
      <3>2. start \in i+1..Len(t) + 1
        BY <3>1, FirstNotTypes
      <3> QED
        BY <1>0, <1>1, <3>2
    <2>2. end \in start..c+1
      BY <2>1, FirstNotTypes
    <2> HIDE DEF start, end
    <2>3. /\ start <= c => t[start] # "blank"
          /\ \A k \in i+1..start-1 : t[k] = "blank"
      <3>1. i + 1 \in 1..Len(t) + 1 /\ start \in i+1..Len(t) + 1
        BY <1>0, <1>1, <2>1
      <3>2. FirstNot(t, i + 1, {"blank"}) = start
        BY DEF start
      <3>3. /\ start <= Len(t) => t[start] \notin {"blank"}
            /\ \A k \in i+1..start-1 : t[k] \in {"blank"}
        <4> DEFINE kinds == {"blank"}
                   j == i + 1
        <4>1. FirstNot(t, j, kinds) = start /\ j \in 1..Len(t) + 1 /\ start \in j..Len(t) + 1
          BY <3>1, <3>2
        <4> HIDE DEF kinds, j
        <4>2. /\ start <= Len(t) => t[start] \notin kinds
              /\ \A k \in j..start-1 : t[k] \in kinds
          BY <4>1, FirstNotIs
        <4> QED
          BY <4>2 DEF kinds, j
      <3> QED
        BY <1>0, <3>3
    <2>4. /\ end <= c => t[end] \notin Header
          /\ \A k \in start..end-1 : t[k] \in Header
      BY <1>0, <1>1, <2>1, <2>2, FirstNotIs DEF end
    <2>5. /\ {"from", "to", "subject"} \subseteq {t[k] : k \in start..(end - 1)}
          /\ {t[k] : k \in start..(end - 1)} \cap {"sent", "date"} # {}
      BY <1>3 DEF HasReplyHeaderBlock, start, end
    <2>6. start \in Nat /\ end \in Nat /\ start < end /\ end <= c
      <3>1. PICK k \in start..(end-1) : t[k] = "from"
        BY <2>5
      <3>2. ~(c \in start..(end-1))
        BY <2>4 DEF Header
      <3> QED
        BY <1>0, <1>1, <2>1, <2>2, <3>1, <3>2
    <2>7. \A k \in i..end-1 : t[k] = s[k]
      BY <1>0, <1>1, <2>6
    <2>8. FirstNot(s, i + 1, {"blank"}) = start
      <3>1. i + 1 \in 1..Len(s) + 1 /\ start \in i+1..Len(s)+1
        BY <1>0, <1>1, <2>1, <2>6
      <3>2. start <= Len(s) => s[start] \notin {"blank"}
        <4>1. start \in i..end-1
          BY <1>1, <2>1, <2>6
        <4> QED
          BY <1>0, <2>3, <2>6, <2>7, <4>1
      <3>3. \A k \in i+1..start-1 : s[k] \in {"blank"}
        <4>1. \A k \in i+1..start-1 : k \in i..end-1
          BY <1>1, <2>1, <2>6
        <4> QED
          BY <2>3, <2>7, <4>1
      <3> QED
        <4> DEFINE kinds == {"blank"}
                   j == i + 1
        <4>0. s \in Seq(Line) /\ j \in 1..Len(s) + 1 /\ start \in j..Len(s) + 1
          BY <3>1
        <4>1. /\ start <= Len(s) => s[start] \notin kinds
              /\ \A k \in j..start-1 : s[k] \in kinds
          BY <3>2, <3>3
        <4> HIDE DEF kinds, j
        <4>2. FirstNot(s, j, kinds) = start
                <=> /\ start <= Len(s) => s[start] \notin kinds
                    /\ \A k \in j..start-1 : s[k] \in kinds
          BY <4>0, FirstNotIs, Zenon
        <4>3. FirstNot(s, j, kinds) = start
          BY <4>1, <4>2
        <4> QED
          BY <4>3 DEF kinds, j
    <2>9. FirstNot(s, start, Header) = end
      <3>1. start \in 1..Len(s) + 1 /\ end \in start..Len(s)+1
        BY <1>0, <1>1, <2>1, <2>6
      <3>2. s[end] \notin Header
        <4>1. CASE end = c
          BY <1>0, <4>1 DEF Header
        <4>2. CASE end # c
          <5>1. end \in 1..c-1
            BY <1>0, <1>1, <2>1, <2>6, <4>2
          <5> QED
            BY <2>4, <2>6, <5>1
        <4> QED
          BY <4>1, <4>2
      <3>3. \A k \in start..end-1 : s[k] \in Header
        <4>1. \A k \in start..end-1 : k \in i..end-1
          BY <1>1, <2>1, <2>6
        <4> QED
          BY <2>4, <2>7, <4>1
      <3> QED
        BY <3>1, <3>2, <3>3, FirstNotIs
    <2>10. {s[k] : k \in start..(end - 1)} = {t[k] : k \in start..(end - 1)}
      <3>1. \A k \in start..end-1 : k \in i..end-1
        BY <1>1, <2>1, <2>6
      <3> QED
        BY <2>7, <3>1
    <2>11. c \in end..Len(s) /\ s[c] # "blank"
      BY <1>0, <2>6
    <2>12. HasReplyHeaderBlock(s, i + 1)
      BY <2>5, <2>8, <2>9, <2>10, <2>11 DEF HasReplyHeaderBlock
    <2>13. i \in Cuts(s)
      <3>1. i \in 1..Len(s) /\ i \in 1..c-1
        BY <1>0, <1>1
      <3> QED
        BY <1>3, <2>12, <3>1 DEF Cuts
    <2> QED
      BY <1>0, <1>1, <2>13
  <1> QED
    BY <1>2, <1>3 DEF Cuts

\* What is elided of a plain body is the end of it, and is elided once; a body
\* that ends with the user's own text below the quote is shown whole, unless a
\* client's divider says that all below is history.
THEOREM PlainElision ==
  ASSUME NEW s \in Seq(Line)
  PROVE  /\ ElidePlain(s) \in Seq(Line)
         /\ ElidePlain(s) = s
            \/ \E n \in 0..Len(s)-1 : ElidePlain(s) = Append(SubSeq(s, 1, n), "elided")
         /\ ElidePlain(ElidePlain(s)) = ElidePlain(s)
         /\ \A k \in 1..Len(s) :
              s[k] = "text" /\ (\A j \in k+1..Len(s) : s[j] = "blank") /\ "marker" \notin Range(s)
                => ElidePlain(s) = s
  <1> DEFINE t == ElidePlain(s)
             c == Min(Cuts(s))
  <1>0. Len(s) \in Nat /\ DOMAIN s = 1..Len(s)
    OBVIOUS
  <1>1. CASE "forward" \in Range(s) \/ Cuts(s) = {}
    BY <1>0, <1>1 DEF ElidePlain
  <1>2. CASE ~("forward" \in Range(s) \/ Cuts(s) = {})
    <2>1. c \in Cuts(s) /\ (\A i \in Cuts(s) : c <= i) /\ c \in 1..Len(s)
      <3>1. Cuts(s) \in SUBSET Nat
        BY CutLine
      <3>2. c \in Cuts(s) /\ (\A i \in Cuts(s) : c <= i)
        BY <1>2, <3>1, MinIs
      <3> QED
        BY <3>2, CutLine
    <2> DEFINE n == c - 1
    <2>2. t = Append(SubSeq(s, 1, n), "elided")
      BY <1>2 DEF ElidePlain
    <2> HIDE DEF c, t
    <2>3. n \in 0..Len(s)-1 /\ n \in Nat /\ c = n + 1 /\ n <= Len(s)
      BY <1>0, <2>1
    <2> HIDE DEF n
    <2>4. /\ SubSeq(s, 1, n) \in Seq(Line) /\ Len(SubSeq(s, 1, n)) = n
          /\ \A k \in 1..n : SubSeq(s, 1, n)[k] = s[k]
      BY <1>0, <2>3
    <2>5. t \in Seq(Line) /\ Len(t) = n + 1 /\ t[n+1] = "elided" /\ \A k \in 1..n : t[k] = s[k]
      BY <2>2, <2>3, <2>4 DEF Line
    <2>6. Cuts(t) = {}
      <3>1. c - 1 = n
        BY <2>3
      <3> QED
        BY <2>1, <2>3, <2>5, <3>1, NoCutLeft
    <2>7. ElidePlain(t) = t
      BY <2>6 DEF ElidePlain
    <2>8. ASSUME NEW k \in 1..Len(s), s[k] = "text", \A j \in k+1..Len(s) : s[j] = "blank",
                 "marker" \notin Range(s)
          PROVE  FALSE
      <3>1. s[c] # "marker"
        BY <1>0, <2>1, <2>8 DEF Range
      <3>2. PICK e \in AttributionEnd(s, c) : HasQuotedSuffix(s, e)
        BY <2>1, <3>1 DEF Cuts
      <3>3. PICK q \in (e + 1)..Len(s) : s[q] = "quote"
        BY <3>2 DEF HasQuotedSuffix
      <3>4. e \in 1..Len(s) /\ e \in Nat /\ q \in Nat /\ k \in Nat
        BY <1>0, <2>1 DEF AttributionEnd
      <3>5. q < k
        BY <1>0, <2>8, <3>3, <3>4
      <3>6. k \in (e + 1)..Len(s)
        BY <1>0, <3>3, <3>4, <3>5
      <3> QED
        BY <2>8, <3>2, <3>6 DEF HasQuotedSuffix, Quoted
    <2> QED
      BY <2>2, <2>3, <2>5, <2>7, <2>8 DEF t
  <1> QED
    BY <1>1, <1>2

-----------------------------------------------------------------------------
(* How a forest is opened, level by level.                                 *)

\* What FlattenSeq makes of a longer sequence of sequences.
LEMMA FlattenTypes ==
  ASSUME NEW U, NEW seqs \in Seq(Seq(U))
  PROVE  FlattenSeq(seqs) \in Seq(U)
  <1>1. CASE Len(seqs) = 0
    BY <1>1 DEF FlattenSeq
  <1>2. CASE Len(seqs) # 0
    <2>1. PICK f : Joined(f, seqs)
      BY <1>2, JoinedOneByOne
    <2> DEFINE n == Len(seqs)
               S == {k \in Nat : k + 1 <= n => f[k+1] \in Seq(U)}
    <2>2. n \in Nat /\ n >= 1 /\ f[1] = seqs[1] /\ f[1] \in Seq(U)
      BY <1>2, <2>1 DEF Joined
    <2>3. ASSUME NEW k \in S PROVE k + 1 \in S
      <3> SUFFICES ASSUME (k + 1) + 1 <= n PROVE f[(k+1)+1] \in Seq(U)
        OBVIOUS
      <3>1. (k + 1) + 1 \in 2..n /\ ((k + 1) + 1) - 1 = k + 1 /\ k + 1 <= n
        BY <2>2
      <3>2. f[(k+1)+1] = f[k+1] \o seqs[(k+1)+1]
        BY <2>1, <3>1 DEF Joined
      <3>3. seqs[(k+1)+1] \in Seq(U) /\ f[k+1] \in Seq(U)
        BY <3>1
      <3> QED
        BY <3>2, <3>3
    <2>4. n - 1 \in S
      <3>1. S \in SUBSET Nat /\ 0 \in S /\ n - 1 \in Nat
        BY <2>2
      <3> HIDE DEF S, n
      <3> QED
        BY <2>3, <3>1, Induction
    <2>5. (n - 1) + 1 = n
      BY <2>2
    <2> QED
      BY <2>1, <2>4, <2>5 DEF Joined
  <1> QED
    BY <1>1, <1>2

\* One more sequence is put at the end.
LEMMA FlattenLast ==
  ASSUME NEW U, NEW seqs \in Seq(Seq(U)), NEW x \in Seq(U)
  PROVE  FlattenSeq(Append(seqs, x)) = FlattenSeq(seqs) \o x
  <1> DEFINE n == Len(seqs)
             more == Append(seqs, x)
  <1>0. /\ n \in Nat /\ more \in Seq(Seq(U)) /\ Len(more) = n + 1 /\ Len(more) # 0
        /\ more[n+1] = x /\ \A k \in 1..n : more[k] = seqs[k]
    OBVIOUS
  <1> HIDE DEF more
  <1>1. PICK g : Joined(g, more)
    BY <1>0, JoinedOneByOne
  <1>2. CASE n = 0
    <2>1. FlattenSeq(seqs) = <<>> /\ FlattenSeq(more) = x
      BY <1>0, <1>1, <1>2 DEF FlattenSeq, Joined
    <2> QED
      BY <2>1 DEF more
  <1>3. CASE n # 0
    <2>1. PICK f : Joined(f, seqs)
      BY <1>3, JoinedOneByOne
    <2> DEFINE S == {k \in Nat : k + 1 <= n => f[k+1] = g[k+1]}
    <2>2. 0 \in S
      BY <1>0, <1>1, <1>3, <2>1 DEF Joined
    <2>3. ASSUME NEW k \in S PROVE k + 1 \in S
      <3> SUFFICES ASSUME (k + 1) + 1 <= n PROVE f[(k+1)+1] = g[(k+1)+1]
        OBVIOUS
      <3>1. /\ (k + 1) + 1 \in 2..n /\ (k + 1) + 1 \in 2..Len(more) /\ (k + 1) + 1 \in 1..n
            /\ ((k + 1) + 1) - 1 = k + 1 /\ k + 1 <= n
        BY <1>0
      <3>2. /\ f[(k+1)+1] = f[k+1] \o seqs[(k+1)+1]
            /\ g[(k+1)+1] = g[k+1] \o more[(k+1)+1]
        BY <1>1, <2>1, <3>1 DEF Joined
      <3> QED
        BY <1>0, <3>1, <3>2
    <2>4. n - 1 \in S
      <3>1. S \in SUBSET Nat /\ n - 1 \in Nat
        BY <1>0, <1>3
      <3> HIDE DEF S, n
      <3> QED
        BY <2>2, <2>3, <3>1, Induction
    <2>5. f[n] = g[n]
      <3>1. (n - 1) + 1 = n /\ n <= n
        BY <1>0
      <3> QED
        BY <2>4, <3>1
    <2>6. n + 1 \in 2..Len(more) /\ (n + 1) - 1 = n
      BY <1>0, <1>3
    <2>7. g[n+1] = g[n] \o x
      BY <1>0, <1>1, <2>6 DEF Joined
    <2> QED
      BY <1>0, <1>1, <2>1, <2>5, <2>7 DEF Joined, more
  <1> QED
    BY <1>2, <1>3

\* Two sequences of sequences are flattened one after the other.
LEMMA FlattenConcat ==
  ASSUME NEW U, NEW s \in Seq(Seq(U)), NEW t \in Seq(Seq(U))
  PROVE  FlattenSeq(s \o t) = FlattenSeq(s) \o FlattenSeq(t)
  <1> DEFINE V == Seq(U)
             Good(u) == FlattenSeq(s \o u) = FlattenSeq(s) \o FlattenSeq(u)
             S == {n \in Nat : \A u \in Seq(V) : Len(u) = n => Good(u)}
  <1>0. s \in Seq(V) /\ t \in Seq(V)
    OBVIOUS
  <1>1. FlattenSeq(s) \in V
    BY FlattenTypes
  <1>2. 0 \in S
    <2> SUFFICES ASSUME NEW u \in Seq(V), Len(u) = 0 PROVE Good(u)
      OBVIOUS
    <2>1. u = <<>> /\ s \o u = s
      BY <1>0
    <2>2. FlattenSeq(u) = <<>>
      BY <2>1 DEF FlattenSeq
    <2>3. FlattenSeq(s) \o <<>> = FlattenSeq(s)
      BY <1>1
    <2> QED
      BY <2>1, <2>2, <2>3
  <1>3. ASSUME NEW n \in S PROVE n + 1 \in S
    <2> SUFFICES ASSUME NEW u \in Seq(V), Len(u) = n + 1 PROVE Good(u)
      OBVIOUS
    <2> DEFINE w == SubSeq(u, 1, n)
               x == u[n+1]
    <2>1. w \in Seq(V) /\ Len(w) = n /\ x \in V /\ u = Append(w, x)
      OBVIOUS
    <2> HIDE DEF w, x
    <2>2. Good(w)
      BY <2>1
    <2>3. s \o u = Append(s \o w, x) /\ s \o w \in Seq(V)
      BY <1>0, <2>1
    <2>4. FlattenSeq(Append(s \o w, x)) = FlattenSeq(s \o w) \o x
      BY <2>1, <2>3, FlattenLast
    <2>5. FlattenSeq(u) = FlattenSeq(w) \o x
      BY <2>1, FlattenLast
    <2>6. FlattenSeq(w) \in V
      BY <2>1, FlattenTypes
    <2> DEFINE A == FlattenSeq(s)
               B == FlattenSeq(w)
    <2>7. (A \o B) \o x = A \o (B \o x)
      <3>1. A \in Seq(U) /\ B \in Seq(U) /\ x \in Seq(U)
        BY <1>1, <2>1, <2>6
      <3> HIDE DEF A, B
      <3> QED
        BY <3>1, SMTT(60)
    <2> QED
      BY <2>2, <2>3, <2>4, <2>5, <2>7
  <1>4. S = Nat
    <2>1. S \in SUBSET Nat
      OBVIOUS
    <2> HIDE DEF S
    <2> QED
      BY <1>2, <1>3, <2>1, Induction
  <1>5. Len(t) \in S
    <2>1. Len(t) \in Nat
      OBVIOUS
    <2> HIDE DEF S
    <2> QED
      BY <1>4, <2>1
  <1> QED
    BY <1>0, <1>5

\* A set of nodes with all that is inside them.
Closed(U) == \A n \in U : n.kids \in Seq(U)

\* What is opened side by side is opened apart.
LEMMA OpenAllIs ==
  ASSUME NEW U, Closed(U), NEW s \in Seq(U), NEW t \in Seq(U)
  PROVE  /\ OpenAll(s) \in Seq(U)
         /\ OpenAll(s \o t) = OpenAll(s) \o OpenAll(t)
  <1> DEFINE O(u) == [i \in DOMAIN u |-> Opened(u[i])]
             V == Seq(U)
  <1>1. ASSUME NEW n \in U PROVE Opened(n) \in V
    <2>1. n.kids \in V /\ <<>> \in V /\ <<n>> \in V
      BY DEF Closed
    <2> QED
      BY <2>1 DEF Opened
  <1>2. ASSUME NEW u \in Seq(U)
        PROVE  O(u) \in Seq(V) /\ Len(O(u)) = Len(u) /\ \A i \in 1..Len(u) : O(u)[i] = Opened(u[i])
    <2>1. Len(u) \in Nat /\ DOMAIN u = 1..Len(u) /\ \A i \in 1..Len(u) : u[i] \in U
      OBVIOUS
    <2>2. O(u) \in [1..Len(u) -> V]
      BY <1>1, <2>1
    <2> QED
      BY <2>1, <2>2
  <1>3. O(s \o t) = O(s) \o O(t)
    <2> DEFINE a == Len(s)
               b == Len(t)
               st == s \o t
    <2>1. /\ a \in Nat /\ b \in Nat /\ st \in Seq(U) /\ Len(st) = a + b
          /\ \A i \in 1..a : st[i] = s[i]
          /\ \A i \in 1..a+b : i > a => st[i] = t[i - a]
      OBVIOUS
    <2> HIDE DEF st, O, V
    <2>2. /\ O(st) \in Seq(V) /\ Len(O(st)) = a + b
          /\ \A i \in 1..a+b : O(st)[i] = Opened(st[i])
      BY <1>2, <2>1
    <2>3. /\ O(s) \in Seq(V) /\ Len(O(s)) = a /\ \A i \in 1..a : O(s)[i] = Opened(s[i])
          /\ O(t) \in Seq(V) /\ Len(O(t)) = b /\ \A i \in 1..b : O(t)[i] = Opened(t[i])
      BY <1>2
    <2>4. ASSUME NEW i \in 1..a+b PROVE O(st)[i] = (O(s) \o O(t))[i]
      <3>1. CASE i <= a
        <4>1. i \in 1..a
          BY <2>1, <3>1
        <4> QED
          BY <2>1, <2>2, <2>3, <4>1
      <3>2. CASE ~(i <= a)
        <4>1. i - a \in 1..b /\ i > a
          BY <2>1, <3>2
        <4>2. (O(s) \o O(t))[i] = O(t)[i - a]
          BY <2>1, <2>3, <4>1
        <4> QED
          BY <2>1, <2>2, <2>3, <4>1, <4>2
      <3> QED
        BY <3>1, <3>2
    <2>5. O(s) \o O(t) \in Seq(V) /\ Len(O(s) \o O(t)) = a + b
      <3>1. \A p, q \in Seq(V) : p \o q \in Seq(V) /\ Len(p \o q) = Len(p) + Len(q)
        OBVIOUS
      <3> QED
        BY <2>3, <3>1
    <2> QED
      BY <2>1, <2>2, <2>4, <2>5 DEF st
  <1>4. O(s) \in Seq(V) /\ O(t) \in Seq(V)
    BY <1>2
  <1>5. /\ OpenAll(s) = FlattenSeq(O(s)) /\ OpenAll(t) = FlattenSeq(O(t))
        /\ OpenAll(s \o t) = FlattenSeq(O(s \o t))
    BY DEF OpenAll
  <1> HIDE DEF O
  <1>6. FlattenSeq(O(s)) \in Seq(U)
    BY <1>4, FlattenTypes
  <1>7. FlattenSeq(O(s) \o O(t)) = FlattenSeq(O(s)) \o FlattenSeq(O(t))
    BY <1>4, FlattenConcat
  <1> QED
    BY <1>3, <1>5, <1>6, <1>7

\* One node opened.
LEMMA OpenOne ==
  ASSUME NEW U, Closed(U), NEW n \in U
  PROVE  OpenAll(<<n>>) = Opened(n)
  <1> DEFINE x == Opened(n)
             E == <<>>
  <1>1. x \in Seq(U)
    BY DEF Opened, Closed
  <1>2. [i \in DOMAIN <<n>> |-> Opened(<<n>>[i])] = Append(<<>>, x)
    OBVIOUS
  <1> HIDE DEF x
  <1>3. <<>> \in Seq(Seq(U)) /\ FlattenSeq(<<>>) = <<>> /\ <<>> \o x = x
    BY <1>1 DEF FlattenSeq
  <1>4. FlattenSeq(Append(<<>>, x)) = x
    BY <1>1, <1>3, FlattenLast
  <1> QED
    BY <1>2, <1>4 DEF OpenAll, x

\* Blank text leaves nothing.
LEMMA OpenBlank ==
  ASSUME NEW U, NEW s \in Seq(U), \A i \in 1..Len(s) : s[i].tag = "space"
  PROVE  OpenAll(s) = <<>>
  <1> DEFINE O == [i \in DOMAIN s |-> Opened(s[i])]
  <1>1. Len(s) \in Nat /\ DOMAIN s = 1..Len(s)
    OBVIOUS
  <1>2. \A i \in 1..Len(s) : Opened(s[i]) = <<>>
    <2>1. \A n : n.tag = "space" => Opened(n) = <<>>
      BY DEF Opened
    <2> QED
      BY <2>1
  <1>3. O \in [1..Len(s) -> Seq({})]
    <2>1. <<>> \in Seq({})
      OBVIOUS
    <2> QED
      BY <1>1, <1>2, <2>1
  <1>4. O \in Seq(Seq({}))
    BY <1>1, <1>3
  <1> HIDE DEF O
  <1>5. FlattenSeq(O) \in Seq({})
    BY <1>4, FlattenTypes
  <1>6. \A u \in Seq({}) : u = <<>>
    OBVIOUS
  <1> QED
    BY <1>5, <1>6 DEF OpenAll, O

\* The levels of an opening are what its definition says.
OpeningOf(f, kids, N) == f = [d \in 0..N |-> IF d = 0 THEN kids ELSE OpenAll(f[d - 1])]

\* They are so of the function that Opening defines.
LEMMA OpeningLevels ==
  ASSUME NEW kids, Deep \in Nat
  PROVE  /\ Opening(kids)[0] = kids
         /\ \A d \in 1..Deep : Opening(kids)[d] = OpenAll(Opening(kids)[d - 1])
  <1> DEFINE S == {n \in Nat : \E f : OpeningOf(f, kids, n)}
  <1>1. 0 \in S
    <2> DEFINE f == [d \in 0..0 |-> kids]
    <2>1. f = [d \in 0..0 |-> IF d = 0 THEN kids ELSE OpenAll(f[d - 1])]
      OBVIOUS
    <2> QED
      BY <2>1 DEF OpeningOf
  <1>2. ASSUME NEW n \in S PROVE n + 1 \in S
    <2>1. PICK f : OpeningOf(f, kids, n)
      OBVIOUS
    <2> DEFINE g == [d \in 0..n+1 |-> IF d = n + 1 THEN OpenAll(f[n]) ELSE f[d]]
    <2>2. ASSUME NEW d \in 0..n+1
          PROVE  g[d] = IF d = 0 THEN kids ELSE OpenAll(g[d - 1])
      <3>1. CASE d = n + 1
        <4>1. d - 1 = n /\ n \in 0..n+1 /\ n # n + 1 /\ d # 0
          BY <3>1
        <4> QED
          BY <3>1, <4>1
      <3>2. CASE d # n + 1
        <4>1. d \in 0..n
          BY <3>2
        <4>2. f[d] = IF d = 0 THEN kids ELSE OpenAll(f[d - 1])
          BY <2>1, <4>1 DEF OpeningOf
        <4>3. d # 0 => d - 1 \in 0..n+1 /\ d - 1 # n + 1
          BY <4>1
        <4> QED
          BY <3>2, <4>2, <4>3
      <3> QED
        BY <3>1, <3>2
    <2>3. g = [d \in 0..n+1 |-> IF d = 0 THEN kids ELSE OpenAll(g[d - 1])]
      <3>1. g = [d \in 0..n+1 |-> g[d]]
        OBVIOUS
      <3> HIDE DEF g
      <3> QED
        BY <2>2, <3>1
    <2> HIDE DEF g
    <2> QED
      BY <2>3 DEF OpeningOf
  <1>3. Deep \in S
    <2>1. S \in SUBSET Nat
      OBVIOUS
    <2> HIDE DEF S
    <2> QED
      BY <1>1, <1>2, <2>1, Induction
  <1> DEFINE F == CHOOSE f : OpeningOf(f, kids, Deep)
  <1>4. OpeningOf(F, kids, Deep)
    BY <1>3
  <1>5. Opening(kids) = F
    BY DEF Opening, OpeningOf
  <1> HIDE DEF F
  <1>6. F = [d \in 0..Deep |-> IF d = 0 THEN kids ELSE OpenAll(F[d - 1])]
    BY <1>4 DEF OpeningOf
  <1>7. F[0] = kids /\ \A d \in 1..Deep : F[d] = OpenAll(F[d - 1])
    <2>1. 0 \in 0..Deep /\ \A d \in 1..Deep : d \in 0..Deep /\ d # 0
      OBVIOUS
    <2> QED
      BY <1>6, <2>1
  <1> QED
    BY <1>5, <1>7

\* At each level the parts of a forest are opened apart.
OpenedApart(U, s, t, d) ==
  Opening(s)[d] \in Seq(U) /\ Opening(s \o t)[d] = Opening(s)[d] \o Opening(t)[d]

\* They are, at every level.
LEMMA OpeningApart ==
  ASSUME NEW U, Closed(U), NEW s \in Seq(U), NEW t \in Seq(U), Deep \in Nat
  PROVE  \A d \in 0..Deep : OpenedApart(U, s, t, d)
  <1> DEFINE p == Opening(s)
             q == Opening(t)
             r == Opening(s \o t)
             Good(d) == p[d] \in Seq(U) /\ q[d] \in Seq(U) /\ r[d] = p[d] \o q[d]
             S == {d \in Nat : d <= Deep => Good(d)}
  <1>1. 0 \in S
    BY OpeningLevels
  <1>2. ASSUME NEW d \in S PROVE d + 1 \in S
    <2> SUFFICES ASSUME d + 1 <= Deep
                 PROVE  Good(d + 1)
      <3> HIDE DEF Good
      <3> QED
        OBVIOUS
    <2>1. d + 1 \in 1..Deep /\ (d + 1) - 1 = d /\ d <= Deep
      OBVIOUS
    <2>2. p[d+1] = OpenAll(p[d]) /\ q[d+1] = OpenAll(q[d]) /\ r[d+1] = OpenAll(r[d])
      <3>1. \A k : Opening(k)[d+1] = OpenAll(Opening(k)[d])
        BY <2>1, OpeningLevels
      <3> QED
        BY <3>1
    <2>3. p[d] \in Seq(U) /\ q[d] \in Seq(U) /\ r[d] = p[d] \o q[d]
      BY <2>1
    <2> HIDE DEF p, q, r
    <2>4. \A x, y \in Seq(U) : OpenAll(x) \in Seq(U) /\ OpenAll(x \o y) = OpenAll(x) \o OpenAll(y)
      BY OpenAllIs
    <2> QED
      BY <2>2, <2>3, <2>4
  <1>3. S = Nat
    <2>1. S \in SUBSET Nat
      OBVIOUS
    <2> HIDE DEF S
    <2> QED
      BY <1>1, <1>2, <2>1, Induction
  <1>4. \A d \in 0..Deep : d \in Nat /\ d <= Deep
    OBVIOUS
  <1> QED
    BY <1>3, <1>4 DEF OpenedApart

\* To open a forest further is to open what the first opening leaves.
LEMMA OpeningFurther ==
  ASSUME NEW s, Deep \in Nat
  PROVE  \A d \in 0..Deep-1 : Opening(s)[d + 1] = Opening(OpenAll(s))[d]
  <1> DEFINE p == Opening(s)
             q == Opening(OpenAll(s))
             S == {d \in Nat : d + 1 <= Deep => p[d+1] = q[d]}
  <1>1. 0 \in S
    <2> SUFFICES ASSUME 1 <= Deep PROVE p[0+1] = q[0]
      OBVIOUS
    <2>1. 1 \in 1..Deep /\ 1 - 1 = 0 /\ 0 + 1 = 1
      OBVIOUS
    <2> QED
      BY <2>1, OpeningLevels
  <1>2. ASSUME NEW d \in S PROVE d + 1 \in S
    <2> SUFFICES ASSUME (d + 1) + 1 <= Deep PROVE p[(d+1)+1] = q[d+1]
      OBVIOUS
    <2>1. /\ (d + 1) + 1 \in 1..Deep /\ ((d + 1) + 1) - 1 = d + 1
          /\ d + 1 \in 1..Deep /\ (d + 1) - 1 = d /\ d + 1 <= Deep
      OBVIOUS
    <2>2. p[(d+1)+1] = OpenAll(p[d+1]) /\ q[d+1] = OpenAll(q[d])
      BY <2>1, OpeningLevels
    <2> QED
      BY <2>1, <2>2
  <1>3. S = Nat
    <2>1. S \in SUBSET Nat
      OBVIOUS
    <2> HIDE DEF S
    <2> QED
      BY <1>1, <1>2, <2>1, Induction
  <1>4. \A d \in 0..Deep-1 : d \in Nat /\ d + 1 <= Deep
    OBVIOUS
  <1> QED
    BY <1>3, <1>4

\* What is left, from level 1 on, of blank text, and of a leaf that is none.
LEMMA OpeningBlank ==
  ASSUME NEW U, NEW s \in Seq(U), \A i \in 1..Len(s) : s[i].tag = "space", Deep \in Nat
  PROVE  \A d \in 1..Deep : Opening(s)[d] = <<>>
  <1> DEFINE p == Opening(s)
             S == {d \in Nat : d + 1 <= Deep => p[d+1] = <<>>}
  <1>1. 0 \in S
    <2> SUFFICES ASSUME 1 <= Deep PROVE p[0+1] = <<>>
      OBVIOUS
    <2>1. 1 \in 1..Deep /\ 1 - 1 = 0 /\ 0 + 1 = 1
      OBVIOUS
    <2> QED
      BY <2>1, OpeningLevels, OpenBlank
  <1>2. ASSUME NEW d \in S PROVE d + 1 \in S
    <2> SUFFICES ASSUME (d + 1) + 1 <= Deep PROVE p[(d+1)+1] = <<>>
      OBVIOUS
    <2>1. (d + 1) + 1 \in 1..Deep /\ ((d + 1) + 1) - 1 = d + 1 /\ d + 1 <= Deep
      OBVIOUS
    <2>2. p[(d+1)+1] = OpenAll(p[d+1])
      BY <2>1, OpeningLevels
    <2>3. OpenAll(<<>>) = <<>>
      <3>1. <<>> \in Seq({}) /\ \A i \in 1..Len(<<>>) : <<>>[i].tag = "space"
        OBVIOUS
      <3> QED
        BY <3>1, OpenBlank
    <2> QED
      BY <2>1, <2>2, <2>3
  <1>3. S = Nat
    <2>1. S \in SUBSET Nat
      OBVIOUS
    <2> HIDE DEF S
    <2> QED
      BY <1>1, <1>2, <2>1, Induction
  <1> SUFFICES ASSUME NEW d \in 1..Deep PROVE p[d] = <<>>
    OBVIOUS
  <1>4. d - 1 \in Nat /\ (d - 1) + 1 = d /\ d <= Deep
    OBVIOUS
  <1>5. d - 1 \in S
    BY <1>3, <1>4
  <1>6. p[(d - 1) + 1] = <<>>
    BY <1>4, <1>5
  <1> QED
    BY <1>4, <1>6

\* A leaf that is not blank stays.
LEMMA OpeningLeaf ==
  ASSUME NEW n, n.tag # "space", n.kids = <<>>, Deep \in Nat
  PROVE  \A d \in 0..Deep : Opening(<<n>>)[d] = <<n>>
  <1> DEFINE p == Opening(<<n>>)
             S == {d \in Nat : d <= Deep => p[d] = <<n>>}
             U == {n}
  <1>0. OpenAll(<<n>>) = <<n>>
    <2>1. Closed(U) /\ n \in U
      <3>1. n.kids \in Seq(U)
        <4>1. <<>> \in Seq(U)
          OBVIOUS
        <4> QED
          BY <4>1
      <3> QED
        BY <3>1 DEF Closed
    <2>2. OpenAll(<<n>>) = Opened(n)
      BY <2>1, OpenOne
    <2> QED
      BY <2>2 DEF Opened
  <1>1. 0 \in S
    BY OpeningLevels
  <1>2. ASSUME NEW d \in S PROVE d + 1 \in S
    <2> SUFFICES ASSUME d + 1 <= Deep PROVE p[d+1] = <<n>>
      OBVIOUS
    <2>1. d + 1 \in 1..Deep /\ (d + 1) - 1 = d /\ d <= Deep
      OBVIOUS
    <2>2. p[d+1] = OpenAll(p[d])
      BY <2>1, OpeningLevels
    <2> QED
      BY <1>0, <2>1, <2>2
  <1>3. S = Nat
    <2>1. S \in SUBSET Nat
      OBVIOUS
    <2> HIDE DEF S
    <2> QED
      BY <1>1, <1>2, <2>1, Induction
  <1>4. \A d \in 0..Deep : d \in Nat /\ d <= Deep
    OBVIOUS
  <1> QED
    BY <1>3, <1>4

\* A level whose last meaningful node n has kids: it is opened into what is
\* before n and the kids.
LEMMA OpeningInside ==
  ASSUME NEW U, Closed(U), NEW before \in Seq(U), NEW n \in U, NEW after \in Seq(U),
         n.tag # "space", n.kids # <<>>, \A i \in 1..Len(after) : after[i].tag = "space",
         Deep \in Nat, NEW d \in 0..Deep-1
  PROVE  Opening(before \o <<n>> \o after)[d+1] = Opening(before)[d+1] \o Opening(n.kids)[d]
  <1>1. d + 1 \in 0..Deep /\ d + 1 \in 1..Deep /\ d \in 0..Deep
    OBVIOUS
  <1>2. <<n>> \in Seq(U) /\ before \o <<n>> \in Seq(U) /\ n.kids \in Seq(U)
    BY DEF Closed
  <1>0. \A s, t \in Seq(U) : OpenedApart(U, s, t, d + 1)
    BY <1>1, OpeningApart
  <1>3. Opening((before \o <<n>>) \o after)[d+1]
          = Opening(before \o <<n>>)[d+1] \o Opening(after)[d+1]
    BY <1>0, <1>2 DEF OpenedApart
  <1>4. Opening(before \o <<n>>)[d+1] = Opening(before)[d+1] \o Opening(<<n>>)[d+1]
    BY <1>0, <1>2 DEF OpenedApart
  <1>5. Opening(after)[d+1] = <<>>
    BY <1>1, OpeningBlank
  <1>6. Opening(<<n>>)[d+1] = Opening(n.kids)[d]
    <2>1. OpenAll(<<n>>) = n.kids
      BY OpenOne DEF Opened
    <2> QED
      BY <2>1, OpeningFurther
  <1> DEFINE x == Opening(before)[d+1]
             y == Opening(n.kids)[d]
  <1>7. x \in Seq(U) /\ y \in Seq(U)
    <2>1. OpenedApart(U, before, before, d + 1) /\ OpenedApart(U, n.kids, n.kids, d)
      BY <1>1, <1>2, OpeningApart
    <2> QED
      BY <2>1 DEF OpenedApart
  <1>8. (x \o y) \o <<>> = x \o y
    <2> HIDE DEF x, y
    <2> QED
      BY <1>7
  <1> QED
    BY <1>3, <1>4, <1>5, <1>6, <1>8

\* A set of well-formed nodes, with all that is inside them.
WellFormed(U) ==
  \A n \in U : /\ n = Node(n.tag, n.kids) /\ n.kids \in Seq(U)
               /\ n.tag \in Childless => n.kids = <<>>

\* What Max returns of a set of numbers.
LEMMA MaxIs ==
  ASSUME NEW N \in Nat, NEW S \in SUBSET (1..N), S # {}
  PROVE  Max(S) \in S /\ \A y \in S : y <= Max(S)
  <1> DEFINE T == {N - x : x \in S}
  <1>1. T \in SUBSET Nat /\ T # {}
    <2>1. \A x \in S : N - x \in Nat
      OBVIOUS
    <2>2. PICK x \in S : TRUE
      OBVIOUS
    <2>3. N - x \in T
      OBVIOUS
    <2> QED
      BY <2>1, <2>3
  <1>2. PICK t \in T : \A u \in T : t <= u
    BY <1>1, Least
  <1>3. PICK x \in S : t = N - x
    OBVIOUS
  <1>4. \A y \in S : y <= x
    <2> SUFFICES ASSUME NEW y \in S PROVE y <= x
      OBVIOUS
    <2>1. N - x <= N - y
      BY <1>2, <1>3
    <2> QED
      BY <2>1
  <1>5. \E z \in S : \A y \in S : z >= y
    BY <1>4
  <1>6. Max(S) \in S /\ \A y \in S : Max(S) >= y
    BY <1>5 DEF Max
  <1> QED
    BY <1>6

\* The last meaningful node of a level.
LEMMA LastMeaningful ==
  ASSUME NEW U, NEW s \in Seq(U), Meaningful(s) # {}
  PROVE  LET i == Max(Meaningful(s)) IN
           /\ i \in 1..Len(s) /\ s[i].tag # "space"
           /\ \A j \in 1..Len(s) : j > i => s[j].tag = "space"
  <1> DEFINE M == Meaningful(s)
             i == Max(M)
  <1>1. /\ M \in SUBSET (1..Len(s)) /\ Len(s) \in Nat
        /\ \A j \in 1..Len(s) : j \in M <=> s[j].tag # "space"
    BY DEF Meaningful
  <1> HIDE DEF M
  <1>2. i \in M /\ \A j \in M : j <= i
    BY <1>1, MaxIs DEF M
  <1>3. i \in 1..Len(s) /\ s[i].tag # "space"
    BY <1>1, <1>2
  <1>4. ASSUME NEW j \in 1..Len(s), j > i PROVE s[j].tag = "space"
    <2>1. i \in Int /\ j \in Int
      BY <1>3
    <2> HIDE DEF i
    <2>2. j \notin M
      BY <1>2, <1>4, <2>1
    <2> QED
      BY <1>1, <2>2
  <1> QED
    BY <1>3, <1>4 DEF M

\* What a concatenation has, and where.
LEMMA ConcatIs ==
  ASSUME NEW U, NEW p \in Seq(U), NEW q \in Seq(U)
  PROVE  /\ p \o q \in Seq(U) /\ Len(p \o q) = Len(p) + Len(q)
         /\ \A j \in 1..Len(p) : (p \o q)[j] = p[j]
         /\ \A j \in 1..Len(q) : (p \o q)[Len(p) + j] = q[j]
  OBVIOUS

\* What the end of a sequence is.
LEMMA TailIs ==
  ASSUME NEW U, NEW s \in Seq(U), NEW n \in 0..Len(s)
  PROVE  LET tail == SubSeq(s, n + 1, Len(s))
         IN  tail \in Seq(U) /\ Len(tail) = Len(s) - n /\ \A j \in 1..Len(s)-n : tail[j] = s[n + j]
  <1>1. Len(s) \in Nat /\ n \in Nat /\ n <= Len(s) /\ \A j \in n+1..Len(s) : s[j] \in U
    OBVIOUS
  <1> QED
    BY <1>1

\* A sequence in two.
LEMMA Halves ==
  ASSUME NEW U, NEW s \in Seq(U), NEW n \in 0..Len(s)
  PROVE  /\ SubSeq(s, 1, n) \in Seq(U) /\ SubSeq(s, n + 1, Len(s)) \in Seq(U)
         /\ s = SubSeq(s, 1, n) \o SubSeq(s, n + 1, Len(s))
  <1> DEFINE N == Len(s)
  <1>0. N \in Nat /\ DOMAIN s = 1..N
    OBVIOUS
  <1> DEFINE p == SubSeq(s, 1, n)
             q == SubSeq(s, n + 1, N)
  <1>1. p \in Seq(U) /\ Len(p) = n /\ \A j \in 1..n : p[j] = s[j]
    BY <1>0
  <1>2. q \in Seq(U) /\ Len(q) = N - n /\ \A j \in 1..N-n : q[j] = s[n + j]
    BY TailIs
  <1> HIDE DEF p, q
  <1>3. /\ p \o q \in Seq(U) /\ Len(p \o q) = N
        /\ \A j \in 1..n : (p \o q)[j] = p[j]
        /\ \A j \in 1..N-n : (p \o q)[n + j] = q[j]
    <2>1. n + (N - n) = N
      BY <1>0
    <2> QED
      BY <1>1, <1>2, <2>1, ConcatIs
  <1>4. ASSUME NEW j \in 1..N PROVE (p \o q)[j] = s[j]
    <2>1. CASE j <= n
      <3>1. j \in 1..n
        BY <2>1
      <3> QED
        BY <1>1, <1>3, <3>1
    <2>2. CASE ~(j <= n)
      <3>1. j - n \in 1..N-n /\ n + (j - n) = j
        BY <1>0, <2>2
      <3> QED
        BY <1>2, <1>3, <3>1
    <2> QED
      BY <2>1, <2>2
  <1>5. s = p \o q
    <2> DEFINE r == p \o q
    <2>1. r \in Seq(U) /\ Len(r) = N /\ \A j \in 1..N : r[j] = s[j]
      BY <1>3, <1>4
    <2> HIDE DEF r
    <2>2. s = r
      BY <2>1
    <2> QED
      BY <2>2 DEF r
  <1> QED
    BY <1>1, <1>2, <1>5 DEF p, q

\* A sequence around one of its elements.
SplitInto(U, s, i, before, after) ==
  /\ before \in Seq(U) /\ after \in Seq(U) /\ Len(before) = i - 1
  /\ Len(after) = Len(s) - i /\ \A j \in 1..Len(after) : after[j] = s[i + j]
  /\ (before \o <<s[i]>>) \o after = s
  /\ \A x : x \in U => [s EXCEPT ![i] = x] = (before \o <<x>>) \o after

\* A sequence is split by taking its two parts.
LEMMA SplitAt ==
  ASSUME NEW U, NEW s \in Seq(U), NEW i \in 1..Len(s)
  PROVE  SplitInto(U, s, i, SubSeq(s, 1, i - 1), SubSeq(s, i + 1, Len(s)))
  <1> DEFINE before == SubSeq(s, 1, i - 1)
             after  == SubSeq(s, i + 1, Len(s))
             N == Len(s)
  <1>0. N \in Nat /\ i \in Nat /\ 1 <= i /\ i <= N /\ s[i] \in U /\ DOMAIN s = 1..N
        /\ \A j \in 1..N : s[j] \in U
    OBVIOUS
  <1>1. /\ before \in Seq(U) /\ Len(before) = i - 1
        /\ \A j \in 1..i-1 : before[j] = s[j]
    BY <1>0
  <1>2. /\ after \in Seq(U) /\ Len(after) = N - i
        /\ \A j \in 1..N-i : after[j] = s[i + j]
    <2>1. \A j \in (i + 1)..N : s[j] \in U
      BY <1>0
    <2>2. i + 1 \in Int /\ N \in Int
      BY <1>0
    <2>3. /\ after \in Seq(U)
          /\ Len(after) = IF i + 1 <= N THEN N - (i + 1) + 1 ELSE 0
          /\ \A j \in 1..N - (i + 1) + 1 : after[j] = s[i + 1 + j - 1]
      BY <2>1, <2>2, SubSeqProperties
    <2> HIDE DEF after, N
    <2>4. Len(after) = N - i
      BY <1>0, <2>3
    <2>5. ASSUME NEW j \in 1..N-i PROVE after[j] = s[i + j]
      <3>1. j \in 1..N - (i + 1) + 1 /\ i + 1 + j - 1 = i + j
        BY <1>0
      <3> QED
        BY <2>3, <3>1
    <2> QED
      BY <2>3, <2>4, <2>5
  <1> HIDE DEF before, after
  <1>3. ASSUME NEW x \in U
        PROVE  LET t == (before \o <<x>>) \o after
               IN  t \in Seq(U) /\ Len(t) = N /\ t[i] = x /\ \A j \in 1..N : j # i => t[j] = s[j]
    <2> DEFINE b == before \o <<x>>
               t == b \o after
    <2>1. /\ b \in Seq(U) /\ Len(b) = i /\ b[i] = x
          /\ \A j \in 1..i-1 : b[j] = s[j]
      BY <1>0, <1>1
    <2> HIDE DEF b
    <2>2. t \in Seq(U) /\ Len(t) = N /\ \A j \in 1..i : t[j] = b[j]
      <3>1. t \in Seq(U) /\ Len(t) = Len(b) + Len(after) /\ \A j \in 1..Len(b) : t[j] = b[j]
        BY <1>2, <2>1, ConcatIs
      <3> HIDE DEF t
      <3> QED
        BY <1>0, <1>2, <2>1, <3>1
    <2>3. ASSUME NEW j \in 1..N, j > i PROVE t[j] = s[j]
      <3>1. j - i \in 1..N-i /\ i + (j - i) = j
        BY <1>0, <2>3
      <3>2. t[j] = after[j - i]
        BY <1>0, <1>2, <2>1, <2>3
      <3> QED
        BY <1>2, <3>1, <3>2
    <2> HIDE DEF t
    <2>4. ASSUME NEW j \in 1..N, j < i PROVE t[j] = s[j]
      <3>1. j \in 1..i-1 /\ j \in 1..i
        BY <1>0, <2>4
      <3> QED
        BY <2>1, <2>2, <3>1
    <2>5. t[i] = x
      BY <1>0, <2>1, <2>2
    <2>6. \A j \in 1..N : j # i => j < i \/ j > i
      BY <1>0
    <2> QED
      BY <2>2, <2>3, <2>4, <2>5, <2>6 DEF t, b
  <1>4. (before \o <<s[i]>>) \o after = s
    <2> DEFINE t == (before \o <<s[i]>>) \o after
    <2>1. t \in Seq(U) /\ Len(t) = N /\ \A j \in 1..N : t[j] = s[j]
      BY <1>0, <1>3
    <2> HIDE DEF t
    <2>2. t = s
      BY <2>1
    <2> QED
      BY <2>2 DEF t
  <1>5. ASSUME NEW x, x \in U PROVE [s EXCEPT ![i] = x] = (before \o <<x>>) \o after
    <2> DEFINE t == (before \o <<x>>) \o after
               r == [s EXCEPT ![i] = x]
    <2>1. t \in Seq(U) /\ Len(t) = N /\ t[i] = x /\ \A j \in 1..N : j # i => t[j] = s[j]
      BY <1>3, <1>5
    <2>2. r \in Seq(U) /\ Len(r) = N /\ r[i] = x /\ \A j \in 1..N : j # i => r[j] = s[j]
      BY <1>0, <1>5
    <2> HIDE DEF t, r
    <2>3. t = r
      BY <2>1, <2>2
    <2> QED
      BY <2>3 DEF t, r
  <1> QED
    BY <1>1, <1>2, <1>4, <1>5 DEF before, after, SplitInto

-----------------------------------------------------------------------------
(* What is cut, and what is left to be read.                               *)

\* The levels of a descent are what its definition says.
LEMMA DescentLevels ==
  ASSUME NEW U, Closed(U), NEW kids \in Seq(U), Deep \in Nat
  PROVE  /\ Descent(kids)[0] = kids
         /\ \A d \in 1..Deep : Descent(kids)[d] = KidsOfLast(Descent(kids)[d - 1])
         /\ \A d \in 0..Deep : Descent(kids)[d] \in Seq(U)
  <1> DEFINE V == Seq(U)
             down == [s \in V |-> KidsOfLast(s)]
             onward == [d \in 1..Deep |-> down]
             Is(f) == f = [d \in 0..Deep |-> IF d = 0 THEN kids ELSE KidsOfLast(f[d - 1])]
  <1>1. \A s \in V : KidsOfLast(s) \in V
    <2> SUFFICES ASSUME NEW s \in V, Meaningful(s) # {} PROVE KidsOfLast(s) \in V
      BY DEF KidsOfLast
    <2>1. Max(Meaningful(s)) \in 1..Len(s)
      BY LastMeaningful
    <2>2. s[Max(Meaningful(s))] \in U
      BY <2>1
    <2> QED
      BY <2>2 DEF KidsOfLast, Closed
  <1>2. onward \in Steps(Deep, V)
    <2>1. down \in [V -> V]
      BY <1>1
    <2> HIDE DEF down
    <2> QED
      BY <2>1 DEF Steps
  <1>3. PICK f : Stepped(f, Deep, V, kids, onward)
    <2> HIDE DEF onward, V
    <2> QED
      BY <1>2, Stepwise DEF V
  <1>4. f[0] = kids /\ \A d \in 0..Deep : f[d] \in V
    BY <1>3 DEF Stepped
  <1>5. ASSUME NEW d \in 1..Deep PROVE f[d] = KidsOfLast(f[d - 1])
    <2>1. onward[d] = down /\ d - 1 \in 0..Deep
      OBVIOUS
    <2> HIDE DEF onward, down
    <2>2. f[d] = onward[d][f[d-1]] /\ f[d-1] \in V
      BY <1>3, <2>1 DEF Stepped
    <2>3. f[d] = down[f[d-1]]
      BY <2>1, <2>2
    <2> QED
      BY <2>2, <2>3 DEF down
  <1>6. Is(f)
    <2>1. f = [d \in 0..Deep |-> f[d]]
      BY <1>3 DEF Stepped
    <2>2. \A d \in 0..Deep : f[d] = IF d = 0 THEN kids ELSE KidsOfLast(f[d - 1])
      <3>1. \A d \in 0..Deep : d # 0 => d \in 1..Deep
        OBVIOUS
      <3> QED
        BY <1>4, <1>5, <3>1
    <2> QED
      BY <2>1, <2>2
  <1> DEFINE F == CHOOSE g : Is(g)
  <1>7. Is(F)
    BY <1>6
  <1>8. Descent(kids) = F
    BY DEF Descent
  <1> HIDE DEF F
  <1>9. F[0] = kids /\ \A d \in 1..Deep : F[d] = KidsOfLast(F[d - 1])
    <2>1. 0 \in 0..Deep /\ \A d \in 1..Deep : d \in 0..Deep /\ d # 0
      OBVIOUS
    <2> QED
      BY <1>7, <2>1
  <1> DEFINE S == {d \in Nat : d <= Deep => F[d] \in V}
  <1>10. S = Nat
    <2>1. 0 \in S
      BY <1>9
    <2>2. ASSUME NEW d \in S PROVE d + 1 \in S
      <3> SUFFICES ASSUME d + 1 <= Deep PROVE F[d+1] \in V
        OBVIOUS
      <3>1. d + 1 \in 1..Deep /\ (d + 1) - 1 = d /\ d <= Deep
        OBVIOUS
      <3> QED
        BY <1>1, <1>9, <3>1
    <2>3. S \in SUBSET Nat
      OBVIOUS
    <2> HIDE DEF S
    <2> QED
      BY <2>1, <2>2, <2>3, Induction
  <1>11. \A d \in 0..Deep : F[d] \in V
    <2>1. \A d \in 0..Deep : d \in Nat /\ d <= Deep
      OBVIOUS
    <2> QED
      BY <1>10, <2>1
  <1> QED
    BY <1>8, <1>9, <1>11

\* The levels of a cut are what its definition says.
CutAbove(f, kids, D, N) ==
  f = [k \in 0..N |-> IF k = 0
                      THEN CutLevel(Descent(kids)[D],
                                    CHOOSE i \in QuotePlace(Descent(kids)[D]) : TRUE)
                      ELSE Around(Descent(kids)[D - k], f[k - 1])]

CutBy(f, kids, D) ==
  /\ CutAt(kids, D) = f[D]
  /\ f[0] = CutLevel(Descent(kids)[D], CHOOSE i \in QuotePlace(Descent(kids)[D]) : TRUE)
  /\ \A k \in 1..D : f[k] = Around(Descent(kids)[D - k], f[k - 1])

\* They are so of the function that CutAt defines.
LEMMA CutLevels ==
  ASSUME NEW kids, NEW D \in Nat
  PROVE  \E f : CutBy(f, kids, D)
  <1> DEFINE b == CutLevel(Descent(kids)[D], CHOOSE i \in QuotePlace(Descent(kids)[D]) : TRUE)
             S == {n \in Nat : \E f : CutAbove(f, kids, D, n)}
  <1>1. 0 \in S
    <2> DEFINE f == [k \in 0..0 |-> b]
    <2>1. f = [k \in 0..0 |-> IF k = 0 THEN b ELSE Around(Descent(kids)[D - k], f[k - 1])]
      OBVIOUS
    <2> QED
      BY <2>1 DEF CutAbove
  <1>2. ASSUME NEW n \in S PROVE n + 1 \in S
    <2>1. PICK f : CutAbove(f, kids, D, n)
      OBVIOUS
    <2> HIDE DEF b
    <2> DEFINE g == [k \in 0..n+1 |-> IF k = n + 1 THEN Around(Descent(kids)[D - k], f[n]) ELSE f[k]]
    <2>2. ASSUME NEW k \in 0..n+1
          PROVE  g[k] = IF k = 0 THEN b ELSE Around(Descent(kids)[D - k], g[k - 1])
      <3>1. CASE k = n + 1
        <4>1. k - 1 = n /\ n \in 0..n+1 /\ n # n + 1 /\ k # 0
          BY <3>1
        <4> QED
          BY <3>1, <4>1
      <3>2. CASE k # n + 1
        <4>1. k \in 0..n
          BY <3>2
        <4>2. f[k] = IF k = 0 THEN b ELSE Around(Descent(kids)[D - k], f[k - 1])
          BY <2>1, <4>1 DEF CutAbove, b
        <4>3. k # 0 => k - 1 \in 0..n+1 /\ k - 1 # n + 1
          BY <4>1
        <4> QED
          BY <3>2, <4>2, <4>3
      <3> QED
        BY <3>1, <3>2
    <2>3. g = [k \in 0..n+1 |-> IF k = 0 THEN b ELSE Around(Descent(kids)[D - k], g[k - 1])]
      <3>1. g = [k \in 0..n+1 |-> g[k]]
        OBVIOUS
      <3> HIDE DEF g
      <3> QED
        BY <2>2, <3>1
    <2> HIDE DEF g
    <2>4. CutAbove(g, kids, D, n + 1)
      BY <2>3 DEF CutAbove, b
    <2> QED
      BY <2>4
  <1>3. D \in S
    <2>1. S \in SUBSET Nat
      OBVIOUS
    <2> HIDE DEF S
    <2> QED
      BY <1>1, <1>2, <2>1, Induction
  <1> DEFINE F == CHOOSE f : CutAbove(f, kids, D, D)
  <1>4. CutAbove(F, kids, D, D)
    BY <1>3
  <1>5. CutAt(kids, D) = F[D]
    BY DEF CutAt, CutAbove
  <1> HIDE DEF F, b
  <1>6. F = [k \in 0..D |-> IF k = 0 THEN b ELSE Around(Descent(kids)[D - k], F[k - 1])]
    BY <1>4 DEF CutAbove, b
  <1>7. F[0] = b /\ \A k \in 1..D : F[k] = Around(Descent(kids)[D - k], F[k - 1])
    <2>1. 0 \in 0..D /\ \A k \in 1..D : k \in 0..D /\ k # 0
      OBVIOUS
    <2> QED
      BY <1>6, <2>1
  <1> QED
    BY <1>5, <1>7 DEF b, CutBy

\* A level that ends in a quote is cut: its front, the mark, and blank text.
MarkedFront(U, s, t) ==
  \E front, rest, blank \in Seq(U) :
     /\ s = front \o rest /\ s # <<>>
     /\ \A j \in 1..Len(blank) : blank[j].tag = "space"
     /\ t = (front \o <<Leaf("elided")>>) \o blank

\* CutLevel leaves a MarkedFront.
LEMMA CutOneLevel ==
  ASSUME NEW U, NEW s \in Seq(U), NEW i \in QuotePlace(s)
  PROVE  MarkedFront(U, s, CutLevel(s, i))
  <1> DEFINE N == Len(s)
             before == {j \in Meaningful(s) : j < i}
             first == IF before # {} /\ s[Max(before)].tag = "cite" THEN Max(before) ELSE i
             E == Leaf("elided")
  <1>0. N \in Nat /\ DOMAIN s = 1..N /\ s = SubSeq(s, 1, N)
    OBVIOUS
  <1>1. /\ i \in 1..N
        /\ \/ s[i].tag = "hr"
           \/ s[i].tag # "hr" /\ \A j \in i+1..N : s[j].tag = "space"
    <2>1. CASE Dividers(s) # {}
      <3>1. Dividers(s) \in SUBSET (1..N)
        BY <1>0 DEF Dividers
      <3>2. i = Max(Dividers(s))
        BY <2>1 DEF QuotePlace
      <3>3. i \in Dividers(s)
        BY <1>0, <2>1, <3>1, <3>2, MaxIs
      <3> QED
        BY <1>0, <3>3 DEF Dividers
    <2>2. CASE Dividers(s) = {}
      <3>1. i \in QuoteAtEnd(s)
        BY <2>2 DEF QuotePlace
      <3>2. i \in 1..N /\ s[i].tag # "hr" /\ \A j \in Meaningful(s) : j <= i
        BY <1>0, <3>1 DEF QuoteAtEnd, Meaningful
      <3>3. ASSUME NEW j \in i+1..N PROVE s[j].tag = "space"
        <4>1. j \in 1..N /\ ~(j <= i)
          BY <1>0, <3>2
        <4>2. j \notin Meaningful(s)
          BY <3>2, <4>1
        <4> QED
          BY <1>0, <4>1, <4>2 DEF Meaningful
      <3> QED
        BY <3>2, <3>3
    <2> QED
      BY <2>1, <2>2
  <1>2. s # <<>> /\ i \in Nat /\ 1 <= i /\ i <= N
    BY <1>0, <1>1
  <1>3. \A n \in 0..N : /\ SubSeq(s, 1, n) \in Seq(U) /\ SubSeq(s, n + 1, N) \in Seq(U)
                        /\ s = SubSeq(s, 1, n) \o SubSeq(s, n + 1, N)
    BY Halves
  <1>4. first - 1 \in 0..N
    <2>1. CASE before # {} /\ s[Max(before)].tag = "cite"
      <3>1. before \in SUBSET (1..N)
        BY <1>0 DEF Meaningful
      <3> HIDE DEF before
      <3>2. Max(before) \in 1..N
        BY <1>0, <2>1, <3>1, MaxIs
      <3> QED
        BY <1>0, <2>1, <3>2
    <2>2. CASE ~(before # {} /\ s[Max(before)].tag = "cite")
      <3> HIDE DEF before
      <3> QED
        BY <1>0, <1>2, <2>2
    <2> QED
      BY <2>1, <2>2
  <1>5. CASE s[i].tag = "hr"
    <2> DEFINE n == i - 1
               front == SubSeq(s, 1, n)
               rest == SubSeq(s, n + 1, N)
               blank == <<>>
    <2>1. CutLevel(s, i) = Append(front, E)
      BY <1>5 DEF CutLevel
    <2>2. n \in 0..N
      BY <1>0, <1>2
    <2>3. front \in Seq(U) /\ rest \in Seq(U) /\ s = front \o rest
      BY <1>3, <2>2
    <2>4. blank \in Seq(U) /\ \A j \in 1..Len(blank) : blank[j].tag = "space"
      OBVIOUS
    <2> HIDE DEF front, E
    <2>5. Append(front, E) = (front \o <<E>>) \o blank
      <3>1. front \in Seq(U \cup {E})
        BY <2>3
      <3> QED
        BY <3>1
    <2> HIDE DEF rest, blank
    <2> QED
      BY <1>2, <2>1, <2>3, <2>4, <2>5 DEF E, MarkedFront
  <1>6. CASE s[i].tag # "hr"
    <2> DEFINE n == first - 1
               front == SubSeq(s, 1, n)
               rest == SubSeq(s, n + 1, N)
               blank == SubSeq(s, i + 1, N)
    <2>1. CutLevel(s, i) = Append(front, E) \o blank
      BY <1>6 DEF CutLevel
    <2> HIDE DEF first
    <2>2. front \in Seq(U) /\ rest \in Seq(U) /\ s = front \o rest
      BY <1>3, <1>4
    <2>3. blank \in Seq(U) /\ \A j \in 1..Len(blank) : blank[j].tag = "space"
      <3>1. blank \in Seq(U)
        BY <1>1, <1>3
      <3>2. Len(blank) = N - i /\ \A j \in 1..N-i : blank[j] = s[i + j]
        <4>1. i \in 0..N
          BY <1>0, <1>2
        <4> QED
          BY <4>1, TailIs
      <3>3. \A j \in 1..N-i : i + j \in i+1..N
        BY <1>0, <1>2
      <3> QED
        BY <1>1, <1>6, <3>1, <3>2, <3>3
    <2> HIDE DEF front, E
    <2>4. Append(front, E) = front \o <<E>>
      <3>1. front \in Seq(U \cup {E})
        BY <2>2
      <3> QED
        BY <3>1
    <2> HIDE DEF rest, blank
    <2> QED
      BY <1>2, <2>1, <2>2, <2>3, <2>4 DEF E, MarkedFront
  <1> QED
    BY <1>5, <1>6

\* Concatenation is associative.
LEMMA ConcatAgain ==
  ASSUME NEW U, NEW p \in Seq(U), NEW q \in Seq(U), NEW r \in Seq(U)
  PROVE  p \o (q \o r) = (p \o q) \o r
  OBVIOUS

\* Of what is read at some depth, a part is shown: its front and the mark.
FrontShown(W, a, b, d) ==
  \E X, Y \in Seq(W) : /\ Opening(a)[d] = X \o <<Leaf("elided")>>
                       /\ Opening(b)[d] = X \o Y

\* It is so at the level that is cut.
LEMMA CutShown ==
  ASSUME NEW U, WellFormed(U), Leaf("elided") \in U, NEW s \in Seq(U), NEW i \in QuotePlace(s),
         Deep \in Nat, NEW d \in 1..Deep
  PROVE  /\ CutLevel(s, i) \in Seq(U) /\ CutLevel(s, i) # <<>> /\ s # <<>>
         /\ FrontShown(U, CutLevel(s, i), s, d)
  <1> DEFINE E == Leaf("elided")
             a == CutLevel(s, i)
  <1>1. PICK front, rest, blank \in Seq(U) :
               /\ s = front \o rest /\ s # <<>>
               /\ \A j \in 1..Len(blank) : blank[j].tag = "space"
               /\ a = (front \o <<E>>) \o blank
    <2>1. MarkedFront(U, s, a)
      BY CutOneLevel
    <2> HIDE DEF a
    <2> QED
      BY <2>1 DEF MarkedFront
  <1> HIDE DEF a
  <1>2. E.tag # "space" /\ E.kids = <<>> /\ Closed(U) /\ d \in 0..Deep /\ E \in U
    BY DEF Leaf, Node, WellFormed, Closed
  <1> HIDE DEF E
  <1>3. <<E>> \in Seq(U) /\ front \o <<E>> \in Seq(U) /\ Len(front \o <<E>>) = Len(front) + 1
    <2>1. <<E>> \in Seq(U) /\ Len(<<E>>) = 1
      BY <1>2
    <2> QED
      BY <2>1, ConcatIs
  <1>4. a \in Seq(U) /\ a # <<>>
    <2>1. a \in Seq(U) /\ Len(a) = (Len(front) + 1) + Len(blank)
      BY <1>1, <1>3, ConcatIs
    <2>2. Len(a) # 0
      BY <2>1
    <2> QED
      BY <2>1, <2>2
  <1>5. \A p, q \in Seq(U) : /\ Opening(p)[d] \in Seq(U)
                            /\ Opening(p \o q)[d] = Opening(p)[d] \o Opening(q)[d]
    <2>1. \A p, q \in Seq(U) : OpenedApart(U, p, q, d)
      BY <1>2, OpeningApart
    <2> QED
      BY <2>1 DEF OpenedApart
  <1> DEFINE X == Opening(front)[d]
             Y == Opening(rest)[d]
  <1>6. X \in Seq(U) /\ Y \in Seq(U) /\ Opening(s)[d] = X \o Y
    BY <1>1, <1>5
  <1>7. Opening(a)[d] = X \o <<E>>
    <2>1. Opening(a)[d] = Opening(front \o <<E>>)[d] \o Opening(blank)[d]
      BY <1>1, <1>3, <1>5
    <2>2. Opening(front \o <<E>>)[d] = X \o Opening(<<E>>)[d]
      BY <1>3, <1>5
    <2>3. Opening(blank)[d] = <<>>
      BY <1>1, OpeningBlank
    <2>4. Opening(<<E>>)[d] = <<E>>
      BY <1>2, OpeningLeaf
    <2>5. (X \o <<E>>) \o <<>> = X \o <<E>>
      <3> HIDE DEF X
      <3>1. X \o <<E>> \in Seq(U)
        BY <1>3, <1>6, ConcatIs
      <3> DEFINE z == X \o <<E>>
      <3> HIDE DEF z
      <3>2. z \o <<>> = z
        BY <3>1 DEF z
      <3> QED
        BY <3>2 DEF z
    <2> QED
      BY <2>1, <2>2, <2>3, <2>4, <2>5
  <1> HIDE DEF X, Y
  <1>8. FrontShown(U, a, s, d)
    BY <1>6, <1>7 DEF FrontShown, E
  <1> QED
    BY <1>1, <1>4, <1>8 DEF a

\* And then at the level above it.
LEMMA AroundShown ==
  ASSUME NEW U, WellFormed(U), NEW s \in Seq(U), NEW a \in Seq(U), a # <<>>, KidsOfLast(s) # <<>>,
         Deep \in Nat, NEW d \in 0..Deep-1, FrontShown(U, a, KidsOfLast(s), d)
  PROVE  \E W : /\ WellFormed(W) /\ U \subseteq W /\ Around(s, a) \in Seq(W) /\ Around(s, a) # <<>>
                /\ s # <<>> /\ FrontShown(W, Around(s, a), s, d + 1)
  <1> DEFINE i == Max(Meaningful(s))
             n == s[i]
             m == Node(n.tag, a)
             W == U \cup {m}
             before == SubSeq(s, 1, i - 1)
             after == SubSeq(s, i + 1, Len(s))
  <1>1. Meaningful(s) # {} /\ n.kids # <<>> /\ KidsOfLast(s) = n.kids
    BY DEF KidsOfLast
  <1>2. i \in 1..Len(s) /\ n.tag # "space" /\ \A j \in 1..Len(s) : j > i => s[j].tag = "space"
    BY <1>1, LastMeaningful
  <1> HIDE DEF i
  <1>3. n \in U /\ Len(s) \in Nat /\ s # <<>> /\ DOMAIN s = 1..Len(s)
    BY <1>2
  <1>4. n = Node(n.tag, n.kids) /\ n.kids \in Seq(U) /\ n.tag \notin Childless
    BY <1>1, <1>3 DEF WellFormed
  <1>5. m.tag = n.tag /\ m.kids = a /\ m = Node(m.tag, m.kids)
    BY DEF Node
  <1> HIDE DEF n, m
  <1>6. WellFormed(W) /\ Closed(W) /\ U \subseteq W /\ m \in W /\ n \in W
    <2>1. Seq(U) \subseteq Seq(W)
      OBVIOUS
    <2> QED
      BY <1>3, <1>4, <1>5, <2>1 DEF WellFormed, Closed
  <1>7. s \in Seq(W) /\ a \in Seq(W) /\ n.kids \in Seq(W)
    <2>1. Seq(U) \subseteq Seq(W)
      OBVIOUS
    <2> QED
      BY <1>4, <2>1
  <1> HIDE DEF W
  <1>8. /\ before \in Seq(W) /\ after \in Seq(W)
        /\ Len(after) = Len(s) - i /\ \A j \in 1..Len(after) : after[j] = s[i + j]
        /\ s = (before \o <<n>>) \o after
        /\ [s EXCEPT ![i] = m] = (before \o <<m>>) \o after
    <2>1. SplitInto(W, s, i, before, after)
      <3>1. i \in 1..Len(s)
        BY <1>2
      <3> QED
        BY <1>7, <3>1, SplitAt
    <2> HIDE DEF before, after
    <2> QED
      BY <1>6, <2>1 DEF n, SplitInto
  <1> HIDE DEF before, after
  <1>9. \A j \in 1..Len(after) : after[j].tag = "space"
    <2> SUFFICES ASSUME NEW j \in 1..Len(after) PROVE after[j].tag = "space"
      OBVIOUS
    <2>1. i + j \in 1..Len(s) /\ i + j > i
      BY <1>2, <1>3, <1>8
    <2> QED
      BY <1>2, <1>8, <2>1
  <1>10. Around(s, a) = (before \o <<m>>) \o after
    <2>1. Around(s, a) = [s EXCEPT ![i] = [n EXCEPT !.kids = a]]
      BY DEF Around, i, n
    <2>2. [n EXCEPT !.kids = a] = m
      <3>1. [Node(n.tag, n.kids) EXCEPT !.kids = a] = Node(n.tag, a)
        BY DEF Node
      <3> QED
        BY <1>4, <3>1 DEF m
    <2> QED
      BY <1>8, <2>1, <2>2
  <1>11. Around(s, a) \in Seq(W) /\ Around(s, a) # <<>>
    <2>1. before \o <<m>> \in Seq(W) /\ Len(before \o <<m>>) = Len(before) + 1
      <3>1. <<m>> \in Seq(W) /\ Len(<<m>>) = 1
        BY <1>6
      <3> QED
        BY <1>8, <3>1, ConcatIs
    <2>2. Around(s, a) \in Seq(W) /\ Len(Around(s, a)) = (Len(before) + 1) + Len(after)
      <3> DEFINE p == before \o <<m>>
      <3>1. p \in Seq(W) /\ after \in Seq(W) /\ Around(s, a) = p \o after
        BY <1>8, <1>10, <2>1
      <3>2. Around(s, a) \in Seq(W) /\ Len(Around(s, a)) = Len(p) + Len(after)
        <4> HIDE DEF p
        <4> QED
          BY <3>1, ConcatIs
      <3> QED
        BY <2>1, <3>2
    <2>3. Len(Around(s, a)) # 0
      <3>1. Len(before) \in Nat /\ Len(after) \in Nat
        BY <1>8
      <3> QED
        BY <2>2, <3>1
    <2> QED
      BY <2>2, <2>3
  <1>12. PICK X, Y \in Seq(U) : /\ Opening(a)[d] = X \o <<Leaf("elided")>>
                               /\ Opening(n.kids)[d] = X \o Y
    BY <1>1 DEF FrontShown
  <1> DEFINE P == Opening(before)[d + 1]
             E == Leaf("elided")
  <1>13. Opening(Around(s, a))[d+1] = P \o (X \o <<E>>)
    <2>1. Opening((before \o <<m>>) \o after)[d+1] = P \o Opening(m.kids)[d]
      <3>1. /\ Closed(W) /\ before \in Seq(W) /\ m \in W /\ after \in Seq(W)
            /\ m.tag # "space" /\ m.kids # <<>> /\ \A j \in 1..Len(after) : after[j].tag = "space"
        BY <1>2, <1>5, <1>6, <1>8, <1>9
      <3> QED
        BY <3>1, OpeningInside
    <2> QED
      BY <1>5, <1>10, <1>12, <2>1
  <1>14. Opening(s)[d+1] = P \o (X \o Y)
    <2>1. Opening((before \o <<n>>) \o after)[d+1] = P \o Opening(n.kids)[d]
      <3>1. /\ Closed(W) /\ before \in Seq(W) /\ n \in W /\ after \in Seq(W)
            /\ n.tag # "space" /\ n.kids # <<>> /\ \A j \in 1..Len(after) : after[j].tag = "space"
        BY <1>1, <1>2, <1>6, <1>8, <1>9
      <3> QED
        BY <3>1, OpeningInside
    <2> QED
      BY <1>8, <1>12, <2>1
  <1>15. P \in Seq(W)
    <2>1. d + 1 \in 0..Deep /\ Closed(W) /\ before \in Seq(W)
      BY <1>6, <1>8
    <2>2. OpenedApart(W, before, before, d + 1)
      BY <2>1, OpeningApart
    <2> QED
      BY <2>2 DEF OpenedApart
  <1>16. X \in Seq(W) /\ Y \in Seq(W)
    <2>1. Seq(U) \subseteq Seq(W)
      BY <1>6
    <2> QED
      BY <1>12, <2>1
  <1> HIDE DEF P, E
  <1>17. /\ P \o X \in Seq(W)
         /\ P \o (X \o <<E>>) = (P \o X) \o <<E>> /\ P \o (X \o Y) = (P \o X) \o Y
    <2>1. P \o X \in Seq(W)
      BY <1>15, <1>16, ConcatIs
    <2>2. P \o (X \o <<E>>) = (P \o X) \o <<E>>
      <3>1. P \in Seq(W \cup {E}) /\ X \in Seq(W \cup {E}) /\ <<E>> \in Seq(W \cup {E})
        BY <1>15, <1>16
      <3> QED
        BY <3>1, ConcatAgain
    <2>3. P \o (X \o Y) = (P \o X) \o Y
      BY <1>15, <1>16, ConcatAgain
    <2> QED
      BY <2>1, <2>2, <2>3
  <1>18. FrontShown(W, Around(s, a), s, d + 1)
    BY <1>13, <1>14, <1>16, <1>17 DEF FrontShown, E
  <1> QED
    BY <1>3, <1>6, <1>11, <1>18

\* A forest that is cut at a level that ends in a quote shows a front of it.
LEMMA ForestShown ==
  ASSUME NEW U, WellFormed(U), NEW kids \in Seq(U), Deep \in Nat,
         NEW D \in 0..Deep-1, QuotePlace(Descent(kids)[D]) # {}
  PROVE  \E W : FrontShown(W, CutAt(kids, D), kids, Deep)
  <1> DEFINE lv(d) == Descent(kids)[d]
             E == Leaf("elided")
             V == U \cup {E}
  <1>1. PICK f : /\ CutAt(kids, D) = f[D]
                 /\ f[0] = CutLevel(lv(D), CHOOSE i \in QuotePlace(lv(D)) : TRUE)
                 /\ \A k \in 1..D : f[k] = Around(lv(D - k), f[k - 1])
    <2>1. D \in Nat
      OBVIOUS
    <2>2. PICK f : CutBy(f, kids, D)
      BY <2>1, CutLevels
    <2> QED
      BY <2>2 DEF CutBy
  <1>2. Closed(U)
    BY DEF WellFormed, Closed
  <1>3. /\ lv(0) = kids /\ \A d \in 0..Deep : lv(d) \in Seq(U)
        /\ \A d \in 1..Deep : lv(d) = KidsOfLast(lv(d - 1))
    BY <1>2, DescentLevels
  <1>4. WellFormed(V) /\ E \in V /\ Seq(U) \subseteq Seq(V)
    <2>1. E = Node(E.tag, E.kids) /\ E.kids = <<>>
      BY DEF Leaf, Node
    <2> HIDE DEF E
    <2>2. Seq(U) \subseteq Seq(V) /\ <<>> \in Seq(V)
      OBVIOUS
    <2> QED
      BY <2>1, <2>2 DEF WellFormed
  <1> HIDE DEF lv, E
  <1> DEFINE Good(k) == \E W : /\ WellFormed(W) /\ U \subseteq W /\ f[k] \in Seq(W) /\ f[k] # <<>>
                               /\ lv(D - k) # <<>> /\ FrontShown(W, f[k], lv(D - k), (Deep - D) + k)
             S == {k \in Nat : k <= D => Good(k)}
  <1>5. 0 \in S
    <2>1. D - 0 = D /\ (Deep - D) + 0 = Deep - D /\ D \in 0..Deep /\ Deep - D \in 1..Deep
      OBVIOUS
    <2> DEFINE i == CHOOSE i \in QuotePlace(lv(D)) : TRUE
    <2>2. i \in QuotePlace(lv(D))
      BY DEF lv
    <2>3. f[0] = CutLevel(lv(D), i)
      BY <1>1
    <2> HIDE DEF i
    <2>4. lv(D) \in Seq(V)
      BY <1>3, <1>4, <2>1
    <2>5. /\ f[0] \in Seq(V) /\ f[0] # <<>> /\ lv(D) # <<>>
          /\ FrontShown(V, f[0], lv(D), Deep - D)
      BY <1>4, <2>1, <2>2, <2>3, <2>4, CutShown DEF E
    <2>6. U \subseteq V
      OBVIOUS
    <2> HIDE DEF V
    <2>7. Good(0)
      BY <1>4, <2>1, <2>5, <2>6
    <2> HIDE DEF Good
    <2> QED
      BY <2>7
  <1>6. ASSUME NEW k \in S PROVE k + 1 \in S
    <2> SUFFICES ASSUME k + 1 <= D PROVE Good(k + 1)
      <3> HIDE DEF Good
      <3> QED
        OBVIOUS
    <2>1. /\ k + 1 \in 1..D /\ (k + 1) - 1 = k /\ k <= D
          /\ D - k \in 1..Deep /\ (D - k) - 1 = D - (k + 1) /\ D - (k + 1) \in 0..Deep
          /\ (Deep - D) + k \in 0..Deep-1 /\ (Deep - D) + (k + 1) = ((Deep - D) + k) + 1
      OBVIOUS
    <2>2. PICK W : /\ WellFormed(W) /\ U \subseteq W /\ f[k] \in Seq(W) /\ f[k] # <<>>
                   /\ lv(D - k) # <<>> /\ FrontShown(W, f[k], lv(D - k), (Deep - D) + k)
      <3>1. Good(k)
        <4> HIDE DEF Good
        <4> QED
          BY <2>1
      <3> QED
        BY <3>1
    <2> DEFINE s == lv(D - (k + 1))
               e == (Deep - D) + k
    <2>3. f[k+1] = Around(s, f[k])
      BY <1>1, <2>1
    <2>4. lv(D - k) = KidsOfLast(s) /\ s \in Seq(W)
      <3>1. s \in Seq(U)
        BY <1>3, <2>1
      <3>2. Seq(U) \subseteq Seq(W)
        BY <2>2
      <3> QED
        BY <1>3, <2>1, <3>1, <3>2
    <2> HIDE DEF s
    <2>5. PICK Z : /\ WellFormed(Z) /\ W \subseteq Z /\ Around(s, f[k]) \in Seq(Z)
                   /\ Around(s, f[k]) # <<>> /\ s # <<>> /\ FrontShown(Z, Around(s, f[k]), s, e + 1)
      <3>1. e \in 0..Deep-1 /\ KidsOfLast(s) # <<>> /\ FrontShown(W, f[k], KidsOfLast(s), e)
        BY <2>1, <2>2, <2>4
      <3> HIDE DEF e
      <3> QED
        BY <2>2, <2>4, <3>1, AroundShown
    <2>6. U \subseteq Z
      BY <2>2, <2>5
    <2> QED
      BY <2>1, <2>3, <2>5, <2>6 DEF s
  <1>7. Good(D)
    <2>1. S \in SUBSET Nat /\ D \in Nat /\ D <= D
      OBVIOUS
    <2> HIDE DEF Good
    <2>2. 0 \in S /\ \A k \in S : k + 1 \in S
      BY <1>5, <1>6
    <2>3. D \in S
      <3> HIDE DEF S
      <3> QED
        BY <2>1, <2>2, Induction
    <2> QED
      BY <2>1, <2>3
  <1>8. D - D = 0 /\ (Deep - D) + D = Deep
    OBVIOUS
  <1>9. lv(D - D) = kids
    BY <1>3, <1>8
  <1> QED
    BY <1>1, <1>7, <1>8, <1>9

-----------------------------------------------------------------------------
(* Whatever the body: nothing but its end is elided.                       *)

\* A body whose HTML nests its nodes to any depth.
HTMLBody(b) ==
  \E U : WellFormed(U) /\ b \in [html : {TRUE}, kids : Seq(U), balanced : BOOLEAN]
PlainBody == [html : {FALSE}, lines : Seq(Line)]

\* What the properties of Reading say of one body and what is shown of it.
TailElided(b, as) ==
  as # b => /\ Content(as) # <<>> /\ Last(Content(as)) = Mark(b)
            /\ IsPrefix(Front(Content(as)), Content(b))
BottomKept(b, as) ==
  IF b.html
  THEN EndsWith(Tags(b.kids), "text", "space") /\ "hr" \notin Range(Tags(b.kids)) => as = b
  ELSE EndsWith(b.lines, "text", "blank") /\ "marker" \notin Range(b.lines) => as = b

\* A sequence that is a front of another, and a mark.
LEMMA MarkedTail ==
  ASSUME NEW W, NEW X \in Seq(W), NEW Y \in Seq(W), NEW e
  PROVE  /\ X \o <<e>> # <<>> /\ Last(X \o <<e>>) = e
         /\ IsPrefix(Front(X \o <<e>>), X \o Y)
  <1> DEFINE t == X \o <<e>>
             n == Len(X)
             V == W \cup {e}
  <1>0. n \in Nat /\ X \in Seq(V) /\ Y \in Seq(V) /\ <<e>> \in Seq(V) /\ Len(<<e>>) = 1 /\ <<e>>[1] = e
    OBVIOUS
  <1>1. t \in Seq(V) /\ Len(t) = n + 1 /\ t[n + 1] = e /\ \A j \in 1..n : t[j] = X[j]
    <2>1. /\ t \in Seq(V) /\ Len(t) = n + Len(<<e>>) /\ \A j \in 1..n : t[j] = X[j]
          /\ \A j \in 1..Len(<<e>>) : t[n + j] = <<e>>[j]
      <3> HIDE DEF V
      <3> QED
        BY <1>0, ConcatIs
    <2> HIDE DEF t
    <2>2. 1 \in 1..Len(<<e>>)
      BY <1>0
    <2> QED
      BY <1>0, <2>1, <2>2
  <1>2. Front(t) = X
    <2>1. Front(t) = SubSeq(t, 1, n)
      <3>1. Len(t) - 1 = n
        BY <1>0, <1>1
      <3> HIDE DEF t
      <3> QED
        BY <3>1 DEF Front
    <2> HIDE DEF t, V
    <2> DEFINE u == SubSeq(t, 1, n)
    <2>2. u \in Seq(V) /\ Len(u) = n /\ \A j \in 1..n : u[j] = t[j]
      BY <1>0, <1>1
    <2>3. \A j \in 1..n : u[j] = X[j]
      BY <1>1, <2>2
    <2> HIDE DEF u
    <2>4. u = X
      BY <1>0, <2>2, <2>3
    <2> QED
      BY <2>1, <2>4 DEF u
  <1>3. IsPrefix(X, X \o Y)
    <2> DEFINE z == X \o Y
    <2>1. z \in Seq(W) /\ Len(z) = n + Len(Y) /\ \A j \in 1..n : z[j] = X[j]
      BY ConcatIs
    <2>2. Len(Y) \in Nat
      OBVIOUS
    <2> HIDE DEF z
    <2> DEFINE u == SubSeq(z, 1, n)
    <2>3. u \in Seq(W) /\ Len(u) = n /\ \A j \in 1..n : u[j] = z[j]
      BY <1>0, <2>1, <2>2
    <2>4. \A j \in 1..n : u[j] = X[j]
      BY <2>1, <2>3
    <2> HIDE DEF u
    <2>5. u = X
      BY <2>3, <2>4
    <2> QED
      BY <1>0, <2>1, <2>2, <2>5 DEF IsPrefix, u, z
  <1> HIDE DEF t
  <1>4. t # <<>>
    BY <1>0, <1>1
  <1>5. Last(t) = e
    BY <1>1 DEF Last
  <1> QED
    BY <1>2, <1>3, <1>4, <1>5 DEF t

\* A front of the content of an HTML body is shown, and the mark.
LEMMA HTMLTail ==
  ASSUME NEW b, HTMLBody(b), Deep \in Nat
  PROVE  TailElided(b, ElideHTML(b))
  <1> SUFFICES ASSUME ElideHTML(b) # b
               PROVE  LET as == ElideHTML(b)
                      IN  /\ Content(as) # <<>> /\ Last(Content(as)) = Mark(b)
                          /\ IsPrefix(Front(Content(as)), Content(b))
    BY DEF TailElided
  <1> DEFINE D == Min(TerminalHTMLQuote(b.kids))
             as == ElideHTML(b)
  <1>1. PICK U : WellFormed(U) /\ b \in [html : {TRUE}, kids : Seq(U), balanced : BOOLEAN]
    BY DEF HTMLBody
  <1>2. /\ TerminalHTMLQuote(b.kids) # {} /\ as = [b EXCEPT !.kids = CutAt(b.kids, D)]
    BY DEF ElideHTML
  <1>3. b.html = TRUE /\ b.kids \in Seq(U) /\ as.html = TRUE /\ as.kids = CutAt(b.kids, D)
    BY <1>1, <1>2
  <1>4. D \in 0..Deep-1 /\ QuotePlace(Descent(b.kids)[D]) # {}
    <2>1. TerminalHTMLQuote(b.kids) \in SUBSET Nat
      BY DEF TerminalHTMLQuote
    <2>2. D \in TerminalHTMLQuote(b.kids)
      BY <1>2, <2>1, MinIs
    <2> HIDE DEF D
    <2> QED
      BY <2>2 DEF TerminalHTMLQuote
  <1> HIDE DEF as, D
  <1>5. PICK W : FrontShown(W, CutAt(b.kids, D), b.kids, Deep)
    BY <1>1, <1>3, <1>4, ForestShown
  <1>6. PICK X, Y \in Seq(W) : /\ Opening(as.kids)[Deep] = X \o <<Leaf("elided")>>
                               /\ Opening(b.kids)[Deep] = X \o Y
    BY <1>3, <1>5 DEF FrontShown
  <1>7. Content(as) = X \o <<Leaf("elided")>> /\ Content(b) = X \o Y /\ Mark(b) = Leaf("elided")
    BY <1>3, <1>6 DEF Content, Mark
  <1> QED
    BY <1>7, MarkedTail DEF as

\* A body that ends with text at its top is shown whole: no quote ends it there,
\* and text has nothing inside it.
LEMMA HTMLBottom ==
  ASSUME NEW b, HTMLBody(b), Deep \in Nat,
         EndsWith(Tags(b.kids), "text", "space"), "hr" \notin Range(Tags(b.kids))
  PROVE  ElideHTML(b) = b
  <1> DEFINE s == b.kids
             N == Len(s)
             M == Meaningful(s)
  <1>1. PICK U : WellFormed(U) /\ b \in [html : {TRUE}, kids : Seq(U), balanced : BOOLEAN]
    BY DEF HTMLBody
  <1>2. s \in Seq(U) /\ N \in Nat /\ DOMAIN s = 1..N /\ Closed(U)
    BY <1>1 DEF WellFormed, Closed
  <1> HIDE DEF s
  <1>3. DOMAIN Tags(s) = 1..N /\ \A j \in 1..N : Tags(s)[j] = s[j].tag
    BY <1>2 DEF Tags
  <1>4. PICK i \in 1..N : s[i].tag = "text" /\ \A j \in 1..N : j > i => s[j].tag = "space"
    <2>1. PICK i \in 1..N : Tags(s)[i] = "text" /\ \A j \in 1..N : j > i => Tags(s)[j] = "space"
      BY <1>3 DEF EndsWith, s
    <2> QED
      BY <1>3, <2>1
  <1>5. \A j \in 1..N : s[j].tag # "hr"
    BY <1>3 DEF Range, s
  <1>6. /\ i \in M /\ i \in Nat /\ M \in SUBSET (1..N)
        /\ \A j \in M : j <= i
    <2>1. i \in M /\ M \in SUBSET (1..N) /\ \A j \in M : ~(j > i)
      BY <1>2, <1>4 DEF Meaningful
    <2> HIDE DEF M
    <2> QED
      BY <1>2, <2>1
  <1>7. Max(M) = i
    <2>1. M # {}
      BY <1>6
    <2> HIDE DEF M
    <2>2. Max(M) \in M /\ \A y \in M : y <= Max(M)
      BY <1>2, <1>6, <2>1, MaxIs
    <2> DEFINE m == Max(M)
    <2>3. m \in M /\ \A y \in M : y <= m
      BY <2>2
    <2> HIDE DEF m
    <2>4. m <= i /\ i <= m
      BY <1>6, <2>3
    <2>5. m \in Nat
      BY <1>2, <1>6, <2>3
    <2> QED
      BY <1>6, <2>4, <2>5 DEF m
  <1>8. QuotePlace(s) = {}
    <2>1. Dividers(s) = {}
      BY <1>2, <1>5 DEF Dividers
    <2>2. ASSUME NEW j \in QuoteAtEnd(s) PROVE FALSE
      <3>1. j \in M /\ i <= j /\ s[j].tag \in {"quote", "headers"}
        BY <1>6, <2>2 DEF QuoteAtEnd
      <3>2. j = i
        <4>1. j <= i /\ j \in Nat
          BY <1>2, <1>6, <3>1
        <4> QED
          BY <1>6, <3>1, <4>1
      <3> QED
        BY <1>4, <3>1, <3>2
    <2> QED
      BY <2>1, <2>2 DEF QuotePlace
  <1>9. KidsOfLast(s) = <<>>
    <2>1. KidsOfLast(s) = s[i].kids
      BY <1>6, <1>7 DEF KidsOfLast
    <2>2. s[i] \in U
      BY <1>2, <1>4
    <2>3. s[i].tag \in Childless
      BY <1>4 DEF Childless
    <2> QED
      BY <1>1, <2>1, <2>2, <2>3 DEF WellFormed
  <1>10. KidsOfLast(<<>>) = <<>> /\ QuotePlace(<<>>) = {}
    <2>1. Meaningful(<<>>) = {} /\ Dividers(<<>>) = {}
      BY DEF Meaningful, Dividers
    <2> QED
      BY <2>1 DEF KidsOfLast, QuotePlace, QuoteAtEnd
  <1> DEFINE lv(d) == Descent(s)[d]
             S == {d \in Nat : d + 1 <= Deep => lv(d + 1) = <<>>}
  <1>11. lv(0) = s /\ \A d \in 1..Deep : lv(d) = KidsOfLast(lv(d - 1))
    BY <1>2, DescentLevels
  <1> HIDE DEF lv
  <1>12. 0 \in S
    <2> SUFFICES ASSUME 1 <= Deep PROVE lv(0 + 1) = <<>>
      OBVIOUS
    <2>1. 1 \in 1..Deep /\ 1 - 1 = 0 /\ 0 + 1 = 1
      OBVIOUS
    <2> QED
      BY <1>9, <1>11, <2>1
  <1>13. ASSUME NEW d \in S PROVE d + 1 \in S
    <2> SUFFICES ASSUME (d + 1) + 1 <= Deep PROVE lv((d + 1) + 1) = <<>>
      OBVIOUS
    <2>1. (d + 1) + 1 \in 1..Deep /\ ((d + 1) + 1) - 1 = d + 1 /\ d + 1 <= Deep
      OBVIOUS
    <2> QED
      BY <1>10, <1>11, <2>1
  <1>14. S = Nat
    <2>1. S \in SUBSET Nat
      OBVIOUS
    <2> HIDE DEF S
    <2> QED
      BY <1>12, <1>13, <2>1, Induction
  <1>15. ASSUME NEW d \in 0..Deep-1 PROVE QuotePlace(lv(d)) = {}
    <2>1. CASE d = 0
      BY <1>8, <1>11, <2>1
    <2>2. CASE d # 0
      <3>1. d - 1 \in Nat /\ (d - 1) + 1 = d /\ d <= Deep
        BY <2>2
      <3>2. d - 1 \in S
        BY <1>14, <3>1
      <3>3. lv((d - 1) + 1) = <<>>
        BY <3>1, <3>2
      <3> QED
        BY <1>10, <3>1, <3>3
    <2> QED
      BY <2>1, <2>2
  <1>16. TerminalHTMLQuote(s) = {}
    BY <1>15 DEF TerminalHTMLQuote, lv
  <1> QED
    BY <1>16 DEF ElideHTML, s

\* Whatever the body.
LEMMA BodyElided ==
  ASSUME NEW b, b \in PlainBody \/ HTMLBody(b), Deep \in Nat
  PROVE  LET as == ElideQuotedReplyBody(b)
         IN  /\ TailElided(b, as) /\ BottomKept(b, as)
             /\ ~b.html => ElideQuotedReplyBody(as) = as
  <1> DEFINE as == ElideQuotedReplyBody(b)
  <1>1. CASE HTMLBody(b)
    <2>1. b.html = TRUE
      BY <1>1 DEF HTMLBody
    <2>2. as = ElideHTML(b)
      BY <2>1 DEF ElideQuotedReplyBody
    <2>3. TailElided(b, as)
      BY <1>1, <2>2, HTMLTail
    <2> HIDE DEF as
    <2>4. BottomKept(b, as)
      BY <1>1, <2>1, <2>2, HTMLBottom DEF BottomKept
    <2> QED
      BY <2>1, <2>3, <2>4 DEF as
  <1>2. CASE b \in PlainBody
    <2> DEFINE s == b.lines
               t == ElidePlain(s)
    <2>1. b.html = FALSE /\ s \in Seq(Line) /\ b = Plain(s)
      BY <1>2 DEF PlainBody, Plain
    <2>2. as = Plain(t) /\ as.html = FALSE /\ as.lines = t
      BY <2>1 DEF ElideQuotedReplyBody, Plain
    <2>3. /\ t \in Seq(Line)
          /\ t = s \/ \E n \in 0..Len(s)-1 : t = Append(SubSeq(s, 1, n), "elided")
          /\ ElidePlain(t) = t
          /\ \A k \in 1..Len(s) :
               s[k] = "text" /\ (\A j \in k+1..Len(s) : s[j] = "blank") /\ "marker" \notin Range(s)
                 => t = s
      BY <2>1, PlainElision
    <2> HIDE DEF s, t, as
    <2>4. ElideQuotedReplyBody(as) = as
      BY <2>2, <2>3 DEF ElideQuotedReplyBody
    <2>5. BottomKept(b, as)
      <3> SUFFICES ASSUME EndsWith(s, "text", "blank"), "marker" \notin Range(s)
                   PROVE  as = b
        BY <2>1 DEF BottomKept, s
      <3>1. Len(s) \in Nat /\ DOMAIN s = 1..Len(s)
        BY <2>1
      <3>2. PICK k \in 1..Len(s) : s[k] = "text" /\ \A j \in 1..Len(s) : j > k => s[j] = "blank"
        BY <3>1 DEF EndsWith
      <3>3. \A j \in k+1..Len(s) : s[j] = "blank"
        BY <3>1, <3>2
      <3>4. t = s
        BY <2>3, <3>2, <3>3
      <3> QED
        BY <2>1, <2>2, <3>4
    <2>6. TailElided(b, as)
      <3> SUFFICES ASSUME as # b
                   PROVE  /\ Content(as) # <<>> /\ Last(Content(as)) = Mark(b)
                          /\ IsPrefix(Front(Content(as)), Content(b))
        BY DEF TailElided
      <3>1. Content(as) = t /\ Content(b) = s /\ Mark(b) = "elided"
        BY <2>1, <2>2 DEF Content, Mark, s
      <3>2. PICK n \in 0..Len(s)-1 : t = Append(SubSeq(s, 1, n), "elided")
        BY <2>1, <2>2, <2>3
      <3> DEFINE X == SubSeq(s, 1, n)
                 Y == SubSeq(s, n + 1, Len(s))
      <3>3. X \in Seq(Line) /\ Y \in Seq(Line) /\ s = X \o Y
        <4>1. n \in 0..Len(s)
          BY <2>1
        <4> QED
          BY <2>1, <4>1, Halves
      <3>4. Append(X, "elided") = X \o <<"elided">>
        <4>1. "elided" \in Line
          BY DEF Line
        <4> HIDE DEF X
        <4> QED
          BY <3>3, <4>1
      <3>5. t = X \o <<"elided">>
        BY <3>2, <3>4
      <3> HIDE DEF X, Y
      <3>6. /\ X \o <<"elided">> # <<>> /\ Last(X \o <<"elided">>) = "elided"
            /\ IsPrefix(Front(X \o <<"elided">>), X \o Y)
        BY <3>3, MarkedTail
      <3> QED
        BY <3>1, <3>3, <3>5, <3>6
    <2> QED
      BY <2>1, <2>4, <2>5, <2>6 DEF as
  <1> QED
    BY <1>1, <1>2

Readable(b) == b \in PlainBody \/ HTMLBody(b)

\* The body of a draft: what the user wrote, in a reply with its source below.
WholeBody ==
  IF IsReply /\ ~cmd.noQuote /\ source.body # None THEN Quote(Composed.body, source.body)
  ELSE Composed.body

\* What is read is the elision of a body, and the body of a draft is whole.
ReadInv ==
  /\ pc \in {"profile", "derive"} =>
       src = IF cmd.noQuote THEN [source EXCEPT !.body = None] ELSE source
  /\ pc = "create" \/ drafts # {} => Problems = {} /\ draft.body = WholeBody
  /\ shown = None
     \/ \E b : Readable(b) /\ shown = [of |-> b, as |-> ElideQuotedReplyBody(b)]

\* What is written is typed by its format.
LEMMA AuthoredTypes ==
  ASSUME DraftInv, Problems = {}
  PROVE  /\ Deep \in Nat /\ WellFormed(Nodes)
         /\ source.body \in {None} \cup Body
         /\ DOMAIN source = Fields
         /\ \/ cmd.authored \in Seq(Line) /\ Composed.body = Plain(cmd.authored)
            \/ /\ cmd.authored \in Seq(Nodes) /\ cmd.balanced \in BOOLEAN
               /\ Composed.body = HTML(cmd.authored, cmd.balanced)
  <1>0. PICK S \in Cases : \E c \in S : cmd = c.cmd /\ source = c.source
    BY DEF DraftInv
  <1>1. PICK c \in S : cmd = c.cmd /\ source = c.source
    BY <1>0
  <1>2. /\ cmd.formats = {"plain"} => cmd.authored \in Seq(Line)
        /\ ~(Cardinality(cmd.formats) > 1) /\ cmd.formats # {"plain"} => cmd.authored \in Seq(Nodes)
        /\ cmd.balanced \in BOOLEAN /\ source.body \in {None} \cup Body /\ DOMAIN source = Fields
    BY <1>1, DraftAssumption DEF DraftConstants
  <1>3. Deep \in Nat /\ WellFormed(Nodes)
    BY DraftAssumption DEF DraftConstants, WellFormed
  <1>4. ~(Cardinality(cmd.formats) > 1)
    <2>1. "format" \notin Problems
      OBVIOUS
    <2> QED
      BY <2>1 DEF Problems
  <1>5. Composed.body = IF cmd.formats = {"plain"} THEN Plain(cmd.authored)
                        ELSE HTML(cmd.authored, cmd.balanced)
    BY DEF Composed, Empty
  <1> QED
    BY <1>2, <1>3, <1>4, <1>5

\* The body of a message and that of a draft have a form that can be read.
LEMMA SourceReadable ==
  ASSUME DraftInv, source.body # None
  PROVE  source.body \in Body /\ Readable(source.body)
  <1>0. PICK S \in Cases : \E c \in S : cmd = c.cmd /\ source = c.source
    BY DEF DraftInv
  <1>1. source.body \in Body
    BY <1>0, DraftAssumption DEF DraftConstants
  <1>2. WellFormed(Nodes)
    BY DraftAssumption DEF DraftConstants, WellFormed
  <1> QED
    BY <1>1, <1>2 DEF Body, Readable, PlainBody, HTMLBody

\* The lines of a quote.
LEMMA QuoteLines ==
  ASSUME NEW lines \in Seq(Line)
  PROVE  LET q == QuotePlain(lines)
         IN  /\ q \in Seq(Line) /\ Len(q) = Len(lines)
             /\ \A j \in 1..Len(lines) : q[j] = IF lines[j] \in {"blank", "emptyquote"}
                                                THEN "emptyquote" ELSE "quote"
  <1>1. Len(lines) \in Nat /\ DOMAIN lines = 1..Len(lines)
    OBVIOUS
  <1>2. "emptyquote" \in Line /\ "quote" \in Line
    BY DEF Line
  <1>3. QuotePlain(lines) \in [1..Len(lines) -> Line]
    BY <1>1, <1>2 DEF QuotePlain
  <1>4. \A j \in 1..Len(lines) : QuotePlain(lines)[j] = IF lines[j] \in {"blank", "emptyquote"}
                                                        THEN "emptyquote" ELSE "quote"
    BY <1>1 DEF QuotePlain
  <1> QED
    BY <1>1, <1>3, <1>4

\* A plain reply: the text and a blank line, if any text, the attribution and
\* a blank line, and the quote.
LEMMA ReplyLines ==
  ASSUME NEW A \in Seq(Line), NEW q \in Seq(Line)
  PROVE  \E P \in Seq(Line) :
           /\ \/ P = A /\ A = <<>>
              \/ P = A \o <<"blank">> /\ A # <<>>
           /\ QuoteReply(A, q) = P \o (<<"attribution", "blank">> \o q)
           /\ <<"attribution", "blank">> \o q \in Seq(Line)
  <1>1. "blank" \in Line /\ "attribution" \in Line
    BY DEF Line
  <1>2. <<"attribution", "blank">> \in Seq(Line)
    BY <1>1
  <1> DEFINE h == <<"attribution", "blank">>
             P == IF A = <<>> THEN <<>> ELSE Append(A, "blank")
  <1>3. QuoteReply(A, q) = (P \o h) \o q
    BY DEF QuoteReply
  <1>4. /\ P \in Seq(Line)
        /\ \/ P = A /\ A = <<>>
           \/ P = A \o <<"blank">> /\ A # <<>>
    <2>1. Append(A, "blank") \in Seq(Line) /\ Append(A, "blank") = A \o <<"blank">>
      BY <1>1
    <2> QED
      BY <2>1
  <1> HIDE DEF P, h
  <1>5. (P \o h) \o q = P \o (h \o q) /\ h \o q \in Seq(Line)
    BY <1>2, <1>4, ConcatAgain, ConcatIs DEF h
  <1> QED
    BY <1>3, <1>4, <1>5 DEF h

\* A quote of a message is a body that can be read.
LEMMA QuoteReadable ==
  ASSUME NEW of \in Body, WellFormed(Nodes),
         NEW body, body \in PlainBody \/ body \in [html : {TRUE}, kids : Seq(Nodes), balanced : BOOLEAN]
  PROVE  Readable(Quote(body, of))
  <1>1. CASE body \in PlainBody
    <2> DEFINE l == IF of.html THEN <<"text">> ELSE of.lines
    <2>1. body.html = FALSE /\ body.lines \in Seq(Line)
      BY <1>1 DEF PlainBody
    <2>2. Quote(body, of) = [body EXCEPT !.lines = QuoteReply(@, QuotePlain(l))]
      BY <2>1 DEF Quote
    <2>3. l \in Seq(Line)
      <3>1. "text" \in Line
        BY DEF Line
      <3>2. <<"text">> \in Seq(Line)
        BY <3>1
      <3>3. ~of.html => of.lines \in Seq(Line)
        BY DEF Body
      <3> QED
        BY <3>2, <3>3
    <2> HIDE DEF l
    <2>4. QuotePlain(l) \in Seq(Line)
      BY <2>3, QuoteLines
    <2>5. QuoteReply(body.lines, QuotePlain(l)) \in Seq(Line)
      <3>1. PICK P \in Seq(Line) :
              /\ QuoteReply(body.lines, QuotePlain(l)) = P \o (<<"attribution", "blank">> \o QuotePlain(l))
              /\ <<"attribution", "blank">> \o QuotePlain(l) \in Seq(Line)
        BY <2>1, <2>4, ReplyLines
      <3> QED
        BY <3>1, ConcatIs
    <2> QED
      BY <1>1, <2>2, <2>5 DEF PlainBody, Readable
  <1>2. CASE body \in [html : {TRUE}, kids : Seq(Nodes), balanced : BOOLEAN]
    <2> DEFINE blanks == [i \in DOMAIN of.lines |->
                            Leaf(IF of.lines[i] = "blank" THEN "space" ELSE "text")]
               inner == IF of.html THEN IF Parses(of) THEN of.kids ELSE <<Leaf("text")>> ELSE blanks
               deep  == Node("quote", inner)
               block == Node("quote", <<Leaf("text"), Leaf("space"), deep>>)
               text  == Leaf("text")
               space == Leaf("space")
               U     == Nodes \cup {text, space, deep, block}
               kids  == IF body.kids = <<>> THEN <<block>> ELSE body.kids \o <<space, block>>
    <2>1. body.html = TRUE /\ body.kids \in Seq(Nodes)
      BY <1>2
    <2>2. Quote(body, of) = [body EXCEPT !.kids = kids]
      BY <2>1 DEF Quote
    <2>3. inner \in Seq(Nodes \cup {text, space})
      <3>1. CASE of.html
        <4>1. of.kids \in Seq(Nodes)
          BY <3>1 DEF Body
        <4>2. <<text>> \in Seq(Nodes \cup {text, space})
          OBVIOUS
        <4> HIDE DEF text, space
        <4>3. of.kids \in Seq(Nodes \cup {text, space})
          BY <4>1
        <4>4. inner \in {of.kids, <<text>>}
          BY <3>1 DEF text
        <4> HIDE DEF inner
        <4> QED
          BY <4>2, <4>3, <4>4
      <3>2. CASE ~of.html
        <4>1. of.lines \in Seq(Line)
          BY <3>2 DEF Body
        <4>2. Len(of.lines) \in Nat /\ DOMAIN of.lines = 1..Len(of.lines)
          BY <4>1
        <4>3. \A i \in 1..Len(of.lines) :
                Leaf(IF of.lines[i] = "blank" THEN "space" ELSE "text") \in {text, space}
          OBVIOUS
        <4>4. blanks \in [1..Len(of.lines) -> Nodes \cup {text, space}]
          BY <4>2, <4>3
        <4> HIDE DEF blanks, text, space
        <4>5. blanks \in Seq(Nodes \cup {text, space})
          BY <4>2, <4>4
        <4> QED
          BY <3>2, <4>5
      <3> QED
        BY <3>1, <3>2
    <2> HIDE DEF inner
    <2>4. /\ text.kids = <<>> /\ text = Node(text.tag, text.kids)
          /\ space.kids = <<>> /\ space = Node(space.tag, space.kids)
          /\ deep.tag = "quote" /\ deep.kids = inner /\ deep = Node(deep.tag, deep.kids)
      BY DEF Leaf, Node
    <2>5. /\ block.tag = "quote" /\ block.kids = <<text, space, deep>>
          /\ block = Node(block.tag, block.kids)
      BY DEF Node
    <2> HIDE DEF text, space, deep, block
    <2>6. WellFormed(U)
      <3>1. /\ \A n \in Nodes : n = Node(n.tag, n.kids) /\ n.kids \in Seq(Nodes)
                                /\ (n.tag \in Childless => n.kids = <<>>)
            /\ Seq(Nodes) \subseteq Seq(U)
        BY DEF WellFormed
      <3>2. inner \in Seq(U) /\ <<>> \in Seq(U) /\ <<text, space, deep>> \in Seq(U)
        BY <2>3
      <3>3. "quote" \notin Childless
        BY DEF Childless
      <3> QED
        BY <2>4, <2>5, <3>1, <3>2, <3>3 DEF WellFormed
    <2>7. kids \in Seq(U)
      <3>1. body.kids \in Seq(U) /\ <<space, block>> \in Seq(U) /\ <<block>> \in Seq(U)
        BY <2>1
      <3> HIDE DEF U
      <3> QED
        BY <3>1, ConcatIs
    <2> HIDE DEF U, kids
    <2>8. Quote(body, of) \in [html : {TRUE}, kids : Seq(U), balanced : BOOLEAN]
      BY <1>2, <2>2, <2>7
    <2> QED
      BY <2>6, <2>8 DEF Readable, HTMLBody
  <1> QED
    BY <1>1, <1>2

\* The body of a draft is one that can be read.
LEMMA WholeReadable ==
  ASSUME DraftInv, Problems = {}
  PROVE  Readable(WholeBody)
  <1>1. \/ Composed.body \in PlainBody
        \/ Composed.body \in [html : {TRUE}, kids : Seq(Nodes), balanced : BOOLEAN]
    <2> DEFINE body == Composed.body
    <2>1. \/ cmd.authored \in Seq(Line) /\ body = Plain(cmd.authored)
          \/ /\ cmd.authored \in Seq(Nodes) /\ cmd.balanced \in BOOLEAN
             /\ body = HTML(cmd.authored, cmd.balanced)
      BY AuthoredTypes
    <2> HIDE DEF body
    <2>2. CASE cmd.authored \in Seq(Line) /\ body = Plain(cmd.authored)
      <3>1. Plain(cmd.authored) \in PlainBody
        BY <2>2 DEF PlainBody, Plain
      <3> QED
        BY <2>2, <3>1 DEF body
    <2>3. CASE /\ cmd.authored \in Seq(Nodes) /\ cmd.balanced \in BOOLEAN
               /\ body = HTML(cmd.authored, cmd.balanced)
      <3>1. HTML(cmd.authored, cmd.balanced)
              \in [html : {TRUE}, kids : Seq(Nodes), balanced : BOOLEAN]
        BY <2>3 DEF HTML
      <3> QED
        BY <2>3, <3>1 DEF body
    <2> QED
      BY <2>1, <2>2, <2>3
  <1>2. Readable(Composed.body)
    BY <1>1, AuthoredTypes DEF Readable, HTMLBody
  <1>3. ASSUME source.body # None PROVE Readable(Quote(Composed.body, source.body))
    <2>1. source.body \in Body
      BY <1>3, SourceReadable
    <2>2. WellFormed(Nodes)
      BY AuthoredTypes
    <2> HIDE DEF Composed
    <2> QED
      BY <1>1, <2>1, <2>2, QuoteReadable
  <1> QED
    BY <1>2, <1>3 DEF WholeBody

\* Every step keeps ReadInv.
LEMMA ReadStep == DraftInv /\ ReadInv /\ [Next]_vars => ReadInv'
  <1> SUFFICES ASSUME DraftInv, ReadInv, [Next]_vars PROVE ReadInv'
    OBVIOUS
  <1> DEFINE Asked == IF cmd.noQuote THEN [source EXCEPT !.body = None] ELSE source
             Shown(x) == x = None
                         \/ \E b : Readable(b) /\ x = [of |-> b, as |-> ElideQuotedReplyBody(b)]
             Goal ==
               /\ pc' \in {"profile", "derive"} => src' = Asked
               /\ pc' = "create" \/ drafts' # {} => Problems = {} /\ draft'.body = WholeBody
               /\ Shown(shown')
  <1>0. UNCHANGED <<cmd, source>>
    BY DEF Next, Reject, Compose, ComposeFails, NewClient, FetchSource, FetchProfile, ServiceFails,
           Derive, DeriveFails, BuildFails, CreateDraft, CreateFails, Read, Fail, vars
  <1>1. Goal => ReadInv'
    <2> SUFFICES ASSUME Goal PROVE ReadInv'
      OBVIOUS
    <2>1. Problems' = Problems /\ WholeBody' = WholeBody
      BY <1>0 DEF Composed, OrNone, Given, Problems, IsReply, WholeBody
    <2>2. (Readable(shown))' <=> Readable(shown')
      BY DEF Readable, HTMLBody, PlainBody
    <2> HIDE DEF Problems, WholeBody
    <2> QED
      BY <1>0, <2>1 DEF ReadInv
  <1>2. SUFFICES Goal
    BY <1>1
  <1>3. /\ Shown(shown)
        /\ pc \in {"profile", "derive"} => src = Asked
        /\ pc = "create" \/ drafts # {} => Problems = {} /\ draft.body = WholeBody
    BY DEF ReadInv
  <1> HIDE DEF Shown, Asked
  <1>4. CASE UNCHANGED <<cmd, source, src, self, draft, drafts, shown>> /\ pc' \in {pc, "failed"}
    BY <1>3, <1>4
  <1>5. CASE UNCHANGED vars \/ Reject \/ ComposeFails \/ ServiceFails \/ DeriveFails \/ BuildFails
             \/ CreateFails
    BY <1>4, <1>5 DEF vars, Reject, ComposeFails, ServiceFails, DeriveFails, BuildFails, CreateFails,
                     Fail
  <1>6. CASE Compose
    <2>1. pc = "flags" /\ pc' = "client" /\ drafts' = drafts /\ shown' = shown
      BY <1>6 DEF Compose
    <2> QED
      BY <1>3, <2>1 DEF DraftInv
  <1>7. CASE NewClient
    <2>1. /\ pc = "client" /\ pc' = (IF IsReply THEN "fetch" ELSE "create")
          /\ UNCHANGED <<src, self, draft, drafts, shown>>
      BY <1>7 DEF NewClient
    <2>2. draft = Composed /\ Problems = {} /\ drafts = {}
      BY <2>1 DEF DraftInv
    <2> QED
      BY <1>3, <2>1, <2>2 DEF WholeBody
  <1>8. CASE FetchSource
    <2>1. pc = "fetch" /\ pc' \in {"profile", "derive"} /\ src' = Asked /\ UNCHANGED <<drafts, shown>>
      BY <1>8 DEF FetchSource, Asked
    <2>2. drafts = {}
      BY <2>1 DEF DraftInv
    <2> QED
      BY <1>3, <2>1, <2>2
  <1>9. CASE FetchProfile
    <2>1. pc = "profile" /\ pc' = "derive" /\ UNCHANGED <<src, drafts, shown>>
      BY <1>9 DEF FetchProfile
    <2>2. drafts = {}
      BY <2>1 DEF DraftInv
    <2> QED
      BY <1>3, <2>1, <2>2
  <1>10. CASE Derive
    <2>1. /\ pc = "derive" /\ pc' = "create" /\ UNCHANGED <<src, drafts, shown>>
          /\ draft' = [draft EXCEPT
               !.thread = src.thread, !.inReplyTo = src.id,
               !.refs = BuildReferences(src.refs, src.id),
               !.to = IF Needs.to THEN <<src.from>> ELSE @,
               !.cc = IF Needs.cc THEN FilterSelf(src.to \o src.cc, self) ELSE @,
               !.subject = IF Needs.subject THEN AddRePrefix(src.subject) ELSE @,
               !.body = IF src.body # None THEN Quote(@, src.body) ELSE @]
      BY <1>10 DEF Derive
    <2>2. draft = Composed /\ Problems = {} /\ IsReply /\ src = Asked
      BY <1>3, <2>1 DEF DraftInv
    <2>3. "body" \in DOMAIN draft
      BY <2>2 DEF Composed, Empty
    <2>4. draft'.body = IF src.body # None THEN Quote(draft.body, src.body) ELSE draft.body
      BY <2>1, <2>3
    <2>5. src.body = IF cmd.noQuote THEN None ELSE source.body
      BY <2>2, AuthoredTypes DEF Asked, Fields
    <2>6. draft'.body = WholeBody
      BY <2>2, <2>4, <2>5 DEF WholeBody
    <2> QED
      BY <1>3, <2>1, <2>2, <2>6
  <1>11. CASE CreateDraft
    <2>1. pc = "create" /\ pc' \in {"created", "failed"} /\ UNCHANGED <<draft, shown>>
      BY <1>11 DEF CreateDraft
    <2> QED
      BY <1>3, <2>1
  <1>12. ASSUME NEW m \in drafts \cup {source}, Read(m.body) PROVE Goal
    <2>1. /\ pc' = "shown" /\ m.body # None /\ UNCHANGED <<draft, drafts>>
          /\ shown' = [of |-> m.body, as |-> ElideQuotedReplyBody(m.body)]
      BY <1>12 DEF Read
    <2>2. Readable(m.body)
      <3>1. CASE m = source
        BY <2>1, <3>1, SourceReadable
      <3>2. CASE m \in drafts
        <4>1. m = draft /\ drafts # {}
          BY <3>2 DEF DraftInv
        <4>2. Problems = {} /\ draft.body = WholeBody
          BY <1>3, <4>1
        <4> QED
          BY <4>1, <4>2, WholeReadable
      <3> QED
        BY <3>1, <3>2
    <2>3. Shown(shown')
      BY <2>1, <2>2 DEF Shown
    <2> QED
      BY <1>3, <2>1, <2>3
  <1> QED
    BY <1>5, <1>6, <1>7, <1>8, <1>9, <1>10, <1>11, <1>12 DEF Next

\* Both invariants hold of every state.
LEMMA ReadInvariant == MailSpec => [](DraftInv /\ ReadInv)
  <1>1. MailInit => ReadInv
    BY DEF MailInit, Init, ReadInv
  <1>2. DraftInv /\ ReadInv /\ [MailNext]_<<kind, vars, bulkVars, downloadVars>> => ReadInv'
    <2>1. [MailNext]_<<kind, vars, bulkVars, downloadVars>> => [Next]_vars
      BY DEF MailNext
    <2> QED
      BY <2>1, ReadStep
  <1> QED
    BY <1>1, <1>2, DraftInvariant, PTL DEF MailSpec

\* Whatever the body, `mail read` takes a quote off its end and nothing the
\* user wrote below one: all that stands before what is elided is shown.
THEOREM ElidedSafely == MailSpec => []ElisionSafe
  <1>1. ReadInv => ElisionSafe
    <2> SUFFICES ASSUME ReadInv PROVE ElisionSafe
      OBVIOUS
    <2>1. CASE shown = None
      BY <2>1 DEF ElisionSafe, OnlyTailElided, BottomReplyKept, ElidedOnce
    <2>2. CASE shown # None
      <3>1. PICK b : Readable(b) /\ shown = [of |-> b, as |-> ElideQuotedReplyBody(b)]
        BY <2>2 DEF ReadInv
      <3>2. Deep \in Nat
        BY DraftAssumption DEF DraftConstants
      <3> DEFINE as == ElideQuotedReplyBody(b)
      <3>3. /\ TailElided(b, as) /\ BottomKept(b, as)
            /\ ~b.html => ElideQuotedReplyBody(as) = as
        BY <3>1, <3>2, BodyElided DEF Readable
      <3>4. shown.of = b /\ shown.as = as
        BY <3>1
      <3> HIDE DEF as
      <3> QED
        BY <3>3, <3>4 DEF ElisionSafe, OnlyTailElided, BottomReplyKept, ElidedOnce, TailElided,
                          BottomKept
    <2> QED
      BY <2>1, <2>2
  <1> QED
    BY <1>1, ReadInvariant, PTL

-----------------------------------------------------------------------------
(* What `mail draft` writes around a source, `mail read` finds.            *)

\* Line by line, a plain reply.
LEMMA ReplyLineByLine ==
  ASSUME NEW A \in Seq(Line), NEW q \in Seq(Line)
  PROVE  LET s == QuoteReply(A, q)
         IN  \E n \in Nat : \E blank \in {<<>>, <<"blank">>} :
               /\ s \in Seq(Line) /\ Len(s) = n + 2 + Len(q)
               /\ SubSeq(s, 1, n) = A \o blank
               /\ \/ n = Len(A) /\ n = 0
                  \/ n = Len(A) + 1 /\ s[n] = "blank"
               /\ \A j \in 1..Len(A) : s[j] = A[j]
               /\ s[n + 1] = "attribution" /\ s[n + 2] = "blank"
               /\ \A j \in 1..Len(q) : s[n + 2 + j] = q[j]
  <1> DEFINE s == QuoteReply(A, q)
             h == <<"attribution", "blank">>
             u == h \o q
             a == Len(A)
             k == Len(q)
  <1>1. PICK P \in Seq(Line) :
           /\ \/ P = A /\ A = <<>>
              \/ P = A \o <<"blank">> /\ A # <<>>
           /\ s = P \o u /\ u \in Seq(Line)
    BY ReplyLines
  <1> HIDE DEF s
  <1> DEFINE n == Len(P)
  <1>2. n \in Nat /\ a \in Nat /\ k \in Nat
    OBVIOUS
  <1>3. /\ h \in Seq(Line) /\ Len(h) = 2 /\ h[1] = "attribution" /\ h[2] = "blank"
        /\ <<"blank">> \in Seq(Line) /\ Len(<<"blank">>) = 1 /\ <<"blank">>[1] = "blank"
    <2>1. "blank" \in Line /\ "attribution" \in Line
      BY DEF Line
    <2> QED
      BY <2>1
  <1> HIDE DEF h
  <1>4. /\ Len(u) = 2 + k /\ u[1] = "attribution" /\ u[2] = "blank"
        /\ \A j \in 1..k : u[2 + j] = q[j]
    <2>1. /\ Len(u) = Len(h) + k /\ \A j \in 1..Len(h) : u[j] = h[j]
          /\ \A j \in 1..k : u[Len(h) + j] = q[j]
      <3>1. h \in Seq(Line)
        BY <1>3
      <3> QED
        BY <3>1, ConcatIs
    <2>2. 1 \in 1..2 /\ 2 \in 1..2
      OBVIOUS
    <2> HIDE DEF u
    <2> QED
      BY <1>3, <2>1, <2>2
  <1> HIDE DEF u
  <1>5. /\ s \in Seq(Line) /\ Len(s) = n + Len(u) /\ \A j \in 1..n : s[j] = P[j]
        /\ \A j \in 1..Len(u) : s[n + j] = u[j]
    BY <1>1, ConcatIs
  <1>6. SubSeq(s, 1, n) = P
    <2> DEFINE t == SubSeq(s, 1, n)
    <2>1. Len(s) >= n
      BY <1>2, <1>4, <1>5
    <2>2. t \in Seq(Line) /\ Len(t) = n /\ \A j \in 1..n : t[j] = s[j]
      BY <1>2, <1>5, <2>1
    <2>3. \A j \in 1..n : t[j] = P[j]
      BY <1>5, <2>2
    <2> HIDE DEF t
    <2>4. t = P
      BY <2>2, <2>3
    <2> QED
      BY <2>4 DEF t
  <1>7. /\ Len(s) = n + 2 + k /\ s[n + 1] = "attribution" /\ s[n + 2] = "blank"
        /\ \A j \in 1..k : s[n + 2 + j] = q[j]
    <2>1. 1 \in 1..Len(u) /\ 2 \in 1..Len(u) /\ Len(s) = n + 2 + k
      BY <1>2, <1>4, <1>5
    <2>2. ASSUME NEW j \in 1..k PROVE s[n + 2 + j] = q[j]
      <3>1. 2 + j \in 1..Len(u) /\ n + (2 + j) = n + 2 + j
        BY <1>2, <1>4
      <3>2. s[n + (2 + j)] = u[2 + j]
        BY <1>5, <3>1
      <3> QED
        BY <1>4, <3>1, <3>2
    <2> QED
      BY <1>4, <1>5, <2>1, <2>2
  <1>8. CASE P = A /\ A = <<>>
    <2>1. n = a /\ n = 0 /\ \A j \in 1..a : s[j] = A[j]
      BY <1>5, <1>8
    <2>2. P = A \o <<>>
      BY <1>8
    <2> QED
      BY <1>2, <1>5, <1>6, <1>7, <2>1, <2>2 DEF s
  <1>9. CASE P = A \o <<"blank">>
    <2>1. n = a + 1 /\ P[a + 1] = "blank" /\ \A j \in 1..a : P[j] = A[j]
      <3>1. /\ n = a + Len(<<"blank">>) /\ \A j \in 1..a : P[j] = A[j]
            /\ \A j \in 1..Len(<<"blank">>) : P[a + j] = <<"blank">>[j]
        BY <1>3, <1>9, ConcatIs
      <3>2. 1 \in 1..1
        OBVIOUS
      <3> HIDE DEF n
      <3> QED
        BY <1>3, <3>1, <3>2
    <2>2. a + 1 \in 1..n /\ \A j \in 1..a : j \in 1..n
      BY <1>2, <2>1
    <2>3. s[n] = "blank" /\ \A j \in 1..a : s[j] = A[j]
      BY <1>5, <2>1, <2>2
    <2> QED
      BY <1>2, <1>5, <1>6, <1>7, <1>9, <2>1, <2>3 DEF s
  <1> QED
    BY <1>1, <1>8, <1>9

\* A plain reply is cut at the attribution that heads its quote.
LEMMA ReplyCut ==
  ASSUME NEW A \in Seq(Line), NEW lines \in Seq(Line),
         \E j \in 1..Len(lines) : lines[j] \notin {"blank", "emptyquote"},
         "forward" \notin Range(A), "marker" \notin Range(A)
  PROVE  \E blank \in {<<>>, <<"blank">>} :
           ElidePlain(QuoteReply(A, QuotePlain(lines))) = A \o blank \o <<"elided">>
  <1> DEFINE q == QuotePlain(lines)
             s == QuoteReply(A, q)
             a == Len(A)
             k == Len(q)
  <1>1. /\ q \in Seq(Line) /\ k = Len(lines)
        /\ \A j \in 1..Len(lines) : q[j] = IF lines[j] \in {"blank", "emptyquote"}
                                           THEN "emptyquote" ELSE "quote"
    BY QuoteLines
  <1> HIDE DEF q
  <1>2. PICK n \in Nat, blank \in {<<>>, <<"blank">>} :
               /\ s \in Seq(Line) /\ Len(s) = n + 2 + k
               /\ SubSeq(s, 1, n) = A \o blank
               /\ \/ n = Len(A) /\ n = 0
                  \/ n = Len(A) + 1 /\ s[n] = "blank"
               /\ \A j \in 1..a : s[j] = A[j]
               /\ s[n + 1] = "attribution" /\ s[n + 2] = "blank"
               /\ \A j \in 1..k : s[n + 2 + j] = q[j]
    BY <1>1, ReplyLineByLine
  <1> HIDE DEF s
  <1>3. /\ a \in Nat /\ k \in Nat /\ DOMAIN A = 1..a /\ DOMAIN s = 1..Len(s)
        /\ Len(s) \in Nat /\ Len(s) = n + 2 + k /\ ((n = a /\ n = 0) \/ n = a + 1)
    BY <1>1, <1>2
  <1>0. /\ n + 1 \in 1..Len(s) /\ (n + 1) + 1 = n + 2 /\ n \in Nat
        /\ \A j \in n+2..Len(s) : j # n + 2 => j - (n + 2) \in 1..k /\ n + 2 + (j - (n + 2)) = j
        /\ \A j \in 1..k : n + 2 + j \in n+2..Len(s)
        /\ \A j \in 1..Len(s) : j <= n \/ j = n + 1 \/ j \in n+2..Len(s)
        /\ \A j \in 1..Len(s) : j <= n => j \in 1..n
        /\ \A e \in 0..n : n + 1 \in e+1..Len(s)
    <2> HIDE DEF a, k
    <2> QED
      BY <1>3
  <1>4. \A j \in 1..k : Quoted(q[j])
    BY <1>1 DEF Quoted
  <1>5. ASSUME NEW j \in n+2..Len(s) PROVE s[j] = "blank" \/ Quoted(s[j])
    <2>1. CASE j = n + 2
      BY <1>2, <2>1
    <2>2. CASE j # n + 2
      <3>1. j - (n + 2) \in 1..k /\ n + 2 + (j - (n + 2)) = j
        BY <1>0, <2>2
      <3>2. s[j] = q[j - (n + 2)]
        BY <1>2, <3>1
      <3> QED
        BY <1>4, <3>1, <3>2
    <2> QED
      BY <2>1, <2>2
  <1>6. \E j \in n+2..Len(s) : s[j] = "quote"
    <2>1. PICK j \in 1..k : q[j] = "quote"
      <3>1. PICK j \in 1..Len(lines) : lines[j] \notin {"blank", "emptyquote"}
        OBVIOUS
      <3> QED
        BY <1>1, <3>1
    <2>2. n + 2 + j \in n+2..Len(s)
      BY <1>0, <2>1
    <2> QED
      BY <1>2, <2>1, <2>2
  <1>7. ASSUME NEW i \in 1..n, s[i] # "blank" PROVE i \in 1..a /\ s[i] = A[i]
    <2>0. n # 0
      BY <1>0
    <2>1. n = a + 1 /\ s[n] = "blank"
      BY <1>2, <2>0
    <2>2. i # n
      BY <1>7, <2>1
    <2>3. i \in 1..a
      <3> HIDE DEF a
      <3> QED
        BY <1>3, <2>1, <2>2
    <2> QED
      BY <1>2, <2>3
  <1>9. "forward" \notin Range(s)
    <2> SUFFICES ASSUME NEW j \in 1..Len(s), s[j] = "forward" PROVE FALSE
      BY <1>3 DEF Range
    <2>1. CASE j <= n
      <3>1. j \in 1..n
        BY <1>0, <2>1
      <3>2. j \in 1..a /\ A[j] = "forward"
        BY <1>7, <3>1
      <3> QED
        BY <1>3, <3>2 DEF Range
    <2>2. CASE j = n + 1
      BY <1>2, <2>2
    <2>3. CASE j \in n+2..Len(s)
      BY <1>5, <2>3 DEF Quoted
    <2> QED
      BY <1>0, <2>1, <2>2, <2>3
  <1>10. n + 1 \in Cuts(s)
    <2>1. s[n + 1] = "attribution"
      BY <1>2
    <2>2. n + 1 \in AttributionEnd(s, n + 1)
      BY <2>1 DEF AttributionEnd
    <2>3. HasQuotedSuffix(s, n + 1)
      BY <1>0, <1>5, <1>6 DEF HasQuotedSuffix
    <2> QED
      BY <1>0, <2>2, <2>3 DEF Cuts
  <1>11. ASSUME NEW i \in Cuts(s), i <= n PROVE FALSE
    <2>0. s \in Seq(Line) /\ s[n + 1] = "attribution"
      BY <1>2
    <2>1. i \in 1..Len(s) /\ s[i] \in {"attribution", "on", "marker"}
      BY <2>0, CutLine
    <2>2. i \in 1..n
      BY <1>0, <1>11, <2>1
    <2>3. i \in 1..a /\ s[i] = A[i]
      BY <1>7, <2>1, <2>2
    <2>4. s[i] # "marker"
      BY <1>3, <2>3 DEF Range
    <2>5. PICK e \in AttributionEnd(s, i) : HasQuotedSuffix(s, e)
      BY <2>4 DEF Cuts
    <2>6. CASE s[i] = "attribution"
      <3>1. e = i
        BY <2>5, <2>6 DEF AttributionEnd
      <3>2. n + 1 \in e+1..Len(s)
        <4>1. i \in 0..n
          BY <1>0, <2>2
        <4> QED
          BY <1>0, <3>1, <4>1
      <3> QED
        BY <2>0, <2>5, <3>2 DEF HasQuotedSuffix, Quoted
    <2>7. CASE s[i] # "attribution"
      <3>1. /\ e \in (i + 1)..Len(s) /\ e <= i + 2
            /\ \A j \in (i + 1)..(e - 1) : s[j] # "blank"
        BY <2>5, <2>7 DEF AttributionEnd
      <3>2. CASE e <= n
        <4>1. n + 1 \in e+1..Len(s)
          <5>1. e \in 0..n
            BY <1>0, <2>2, <3>1, <3>2
          <5> QED
            BY <1>0, <5>1
        <4> QED
          BY <2>0, <2>5, <4>1 DEF HasQuotedSuffix, Quoted
      <3>3. CASE ~(e <= n)
        <4>1. n = a + 1 /\ s[n] = "blank"
          <5>1. n # 0
            BY <1>0, <2>2
          <5> QED
            BY <1>2, <5>1
        <4>2. n \in (i + 1)..(e - 1)
          <5> HIDE DEF a
          <5> QED
            BY <1>0, <1>3, <2>3, <3>1, <3>3, <4>1
        <4> QED
          BY <3>1, <4>1, <4>2
      <3> QED
        BY <3>2, <3>3
    <2> QED
      BY <2>6, <2>7
  <1>12. Min(Cuts(s)) = n + 1
    <2>1. Cuts(s) \in SUBSET Nat /\ Cuts(s) # {}
      BY <1>2, <1>10, CutLine
    <2> DEFINE c == Min(Cuts(s))
    <2>2. c \in Cuts(s) /\ \A i \in Cuts(s) : c <= i
      BY <2>1, MinIs
    <2> HIDE DEF c
    <2>3. c <= n + 1 /\ ~(c <= n) /\ c \in Nat
      BY <1>10, <1>11, <2>1, <2>2
    <2>4. c = n + 1
      BY <2>3
    <2> QED
      BY <2>4 DEF c
  <1>13. ElidePlain(s) = Append(A \o blank, "elided")
    <2>1. (n + 1) - 1 = n
      OBVIOUS
    <2> QED
      BY <1>2, <1>9, <1>10, <1>12, <2>1 DEF ElidePlain
  <1>14. Append(A \o blank, "elided") = A \o blank \o <<"elided">>
    <2>1. A \o blank \in Seq(Line)
      <3>1. "blank" \in Line
        BY DEF Line
      <3>2. <<>> \in Seq(Line) /\ <<"blank">> \in Seq(Line)
        BY <3>1
      <3>3. blank \in Seq(Line)
        BY <3>2
      <3> QED
        BY <3>3, ConcatIs
    <2> DEFINE t == A \o blank
    <2>2. t \in Seq(Line) /\ "elided" \in Line
      BY <2>1 DEF Line
    <2> HIDE DEF t
    <2>3. Append(t, "elided") = t \o <<"elided">>
      BY <2>2
    <2> QED
      BY <2>3 DEF t
  <1> QED
    BY <1>13, <1>14 DEF s, q

\* The first levels of a forest are what the definition says.
LevelsOf(f, kids, N) ==
  f = [d \in 0..N |-> IF d = 0 THEN Range(kids) ELSE UNION {Range(n.kids) : n \in f[d - 1]}]

\* They are so of the function that Levels defines.
LEMMA LevelsAre ==
  ASSUME NEW kids, Deep \in Nat
  PROVE  /\ Levels(kids)[0] = Range(kids)
         /\ \A d \in 1..Deep : Levels(kids)[d] = UNION {Range(n.kids) : n \in Levels(kids)[d - 1]}
  <1> DEFINE S == {N \in Nat : \E f : LevelsOf(f, kids, N)}
             Inside(x) == UNION {Range(n.kids) : n \in x}
  <1>1. 0 \in S
    <2> DEFINE f == [d \in 0..0 |-> Range(kids)]
    <2>1. f = [d \in 0..0 |-> IF d = 0 THEN Range(kids)
                              ELSE UNION {Range(n.kids) : n \in f[d - 1]}]
      OBVIOUS
    <2> QED
      BY <2>1 DEF LevelsOf
  <1>2. ASSUME NEW N \in S PROVE N + 1 \in S
    <2>1. PICK f : LevelsOf(f, kids, N)
      OBVIOUS
    <2> DEFINE g == [d \in 0..N+1 |-> IF d = N + 1 THEN Inside(f[N]) ELSE f[d]]
    <2>2. ASSUME NEW d \in 0..N+1
          PROVE  g[d] = IF d = 0 THEN Range(kids) ELSE Inside(g[d - 1])
      <3> HIDE DEF Inside
      <3>1. CASE d = N + 1
        <4>1. d - 1 = N /\ N \in 0..N+1 /\ N # N + 1 /\ d # 0
          BY <3>1
        <4> QED
          BY <3>1, <4>1
      <3>2. CASE d # N + 1
        <4>1. d \in 0..N
          BY <3>2
        <4>2. f[d] = IF d = 0 THEN Range(kids) ELSE Inside(f[d - 1])
          BY <2>1, <4>1 DEF LevelsOf, Inside
        <4>3. d # 0 => d - 1 \in 0..N+1 /\ d - 1 # N + 1
          BY <4>1
        <4> QED
          BY <3>2, <4>2, <4>3
      <3> QED
        BY <3>1, <3>2
    <2>3. g = [d \in 0..N+1 |-> IF d = 0 THEN Range(kids) ELSE Inside(g[d - 1])]
      <3>1. g = [d \in 0..N+1 |-> g[d]]
        OBVIOUS
      <3> HIDE DEF g, Inside
      <3> QED
        BY <2>2, <3>1
    <2> HIDE DEF g
    <2>4. LevelsOf(g, kids, N + 1)
      BY <2>3 DEF LevelsOf
    <2> QED
      BY <2>4
  <1>3. Deep \in S
    <2>1. S \in SUBSET Nat
      OBVIOUS
    <2> HIDE DEF S
    <2> QED
      BY <1>1, <1>2, <2>1, Induction
  <1> DEFINE F == CHOOSE f : LevelsOf(f, kids, Deep)
  <1>4. LevelsOf(F, kids, Deep)
    BY <1>3
  <1>5. Levels(kids) = F
    BY DEF Levels, LevelsOf
  <1> HIDE DEF F
  <1>6. F = [d \in 0..Deep |-> IF d = 0 THEN Range(kids) ELSE Inside(F[d - 1])]
    BY <1>4 DEF LevelsOf
  <1>7. F[0] = Range(kids) /\ \A d \in 1..Deep : F[d] = Inside(F[d - 1])
    <2>1. 0 \in 0..Deep /\ \A d \in 1..Deep : d \in 0..Deep /\ d # 0
      OBVIOUS
    <2> HIDE DEF Inside
    <2> QED
      BY <1>6, <2>1
  <1> QED
    BY <1>5, <1>7

\* A block of text has content where the parser gets below its top.
LEMMA BlockHasContent ==
  ASSUME Deep \in Nat, Deep # 0, NEW block, NEW rest,
         block.kids = <<Leaf("text"), Leaf("space"), rest>>
  PROVE  HasContent(block)
  <1> DEFINE x == Leaf("text")
             k == <<x, Leaf("space"), rest>>
             level == Levels(<<block>>)
  <1>1. 1 \in 1..Deep /\ 1 \in 0..Deep /\ 1 - 1 = 0
    OBVIOUS
  <1>2. level[0] = Range(<<block>>) /\ level[1] = UNION {Range(n.kids) : n \in level[1 - 1]}
    BY <1>1, LevelsAre
  <1>3. block \in level[0]
    <2>1. block = <<block>>[1] /\ 1 \in DOMAIN <<block>>
      OBVIOUS
    <2> QED
      BY <1>2, <2>1 DEF Range
  <1>4. x \in Range(block.kids)
    <2>1. x = k[1] /\ 1 \in DOMAIN k
      OBVIOUS
    <2> QED
      BY <2>1 DEF Range
  <1> HIDE DEF level
  <1>5. x \in level[1]
    BY <1>1, <1>2, <1>3, <1>4
  <1>6. x.tag = "text"
    BY DEF Leaf, Node
  <1> HIDE DEF x
  <1> QED
    BY <1>1, <1>5, <1>6 DEF HasContent, level

\* An HTML reply whose text has none of a client's marks is cut in front of
\* the block that quotes its source.
LEMMA ReplyBlockCut ==
  ASSUME NEW U, Closed(U), NEW s \in Seq(U), NEW block \in U,
         block.tag = "quote", HasContent(block),
         Deep \in Nat, Deep # 0,
         \A j \in 1..Len(s) : s[j].tag \notin {"hr", "cite"}
  PROVE  LET kids == s \o <<block>>
         IN  /\ Min(TerminalHTMLQuote(kids)) = 0 /\ TerminalHTMLQuote(kids) # {}
             /\ CutAt(kids, 0) = s \o <<Leaf("elided")>>
  <1> DEFINE kids == s \o <<block>>
             N == Len(s) + 1
             E == Leaf("elided")
             M == Meaningful(kids)
  <1>1. /\ kids \in Seq(U) /\ Len(kids) = N /\ N \in Nat /\ DOMAIN kids = 1..N
        /\ kids[N] = block /\ \A j \in 1..N-1 : kids[j] = s[j]
    <2>1. <<block>> \in Seq(U) /\ Len(<<block>>) = 1 /\ <<block>>[1] = block
      OBVIOUS
    <2>2. 1 \in 1..Len(<<block>>) /\ N - 1 = Len(s) /\ Len(s) \in Nat
      OBVIOUS
    <2>3. /\ kids \in Seq(U) /\ Len(kids) = Len(s) + Len(<<block>>)
          /\ \A j \in 1..Len(s) : kids[j] = s[j]
          /\ \A j \in 1..Len(<<block>>) : kids[Len(s) + j] = <<block>>[j]
      BY <2>1, ConcatIs
    <2> HIDE DEF kids
    <2> QED
      BY <2>1, <2>2, <2>3
  <1>2. \A j \in 1..N-1 : kids[j].tag \notin {"hr", "cite"}
    <2>1. N - 1 = Len(s)
      OBVIOUS
    <2> HIDE DEF kids, N
    <2> QED
      BY <1>1, <2>1
  <1> HIDE DEF kids, N
  <1>3. \A j \in 1..N : j = N \/ j \in 1..N-1
    BY <1>1
  <1>4. Dividers(kids) = {}
    BY <1>1, <1>2, <1>3 DEF Dividers
  <1>5. M \subseteq 1..N /\ N \in M /\ N \in 1..N
    <2>1. N \in 1..N
      BY <1>1 DEF N
    <2> QED
      BY <1>1, <2>1 DEF Meaningful
  <1>6. QuotePlace(kids) = {N}
    <2>1. N \in QuoteAtEnd(kids)
      <3>1. \A j \in M : j <= N
        BY <1>1, <1>5
      <3> QED
        BY <1>1, <1>5, <3>1 DEF QuoteAtEnd
    <2>2. ASSUME NEW i \in QuoteAtEnd(kids) PROVE i = N
      <3>1. i \in M /\ N <= i
        BY <1>5, <2>2 DEF QuoteAtEnd
      <3> QED
        BY <1>1, <1>5, <3>1
    <2> QED
      BY <1>4, <2>1, <2>2 DEF QuotePlace
  <1>7. CutAt(kids, 0) = CutLevel(kids, N) /\ 0 \in TerminalHTMLQuote(kids)
    <2>1. Descent(kids)[0] = kids
      BY <1>1, DescentLevels
    <2>2. (CHOOSE i \in QuotePlace(Descent(kids)[0]) : TRUE) = N
      BY <1>6, <2>1
    <2>3. CutAt(kids, 0) = CutLevel(Descent(kids)[0], CHOOSE i \in QuotePlace(Descent(kids)[0]) : TRUE)
      <3>1. PICK f : CutBy(f, kids, 0)
        BY CutLevels
      <3> QED
        BY <3>1 DEF CutBy
    <2>4. 0 \in 0..Deep-1
      OBVIOUS
    <2> QED
      BY <1>6, <2>1, <2>2, <2>3, <2>4 DEF TerminalHTMLQuote
  <1>8. CutLevel(kids, N) = s \o <<E>>
    <2> DEFINE before == {j \in Meaningful(kids) : j < N}
               first == IF before # {} /\ kids[Max(before)].tag = "cite" THEN Max(before) ELSE N
               front == SubSeq(kids, 1, N - 1)
               after == SubSeq(kids, N + 1, N)
    <2>1. first = N
      <3> SUFFICES ASSUME before # {} PROVE kids[Max(before)].tag # "cite"
        OBVIOUS
      <3>1. before \in SUBSET (1..N-1) /\ N - 1 \in Nat
        BY <1>1, <1>5
      <3> HIDE DEF before
      <3>2. Max(before) \in 1..N-1
        BY <3>1, MaxIs
      <3> QED
        BY <1>2, <3>2
    <2>2. CutLevel(kids, N) = Append(SubSeq(kids, 1, first - 1), E) \o after
      BY <1>1 DEF CutLevel
    <2>3. front = s
      <3>1. N - 1 = Len(s) /\ Len(s) \in Nat 
        BY DEF N
      <3>2. front \in Seq(U) /\ Len(front) = N - 1 /\ \A j \in 1..N-1 : front[j] = kids[j]
        BY <1>1, <3>1
      <3>3. \A j \in 1..N-1 : front[j] = s[j]
        BY <1>1, <3>2
      <3> HIDE DEF front
      <3> QED
        BY <3>1, <3>2, <3>3
    <2>4. after = <<>>
      BY <1>1
    <2> HIDE DEF front, after
    <2>5. Append(s, E) \o <<>> = s \o <<E>>
      <3>1. s \in Seq(U \cup {E}) /\ E \in U \cup {E}
        OBVIOUS
      <3> HIDE DEF E
      <3> QED
        BY <3>1
    <2> HIDE DEF first
    <2> QED
      BY <2>1, <2>2, <2>3, <2>4, <2>5 DEF front
  <1>9. Min(TerminalHTMLQuote(kids)) = 0
    <2> DEFINE T == TerminalHTMLQuote(kids)
               m == Min(T)
    <2>1. T \in SUBSET Nat /\ 0 \in T
      BY <1>7 DEF TerminalHTMLQuote
    <2> HIDE DEF T
    <2>2. m \in T /\ \A y \in T : m <= y
      BY <2>1, MinIs
    <2> HIDE DEF m
    <2>3. m <= 0 /\ m \in Nat
      BY <2>1, <2>2
    <2>4. m = 0
      BY <2>3
    <2> QED
      BY <2>4 DEF m, T
  <1> QED
    BY <1>7, <1>8, <1>9 DEF kids

\* What ReadBack says of a plain reply b, shown as "as".
PlainRead(A, b, as) ==
  IF "forward" \in Range(A) THEN as = b
  ELSE ~ClientMarks(Plain(A)) =>
         \E blank \in {<<>>, <<"blank">>} : as.lines = A \o blank \o <<"elided">>

\* What ReadBack says of a reply b in HTML, shown as "as".
HTMLRead(A, balanced, b, as) ==
  IF ~balanced \/ ~Parses(b) THEN as = b
  ELSE ~ClientMarks(HTML(A, TRUE)) =>
         \E blank \in {<<>>, <<Leaf("space")>>} :
           as.kids = A \o blank \o <<Leaf("elided")>>

\* What the user wrote in lines is read back.
LEMMA PlainReadBack ==
  ASSUME NEW A \in Seq(Line), NEW of \in Body, HasText(of),
         NEW b, b = Quote(Plain(A), of), NEW as, as = ElideQuotedReplyBody(b)
  PROVE  b.html = FALSE /\ PlainRead(A, b, as)
  <1> DEFINE l == IF of.html THEN <<"text">> ELSE of.lines
             s == QuoteReply(A, QuotePlain(l))
  <1>1. b = Plain(s)
    BY DEF Quote, Plain
  <1>2. l \in Seq(Line) /\ \E j \in 1..Len(l) : l[j] \notin {"blank", "emptyquote"}
    <2>1. CASE of.html
      <3>1. "text" \in Line
        BY DEF Line
      <3>2. <<"text">> \in Seq(Line) /\ Len(<<"text">>) = 1 /\ <<"text">>[1] = "text"
        BY <3>1
      <3>3. l = <<"text">>
        BY <2>1
      <3>4. 1 \in 1..Len(l) /\ l[1] = "text"
        BY <3>2, <3>3
      <3> QED
        BY <3>2, <3>3, <3>4
    <2>2. CASE ~of.html
      <3>1. of.lines \in Seq(Line) /\ l = of.lines
        BY <2>2 DEF Body
      <3>2. Range(of.lines) \ {"blank", "emptyquote"} # {}
        BY <2>2 DEF HasText
      <3>3. DOMAIN of.lines = 1..Len(of.lines)
        BY <3>1
      <3> HIDE DEF l
      <3> QED
        BY <3>1, <3>2, <3>3 DEF Range
    <2> QED
      BY <2>1, <2>2
  <1> HIDE DEF l
  <1>3. b.html = FALSE /\ b.lines = s
    BY <1>1 DEF Plain
  <1>4. as = Plain(ElidePlain(s))
    BY <1>3 DEF ElideQuotedReplyBody
  <1>5. ASSUME "forward" \in Range(A) PROVE as = b
    <2>1. QuotePlain(l) \in Seq(Line)
      BY <1>2, QuoteLines
    <2>2. s \in Seq(Line) /\ Len(s) >= Len(A) /\ \A j \in 1..Len(A) : s[j] = A[j]
      <3> DEFINE q == QuotePlain(l)
      <3> HIDE DEF q
      <3>1. q \in Seq(Line)
        BY <2>1 DEF q
      <3>2. PICK n \in Nat : \E blank \in {<<>>, <<"blank">>} :
               /\ QuoteReply(A, q) \in Seq(Line) /\ Len(QuoteReply(A, q)) = n + 2 + Len(q)
               /\ SubSeq(QuoteReply(A, q), 1, n) = A \o blank
               /\ \/ n = Len(A) /\ n = 0
                  \/ n = Len(A) + 1 /\ QuoteReply(A, q)[n] = "blank"
               /\ \A j \in 1..Len(A) : QuoteReply(A, q)[j] = A[j]
               /\ QuoteReply(A, q)[n + 1] = "attribution" /\ QuoteReply(A, q)[n + 2] = "blank"
               /\ \A j \in 1..Len(q) : QuoteReply(A, q)[n + 2 + j] = q[j]
        BY <3>1, ReplyLineByLine
      <3>3. /\ s \in Seq(Line) /\ Len(s) = n + 2 + Len(q) /\ \A j \in 1..Len(A) : s[j] = A[j]
            /\ (n = Len(A) \/ n = Len(A) + 1)
        BY <3>2 DEF q
      <3>4. Len(q) \in Nat /\ Len(A) \in Nat
        BY <3>1
      <3> HIDE DEF s
      <3>5. n + 2 + Len(q) >= Len(A)
        BY <3>3, <3>4
      <3> QED
        BY <3>3, <3>5
    <2> HIDE DEF s
    <2>3. PICK j \in 1..Len(A) : A[j] = "forward"
      BY <1>5 DEF Range
    <2>4. j \in DOMAIN s /\ s[j] = "forward"
      <3>1. DOMAIN s = 1..Len(s) /\ Len(s) \in Nat /\ Len(A) \in Nat
        BY <2>2
      <3> QED
        BY <2>2, <2>3, <3>1
    <2>5. ElidePlain(s) = s
      BY <2>4 DEF ElidePlain, Range
    <2> QED
      BY <1>1, <1>4, <2>5
  <1>6. ASSUME "forward" \notin Range(A), ~ClientMarks(Plain(A))
        PROVE  \E blank \in {<<>>, <<"blank">>} : as.lines = A \o blank \o <<"elided">>
    <2>1. "marker" \notin Range(A)
      BY <1>6 DEF ClientMarks, Plain
    <2>2. PICK blank \in {<<>>, <<"blank">>} : ElidePlain(s) = A \o blank \o <<"elided">>
      BY <1>2, <1>6, <2>1, ReplyCut
    <2>3. as.lines = ElidePlain(s)
      BY <1>4 DEF Plain
    <2> QED
      BY <2>2, <2>3
  <1> QED
    BY <1>3, <1>5, <1>6 DEF PlainRead

\* What the user wrote in HTML is read back.
LEMMA HTMLReadBack ==
  ASSUME NEW A \in Seq(Nodes), NEW balanced, NEW of, Deep \in Nat,
         NEW b, b = Quote(HTML(A, balanced), of), HTMLBody(b), NEW as, as = ElideQuotedReplyBody(b)
  PROVE  b.html = TRUE /\ HTMLRead(A, balanced, b, as)
  <1> DEFINE inner == IF of.html THEN IF Parses(of) THEN of.kids ELSE <<Leaf("text")>>
                      ELSE [i \in DOMAIN of.lines |->
                              Leaf(IF of.lines[i] = "blank" THEN "space" ELSE "text")]
             rest  == Node("quote", inner)
             block == Node("quote", <<Leaf("text"), Leaf("space"), rest>>)
             space == Leaf("space")
             E     == Leaf("elided")
             blank == IF A = <<>> THEN <<>> ELSE <<space>>
             s     == A \o blank
             kids  == s \o <<block>>
  <1>1. b = HTML(IF A = <<>> THEN <<block>> ELSE A \o <<space, block>>, balanced)
    BY DEF Quote, HTML
  <1>2. block.tag = "quote" /\ block.kids = <<Leaf("text"), Leaf("space"), rest>>
    BY DEF Node
  <1> HIDE DEF rest
  <1>3. space.tag = "space"
    BY DEF Leaf, Node
  <1> HIDE DEF block, space, E
  <1> DEFINE V == Nodes \cup {space, block}
  <1>4. /\ s \in Seq(V) /\ (IF A = <<>> THEN <<block>> ELSE A \o <<space, block>>) = kids
        /\ \A j \in 1..Len(s) : (j \in 1..Len(A) /\ s[j] = A[j]) \/ s[j] = space
    <2>0. Len(A) \in Nat /\ A \in Seq(V) /\ <<space>> \in Seq(V) /\ <<block>> \in Seq(V)
      OBVIOUS
    <2>1. CASE A = <<>>
      <3>1. s = <<>> /\ kids = <<block>>
        <4>1. s = <<>>
          BY <2>1
        <4>2. <<>> \o <<block>> = <<block>>
          OBVIOUS
        <4> HIDE DEF s
        <4> QED
          BY <4>1, <4>2
      <3>2. s \in Seq(V) /\ Len(s) = 0
        BY <3>1
      <3> QED
        BY <2>1, <3>1, <3>2
    <2>2. CASE A # <<>>
      <3>1. s = A \o <<space>>
        BY <2>2
      <3>2. A \o <<space, block>> = (A \o <<space>>) \o <<block>>
        <4> DEFINE p == <<space>>
                   r == <<block>>
        <4>1. <<space, block>> = p \o r
          OBVIOUS
        <4>2. p \in Seq(V) /\ r \in Seq(V)
          BY <2>0
        <4> HIDE DEF V, p, r
        <4>3. (A \o p) \o r = A \o (p \o r)
          BY <2>0, <4>2, ConcatAgain
        <4> QED
          BY <4>1, <4>3 DEF p, r
      <3>3. /\ s \in Seq(V) /\ Len(s) = Len(A) + Len(<<space>>)
            /\ \A j \in 1..Len(A) : s[j] = A[j]
            /\ \A j \in 1..Len(<<space>>) : s[Len(A) + j] = <<space>>[j]
        <4> HIDE DEF V
        <4> QED
          BY <2>0, <3>1, ConcatIs
      <3>4. Len(<<space>>) = 1 /\ <<space>>[1] = space /\ 1 \in 1..1
        OBVIOUS
      <3> HIDE DEF s
      <3>5. Len(s) = Len(A) + 1 /\ s[Len(A) + 1] = space
        BY <3>3, <3>4
      <3>6. \A j \in 1..Len(A)+1 : j \in 1..Len(A) \/ j = Len(A) + 1
        BY <2>0
      <3>7. \A j \in 1..Len(s) : (j \in 1..Len(A) /\ s[j] = A[j]) \/ s[j] = space
        BY <3>3, <3>5, <3>6
      <3> QED
        BY <2>2, <3>1, <3>2, <3>3, <3>7
    <2> QED
      BY <2>1, <2>2
  <1>5. b = HTML(kids, balanced)
    BY <1>1, <1>4
  <1>6. blank \in {<<>>, <<Leaf("space")>>}
    BY DEF space
  <1> HIDE DEF blank
  <1>7. b.html = TRUE /\ b.kids = kids /\ b.balanced = balanced
    <2>1. \A k : /\ HTML(k, balanced).html = TRUE /\ HTML(k, balanced).kids = k
                /\ HTML(k, balanced).balanced = balanced
      BY DEF HTML
    <2> HIDE DEF kids
    <2> QED
      BY <1>5, <2>1
  <1>8. as = ElideHTML(b)
    BY <1>7 DEF ElideQuotedReplyBody
  <1>9. ASSUME ~balanced \/ ~Parses(b) PROVE as = b
    BY <1>7, <1>8, <1>9 DEF ElideHTML
  <1>10. ASSUME balanced, Parses(b), ~ClientMarks(HTML(A, TRUE))
         PROVE  as.kids = A \o blank \o <<E>>
    <2>1. PICK U : WellFormed(U) /\ kids \in Seq(U)
      BY <1>7 DEF HTMLBody
    <2>2. /\ Len(s) \in Nat /\ Len(kids) = Len(s) + 1 /\ kids[Len(s) + 1] = block
          /\ \A j \in 1..Len(s) : kids[j] = s[j]
      <3>1. <<block>> \in Seq(V) /\ Len(<<block>>) = 1 /\ <<block>>[1] = block /\ 1 \in 1..1
        OBVIOUS
      <3> HIDE DEF s, V
      <3>2. /\ Len(kids) = Len(s) + Len(<<block>>) /\ \A j \in 1..Len(s) : kids[j] = s[j]
            /\ \A j \in 1..Len(<<block>>) : kids[Len(s) + j] = <<block>>[j]
        BY <1>4, <3>1, ConcatIs
      <3> HIDE DEF kids
      <3> QED
        BY <1>4, <3>1, <3>2
    <2> HIDE DEF s
    <2>3. block \in U /\ \A j \in 1..Len(s) : s[j] \in U
      <3> HIDE DEF kids
      <3>1. \A j \in 1..Len(kids) : kids[j] \in U
        BY <2>1
      <3>2. Len(s) + 1 \in 1..Len(kids) /\ \A j \in 1..Len(s) : j \in 1..Len(kids)
        BY <2>2
      <3> QED
        BY <2>2, <3>1, <3>2
    <2>4. s \in Seq(U)
      BY <1>4, <2>3
    <2>5. Deep # 0
      <3>1. ASSUME Deep = 0 PROVE FALSE
        <4>1. Levels(b.kids)[0] = {}
          BY <1>10, <3>1 DEF Parses
        <4>2. Range(kids) = {}
          BY <1>7, <4>1, LevelsAre
        <4>3. Len(s) + 1 \in DOMAIN kids
          <5> HIDE DEF kids
          <5>1. DOMAIN kids = 1..Len(kids)
            BY <2>1
          <5> QED
            BY <2>2, <5>1
        <4> HIDE DEF kids
        <4> QED
          BY <4>2, <4>3 DEF Range
      <3> QED
        BY <3>1
    <2>6. HasContent(block)
      BY <1>2, <2>5, BlockHasContent
    <2>7. \A j \in 1..Len(s) : s[j].tag \notin {"hr", "cite"}
      <3>1. \A j \in 1..Len(A) : A[j].tag \notin {"hr", "cite"}
        BY <1>10 DEF ClientMarks, HTML
      <3> QED
        BY <1>3, <1>4, <3>1
    <2>8. Closed(U)
      BY <2>1 DEF WellFormed, Closed
    <2>9. /\ Min(TerminalHTMLQuote(kids)) = 0 /\ TerminalHTMLQuote(kids) # {}
          /\ CutAt(kids, 0) = s \o <<E>>
      BY <1>2, <2>3, <2>4, <2>5, <2>6, <2>7, <2>8, ReplyBlockCut DEF E
    <2> HIDE DEF kids
    <2>10. as = [b EXCEPT !.kids = CutAt(kids, 0)]
      BY <1>7, <1>8, <1>10, <2>9 DEF ElideHTML
    <2>11. as.kids = s \o <<E>>
      <3>1. "kids" \in DOMAIN b
        BY <1>5 DEF HTML
      <3> QED
        BY <2>9, <2>10, <3>1
    <2> QED
      BY <2>11 DEF s
  <1> QED
    BY <1>6, <1>7, <1>9, <1>10 DEF E, HTMLRead

\* `mail read` of a reply that `mail draft` made shows what the user wrote,
\* all of it and nothing else but a blank, and the source elided.
THEOREM ReadsBack == MailSpec => []ReadBack
  <1>1. DraftInv /\ ReadInv => ReadBack
    <2> SUFFICES ASSUME DraftInv, ReadInv PROVE ReadBack
      OBVIOUS
    <2> SUFFICES ASSUME shown # None, drafts # {}, shown.of = draft.body, ~cmd.noQuote, IsReply,
                        source.body # None, HasText(source.body)
                 PROVE  IF draft.body.html
                        THEN IF ~cmd.balanced \/ ~Parses(draft.body) THEN shown.as = shown.of
                             ELSE ~ClientMarks(HTML(cmd.authored, TRUE)) =>
                                    \E blank \in {<<>>, <<Leaf("space")>>} :
                                      shown.as.kids = cmd.authored \o blank \o <<Leaf("elided")>>
                        ELSE IF "forward" \in Range(cmd.authored) THEN shown.as = shown.of
                             ELSE ~ClientMarks(Plain(cmd.authored)) =>
                                    \E blank \in {<<>>, <<"blank">>} :
                                      shown.as.lines = cmd.authored \o blank \o <<"elided">>
      BY DEF ReadBack
    <2> DEFINE A == cmd.authored
               b == draft.body
               as == ElideQuotedReplyBody(b)
    <2>1. Problems = {} /\ b = Quote(Composed.body, source.body)
      BY DEF ReadInv, WholeBody
    <2>2. shown.of = b /\ shown.as = as
      <3>1. PICK x : shown = [of |-> x, as |-> ElideQuotedReplyBody(x)]
        BY DEF ReadInv
      <3> QED
        BY <3>1
    <2>3. source.body \in Body
      BY SourceReadable
    <2>4. Deep \in Nat
      BY <2>1, AuthoredTypes
    <2>5. Readable(b)
      <3>1. b = WholeBody
        BY DEF ReadInv
      <3> QED
        BY <2>1, <3>1, WholeReadable
    <2> HIDE DEF as
    <2>6. CASE A \in Seq(Line) /\ Composed.body = Plain(A)
      <3>1. b = Quote(Plain(A), source.body)
        BY <2>1, <2>6
      <3> HIDE DEF A, b
      <3>2. b.html = FALSE /\ PlainRead(A, b, as)
        BY <2>3, <2>6, <3>1, PlainReadBack DEF as
      <3> QED
        BY <2>2, <3>2 DEF A, b, PlainRead
    <2>7. CASE A \in Seq(Nodes) /\ Composed.body = HTML(A, cmd.balanced)
      <3> DEFINE balanced == cmd.balanced
      <3>1. b = Quote(HTML(A, balanced), source.body)
        BY <2>1, <2>7
      <3>2. b.html = TRUE
        BY <3>1 DEF Quote, HTML
      <3>3. HTMLBody(b)
        BY <2>5, <3>2 DEF Readable, PlainBody
      <3> HIDE DEF A, b, balanced
      <3>4. b.html = TRUE /\ HTMLRead(A, balanced, b, as)
        BY <2>4, <2>7, <3>1, <3>3, HTMLReadBack DEF as
      <3> QED
        BY <2>2, <3>4 DEF A, b, balanced, HTMLRead
    <2> QED
      BY <2>1, <2>6, <2>7, AuthoredTypes
  <1> QED
    BY <1>1, ReadInvariant, PTL

=============================================================================
