-------------------------- MODULE BulkModify_proofs --------------------------
(* Theorems of BulkModify, for any mailbox, any size of a chunk and of a   *)
(* page, and any command lines.                                            *)
EXTENDS BulkModify, FiniteSetTheorems, TLAPS

\* The type invariant, and what the ids are taken from: the command line and
\* the mail that has arrived.
Types ==
  /\ TypeOK /\ command \in Commands
  /\ Named \subseteq mail

UpTo(n) == {ids[i] : i \in 1..n}

\* A run has changed nothing before it has its ids, and then the chunks it is
\* through with; it stops only behind the last one, or at one that fails.
Progress ==
  /\ step \in {"start", "client", "ids"} => ids = <<>>
  /\ touched = UpTo(sent) \/ (step = "failed" /\ touched = UpTo(Through))
  /\ step = "modify" => ~command.dry
  /\ step = "ok" => IF command.dry THEN sent = 0 ELSE sent = Len(ids)

\* A run with ids has them from its only source, and a label or a category
\* that there is.
Asked ==
  /\ step \in {"client", "ids", "modify"} /\ command.verb = "categorize"
       => command.label \in Categories
  /\ step \in {"ids", "modify"} /\ command.verb \in {"label", "unlabel"}
       => command.label \in Known
  /\ step = "modify" =>
       /\ Cardinality(Sources) = 1
       /\ Range(ids) \subseteq IF Sources = {"query"} THEN listed ELSE Named

BulkInv == Types /\ Progress /\ Asked

\* A sequence is one over every set that holds its members.
LEMMA SeqOver ==
  ASSUME NEW S, NEW T, NEW s \in Seq(S), Range(s) \subseteq T
  PROVE  s \in Seq(T)
  <1>1. Len(s) \in Nat /\ s \in [1..Len(s) -> T]
    BY DEF Range
  <1> QED
    BY <1>1

\* A page holds messages that match, each once, as many as there are or as go
\* on a page.
LEMMA PageIsSeq ==
  ASSUME BulkConstants, mail \subseteq Msgs, NEW s \in Page
  PROVE  /\ IsFiniteSet(Matching) /\ Cardinality(Matching) \in Nat
         /\ s \in Seq(Matching) /\ Range(s) \subseteq Matching /\ IsInjective(s)
         /\ Len(s) = IF Cardinality(Matching) < PageMax THEN Cardinality(Matching) ELSE PageMax
  <1>1. IsFiniteSet(Matching) /\ Cardinality(Matching) \in Nat
    <2>1. Matching \in SUBSET Msgs
      BY DEF Matching
    <2> QED
      BY <2>1, FS_Subset, FS_CardinalityType DEF BulkConstants
  <1> DEFINE n == IF Cardinality(Matching) < PageMax THEN Cardinality(Matching) ELSE PageMax
  <1>2. n \in Nat /\ s \in [1..n -> Matching] /\ IsInjective(s)
    BY <1>1 DEF BulkConstants, Page
  <1>3. s \in Seq(Matching) /\ Len(s) = n
    BY <1>2
  <1> QED
    BY <1>1, <1>2, <1>3 DEF Range

\* The step that reads the command line takes the ids from one source.
LEMMA ResolveStep ==
  ASSUME BulkConstants, BulkInv, ResolveIDs
  PROVE  /\ ids' \in Seq(mail) /\ listed' \subseteq mail /\ Cardinality(Sources) = 1
         /\ Range(ids') \subseteq IF Sources = {"query"} THEN listed' ELSE Named
  <1> USE DEF BulkInv, Types, TypeOK
  <1>0. command.args \in Seq(Msgs)
    BY DEF BulkConstants
  <1>1. CASE Sources = {"args"} /\ ids' = command.args /\ listed' = {}
    <2>1. Cardinality(Sources) = 1
      BY <1>1, FS_Singleton
    <2>2. Range(ids') \subseteq Named
      BY <1>1 DEF Named
    <2>3. ids' \in Seq(mail)
      BY <1>0, <1>1, <2>2, SeqOver
    <2> QED
      BY <1>1, <2>1, <2>2, <2>3
  <1>2. CASE /\ Sources = {"stdin"} /\ command.stdin \notin {Broken, <<>>}
             /\ ids' = command.stdin /\ listed' = {}
    <2>1. Cardinality(Sources) = 1
      BY <1>2, FS_Singleton
    <2>2. command.stdin # None
      BY <1>2 DEF Sources
    <2>3. Range(ids') \subseteq Named
      BY <1>2, <2>2 DEF Named
    <2>4. command.stdin \in Seq(Msgs)
      BY <1>2, <2>2 DEF BulkConstants
    <2>5. ids' \in Seq(mail)
      BY <1>2, <2>3, <2>4, SeqOver
    <2> QED
      BY <1>2, <2>1, <2>3, <2>5
  <1>3. CASE Sources = {"query"} /\ ids' \in Page /\ listed' = Matching
    <2>1. Cardinality(Sources) = 1
      BY <1>3, FS_Singleton
    <2>2. Matching \subseteq mail
      BY DEF Matching
    <2>3. ids' \in Seq(Matching) /\ Range(ids') \subseteq Matching
      BY <1>3, PageIsSeq
    <2>4. ids' \in Seq(mail)
      BY <2>2, <2>3, SeqOver
    <2> QED
      BY <1>3, <2>1, <2>2, <2>3, <2>4
  <1> QED
    BY <1>1, <1>2, <1>3 DEF ResolveIDs

\* A chunk ends behind where it begins, and not behind the ids.
LEMMA ChunkBounds ==
  ASSUME BulkConstants, Types, sent < Len(ids)
  PROVE  /\ Through \in sent+1..Len(ids)
         /\ UpTo(sent) \cup Chunk = UpTo(Through)
         /\ Chunk \subseteq Range(ids) /\ Chunk \subseteq mail
  <1>0. /\ sent \in Nat /\ Len(ids) \in Nat /\ Batch \in Nat \ {0}
        /\ DOMAIN ids = 1..Len(ids) /\ Range(ids) \subseteq mail
    BY DEF Types, TypeOK, BulkConstants, Range
  <1>1. Through \in sent+1..Len(ids)
    BY <1>0 DEF Through
  <1>2. 1..Through = 1..sent \cup sent+1..Through
    BY <1>0, <1>1
  <1>3. UpTo(sent) \cup Chunk = UpTo(Through)
    BY <1>2 DEF UpTo, Chunk
  <1>4. Chunk \subseteq Range(ids)
    BY <1>0, <1>1 DEF Chunk, Range
  <1> QED
    BY <1>0, <1>1, <1>3, <1>4

\* The labels a command adds exist where it has got as far as changing any.
LEMMA ChangeAdds ==
  ASSUME BulkConstants, BulkInv, step = "modify"
  PROVE  Change.add \subseteq Labels
  <1>1. command.verb \in Verbs
    BY DEF BulkInv, Types, BulkConstants
  <1>2. CASE command.verb \in {"label", "categorize"}
    BY <1>2 DEF BulkInv, Asked, Change, Labels
  <1>3. CASE command.verb \notin {"label", "categorize"}
    BY <1>1, <1>3 DEF Change, Verbs, Effect, Labels
  <1> QED
    BY <1>2, <1>3

\* A change leaves the mailbox in its type.
LEMMA ChangedTypes ==
  ASSUME BulkConstants, BulkInv, step = "modify", sent < Len(ids), Changed
  PROVE  labels' \in [Msgs -> SUBSET Labels] /\ touched' \subseteq mail
  <1>1. Change.add \subseteq Labels
    BY ChangeAdds
  <1>2. \A m \in Msgs : labels[m] \subseteq Labels
    BY DEF BulkInv, Types, TypeOK
  <1>3. \A m \in Msgs : Apply(labels[m]) \subseteq Labels
    BY <1>1, <1>2 DEF Apply
  <1>4. labels' \in [Msgs -> SUBSET Labels]
    BY <1>2, <1>3 DEF Changed
  <1>5. touched' \subseteq mail
    BY ChunkBounds DEF BulkInv, Types, TypeOK, Changed
  <1> QED
    BY <1>4, <1>5

\* Every step of a run keeps the types.
LEMMA TypesStep == ASSUME BulkConstants PROVE BulkInv /\ [Next]_vars => Types'
  <1> SUFFICES ASSUME BulkInv, [Next]_vars PROVE Types'
    OBVIOUS
  <1> USE DEF BulkInv, Types, TypeOK, Goto, mailbox, history
  <1>1. CASE UNCHANGED vars
    BY <1>1 DEF vars, Named
  <1>2. CASE NewClient \/ ResolveLabel \/ Done \/ Refuse
    BY <1>2 DEF NewClient, ResolveLabel, Done, Refuse, Named
  <1>3. CASE ResolveIDs
    <2>1. ids' \in Seq(mail) /\ listed' \subseteq mail
      BY <1>3, ResolveStep
    <2>2. sent = 0
      BY <1>3 DEF ResolveIDs
    <2> QED
      BY <1>3, <2>1, <2>2 DEF ResolveIDs, Named
  <1>4. CASE Send
    <2>1. labels' \in [Msgs -> SUBSET Labels] /\ touched' \subseteq mail
      BY <1>4, ChangedTypes DEF Send
    <2>2. Through \in 0..Len(ids)
      BY <1>4, ChunkBounds DEF Send
    <2> QED
      BY <1>4, <2>1, <2>2 DEF Send, Named
  <1>5. CASE SendFails
    <2>1. labels' \in [Msgs -> SUBSET Labels] /\ touched' \subseteq mail
      BY <1>5, ChangedTypes DEF SendFails
    <2> QED
      BY <1>5, <2>1 DEF SendFails, Named
  <1>6. CASE Again
    BY <1>6 DEF Again, Named, BulkConstants
  <1>7. ASSUME NEW m \in Msgs, Arrive(m)
        PROVE  Types'
    <2>1. mail \subseteq mail' /\ mail' \subseteq Msgs /\ ids' = ids
      BY <1>7 DEF Arrive
    <2>2. ids' \in Seq(mail')
      BY <2>1, SeqOver DEF Range
    <2> QED
      BY <1>7, <2>1, <2>2 DEF Arrive, Named
  <1>8. ASSUME NEW m \in Msgs, Move(m)
        PROVE  Types'
    <2>1. labels' \in [Msgs -> SUBSET Labels]
      BY <1>8 DEF Move, Labels
    <2> QED
      BY <1>8, <2>1 DEF Move, Named
  <1> QED
    BY <1>1, <1>2, <1>3, <1>4, <1>5, <1>6, <1>7, <1>8 DEF Next, Command

\* Every step keeps what a run has changed in order.
LEMMA BulkStep == ASSUME BulkConstants PROVE BulkInv /\ [Next]_vars => BulkInv'
  <1> SUFFICES ASSUME BulkInv, [Next]_vars PROVE BulkInv'
    OBVIOUS
  <1>0. Types /\ Progress /\ Asked /\ Types'
    BY TypesStep DEF BulkInv
  <1>t. /\ step \in {"start", "client", "ids", "modify", "ok", "failed"}
        /\ sent \in Nat /\ sent <= Len(ids) /\ Len(ids) \in Nat
    BY <1>0 DEF Types, TypeOK
  <1> USE <1>t DEF Progress, Asked, UpTo, Goto, mailbox, history
  <1>1. CASE UNCHANGED vars
    BY <1>0, <1>1 DEF vars, BulkInv, Through, Sources, Named
  <1>2. CASE NewClient
    BY <1>0, <1>2 DEF NewClient, BulkInv, Through
  <1>3. CASE ResolveLabel
    BY <1>0, <1>3 DEF ResolveLabel, BulkInv, Through
  <1>4. CASE ResolveIDs
    <2>1. /\ Cardinality(Sources) = 1
          /\ Range(ids') \subseteq IF Sources = {"query"} THEN listed' ELSE Named
      BY <1>4, ResolveStep
    <2>2. sent = 0 /\ sent' = 0 /\ touched' = {} /\ command' = command /\ mail' = mail
      BY <1>0, <1>4 DEF ResolveIDs
    <2>3. step' = IF command.dry THEN "ok" ELSE "modify"
      BY <1>4 DEF ResolveIDs
    <2>4. Progress'
      <3>1. touched' = UpTo(sent)'
        BY <2>2
      <3>2. CASE command.dry
        BY <2>2, <2>3, <3>1, <3>2
      <3>3. CASE ~command.dry
        BY <2>2, <2>3, <3>1, <3>3
      <3> QED
        BY <3>2, <3>3
    <2>5. Sources' = Sources /\ Named' = Named
      BY <2>2 DEF Sources, Named
    <2>6. Asked'
      BY <1>0, <1>4, <2>1, <2>2, <2>5 DEF ResolveIDs
    <2> QED
      BY <1>0, <2>4, <2>6 DEF BulkInv
  <1>5. CASE Send
    <2>1. /\ Through \in sent+1..Len(ids) /\ UpTo(sent) \cup Chunk = UpTo(Through)
          /\ step = "modify" /\ step' = step
      BY <1>0, <1>5, ChunkBounds DEF Send
    <2>3. Progress'
      BY <1>0, <1>5, <2>1 DEF Send, Changed
    <2>4. Asked'
      BY <1>0, <1>5 DEF Send, Sources, Named
    <2> QED
      BY <1>0, <2>3, <2>4 DEF BulkInv
  <1>6. CASE SendFails
    <2>1. UpTo(sent) \cup Chunk = UpTo(Through) /\ step = "modify" /\ step' = "failed"
      BY <1>0, <1>6, ChunkBounds DEF SendFails
    <2>2. Asked'
      BY <1>0, <1>6 DEF SendFails
    <2>3. touched = UpTo(sent)
      BY <1>0, <2>1
    <2>4. touched' = UpTo(sent) \/ touched' = UpTo(Through)
      BY <1>6, <2>1, <2>3 DEF SendFails, Changed
    <2>5. UpTo(sent)' = UpTo(sent) /\ UpTo(Through)' = UpTo(Through)
      BY <1>6 DEF SendFails, Through
    <2>6. Progress'
      <3> HIDE DEF UpTo
      <3> QED
        BY <2>1, <2>4, <2>5
    <2> QED
      BY <1>0, <2>2, <2>6 DEF BulkInv
  <1>7. CASE Done
    BY <1>0, <1>7 DEF Done, BulkInv, Through
  <1>8. CASE Refuse
    BY <1>0, <1>8 DEF Refuse, BulkInv, Through
  <1>9. CASE Again
    BY <1>0, <1>9 DEF Again, BulkInv
  <1>10. ASSUME NEW m \in Msgs, Arrive(m) \/ Move(m)
         PROVE  BulkInv'
    <2>1. /\ step' = step /\ command' = command /\ ids' = ids /\ sent' = sent
          /\ touched' = touched /\ listed' = listed
      BY <1>10 DEF Arrive, Move
    <2>3. Progress'
      BY <1>0, <2>1 DEF Through
    <2>4. Asked'
      BY <1>0, <2>1 DEF Sources, Named
    <2> QED
      BY <1>0, <2>3, <2>4 DEF BulkInv
  <1> QED
    BY <1>1, <1>2, <1>3, <1>4, <1>5, <1>6, <1>7, <1>8, <1>9, <1>10 DEF Next, Command

\* BulkInv holds before the first run.
LEMMA BulkInit == ASSUME BulkConstants PROVE Init => BulkInv
  <1> SUFFICES ASSUME Init PROVE BulkInv
    OBVIOUS
  <1>1. TypeOK
    BY DEF Init, TypeOK, BulkConstants, Labels, Categories
  <1> QED
    BY <1>1 DEF Init, BulkInv, Types, Progress, Asked, UpTo

\* However a run ends, every variable has its type, and the messages it has
\* changed are those of the calls that succeeded and at most one chunk more;
\* success means all of them.
LEMMA PrefixHolds == BulkInv => TypeOK /\ TouchedPrefix
  <1> SUFFICES ASSUME BulkInv PROVE TypeOK /\ TouchedPrefix
    OBVIOUS
  <1>0. TypeOK
    BY DEF BulkInv, Types
  <1>1. step = "ok" /\ command.dry => touched = {}
    BY <1>0 DEF BulkInv, Progress, UpTo
  <1>2. step = "ok" /\ ~command.dry => touched = Range(ids)
    BY <1>0 DEF BulkInv, TypeOK, Progress, UpTo, Range
  <1> QED
    BY <1>0, <1>1, <1>2 DEF BulkInv, Progress, UpTo, TouchedPrefix

\* Only a message that was asked for is changed by a step of the command, and
\* only as asked.
LEMMA AskedHolds ==
  ASSUME BulkConstants
  PROVE  BulkInv /\ [Next]_vars => AskedStep
  <1> SUFFICES ASSUME BulkInv, [Next]_vars, NEW m \in Msgs, labels'[m] # labels[m],
                      sent' # sent \/ step' # step
               PROVE  /\ labels'[m] = Apply(labels[m]) /\ ~command.dry
                      /\ Cardinality(Sources) = 1
                      /\ m \in IF Sources = {"query"} THEN listed ELSE Named
                      /\ command.verb \in {"label", "unlabel"} => command.label \in Known
                      /\ command.verb = "categorize" => command.label \in Categories
    BY DEF AskedStep
  <1>1. step = "modify" /\ sent < Len(ids) /\ Changed
    BY DEF Next, Command, NewClient, ResolveLabel, ResolveIDs, Send, SendFails, Done, Refuse,
           Again, Arrive, Move, Goto, vars, mailbox, history
  <1>2. m \in Chunk /\ labels'[m] = Apply(labels[m])
    BY <1>1 DEF Changed
  <1>3. m \in Range(ids)
    BY <1>1, <1>2, ChunkBounds DEF BulkInv
  <1> QED
    BY <1>1, <1>2, <1>3 DEF BulkInv, Progress, Asked

-----------------------------------------------------------------------------
(* Repeated by query, a command gets through any number of messages.       *)

\* The command takes the label it searches for off the messages.
TakesOff == command.query \in Change.rem \ Change.add

\* While nobody else changes the mailbox, what is left to match is what was
\* listed less what has been changed, and the ids are a page of it.
Shrinks ==
  quiet /\ TakesOff /\ (step = "modify" \/ (step = "ok" /\ ~command.dry)) =>
    /\ Matching = listed \ touched
    /\ IsFiniteSet(listed) /\ Cardinality(listed) \in Nat
    /\ Range(ids) \subseteq listed /\ IsInjective(ids)
    /\ Len(ids) = IF Cardinality(listed) < PageMax THEN Cardinality(listed) ELSE PageMax

\* Such a command has the query as its source.
LEMMA QuerySource ==
  ASSUME BulkConstants, BulkInv, TakesOff,
         step = "modify" \/ (step = "ids" /\ Cardinality(Sources) = 1)
  PROVE  Sources = {"query"}
  <1>1. Change.rem \subseteq Labels
    <2>1. command.verb \in Verbs
      BY DEF BulkInv, Types, BulkConstants
    <2>2. CASE command.verb = "unlabel"
      BY <2>2 DEF BulkInv, Asked, Change, Labels
    <2>3. CASE command.verb # "unlabel"
      BY <2>1, <2>3 DEF Change, Verbs, Effect, Labels, Categories
    <2> QED
      BY <2>2, <2>3
  <1>2. command.query # None
    BY <1>1 DEF TakesOff, BulkConstants
  <1>3. "query" \in Sources /\ Cardinality(Sources) = 1
    BY <1>2 DEF Sources, BulkInv, Asked
  <1>4. IsFiniteSet({"args", "stdin", "query"})
    <2>1. IsFiniteSet({"args"} \cup {"stdin"})
      BY FS_Singleton, FS_AddElement
    <2>2. IsFiniteSet(({"args"} \cup {"stdin"}) \cup {"query"})
      BY <2>1, FS_AddElement
    <2>3. {"args", "stdin", "query"} = ({"args"} \cup {"stdin"}) \cup {"query"}
      OBVIOUS
    <2> QED
      BY <2>2, <2>3
  <1>5. Sources \in SUBSET {"args", "stdin", "query"}
    BY DEF Sources
  <1>6. IsFiniteSet(Sources)
    BY <1>4, <1>5, FS_Subset
  <1>7. PICK x : Sources = {x}
    BY <1>3, <1>6, FS_Singleton
  <1> QED
    BY <1>3, <1>7

\* Every step keeps it.
LEMMA ShrinksStep ==
  ASSUME BulkConstants
  PROVE  BulkInv /\ Shrinks /\ [Next]_vars => Shrinks'
  <1> SUFFICES ASSUME BulkInv, Shrinks, [Next]_vars, quiet', TakesOff',
                      step' = "modify" \/ (step' = "ok" /\ ~command'.dry)
               PROVE  /\ Matching' = listed' \ touched'
                      /\ IsFiniteSet(listed') /\ Cardinality(listed') \in Nat
                      /\ Range(ids') \subseteq listed' /\ IsInjective(ids')
                      /\ Len(ids') = IF Cardinality(listed') < PageMax
                                     THEN Cardinality(listed') ELSE PageMax
    BY DEF Shrinks
  <1> USE DEF Goto, mailbox, history
  <1>0. /\ UNCHANGED command /\ TakesOff
        /\ UNCHANGED quiet \/ step = "ids"
    <2>1. UNCHANGED command
      BY DEF Next, Command, NewClient, ResolveLabel, ResolveIDs, Send, SendFails, Done, Refuse,
             Again, Arrive, Move, vars
    <2>2. TakesOff
      BY <2>1 DEF TakesOff, Change
    <2>3. UNCHANGED quiet \/ step = "ids"
      BY DEF Next, Command, NewClient, ResolveLabel, ResolveIDs, Send, SendFails, Done, Refuse,
             Again, Arrive, Move, vars
    <2> QED
      BY <2>1, <2>2, <2>3
  <1>1. CASE ResolveIDs
    <2>1. Sources = {"query"}
      BY <1>0, <1>1, QuerySource, ResolveStep DEF ResolveIDs
    <2>2. ids' \in Page /\ listed' = Matching
      BY <1>1, <2>1 DEF ResolveIDs
    <2>3. mail \subseteq Msgs
      BY DEF BulkInv, Types, TypeOK
    <2>4. Matching' = Matching
      BY <1>0, <1>1 DEF ResolveIDs, Matching
    <2>5. touched' = {}
      BY <1>1 DEF ResolveIDs, BulkInv, Types, TypeOK, Progress, UpTo
    <2> QED
      BY <2>2, <2>3, <2>4, <2>5, PageIsSeq
  <1>2. CASE Send
    <2>1. UNCHANGED <<ids, listed, mail, quiet>> /\ step = "modify" /\ sent < Len(ids)
      BY <1>2 DEF Send
    <2>2. Matching = listed \ touched
      BY <1>0, <2>1 DEF Shrinks
    <2>3. /\ labels' = [m \in Msgs |-> IF m \in Chunk THEN Apply(labels[m]) ELSE labels[m]]
          /\ touched' = touched \cup Chunk
      BY <1>2 DEF Send, Changed
    <2>4. mail \subseteq Msgs
      BY DEF BulkInv, Types, TypeOK
    <2>5. \A m \in Msgs : m \in Chunk => command.query \notin labels'[m]
      BY <1>0, <2>3 DEF TakesOff, Apply
    <2>6. \A m \in Msgs : m \notin Chunk => labels'[m] = labels[m]
      BY <2>3
    <2>7. Matching' = Matching \ Chunk
      BY <1>0, <2>1, <2>4, <2>5, <2>6 DEF Matching
    <2> QED
      BY <1>0, <2>1, <2>2, <2>3, <2>7 DEF Shrinks
  <1>3. CASE UNCHANGED <<labels, mail, touched, listed, ids, quiet>>
             /\ (step' = step \/ step = "modify")
    <2>1. Matching' = Matching
      BY <1>0, <1>3 DEF Matching
    <2> QED
      BY <1>0, <1>3, <2>1 DEF Shrinks
  <1>4. CASE UNCHANGED vars
    BY <1>3, <1>4 DEF vars
  <1>5. CASE Done
    BY <1>3, <1>5 DEF Done
  <1>6. ~NewClient /\ ~ResolveLabel /\ ~Refuse /\ ~SendFails /\ ~Again
    BY DEF NewClient, ResolveLabel, Refuse, SendFails, Again
  <1>7. \A m \in Msgs : ~Arrive(m) /\ ~Move(m)
    BY DEF Arrive, Move
  <1> QED
    BY <1>1, <1>2, <1>4, <1>5, <1>6, <1>7 DEF Next, Command

\* What is left when the run has come to its end: nothing, or a page less.
LEMMA DrainsHolds ==
  ASSUME BulkConstants
  PROVE  BulkInv /\ Shrinks => Drains
  <1> SUFFICES ASSUME BulkInv, Shrinks, step = "ok", quiet, ~command.dry, TakesOff
               PROVE  /\ Matching = listed \ touched
                      /\ Cardinality(touched) = PageMax \/ Matching = {}
    BY DEF Drains, TakesOff
  <1>1. touched = Range(ids)
    BY PrefixHolds DEF TouchedPrefix
  <1>2. /\ Matching = listed \ touched
        /\ IsFiniteSet(listed) /\ Cardinality(listed) \in Nat
        /\ Range(ids) \subseteq listed /\ IsInjective(ids)
        /\ Len(ids) = IF Cardinality(listed) < PageMax THEN Cardinality(listed) ELSE PageMax
    BY DEF Shrinks
  <1>3. ids \in [1..Len(ids) -> Range(ids)] /\ Len(ids) \in Nat
    BY DEF BulkInv, Types, TypeOK, Range
  <1>4. ids \in Bijection(1..Len(ids), Range(ids))
    <2>1. ids \in Injection(1..Len(ids), Range(ids))
      BY <1>2, <1>3 DEF Injection
    <2>2. ids \in Surjection(1..Len(ids), Range(ids))
      BY <1>3 DEF Surjection, Range
    <2> QED
      BY <2>1, <2>2 DEF Bijection
  <1>5. Cardinality(Range(ids)) = Len(ids)
    <2> DEFINE n == Len(ids)
    <2>0. n \in Nat
      BY <1>3
    <2> HIDE DEF n
    <2>1. IsFiniteSet(1..n) /\ Cardinality(1..n) = n
      BY <2>0, FS_Interval
    <2>2. ExistsBijection(1..n, Range(ids))
      BY <1>4 DEF ExistsBijection, n
    <2> QED
      BY <2>1, <2>2, FS_Bijection DEF n
  <1>6. CASE Cardinality(listed) < PageMax
    <2>1. touched \in SUBSET listed /\ Cardinality(touched) = Cardinality(listed)
      BY <1>1, <1>2, <1>5, <1>6
    <2>2. touched = listed
      BY <1>2, <2>1, FS_Subset
    <2> QED
      BY <1>2, <2>2
  <1>7. CASE ~(Cardinality(listed) < PageMax)
    BY <1>1, <1>2, <1>5, <1>7
  <1> QED
    BY <1>6, <1>7

-----------------------------------------------------------------------------
\* However a run ends, the messages it has changed are those of the calls
\* that succeeded and at most one chunk more; success means all of them.
THEOREM ChunksTouched == ASSUME BulkConstants PROVE Spec => [](TypeOK /\ TouchedPrefix)
  BY BulkInit, BulkStep, PrefixHolds, PTL DEF Spec

\* Only a message that was asked for is changed by the command, and only as
\* asked; a command line that is refused changes none.
THEOREM AskedOnly == ASSUME BulkConstants PROVE Spec => OnlyAsked
  <1>1. BulkInv /\ [Next]_vars => [AskedStep]_vars
    BY AskedHolds
  <1> QED
    BY <1>1, BulkInit, BulkStep, PTL DEF Spec, OnlyAsked

\* A command that takes off the label it searches for leaves a page less of it
\* with every run that succeeds, or nothing, if nobody else interferes.
THEOREM PageByPage == ASSUME BulkConstants PROVE Spec => []Drains
  <1>1. Init => Shrinks
    BY DEF Init, Shrinks
  <1> QED
    BY <1>1, BulkInit, BulkStep, ShrinksStep, DrainsHolds, PTL DEF Spec
=============================================================================
