------------------------- MODULE Invocation_proofs -------------------------
(* Theorems of Invocation and of the FileMigration it runs, for any client *)
(* JSONs, settings, faults and attempts: the notice for any number of      *)
(* processes, the files for commands that run one at a time.               *)
EXTENDS Invocation, TLAPS

Spec == InvocationInit /\ [][Next]_every

\* Fairness only adds to what is required of a behaviour.
LEMMA FairSpecIsSpec == FairSpec => Spec
  BY PTL DEF FairSpec, Spec

-----------------------------------------------------------------------------
(* Type correctness.                                                       *)

Notices == {"block", "line", "lost"}

\* What is shown is a sequence; the store is open only while it is asked for;
\* the wizard has an attempt left when it asks.
Tried ==
  /\ told \in [Procs -> Seq(Notices)]
  /\ \A p \in Procs : /\ pc[p] # "idle" => Opening(p)
                      /\ step[p] \in {"off", "open", "ensure"} => tries[p] = 0
                      /\ step[p] = "offer" => tries[p] < MaxTries

\* Nothing is shown before the end of the command; then the notice that was
\* recorded is either still to be shown, or shown.
Pending ==
  \A p \in Procs :
    LET shownOnce == ~sink[p] /\ Len(told[p]) = IF moved[p] THEN 1 ELSE 0 IN
    CASE step[p] = "exit"  -> shownOnce
      [] step[p] = "flush" -> shownOnce \/ (sink[p] = moved[p] /\ told[p] = <<>>)
      [] OTHER -> sink[p] = moved[p] /\ told[p] = <<>>

Types == /\ TypeOK
         /\ sibling \in ClientFile
         /\ command \in [Procs -> Commands]
         /\ step \in [Procs -> Steps]
         /\ sink \in [Procs -> BOOLEAN] /\ moved \in [Procs -> BOOLEAN]
         /\ blob \in [Procs -> ClientFile]
         /\ tries \in [Procs -> 0..MaxTries]

\* The steps of keychain.Open, with those that fail.
OpenMoves(p) == FileStep(p) \/ StoreTokens(p) \/ Abort(p) \/ UnreadStep(p)

\* What they share.
LEMMA OpenTypes ==
  ASSUME TypeOK, NEW p \in Procs, OpenMoves(p)
  PROVE  TypeOK'
  <1> USE FileAssumption DEF TypeOK, files, known, Goto, PCs
  <1>1. CASE LoadYAML(p)
    BY <1>1 DEF LoadYAML, ConfigFile
  <1>2. CASE LoadLegacyJSON(p)
    BY <1>2 DEF LoadLegacyJSON, ConfigFile
  <1>3. CASE ReadCredentials(p) \/ ReadTarget(p)
    BY <1>3 DEF ReadCredentials, ReadTarget
  <1>4. CASE Truncate(p) \/ Fill(p) \/ RemoveCredentials(p)
    BY <1>4 DEF Truncate, Fill, RemoveCredentials, PutClient, DropCredentials, ClientFile
  <1>5. CASE StatYAML(p) \/ StatJSON(p)
    BY <1>5 DEF StatYAML, StatJSON
  <1>6. CASE SavePromoted(p) \/ RemoveJSON(p) \/ TokensMigrated(p)
    BY <1>6 DEF SavePromoted, RemoveJSON, TokensMigrated, ConfigFile
  <1>7. CASE PlanTokens(p) \/ StoreTokens(p) \/ CleanTokens(p)
    BY <1>7 DEF PlanTokens, StoreTokens, CleanTokens, Tokens
  <1>8. CASE Abort(p)
    BY <1>8 DEF Abort
  <1>9. CASE UnreadStep(p)
    <2>1. unread' \in BOOLEAN
      BY <1>9 DEF UnreadStep, CredentialsUnread, TargetUnread
    <2> QED
      BY <1>9, <2>1 DEF UnreadStep, CredentialsUnread, TargetUnread
  <1> QED
    BY <1>1, <1>2, <1>3, <1>4, <1>5, <1>6, <1>7, <1>8, <1>9 DEF OpenMoves, FileStep

\* Every step keeps the types.
LEMMA TypesStep == Types /\ Tried /\ [Next]_every => Types'
  <1> SUFFICES ASSUME Types, Tried, [Next]_every PROVE Types'
    OBVIOUS
  <1> USE FileAssumption, TriesAssumption DEF Types, invocation, On, Steps
  <1>1. CASE UNCHANGED every
    BY <1>1 DEF every, vars, TypeOK
  <1>2. ASSUME NEW p \in Procs, OpenStep(p) \/ OpenFault(p)
        PROVE  Types'
    BY <1>2, OpenTypes DEF OpenStep, OpenFault, OpenMoves
  <1>3. ASSUME NEW p \in Procs, Record(p)
        PROVE  Types'
    BY <1>3, OpenTypes DEF Record, OpenMoves
  <1>4. ASSUME NEW p \in Procs, Opened(p) \/ OpenFailed(p)
        PROVE  Types'
    BY <1>4 DEF Opened, OpenFailed, Closed, TypeOK, files, known, PCs, ClientFile
  <1>5. ASSUME NEW p \in Procs, \E c \in Commands : Execute(p, c)
        PROVE  Types'
    BY <1>5 DEF Execute, vars, TypeOK
  <1>6. ASSUME NEW p \in Procs, Ensure(p)
        PROVE  Types'
    BY <1>6 DEF Ensure, Rest, vars, TypeOK, ClientFile
  <1>7. ASSUME NEW p \in Procs, NEW b \in Clients \cup {Invalid}, Offer(p, b)
        PROVE  Types'
    <2>1. tries[p] + 1 \in 0..MaxTries
      BY <1>7 DEF Offer, Tried
    <2> QED
      BY <1>7, <2>1 DEF Offer, Rest, vars, TypeOK, ClientFile
  <1>8. ASSUME NEW p \in Procs, Cancel(p) \/ Check(p) \/ Answer(p)
        PROVE  Types'
    BY <1>8 DEF Cancel, Check, Answer, Otherwise, Rest, vars, TypeOK
  <1>9. ASSUME NEW p \in Procs, ImportTruncate(p) \/ ImportFill(p)
        PROVE  Types'
    <2>1. first' \in [credentials : ClientFile, client : ClientFile,
                       json : ConfigFile, yml : ConfigFile]
      BY <1>9 DEF ImportTruncate, ImportFill, TypeOK, ClientFile
    <2>2. client' \in ClientFile /\ credentials' \in ClientFile
      BY <1>9 DEF ImportTruncate, ImportFill, PutClient, TypeOK, ClientFile
    <2> QED
      BY <1>9, <2>1, <2>2 DEF ImportTruncate, ImportFill, Rest, TypeOK
  <1>10. ASSUME NEW p \in Procs, ImportFails(p)
         PROVE  Types'
    BY <1>10 DEF ImportFails, Otherwise, Rest, files, known, TypeOK
  <1>11. ASSUME NEW p \in Procs, WriteJSON(p) \/ Flush(p)
         PROVE  Types'
    BY <1>11 DEF WriteJSON, Flush, vars, TypeOK
  <1>12. ASSUME NEW p \in Procs, WriteJSONFails(p)
         PROVE  Types'
    BY <1>12 DEF WriteJSONFails, files, known, TypeOK
  <1>13. ASSUME NEW p \in Procs, Exit(p) \/ Kill(p)
         PROVE  Types'
    <2>1. /\ step' \in [Procs -> Steps] /\ command' \in [Procs -> Commands]
          /\ sink' \in [Procs -> BOOLEAN] /\ moved' \in [Procs -> BOOLEAN]
          /\ blob' \in [Procs -> ClientFile] /\ tries' \in [Procs -> 0..MaxTries]
          /\ UNCHANGED sibling
      <3>1. Gone(p) /\ UNCHANGED sibling
        BY <1>13 DEF Exit, Kill
      <3>2. 0 \in 0..MaxTries
        OBVIOUS
      <3>3. /\ step' \in [Procs -> Steps] /\ command' \in [Procs -> Commands]
            /\ blob' \in [Procs -> ClientFile] /\ tries' \in [Procs -> 0..MaxTries]
        BY <3>1, <3>2 DEF Gone, ClientFile, Commands
      <3>4. sink' \in [Procs -> BOOLEAN] /\ moved' \in [Procs -> BOOLEAN]
        BY <3>1 DEF Gone
      <3> QED
        BY <3>1, <3>3, <3>4
    <2>2. TypeOK'
      BY <1>13 DEF Exit, Kill, Closed, files, known, vars, TypeOK, PCs, ClientFile
    <2> QED
      BY <2>1, <2>2
  <1> QED
    BY <1>1, <1>2, <1>3, <1>4, <1>5, <1>6, <1>7, <1>8, <1>9, <1>10, <1>11, <1>12,
       <1>13 DEF Next, Step, Fault

-----------------------------------------------------------------------------
(* The notice.                                                             *)

NoticeInv == Types /\ Tried /\ Pending

\* Every step shows the recorded notice at most once, and only at the end.
LEMMA NoticeStep == NoticeInv /\ [Next]_every => NoticeInv'
  <1> SUFFICES ASSUME NoticeInv, [Next]_every PROVE Tried' /\ Pending'
    BY TypesStep DEF NoticeInv
  <1>0. /\ Types /\ Tried /\ Pending
        /\ step \in [Procs -> Steps] /\ sink \in [Procs -> BOOLEAN]
        /\ moved \in [Procs -> BOOLEAN] /\ told \in [Procs -> Seq(Notices)]
        /\ tries \in [Procs -> 0..MaxTries] /\ MaxTries \in Nat \ {0}
    BY TriesAssumption DEF NoticeInv, Types, Tried
  <1>00. pc \in [Procs -> PCs]
    BY DEF NoticeInv, Types, TypeOK
  <1> USE DEF invocation, On
  <1> USE <1>0, <1>00
  <1>1. ASSUME UNCHANGED <<step, sink, tries, moved, told>>,
               \A p \in Procs : pc'[p] # "idle" => pc[p] # "idle" \/ Opening(p)
        PROVE  Tried' /\ Pending'
    BY <1>1 DEF Tried, Pending, Opening
  <1>2. CASE UNCHANGED every
    BY <1>1, <1>2 DEF every, vars
  <1>3. ASSUME NEW p \in Procs, OpenStep(p) \/ OpenFault(p)
        PROVE  Tried' /\ Pending'
    <2>1. Opening(p) /\ (FileStep(p) \/ Abort(p) \/ UnreadStep(p)) /\ UNCHANGED invocation
      BY <1>3 DEF OpenStep, OpenFault
    <2>2. \A q \in Procs \ {p} : pc'[q] = pc[q]
      BY <2>1 DEF FileStep, Abort, UnreadStep, CredentialsUnread, TargetUnread, LoadYAML, LoadLegacyJSON, ReadCredentials, ReadTarget,
                  Truncate, Fill, RemoveCredentials, StatYAML, StatJSON, SavePromoted,
                  RemoveJSON, PlanTokens, CleanTokens, TokensMigrated, Goto, PCs
    <2> QED
      BY <1>1, <2>1, <2>2 DEF PCs, TypeOK
  <1>4. ASSUME NEW p \in Procs, Record(p)
        PROVE  Tried' /\ Pending'
    BY <1>4 DEF Record, StoreTokens, Goto, Opening, Tried, Pending
  <1>5. ASSUME NEW p \in Procs, Opened(p) \/ OpenFailed(p)
        PROVE  Tried' /\ Pending'
    <2>1. /\ Opening(p) /\ pc' = [pc EXCEPT ![p] = "idle"]
          /\ step[p] = "reopen" => step'[p] \in {"body", "flush"}
          /\ step'[p] \in {"ensure", "body", "flush"}
          /\ \E to \in Steps : step' = [step EXCEPT ![p] = to]
          /\ UNCHANGED <<sink, tries, moved, told>>
      BY <1>5 DEF Opened, OpenFailed, Closed, Tried, Steps
    <2> QED
      BY <2>1 DEF Opening, Tried, Pending
  <1>6. ASSUME NEW p \in Procs, \E c \in Commands : Execute(p, c)
        PROVE  Tried' /\ Pending'
    BY <1>6 DEF Execute, vars, Tried, Pending, Opening
  <1>7. ASSUME NEW p \in Procs, Ensure(p)
        PROVE  Tried' /\ Pending'
    <2>1. /\ step[p] = "ensure" /\ UNCHANGED <<pc, sink, moved, told, tries>>
          /\ \E to \in {"check", "reopen", "offer"} : step' = [step EXCEPT ![p] = to]
      BY <1>7 DEF Ensure, Rest, vars
    <2> QED
      BY <2>1 DEF Tried, Pending, Opening
  <1>8. ASSUME NEW p \in Procs, NEW b \in Clients \cup {Invalid}, Offer(p, b)
        PROVE  Tried' /\ Pending'
    BY <1>8 DEF Offer, Rest, vars, Tried, Pending, Opening
  <1>9. ASSUME NEW p \in Procs,
               \/ Cancel(p) \/ Check(p) \/ Answer(p)
               \/ ImportTruncate(p) \/ ImportFill(p) \/ ImportFails(p)
        PROVE  Tried' /\ Pending'
    <2>1. /\ step[p] \in {"offer", "check", "body", "truncate", "fill"}
          /\ UNCHANGED <<pc, sink, moved, told, tries>>
          /\ \E to \in {"flush", "truncate", "offer", "fill", "reopen"} :
               /\ step' = [step EXCEPT ![p] = to]
               /\ to = "offer" => tries[p] < MaxTries
      BY <1>9 DEF Cancel, Check, Answer, ImportTruncate, ImportFill, ImportFails, Otherwise,
                  Rest, vars
    <2> QED
      BY <2>1 DEF Tried, Pending, Opening
  <1>10. ASSUME NEW p \in Procs, WriteJSON(p) \/ WriteJSONFails(p) \/ Flush(p)
         PROVE  Tried' /\ Pending'
    <2>1. /\ UNCHANGED <<pc, moved, tries>>
          /\ sink' = [sink EXCEPT ![p] = FALSE]
          /\ \E n \in Notices :
               told' = [told EXCEPT ![p] = IF sink[p] THEN Append(@, n) ELSE @]
          /\ \/ step[p] = "body" /\ step' = [step EXCEPT ![p] = "flush"]
             \/ step[p] = "flush" /\ step' = [step EXCEPT ![p] = "exit"]
      BY <1>10 DEF WriteJSON, WriteJSONFails, Flush, vars, Notices
    <2>2. PICK n \in Notices :
            told' = [told EXCEPT ![p] = IF sink[p] THEN Append(@, n) ELSE @]
      BY <2>1
    <2>3. sink[p] => moved[p] /\ told[p] = <<>>
      BY <2>1 DEF Pending
    <2>4. ~sink[p] => Len(told[p]) = IF moved[p] THEN 1 ELSE 0
      BY <2>1 DEF Pending
    <2>5. Append(told[p], n) \in Seq(Notices) /\ Append(<<>>, n) = <<n>> /\ Len(<<n>>) = 1
      OBVIOUS
    <2>6. told'[p] = IF sink[p] THEN <<n>> ELSE told[p]
      BY <2>2, <2>3, <2>5
    <2>7. told' \in [Procs -> Seq(Notices)]
      BY <2>2, <2>5
    <2>8. Len(told'[p]) = IF moved[p] THEN 1 ELSE 0
      BY <2>3, <2>4, <2>5, <2>6
    <2>9. Pending'
      BY <2>1, <2>2, <2>8 DEF Pending
    <2>10. Tried'
      BY <2>1, <2>7 DEF Tried, Opening
    <2> QED
      BY <2>9, <2>10
  <1>11. ASSUME NEW p \in Procs, Exit(p) \/ Kill(p)
         PROVE  Tried' /\ Pending'
    <2>1. /\ Gone(p)
          /\ pc' = [pc EXCEPT ![p] = "idle"] \/ (pc' = pc /\ step[p] = "exit")
      BY <1>11 DEF Exit, Kill, Closed, vars
    <2>2. told' \in [Procs -> Seq(Notices)]
      <3>1. <<>> \in Seq(Notices)
        OBVIOUS
      <3> QED
        BY <2>1, <3>1 DEF Gone
    <2>4. Tried'
      BY <2>1, <2>2 DEF Gone, Tried, Opening
    <2>3. Pending'
      BY <2>1 DEF Gone, Pending
    <2> QED
      BY <2>3, <2>4
  <1> QED
    BY <1>2, <1>3, <1>4, <1>5, <1>6, <1>7, <1>8, <1>9, <1>10, <1>11 DEF Next, Step, Fault

\* The invariant holds at the start.
LEMMA NoticeInit == InvocationInit => NoticeInv
  <1> SUFFICES ASSUME InvocationInit PROVE NoticeInv
    OBVIOUS
  <1>1. 0 \in 0..MaxTries /\ 0 \in 0..MaxFaults /\ MaxTries > 0
    BY TriesAssumption, FileAssumption
  <1>2. TypeOK
    BY <1>1, FileAssumption DEF InvocationInit, Init, TypeOK, ClientFile, ConfigFile, PCs, Tokens
  <1>3. Types
    BY <1>1, <1>2 DEF InvocationInit, Types, Commands, Steps, ClientFile
  <1>4. <<>> \in Seq(Notices) /\ Len(<<>>) = 0
    OBVIOUS
  <1>5. Tried
    BY <1>1, <1>4 DEF InvocationInit, Init, Tried
  <1>6. Pending
    BY DEF InvocationInit, Pending
  <1> QED
    BY <1>3, <1>5, <1>6 DEF NoticeInv

\* However many invocations run, and however they end: one that moved a token
\* and comes to its end has shown the notice once, any other never.
THEOREM NoticeShownOnce == Spec => []NoticeOnce
  <1>1. NoticeInv => NoticeOnce
    <2> SUFFICES ASSUME NoticeInv PROVE NoticeOnce
      OBVIOUS
    <2>1. ASSUME NEW p \in Procs
          PROVE  told[p] \in Seq(Notices) /\ Len(told[p]) <= 1
      <3>1. told[p] \in Seq(Notices)
        BY DEF NoticeInv, Tried
      <3>2. Len(<<>>) = 0
        OBVIOUS
      <3>3. \/ told[p] = <<>>
            \/ Len(told[p]) = IF moved[p] THEN 1 ELSE 0
        BY DEF NoticeInv, Pending
      <3> QED
        BY <3>1, <3>2, <3>3
    <2>2. InvocationTypeOK
      BY <2>1 DEF NoticeInv, Types, InvocationTypeOK, Notices
    <2>3. \A p \in Procs : step[p] = "exit" => Len(told[p]) = IF moved[p] THEN 1 ELSE 0
      BY DEF NoticeInv, Pending
    <2> QED
      BY <2>2, <2>3 DEF NoticeOnce
  <1> QED
    BY <1>1, NoticeInit, NoticeStep, PTL DEF Spec

-----------------------------------------------------------------------------
(* The settings, while one command runs at a time.                         *)

Alone == \A p, q \in Procs : p = q

\* What config.yml is to hold once there is one.
Kept == IF first.yml # Absent THEN first.yml ELSE first.json

\* The settings are in config.yml, or still in config.json.
SettingsAt == yml = Kept \/ (yml = Absent /\ first.yml = Absent /\ json = Kept)

\* A process that has loaded the settings carries them, until it closes the
\* store, and removes config.json only after it has saved them.
Carries(p) ==
  /\ pc[p] = "loadJSON" => yml = Absent
  /\ pc[p] \notin {"idle", "loadJSON", "opened", "failed"} => cfg[p] = Kept
  /\ pc[p] = "unlink" => yml = Kept

Carried == Kept # Absent => SettingsAt /\ \A p \in Procs : Carries(p)

CarryInv == NoticeInv /\ Carried

\* Every step of keychain.Open keeps the settings.
LEMMA OpenCarries ==
  ASSUME TypeOK, NEW p \in Procs, OpenMoves(p),
         Kept # Absent, SettingsAt, Carries(p)
  PROVE  SettingsAt' /\ Carries(p)'
  <1> USE FileAssumption DEF TypeOK, files, known, Goto, PCs, Kept, SettingsAt, Carries
  <1>1. CASE LoadYAML(p)
    BY <1>1 DEF LoadYAML
  <1>2. CASE LoadLegacyJSON(p)
    BY <1>2 DEF LoadLegacyJSON
  <1>3. CASE ReadCredentials(p) \/ ReadTarget(p)
    BY <1>3 DEF ReadCredentials, ReadTarget
  <1>4. CASE Truncate(p) \/ Fill(p) \/ RemoveCredentials(p)
    BY <1>4 DEF Truncate, Fill, RemoveCredentials
  <1>5. CASE StatYAML(p) \/ StatJSON(p)
    BY <1>5 DEF StatYAML, StatJSON
  <1>6. CASE SavePromoted(p)
    BY <1>6 DEF SavePromoted
  <1>7. CASE RemoveJSON(p)
    BY <1>7 DEF RemoveJSON
  <1>8. CASE PlanTokens(p) \/ StoreTokens(p) \/ CleanTokens(p)
    BY <1>8 DEF PlanTokens, StoreTokens, CleanTokens, Tokens
  <1>9. CASE TokensMigrated(p)
    BY <1>9 DEF TokensMigrated
  <1>10. CASE Abort(p)
    BY <1>10 DEF Abort
  <1>11. CASE UnreadStep(p)
    BY <1>11 DEF UnreadStep, CredentialsUnread, TargetUnread
  <1> QED
    BY <1>1, <1>2, <1>3, <1>4, <1>5, <1>6, <1>7, <1>8, <1>9, <1>10, <1>11
    DEF OpenMoves, FileStep

\* Every other step leaves both files alone.
LEMMA CarriedStep == Alone /\ CarryInv /\ [Next]_every => Carried'
  <1> SUFFICES ASSUME Alone, NoticeInv, Carried, [Next]_every PROVE Carried'
    BY DEF CarryInv
  <1>1. TypeOK
    BY DEF NoticeInv, Types
  <1>2. ASSUME UNCHANGED <<yml, json, first>>,
               \A q \in Procs : \/ pc'[q] = "idle"
                               \/ (pc'[q] = pc[q] /\ cfg'[q] = cfg[q])
        PROVE  Carried'
    BY <1>2 DEF Carried, SettingsAt, Carries, Kept
  <1>3. ASSUME NEW p \in Procs, OpenMoves(p)
        PROVE  Carried'
    <2>1. UNCHANGED first
      BY <1>3 DEF OpenMoves, UnreadStep, CredentialsUnread, TargetUnread, known,
                  FileStep, StoreTokens, Abort, LoadYAML, LoadLegacyJSON, ReadCredentials,
                  ReadTarget, Truncate, Fill, RemoveCredentials, StatYAML, StatJSON,
                  SavePromoted, RemoveJSON, PlanTokens, CleanTokens, TokensMigrated
    <2>2. Kept' = Kept
      BY <2>1 DEF Kept
    <2> QED
      BY <1>1, <1>3, <2>2, OpenCarries DEF Carried, Alone
  <1>4. ASSUME NEW p \in Procs, ImportTruncate(p) \/ ImportFill(p)
        PROVE  Carried'
    <2>1. first'.yml = first.yml /\ first'.json = first.json
      BY <1>1, <1>4 DEF ImportTruncate, ImportFill, TypeOK
    <2>2. UNCHANGED <<yml, json, pc, cfg>>
      BY <1>4 DEF ImportTruncate, ImportFill
    <2> QED
      BY <2>1, <2>2 DEF Carried, SettingsAt, Carries, Kept
  <1>5. ASSUME NEW p \in Procs, \/ Opened(p) \/ OpenFailed(p) \/ Kill(p)
        PROVE  Carried'
    <2>1. UNCHANGED <<yml, json, first>>
      BY <1>5 DEF Opened, OpenFailed, Kill, files, known
    <2>2. pc'[p] = "idle"
      BY <1>1, <1>5 DEF Opened, OpenFailed, Kill, Closed, TypeOK
    <2>3. ASSUME NEW q \in Procs PROVE pc'[q] = "idle"
      <3>1. q = p
        BY DEF Alone
      <3> QED
        BY <2>2, <3>1
    <2> QED
      BY <2>1, <2>3 DEF Carried, SettingsAt, Carries, Kept
  <1>6. CASE UNCHANGED vars
    BY <1>2, <1>6 DEF vars
  <1>7. ASSUME NEW p \in Procs, ImportFails(p) \/ WriteJSONFails(p)
        PROVE  Carried'
    BY <1>2, <1>7 DEF ImportFails, WriteJSONFails, files, known
  <1>8. ASSUME NEW p \in Procs,
               \/ \E c \in Commands : Execute(p, c)
               \/ Ensure(p) \/ \E b \in Clients \cup {Invalid} : Offer(p, b)
               \/ Cancel(p) \/ Check(p) \/ WriteJSON(p) \/ Answer(p) \/ Flush(p) \/ Exit(p)
        PROVE  UNCHANGED vars
    BY <1>8 DEF Execute, Ensure, Offer, Cancel, Check, WriteJSON, Answer, Flush, Exit
  <1> QED
    BY <1>3, <1>4, <1>5, <1>6, <1>7, <1>8 DEF Next, Step, Fault, OpenStep, OpenFault, OpenMoves, Record, every

\* Commands that run one at a time, however often they fail or are killed,
\* read the user's config.json until config.yml has taken it over, and never
\* write other settings there.
THEOREM SettingsAreKept == ASSUME Alone PROVE Spec => []SettingsKept
  <1>1. InvocationInit => CarryInv
    BY NoticeInit DEF InvocationInit, Init, CarryInv, Carried, SettingsAt, Carries, Kept
  <1>2. CarryInv /\ [Next]_every => CarryInv'
    BY NoticeStep, CarriedStep DEF CarryInv
  <1>3. CarryInv => SettingsKept
    BY DEF CarryInv, Carried, SettingsAt, Kept, SettingsKept
  <1> QED
    BY <1>1, <1>2, <1>3, PTL DEF Spec

-----------------------------------------------------------------------------
(* The OAuth client JSON, while one command runs at a time.                *)

\* A usable target stays, unless it could not be read; the two files hold
\* nothing usable but what they held, and credentials.json is left alone until
\* the target is usable.
Safe ==
  /\ first.client \in Clients /\ ~unread => client = first.client
  /\ client = Absent => first.client \notin Clients
  /\ client \in Clients => client \in {first.client, first.credentials}
  /\ \/ credentials = first.credentials
     \/ credentials = Absent /\ client \in Clients
  /\ {first.client, first.credentials} \cap Clients # {}
       => client \in Clients \/ credentials \in Clients

\* The migration writes what credentials.json still holds, over an unusable
\* target or one that could not be read, and removes it once the target is
\* usable.
Moving(p) ==
  /\ pc[p] = "target" => got[p] = credentials /\ credentials # Absent
  /\ pc[p] \in {"truncate", "fill"} =>
       /\ got[p] = credentials /\ credentials \in Clients
       /\ first.client \in Clients => unread
  /\ pc[p] = "remove" => client \in Clients

\* init installs a file nobody named only where there is no usable one.
Installing(p) ==
  /\ step[p] \in {"ensure", "offer", "check", "truncate", "fill"} =>
       command[p] \in {"init", "initFile"}
  /\ step[p] \in {"offer", "check", "truncate", "fill"} /\ command[p] = "init"
       => client \notin Clients /\ first.client \notin Clients
  /\ step[p] = "offer" => command[p] = "init"
  /\ command[p] # "init" => tries[p] = 0
  /\ step[p] = "fill" => first.client \notin Clients

Custody(p) == Safe /\ Moving(p) /\ Installing(p)

CustodyInv == NoticeInv /\ (~oneFile => Safe /\ \A p \in Procs : Custody(p))

\* Every step of keychain.Open keeps the client JSON.
LEMMA OpenSafe ==
  ASSUME TypeOK, NEW p \in Procs, OpenMoves(p),
         ~oneFile, Safe, Moving(p)
  PROVE  Safe' /\ Moving(p)'
  <1> USE FileAssumption DEF TypeOK, files, known, Goto, PCs, PutClient, DropCredentials,
                             Safe, Moving
  <1>1. CASE LoadYAML(p) \/ LoadLegacyJSON(p)
    BY <1>1 DEF LoadYAML, LoadLegacyJSON
  <1>2. CASE ReadCredentials(p)
    BY <1>2 DEF ReadCredentials
  <1>3. CASE ReadTarget(p)
    BY <1>3 DEF ReadTarget
  <1>4. CASE Truncate(p)
    BY <1>4 DEF Truncate
  <1>5. CASE Fill(p)
    BY <1>5 DEF Fill
  <1>6. CASE RemoveCredentials(p)
    BY <1>6 DEF RemoveCredentials
  <1>7. CASE StatYAML(p) \/ StatJSON(p)
    BY <1>7 DEF StatYAML, StatJSON
  <1>8. CASE SavePromoted(p) \/ RemoveJSON(p) \/ TokensMigrated(p)
    BY <1>8 DEF SavePromoted, RemoveJSON, TokensMigrated
  <1>9. CASE PlanTokens(p) \/ StoreTokens(p) \/ CleanTokens(p)
    BY <1>9 DEF PlanTokens, StoreTokens, CleanTokens, Tokens
  <1>10. CASE Abort(p)
    BY <1>10 DEF Abort
  <1>11. CASE UnreadStep(p)
    <2>1. CASE CredentialsUnread(p)
      BY <2>1 DEF CredentialsUnread
    <2>2. CASE TargetUnread(p)
      <3>1. /\ UNCHANGED <<credentials, client, first>> /\ pc[p] = "target"
            /\ unread => unread'
            /\ got' = got
        BY <2>2 DEF TargetUnread
      <3>2. pc'[p] = "failed" \/ (pc'[p] = "truncate" /\ got[p] \in Clients)
        BY <2>2 DEF TargetUnread
      <3>3. got[p] \in Clients /\ client \in Clients => unread'
        BY <2>2 DEF TargetUnread
      <3> QED
        BY <3>1, <3>2, <3>3
    <2> QED
      BY <1>11, <2>1, <2>2 DEF UnreadStep
  <1> QED
    BY <1>1, <1>2, <1>3, <1>4, <1>5, <1>6, <1>7, <1>8, <1>9, <1>10, <1>11
    DEF OpenMoves, FileStep

\* The configuration is not edited meanwhile.
LEMMA OneFileStays == [Next]_every => oneFile' = oneFile
  <1> SUFFICES ASSUME [Next]_every PROVE oneFile' = oneFile
    OBVIOUS
  <1>1. CASE UNCHANGED every
    BY <1>1 DEF every, vars
  <1>2. ASSUME NEW p \in Procs, OpenStep(p) \/ OpenFault(p) \/ Record(p)
        PROVE  oneFile' = oneFile
    BY <1>2 DEF OpenStep, OpenFault, Record, UnreadStep, CredentialsUnread, TargetUnread, known,
                FileStep, StoreTokens, Abort, LoadYAML, LoadLegacyJSON, ReadCredentials,
                ReadTarget, Truncate, Fill, RemoveCredentials, StatYAML, StatJSON,
                SavePromoted, RemoveJSON, PlanTokens, CleanTokens, TokensMigrated
  <1>3. ASSUME NEW p \in Procs, \/ Opened(p) \/ OpenFailed(p) \/ ImportFails(p)
                                \/ WriteJSONFails(p) \/ Kill(p)
                                \/ ImportTruncate(p) \/ ImportFill(p)
        PROVE  oneFile' = oneFile
    BY <1>3 DEF Opened, OpenFailed, ImportFails, WriteJSONFails, Kill, ImportTruncate,
                ImportFill, known
  <1>4. ASSUME NEW p \in Procs,
               \/ \E c \in Commands : Execute(p, c)
               \/ Ensure(p) \/ \E b \in Clients \cup {Invalid} : Offer(p, b)
               \/ Cancel(p) \/ Check(p) \/ WriteJSON(p) \/ Answer(p) \/ Flush(p) \/ Exit(p)
        PROVE  oneFile' = oneFile
    BY <1>4 DEF Execute, Ensure, Offer, Cancel, Check, WriteJSON, Answer, Flush, Exit, vars
  <1> QED
    BY <1>1, <1>2, <1>3, <1>4 DEF Next, Step, Fault

\* Every other step of a process keeps it, too.
LEMMA CustodyStep ==
  ASSUME Types, Tried, ~oneFile, NEW p \in Procs, Step(p) \/ Fault(p), Custody(p)
  PROVE  Custody(p)'
  <1>0. /\ TypeOK /\ pc \in [Procs -> PCs] /\ step \in [Procs -> Steps]
        /\ command \in [Procs -> Commands] /\ tries \in [Procs -> 0..MaxTries]
        /\ pc[p] # "idle" => Opening(p)
        /\ step[p] \in {"off", "open", "ensure"} => tries[p] = 0
        /\ Absent \notin Clients /\ Invalid \notin Clients
    BY FileAssumption DEF Types, Tried, TypeOK
  <1> USE <1>0 DEF On
  <1>1. ASSUME OpenMoves(p), Opening(p),
               UNCHANGED <<step, command, tries>>
        PROVE  Custody(p)'
    BY <1>1, OpenSafe DEF Custody, Installing, Opening
  <1>2. CASE OpenStep(p) \/ OpenFault(p) \/ Record(p)
    BY <1>1, <1>2 DEF OpenMoves, OpenStep, OpenFault, Record, invocation
  <1>3. CASE Opened(p)
    <2>1. /\ UNCHANGED <<credentials, client, known, command, tries>>
          /\ pc'[p] = "idle"
          /\ step'[p] \in {"ensure", "body"}
          /\ step'[p] = "ensure" => command[p] \in {"init", "initFile"}
      BY <1>3 DEF Opened, Closed, files, Custody, Moving
    <2> QED
      BY <2>1 DEF known, Custody, Safe, Moving, Installing
  <1>4. CASE OpenFailed(p)
    <2>1. /\ UNCHANGED <<credentials, client, known, command, tries>>
          /\ pc'[p] = "idle" /\ step'[p] = "flush"
      BY <1>4 DEF OpenFailed, Closed, files
    <2> QED
      BY <2>1 DEF known, Custody, Safe, Moving, Installing
  <1>5. CASE \E c \in Commands : Execute(p, c)
    BY <1>5 DEF Execute, vars, Custody, Safe, Moving, Installing
  <1>6. CASE Ensure(p)
    BY <1>6 DEF Ensure, Rest, vars, Custody, Safe, Moving, Installing
  <1>7. CASE \E b \in Clients \cup {Invalid} : Offer(p, b)
    BY <1>7 DEF Offer, Rest, vars, Custody, Safe, Moving, Installing
  <1>8. CASE Cancel(p) \/ Answer(p)
    BY <1>8 DEF Cancel, Answer, Rest, vars, Custody, Safe, Moving, Installing
  <1>9. CASE Check(p)
    BY <1>9 DEF Check, Otherwise, Rest, vars, Custody, Safe, Moving, Installing
  <1>10. CASE ImportTruncate(p)
    BY <1>10 DEF ImportTruncate, PutClient, Rest, Opening, Custody, Safe, Moving, Installing, TypeOK
  <1>11. CASE ImportFill(p)
    BY <1>11 DEF ImportFill, PutClient, Rest, Opening, Custody, Safe, Moving, Installing, TypeOK
  <1>12. CASE ImportFails(p)
    BY <1>12 DEF ImportFails, Otherwise, Rest, files, known, Custody, Safe, Moving, Installing
  <1>13. CASE WriteJSON(p) \/ Flush(p)
    BY <1>13 DEF WriteJSON, Flush, vars, Custody, Safe, Moving, Installing
  <1>14. CASE WriteJSONFails(p)
    BY <1>14 DEF WriteJSONFails, files, known, Custody, Safe, Moving, Installing
  <1>15. CASE Exit(p) \/ Kill(p)
    <2>1. /\ UNCHANGED <<credentials, client, known>>
          /\ pc'[p] = "idle" /\ step'[p] = "off" /\ tries'[p] = 0
      BY <1>15 DEF Exit, Kill, Gone, Closed, Opening, vars, files, known, TypeOK
    <2> QED
      BY <2>1 DEF known, Custody, Safe, Moving, Installing
  <1> QED
    BY <1>2, <1>3, <1>4, <1>5, <1>6, <1>7, <1>8, <1>9, <1>10, <1>11, <1>12, <1>13,
       <1>14, <1>15 DEF Step, Fault

\* Commands that run one at a time keep a usable client JSON, while it is not
\* oauth_client_path that names credentials.json: through every kill in the
\* middle of the migration, through every failure of it but a usable target
\* that could not be read, where the one from credentials.json is kept, and
\* through every init that was not told to replace it.
THEOREM ClientIsKept == ASSUME Alone PROVE Spec => []ClientKept
  <1>1. InvocationInit => CustodyInv
    BY NoticeInit, FileAssumption
    DEF InvocationInit, Init, CustodyInv, Custody, Safe, Moving, Installing
  <1>2. CustodyInv /\ [Next]_every => CustodyInv'
    <2> SUFFICES ASSUME CustodyInv, [Next]_every,
                        ~oneFile'
                 PROVE  Safe' /\ \A p \in Procs : Custody(p)'
      BY NoticeStep DEF CustodyInv
    <2>0. ~oneFile
      BY OneFileStays
    <2>1. CASE UNCHANGED every
      BY <2>0, <2>1 DEF every, vars, invocation, CustodyInv, Custody, Safe, Moving, Installing
    <2>2. ASSUME NEW p \in Procs, Step(p) \/ Fault(p)
          PROVE  Safe' /\ \A q \in Procs : Custody(q)'
      <3>1. Custody(p)'
        BY <2>0, <2>2, CustodyStep DEF CustodyInv, NoticeInv
      <3>2. ASSUME NEW q \in Procs PROVE Custody(q)'
        <4>1. q = p
          BY DEF Alone
        <4> QED
          BY <3>1, <4>1
      <3> QED
        BY <3>1, <3>2 DEF Custody
    <2> QED
      BY <2>1, <2>2 DEF Next
  <1>3. CustodyInv => ClientKept
    BY DEF CustodyInv, Safe, ClientKept
  <1> QED
    BY <1>1, <1>2, <1>3, PTL DEF Spec
=============================================================================
