------------------------------ MODULE BulkModify ------------------------------
(***************************************************************************)
(* The commands that change the labels of many messages: archive, star,    *)
(* unstar, mark-read, mark-unread, label, unlabel and categorize (mailcmd),*)
(* the source of the message ids they share (bulk/resolve.go), and the     *)
(* client's ModifyMessages and SearchMessageIDs (gmail).  A command may    *)
(* fail at any call of the service, whose answer may be lost after the     *)
(* change was made, and may be run again; meanwhile mail arrives and the   *)
(* user moves messages about elsewhere.                                    *)
(***************************************************************************)
EXTENDS Integers, Sequences, FiniteSets, Functions

CONSTANTS
  Msgs,        \* message ids
  Known,       \* the account's user labels
  Batch,       \* ids in one BatchModify (1000)
  PageMax,     \* ids in one page of a search
  None, Broken,   \* a flag not given; a stdin that cannot be read
  Commands,    \* command lines
  MaxRuns      \* bound on the runs of a command

Categories == {"personal", "social", "promotions", "updates", "forums"}
Labels     == Categories \cup Known \cup {"inbox", "starred", "unread"}
Verbs      == {"archive", "star", "unstar", "markread", "markunread",
               "label", "unlabel", "categorize"}

\* What the constants are; MailCommands assumes it.
BulkConstants ==
  /\ IsFiniteSet(Msgs) /\ Batch \in Nat \ {0} /\ PageMax \in Nat \ {0}
  /\ MaxRuns \in Nat \ {0} /\ None \notin Labels
  /\ \A c \in Commands : /\ c.verb \in Verbs /\ c.args \in Seq(Msgs) /\ c.dry \in BOOLEAN
                         /\ c.stdin \notin {None, Broken} => c.stdin \in Seq(Msgs)

(* A command line:                                                         *)
(*   verb    a member of Verbs                                             *)
(*   label   the first argument of label, unlabel and categorize           *)
(*   args    sequence of ids     stdin   None, Broken or a sequence of ids *)
(*   query   None, or the label searched for     dry   BOOLEAN             *)

VARIABLES
  step,      \* where the command is
  command,   \* its flags
  ids,       \* the ids resolved
  sent,      \* how many of them ModifyMessages is through with
  labels,    \* the mailbox: the labels of each message
  mail,      \* the messages that have arrived
  runs,
  touched,   \* history: messages this run has changed
  listed,    \* history: messages that matched the query when it was made
  quiet      \* history: nobody else has changed the mailbox since

mailbox == <<labels, mail>>
history == <<touched, listed, quiet>>
vars == <<step, command, ids, sent, mailbox, runs, history>>

Effect == [archive     |-> [add |-> {}, rem |-> {"inbox"}],
           star        |-> [add |-> {"starred"}, rem |-> {}],
           unstar      |-> [add |-> {}, rem |-> {"starred"}],
           markread    |-> [add |-> {}, rem |-> {"unread"}],
           markunread  |-> [add |-> {"unread"}, rem |-> {}]]

\* The label a label command adds or removes; categorize adds one category
\* and removes them all.
Change == CASE command.verb = "label"      -> [add |-> {command.label}, rem |-> {}]
            [] command.verb = "unlabel"    -> [add |-> {}, rem |-> {command.label}]
            [] command.verb = "categorize" -> [add |-> {command.label}, rem |-> Categories]
            [] OTHER                       -> Effect[command.verb]

\* Slip: the labels to add and to remove change places.
ApplySwapped(L) == (L \ Change.add) \cup Change.rem

\* What the service does with a change: an added label stays.
Apply(L) == (L \ Change.rem) \cup Change.add

\* The messages the command line names are in the mailbox.
Named == Range(command.args)
         \cup IF command.stdin \in {None, Broken} THEN {} ELSE Range(command.stdin)

Init ==
  /\ command \in Commands
  /\ step = "start" /\ ids = <<>> /\ sent = 0 /\ runs = 1
  /\ labels \in [Msgs -> {{"inbox"}, {"inbox", "updates"}}]
  /\ mail \in SUBSET Msgs /\ Named \subseteq mail
  /\ touched = {} /\ listed = {} /\ quiet = TRUE

Goto(from, to) == step = from /\ step' = to

-----------------------------------------------------------------------------
\* categorize refuses an unknown category before it makes a client.
NewClient ==
  /\ Goto("start", "client")
  /\ command.verb = "categorize" => command.label \in Categories
  /\ UNCHANGED <<command, ids, sent, mailbox, runs, history>>

\* label and unlabel resolve the name before the ids.
ResolveLabel ==
  /\ Goto("client", "ids")
  /\ command.verb \in {"label", "unlabel"} => command.label \in Known
  /\ UNCHANGED <<command, ids, sent, mailbox, runs, history>>

Sources == {s \in {"args", "stdin", "query"} :
              CASE s = "args"  -> command.args # <<>>
                [] s = "stdin" -> command.stdin # None
                [] s = "query" -> command.query # None}

Matching == {m \in mail : command.query \in labels[m]}

\* SearchMessageIDs: one page of what matches, whichever the service picks.
Page == LET n == IF Cardinality(Matching) < PageMax THEN Cardinality(Matching) ELSE PageMax
        IN {s \in [1..n -> Matching] : IsInjective(s)}

\* Slip: several sources are taken together with the first one winning.
AnySource ==
  /\ Goto("ids", IF command.dry THEN "ok" ELSE "modify")
  /\ Sources # {} /\ command.stdin = None
  /\ IF command.args # <<>> THEN ids' = command.args ELSE ids' \in Page
  /\ listed' = IF command.query # None THEN Matching ELSE {}
  /\ quiet' = TRUE
  /\ UNCHANGED <<command, sent, mailbox, runs, touched>>

\* ResolveIDs, from exactly one source.
ResolveIDs ==
  /\ Goto("ids", IF command.dry THEN "ok" ELSE "modify")
  /\ \/ Sources = {"args"} /\ ids' = command.args /\ listed' = {}
     \/ Sources = {"stdin"} /\ command.stdin \notin {Broken, <<>>} /\ ids' = command.stdin /\ listed' = {}
     \/ Sources = {"query"} /\ ids' \in Page /\ listed' = Matching
  /\ quiet' = TRUE
  /\ UNCHANGED <<command, sent, mailbox, runs, touched>>

\* What ModifyMessages sends next: a single id by itself, else at most Batch of them.
Through == IF sent + Batch < Len(ids) THEN sent + Batch ELSE Len(ids)
Chunk   == {ids[i] : i \in sent+1..Through}

Changed == /\ labels' = [m \in Msgs |-> IF m \in Chunk THEN Apply(labels[m]) ELSE labels[m]]
           /\ touched' = touched \cup Chunk

\* Slip: the loop stops before a last chunk that is not full.
SendFull ==
  /\ step = "modify" /\ sent < Len(ids)
  /\ Changed /\ sent' = Through
  /\ step' = IF sent' + Batch > Len(ids) THEN "ok" ELSE "modify"
  /\ UNCHANGED <<command, ids, mail, runs, listed, quiet>>

Send ==
  /\ step = "modify" /\ sent < Len(ids)
  /\ Changed /\ sent' = Through
  /\ UNCHANGED <<step, command, ids, mail, runs, listed, quiet>>

\* A call fails, before or after the service has made the change; the
\* chunks before it stay changed.
SendFails ==
  /\ sent < Len(ids) /\ Goto("modify", "failed")
  /\ Changed \/ UNCHANGED <<labels, touched>>
  /\ UNCHANGED <<command, ids, sent, mail, runs, listed, quiet>>

\* No ids are left: the command reports how many it changed.
Done ==
  /\ sent = Len(ids) /\ Goto("modify", "ok")
  /\ UNCHANGED <<command, ids, sent, mailbox, runs, history>>

\* An argument is refused, or a call before ModifyMessages fails.
Refuse ==
  /\ \/ Goto("start", "failed")
     \/ Goto("client", "failed") /\ command.verb \in {"label", "unlabel"}
     \/ /\ Goto("ids", "failed")
        /\ Cardinality(Sources) # 1 \/ command.stdin \in {Broken, <<>>} \/ command.query # None
  /\ UNCHANGED <<command, ids, sent, mailbox, runs, history>>

-----------------------------------------------------------------------------
\* The same command line once more.
Again ==
  /\ step \in {"ok", "failed"} /\ runs < MaxRuns
  /\ step' = "start" /\ runs' = runs + 1
  /\ ids' = <<>> /\ sent' = 0 /\ touched' = {} /\ listed' = {}
  /\ UNCHANGED <<command, mailbox, quiet>>

Arrive(m) ==
  /\ m \notin mail /\ mail' = mail \cup {m} /\ quiet' = FALSE
  /\ UNCHANGED <<step, command, ids, sent, labels, runs, touched, listed>>

\* The user moves a message in or out of the inbox elsewhere.
Move(m) ==
  /\ m \in mail /\ quiet' = FALSE
  /\ labels' = [labels EXCEPT ![m] = IF "inbox" \in @ THEN @ \ {"inbox"} ELSE @ \cup {"inbox"}]
  /\ UNCHANGED <<step, command, ids, sent, mail, runs, touched, listed>>

Command == NewClient \/ ResolveLabel \/ ResolveIDs \/ Send \/ SendFails \/ Done \/ Refuse

Next == \/ Command \/ Again
        \/ \E m \in Msgs : Arrive(m) \/ Move(m)

Spec == Init /\ [][Next]_vars

-----------------------------------------------------------------------------
TypeOK ==
  /\ step \in {"start", "client", "ids", "modify", "ok", "failed"}
  /\ ids \in Seq(mail)
  /\ sent \in 0..Len(ids) /\ runs \in 1..MaxRuns
  /\ labels \in [Msgs -> SUBSET Labels]
  /\ mail \subseteq Msgs /\ touched \subseteq mail /\ listed \subseteq mail /\ quiet \in BOOLEAN
  /\ step \in {"start", "client", "ids"} => ids = <<>>

\* What a run has changed, at any moment and however it ends: all of what the
\* calls that succeeded were given, and beyond it at most one chunk, that of
\* a call that failed.  A run that reports success has changed every message
\* it was given, unless it is a dry run, which has changed none.
TouchedPrefix ==
  LET upTo(n) == {ids[i] : i \in 1..n} IN
  /\ \/ touched = upTo(sent)
     \/ step = "failed" /\ touched = upTo(Through)
  /\ step = "ok" => touched = IF command.dry THEN {} ELSE Range(ids)

\* The command itself changes a message only if it was named, or matched the
\* query that was the only source, and then as the verb says: nothing is
\* changed by a command line with two sources, an unknown label or category,
\* or --dry-run.
AskedStep ==
  sent' # sent \/ step' # step => \A m \in Msgs :
     labels'[m] # labels[m] =>
       /\ labels'[m] = Apply(labels[m]) /\ ~command.dry
       /\ Cardinality(Sources) = 1 /\ m \in IF Sources = {"query"} THEN listed ELSE Named
       /\ command.verb \in {"label", "unlabel"} => command.label \in Known
       /\ command.verb = "categorize" => command.label \in Categories

\* This of every step.
OnlyAsked == [][AskedStep]_vars

\* A command that takes the label it searches for off the messages makes
\* progress with every successful run: a page less of them match, none when
\* they were less than a page, if nobody else interferes.  Repeated, it gets
\* through any number, though each run lists one page only.
Drains ==
  step = "ok" /\ quiet /\ ~command.dry /\ command.query \in Change.rem \ Change.add =>
    /\ Matching = listed \ touched
    /\ Cardinality(touched) = PageMax \/ Matching = {}
=============================================================================
