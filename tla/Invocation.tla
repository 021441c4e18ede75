------------------------------ MODULE Invocation ------------------------------
(***************************************************************************)
(* One invocation of the CLI around the file migrations: the notice of a   *)
(* token migration, recorded deep inside keychain.Open and shown once at   *)
(* the end (migrationsink, output, rootutil.RunWithMigrationNotice), and   *)
(* the part of `init` that obtains an OAuth client JSON after it           *)
(* (initcmd/init.go: ensureCredentials).                                   *)
(*                                                                         *)
(* init opens the store first (EnsureMigrated) and again once it has a     *)
(* client JSON; every other command opens it once.                         *)
(***************************************************************************)
EXTENDS FileMigration, Sequences

CONSTANTS MaxTries    \* the wizard's attempts

ASSUME TriesAssumption == MaxTries \in Nat \ {0}

\* With and without --json; init, and init --credentials-file.
Commands == {"text", "json", "init", "initFile"}

VARIABLES
  sibling,   \* the client JSON of a sibling CLI
  command,   \* what each process runs
  step,      \* how far it is
  sink,      \* the recorded notice, not yet taken
  blob,      \* the client JSON init is to install
  tries,     \* attempts of the wizard so far
  moved,     \* history: this invocation stored a legacy token
  told       \* history: where it has shown the notice

invocation == <<sibling, command, step, sink, blob, tries, moved, told>>
every == <<vars, invocation>>

Steps == {"off", "open", "ensure", "offer", "check", "truncate", "fill", "reopen",
          "body", "flush", "exit"}

InvocationTypeOK ==
  /\ TypeOK
  /\ sibling \in ClientFile
  /\ command \in [Procs -> Commands]
  /\ step \in [Procs -> Steps]
  /\ sink \in [Procs -> BOOLEAN] /\ moved \in [Procs -> BOOLEAN]
  /\ blob \in [Procs -> ClientFile]
  /\ tries \in [Procs -> 0..MaxTries]
  /\ \A p \in Procs : Len(told[p]) <= 2 /\ \A i \in DOMAIN told[p] : told[p][i] \in {"block", "line", "lost"}

InvocationInit ==
  /\ Init
  /\ sibling \in ClientFile
  /\ command = [p \in Procs |-> "text"]
  /\ step = [p \in Procs |-> "off"]
  /\ sink = [p \in Procs |-> FALSE] /\ moved = [p \in Procs |-> FALSE]
  /\ blob = [p \in Procs |-> Absent]
  /\ tries = [p \in Procs |-> 0]
  /\ told = [p \in Procs |-> <<>>]

On(p, from, to) == step[p] = from /\ step' = [step EXCEPT ![p] = to]

\* RunWithMigrationNotice executes the command.
Execute(p, c) ==
  /\ On(p, "off", "open")
  /\ command' = [command EXCEPT ![p] = c]
  /\ UNCHANGED <<vars, sibling, sink, blob, tries, moved, told>>

\* The process is gone, and its memory with it.
Gone(p) ==
  /\ step' = [step EXCEPT ![p] = "off"]
  /\ command' = [command EXCEPT ![p] = "text"]
  /\ sink' = [sink EXCEPT ![p] = FALSE] /\ moved' = [moved EXCEPT ![p] = FALSE]
  /\ blob' = [blob EXCEPT ![p] = Absent]
  /\ tries' = [tries EXCEPT ![p] = 0]
  /\ told' = [told EXCEPT ![p] = <<>>]

-----------------------------------------------------------------------------
(* keychain.Open.                                                          *)

Opening(p) == step[p] \in {"open", "reopen"}

OpenStep(p) == Opening(p) /\ FileStep(p) /\ UNCHANGED invocation
OpenFault(p) == Opening(p) /\ (Abort(p) \/ UnreadStep(p)) /\ UNCHANGED invocation

\* Only a token that moves is signalled, and right after the keyring write.
Record(p) ==
  /\ Opening(p) /\ StoreTokens(p)
  /\ sink' = [sink EXCEPT ![p] = TRUE] /\ moved' = [moved EXCEPT ![p] = TRUE]
  /\ UNCHANGED <<sibling, command, step, blob, tries, told>>

\* What Open has read is out of scope.
Closed(p) == /\ pc' = [pc EXCEPT ![p] = "idle"]
             /\ cfg' = [cfg EXCEPT ![p] = Defaults]
             /\ got' = [got EXCEPT ![p] = Absent]

Opened(p) ==
  /\ pc[p] = "opened" /\ Closed(p)
  /\ step' = [step EXCEPT ![p] = IF @ = "open" /\ command[p] \in {"init", "initFile"}
                                 THEN "ensure" ELSE "body"]
  /\ UNCHANGED <<files, faults, known, sibling, command, sink, blob, tries, moved, told>>

OpenFailed(p) ==
  /\ pc[p] = "failed" /\ Closed(p)
  /\ step' = [step EXCEPT ![p] = "flush"]
  /\ UNCHANGED <<files, faults, known, sibling, command, sink, blob, tries, moved, told>>

-----------------------------------------------------------------------------
(* ensureCredentials.                                                      *)

Rest == <<sibling, command, sink, moved, told>>

\* --credentials-file first, then a file that is there, whatever it holds, then
\* a sibling's, then the wizard.
Ensure(p) ==
  \/ /\ command[p] = "initFile" /\ On(p, "ensure", "check")
     /\ \E b \in Clients \cup {Invalid} : blob' = [blob EXCEPT ![p] = b]
     /\ UNCHANGED <<vars, Rest, tries>>
  \/ /\ command[p] = "init" /\ client # Absent /\ On(p, "ensure", "reopen")
     /\ UNCHANGED <<vars, Rest, blob, tries>>
  \/ /\ command[p] = "init" /\ client = Absent /\ sibling # Absent /\ On(p, "ensure", "check")
     /\ blob' = [blob EXCEPT ![p] = sibling]
     /\ UNCHANGED <<vars, Rest, tries>>
  \/ /\ command[p] = "init" /\ client = Absent /\ sibling = Absent /\ On(p, "ensure", "offer")
     /\ UNCHANGED <<vars, Rest, blob, tries>>

\* One attempt of the wizard: the clipboard, a paste or a file.
Offer(p, b) ==
  /\ On(p, "offer", "check")
  /\ blob' = [blob EXCEPT ![p] = b]
  /\ tries' = [tries EXCEPT ![p] = @ + 1]
  /\ UNCHANGED <<vars, Rest>>

\* The user leaves the wizard, or no audience is chosen.
Cancel(p) ==
  /\ On(p, "offer", "flush")
  /\ UNCHANGED <<vars, Rest, blob, tries>>

\* After a failed attempt: the wizard offers another, an import gives up.
Otherwise(p) == IF tries[p] \in 1..(MaxTries - 1) THEN "offer" ELSE "flush"

\* writeCredentials: validate ...
Check(p) ==
  /\ On(p, "check", IF blob[p] \in Clients THEN "truncate" ELSE Otherwise(p))
  /\ UNCHANGED <<vars, Rest, blob, tries>>

\* ... and write, not atomically.  From here on nobody is promised the file
\* that the user asked to replace.
ImportTruncate(p) ==
  /\ On(p, "truncate", "fill")
  /\ PutClient(Invalid)
  /\ first' = IF command[p] = "initFile"
              THEN [first EXCEPT !.client = Invalid, !.credentials = credentials] ELSE first
  /\ UNCHANGED <<json, yml, tokens, pc, cfg, got, faults, oneFile, unread, Rest, blob, tries>>

ImportFill(p) ==
  /\ On(p, "fill", "reopen")
  /\ PutClient(blob[p])
  /\ first' = IF first.client \in Clients THEN first
              ELSE [first EXCEPT !.client = blob[p], !.credentials = credentials]
  /\ UNCHANGED <<json, yml, tokens, pc, cfg, got, faults, oneFile, unread, Rest, blob, tries>>

ImportFails(p) ==
  /\ faults < MaxFaults /\ faults' = faults + 1
  /\ step[p] \in {"truncate", "fill"} /\ step' = [step EXCEPT ![p] = Otherwise(p)]
  /\ UNCHANGED <<files, pc, cfg, got, known, Rest, blob, tries>>

-----------------------------------------------------------------------------
(* The end of an invocation.                                               *)

\* Slip: the block is read without being taken.
WriteJSONAgain(p) ==
  /\ command[p] = "json" /\ On(p, "body", "flush")
  /\ told' = [told EXCEPT ![p] = IF sink[p] THEN Append(@, "block") ELSE @]
  /\ UNCHANGED <<vars, sibling, command, sink, blob, tries, moved>>

\* output.JSON takes the notice and splices it into the answer ...
WriteJSON(p) ==
  /\ command[p] = "json" /\ On(p, "body", "flush")
  /\ sink' = [sink EXCEPT ![p] = FALSE]
  /\ told' = [told EXCEPT ![p] = IF sink[p] THEN Append(@, "block") ELSE @]
  /\ UNCHANGED <<vars, sibling, command, blob, tries, moved>>

\* ... which may then not get written.
WriteJSONFails(p) ==
  /\ command[p] = "json" /\ faults < MaxFaults /\ faults' = faults + 1
  /\ On(p, "body", "flush")
  /\ sink' = [sink EXCEPT ![p] = FALSE]
  /\ told' = [told EXCEPT ![p] = IF sink[p] THEN Append(@, "lost") ELSE @]
  /\ UNCHANGED <<files, pc, cfg, got, known, sibling, command, blob, tries, moved>>

\* Text goes to stdout, or the command fails before it has anything to print.
\* After an import or a refusal of the client JSON, init goes on likewise.
Answer(p) ==
  /\ On(p, "body", "flush")
  /\ UNCHANGED <<vars, Rest, blob, tries>>

\* The deferred FlushMigrationNotice.
Flush(p) ==
  /\ On(p, "flush", "exit")
  /\ sink' = [sink EXCEPT ![p] = FALSE]
  /\ told' = [told EXCEPT ![p] = IF sink[p] THEN Append(@, "line") ELSE @]
  /\ UNCHANGED <<vars, sibling, command, blob, tries, moved>>

Exit(p) ==
  /\ step[p] = "exit" /\ Gone(p)
  /\ UNCHANGED <<vars, sibling>>

\* The process is killed.
Kill(p) ==
  /\ step[p] \notin {"off", "exit"} /\ faults < MaxFaults
  /\ faults' = faults + 1
  /\ Gone(p) /\ Closed(p)
  /\ UNCHANGED <<files, known, sibling>>

Step(p) == \/ \E c \in Commands : Execute(p, c)
           \/ OpenStep(p) \/ Record(p) \/ Opened(p) \/ OpenFailed(p)
           \/ Ensure(p) \/ \E b \in Clients \cup {Invalid} : Offer(p, b)
           \/ Cancel(p) \/ Check(p) \/ ImportTruncate(p) \/ ImportFill(p)
           \/ WriteJSON(p) \/ Answer(p) \/ Flush(p) \/ Exit(p)

Fault(p) == OpenFault(p) \/ ImportFails(p) \/ WriteJSONFails(p) \/ Kill(p)

Next == \E p \in Procs : Step(p) \/ Fault(p)

\* Commands keep being run, and each runs to its end.
FairSpec == InvocationInit /\ [][Next]_every /\ \A p \in Procs : WF_every(Step(p))

-----------------------------------------------------------------------------
(* Properties.                                                             *)

\* "fires on success AND error, before any os.Exit, so a one-time migration
\* signal is never lost", and "appears exactly once": an invocation that ends
\* shows the notice once if it moved a token, however it ended, and else never;
\* only an answer that cannot be written takes it along.
NoticeOnce ==
  /\ InvocationTypeOK
  /\ \A p \in Procs : step[p] = "exit" => Len(told[p]) = IF moved[p] THEN 1 ELSE 0

\* Repeated runs come to an end with the legacy files: credentials.json is
\* gone, and config.json too, unless config.yml has taken its place, after which
\* it is never read again; or credentials.json stays because both client JSONs
\* are unusable.
FilesSettle ==
  ~oneFile =>
    \/ <>[](credentials = Absent /\ (json # Absent => yml # Absent))
    \/ <>[](credentials # Absent /\ {credentials, client} \cap Clients = {})
=============================================================================
