------------------------------ MODULE MailCommands ------------------------------
(***************************************************************************)
(* The commands of mailcmd that write: `mail draft` (MailDraft), the       *)
(* commands on many messages (BulkModify) and the download of attachments  *)
(* (Attachments).  A process runs one of them; they share no state but the *)
(* account, so that each behaviour follows one command and leaves the      *)
(* others at a first state of theirs.                                      *)
(***************************************************************************)
EXTENDS MailDraft

CONSTANTS
  Msgs, Known, Batch, PageMax, Broken, Commands, MaxRuns,     \* of BulkModify
  Parts, Height, Messages, Requests, Archives,                \* of Attachments
  Clean(_), Escapes(_), Join(_, _), MaxFileSize, MaxTotalSize, MaxFiles, MaxDepth

VARIABLES
  kind,   \* the command that runs
  step, command, ids, sent, labels, mail, runs, touched, listed, quiet,
  stage, message, request, todo, at, used, next, name, files, dirs,
  archive, entry, total, unpacked, reported

Bulk     == INSTANCE BulkModify
Download == INSTANCE Attachments

bulkVars == <<step, command, ids, sent, labels, mail, runs, touched, listed, quiet>>
downloadVars == <<stage, message, request, todo, at, used, next, name, files, dirs,
                  archive, entry, total, unpacked, reported>>

\* What a command that does not run is left at.
SomeCase    == CHOOSE c \in (CHOOSE S \in Cases : TRUE) : TRUE
SomeCommand == CHOOSE c \in Commands : TRUE
SomeMessage == CHOOSE x \in Messages : TRUE
SomeRequest == CHOOSE r \in Requests : TRUE

NoDraft    == cmd = SomeCase.cmd /\ source = SomeCase.source
NoBulk     == command = SomeCommand /\ labels = [m \in Msgs |-> {"inbox"}] /\ mail = Msgs
NoDownload == message = SomeMessage /\ request = SomeRequest

MailInit ==
  \/ kind = "draft" /\ NoBulk /\ Bulk!Init /\ NoDownload /\ Download!Init /\ Init
  \/ kind = "bulk" /\ NoDraft /\ Init /\ NoDownload /\ Download!Init /\ Bulk!Init
  \/ kind = "download" /\ NoDraft /\ Init /\ NoBulk /\ Bulk!Init /\ Download!Init

MailNext ==
  \/ kind = "draft" /\ Next /\ UNCHANGED <<kind, bulkVars, downloadVars>>
  \/ kind = "bulk" /\ Bulk!Next /\ UNCHANGED <<kind, vars, downloadVars>>
  \/ kind = "download" /\ Download!Next /\ UNCHANGED <<kind, vars, bulkVars>>

MailSpec == MailInit /\ [][MailNext]_<<kind, vars, bulkVars, downloadVars>>

ASSUME DraftAssumption      == DraftConstants
ASSUME BulkAssumption       == Bulk!BulkConstants
ASSUME AttachmentAssumption == Download!Limits

-----------------------------------------------------------------------------
(* Properties of the two, for this specification.                          *)

\* What a bulk run has changed, at any moment and however it ends: all of what
\* the calls that succeeded were given, and beyond it at most one chunk, that
\* of a call that failed.
BulkTouchedPrefix == Bulk!TypeOK /\ Bulk!TouchedPrefix

\* The command itself changes a message only if it was named, or matched the
\* query that was the only source, and then as the verb says; a dry run, an
\* unknown label or category, or two sources change nothing.
BulkOnlyAsked == Bulk!OnlyAsked

\* Repeated by query, a command that takes off the label it searches for gets
\* through any number of messages, a page with every successful run.
BulkDrains == Bulk!Drains

\* Downloaded attachments are whole when the command ends, under the reported
\* names, each its own, unless something was written at the very same path;
\* names made up for some take no other's away.
DownloadIntact == Download!TypeOK /\ Download!Intact /\ Download!KeepsName

\* Whatever an archive declares and wherever its extraction fails, what is
\* unpacked of it stays within the limits, but for the last file.
DownloadBounded == Download!Bounded
=============================================================================
