------------------------------ MODULE MailDraft ------------------------------
(***************************************************************************)
(* `mail draft` (mailcmd/draft.go, gmail/drafts.go), and `mail read` of    *)
(* the mailbox it leaves behind (mailcmd/output.go, quoted_reply.go).      *)
(*                                                                         *)
(* A run composes one draft, alone or in reply to a message of the         *)
(* mailbox, and may fail at each step; afterwards any message, the draft   *)
(* included, is read.  An address is a model value, a header that the code *)
(* parses is Malformed or a sequence of addresses, a value with a line     *)
(* break in it is Illegal, and a flag that was not given is None.  Display *)
(* names, encodings and the wording of headers are left out.               *)
(***************************************************************************)
EXTENDS QuotedReply, Selection

CONSTANTS
  Addrs,       \* addresses
  Lower,       \* the address in lower case
  None, Malformed, Illegal,
  Me,          \* the account's address
  Cases,       \* sets of command lines, each with the message in the mailbox
  Nodes        \* the nodes of HTML bodies, and all that is inside them

(* A command line:                                                         *)
(*   reply      None, "blank" or "id"       replyAll, noQuote  BOOLEAN     *)
(*   to, cc, bcc  None, Malformed, Illegal or a sequence of addresses      *)
(*   from       None, Malformed, Illegal or an address                     *)
(*   subject    None, Illegal or "new"      sources, formats   the flags   *)
(*   authored   the lines or nodes written, balanced tags or not           *)
(*   attach     names of attachments                                       *)
(* A message:                                                              *)
(*   thread, id (None without Message-Id), refs, from, to, cc, subject,    *)
(*   body (None without a body part)                                       *)

Headed  == {None, Malformed, Illegal} \cup Seq(Addrs)
Fields  == {"thread", "id", "refs", "from", "to", "cc", "subject", "body"}
Body    == [html : {FALSE}, lines : Seq(Line)]
           \cup [html : {TRUE}, kids : Seq(Nodes), balanced : BOOLEAN]

\* What the constants are; MailCommands assumes it.
DraftConstants ==
  /\ Lower \in [Addrs -> Addrs] /\ Me \in Addrs /\ Deep \in Nat
  /\ \A n \in Nodes : /\ n = Node(n.tag, n.kids) /\ n.kids \in Seq(Nodes)
                      /\ n.tag \in Childless => n.kids = <<>>
  /\ \A S \in Cases : \A c \in S :
       /\ c.cmd.to \in Headed /\ c.cmd.cc \in Headed /\ c.cmd.bcc \in Headed
       /\ c.cmd.from \in {None, Malformed, Illegal} \cup Addrs
       /\ c.cmd.formats = {"plain"} => c.cmd.authored \in Seq(Line)
       /\ ~(Cardinality(c.cmd.formats) > 1) /\ c.cmd.formats # {"plain"} =>
            c.cmd.authored \in Seq(Nodes)
       /\ c.cmd.balanced \in BOOLEAN /\ c.source.body \in {None} \cup Body
       /\ DOMAIN c.source = Fields /\ c.source = [f \in Fields |-> c.source[f]]
       /\ c.source.refs \in Seq(Range(c.source.refs))
       /\ c.source.from \in {None, Malformed} \cup Addrs
       /\ c.source.to \in {Malformed} \cup Seq(Addrs) /\ c.source.cc \in {Malformed} \cup Seq(Addrs)

VARIABLES
  pc,       \* the step of the command
  cmd,      \* its flags
  source,   \* the message in the mailbox
  src,      \* the source of the reply as fetched, or None
  self,     \* the lower-case addresses of the user, for --reply-all
  draft,    \* the DraftMessage being built
  drafts,   \* the Drafts folder
  shown     \* a body and what the terminal shows of it, or None

vars == <<pc, cmd, source, src, self, draft, drafts, shown>>

Empty == [thread |-> None, inReplyTo |-> None, refs |-> <<>>, from |-> None,
          to |-> <<>>, cc |-> <<>>, bcc |-> <<>>, subject |-> None,
          attach |-> {}, body |-> None]

IsReply  == cmd.reply # None
Given(v) == v # None

Needs == [to      |-> ~Given(cmd.to),
          cc      |-> cmd.replyAll /\ ~Given(cmd.cc),
          subject |-> ~Given(cmd.subject)]

Init ==
  /\ \E S \in Cases : \E c \in S : cmd = c.cmd /\ source = c.source
  /\ pc = "flags" /\ src = None /\ self = {} /\ draft = Empty
  /\ drafts = {} /\ shown = None

Fail(from) == /\ pc = from /\ pc' = "failed"
              /\ UNCHANGED <<cmd, source, src, self, draft, drafts, shown>>

-----------------------------------------------------------------------------
(* Steps 1 to 5: what is wrong with the flags alone.                       *)

Problems ==
  { p \in {"reply", "mode", "required", "illegal", "address", "recipient", "body", "format"} :
      CASE p = "reply"     -> cmd.reply = "blank"
        [] p = "mode"      -> ~IsReply /\ (cmd.replyAll \/ cmd.noQuote)
        [] p = "required"  -> ~IsReply /\ (~Given(cmd.to) \/ ~Given(cmd.subject))
        [] p = "illegal"   -> Illegal \in {cmd.to, cmd.cc, cmd.bcc, cmd.from, cmd.subject}
        [] p = "address"   -> Malformed \in {cmd.to, cmd.cc, cmd.bcc, cmd.from}
        [] p = "recipient" -> cmd.to = <<>>
        [] p = "body"      -> IF IsReply THEN Cardinality(cmd.sources) > 1
                                         ELSE Cardinality(cmd.sources) # 1
        [] p = "format"    -> Cardinality(cmd.formats) > 1 }

Reject == Problems # {} /\ Fail("flags")

OrNone(addrs) == IF Given(addrs) THEN addrs ELSE <<>>

\* Steps 3, 6, 7 and 8: read and render the body, read the attachments.
Compose ==
  /\ pc = "flags" /\ Problems = {} /\ pc' = "client"
  /\ draft' = [Empty EXCEPT
       !.to = OrNone(cmd.to), !.cc = OrNone(cmd.cc), !.bcc = OrNone(cmd.bcc),
       !.from = cmd.from, !.subject = cmd.subject, !.attach = cmd.attach,
       !.body = IF cmd.formats = {"plain"} THEN Plain(cmd.authored)
                ELSE HTML(cmd.authored, cmd.balanced)]
  /\ UNCHANGED <<cmd, source, src, self, drafts, shown>>

\* A file or stdin cannot be read, or the markdown not be rendered.
ComposeFails == Problems = {} /\ (cmd.sources \cup cmd.attach # {}) /\ Fail("flags")

-----------------------------------------------------------------------------
(* Step 9: the client and the source of the reply.                         *)

NewClient ==
  /\ pc = "client" /\ pc' = IF IsReply THEN "fetch" ELSE "create"
  /\ UNCHANGED <<cmd, source, src, self, draft, drafts, shown>>

\* With --no-quote only the headers are asked for.
FetchSource ==
  /\ pc = "fetch"
  /\ src' = IF cmd.noQuote THEN [source EXCEPT !.body = None] ELSE source
  /\ pc' = IF Needs.cc THEN "profile" ELSE "derive"
  /\ UNCHANGED <<cmd, source, self, draft, drafts, shown>>

FetchProfile ==
  /\ pc = "profile" /\ pc' = "derive"
  /\ self' = {Lower[a] : a \in {Me} \cup ({cmd.from} \ {None})}
  /\ UNCHANGED <<cmd, source, src, draft, drafts, shown>>

\* No client, no message, no profile.
ServiceFails == Fail("client") \/ Fail("fetch") \/ Fail("profile")

-----------------------------------------------------------------------------
(* deriveReplyDefaults.                                                    *)

\* Slip: the Message-Id is added again to a chain that ends with it.
ReferencesAgain(refs, id) == Append(refs, id)

BuildReferences(refs, id) ==
  IF refs # <<>> /\ Last(refs) = id THEN refs ELSE Append(refs, id)

\* Slip: addresses are compared as they are written.
FilterAsWritten(addrs, mine) ==
  Selected(addrs, {i \in DOMAIN addrs : /\ addrs[i] \notin mine
                                        /\ \A j \in 1..i-1 : addrs[j] # addrs[i]})

\* Drop the user's own addresses, and all but the first of equal ones.
FilterSelf(addrs, mine) ==
  Selected(addrs, {i \in DOMAIN addrs : /\ Lower[addrs[i]] \notin mine
                                        /\ \A j \in 1..i-1 : Lower[addrs[j]] # Lower[addrs[i]]})

Underivable ==
  \/ src.id = None
  \/ Needs.to /\ src.from \in {None, Malformed}
  \/ Needs.cc /\ Malformed \in {src.to, src.cc}

DeriveFails == pc = "derive" /\ Underivable /\ Fail("derive")

\* A subject that begins with Re: is left alone.
AddRePrefix(s) == CASE s = "old" -> "Re: old" [] s = "Re: old" -> s [] OTHER -> s

QuotePlain(lines) ==
  [i \in DOMAIN lines |-> IF lines[i] \in {"blank", "emptyquote"} THEN "emptyquote" ELSE "quote"]

\* Slip: no blank line between the text and the attribution.
QuotedBelow(authored, quote) ==
  IF authored = <<>> THEN <<"attribution", "blank">> \o quote
  ELSE authored \o <<"attribution", "blank">> \o quote

QuoteReply(authored, quote) ==
  (IF authored = <<>> THEN <<>> ELSE Append(authored, "blank")) \o <<"attribution", "blank">> \o quote

\* An HTML source is nested as it is, or as text when the parser fails on it,
\* a plain one as lines of text; in a plain reply the source of an HTML
\* message is quoted as text.
Quote(body, of) ==
  IF body.html
  THEN LET inner == IF of.html THEN IF Parses(of) THEN of.kids ELSE <<Leaf("text")>>
                    ELSE [i \in DOMAIN of.lines |-> Leaf(IF of.lines[i] = "blank" THEN "space" ELSE "text")]
           block == Node("quote", <<Leaf("text"), Leaf("space"), Node("quote", inner)>>)
       IN  [body EXCEPT !.kids = IF @ = <<>> THEN <<block>> ELSE @ \o <<Leaf("space"), block>>]
  ELSE [body EXCEPT !.lines = QuoteReply(@, QuotePlain(IF of.html THEN <<"text">> ELSE of.lines))]

Derive ==
  /\ pc = "derive" /\ ~Underivable /\ pc' = "create"
  /\ draft' = [draft EXCEPT
       !.thread = src.thread, !.inReplyTo = src.id,
       !.refs = BuildReferences(src.refs, src.id),
       !.to = IF Needs.to THEN <<src.from>> ELSE @,
       !.cc = IF Needs.cc THEN FilterSelf(src.to \o src.cc, self) ELSE @,
       !.subject = IF Needs.subject THEN AddRePrefix(src.subject) ELSE @,
       !.body = IF src.body # None THEN Quote(@, src.body) ELSE @]
  /\ UNCHANGED <<cmd, source, src, self, drafts, shown>>

-----------------------------------------------------------------------------
(* CreateDraft.                                                            *)

Headers(d) == Range(d.to) \cup Range(d.cc) \cup Range(d.bcc) \cup Range(d.refs)
              \cup {d.from, d.subject, d.inReplyTo} \cup d.attach

\* guardHeaderInjection: a line break in a header or a parameter of one.
GuardHeaderInjection(d) == Illegal \in Headers(d)

BuildFails == (draft.to = <<>> \/ GuardHeaderInjection(draft)) /\ Fail("create")

\* The service stores the draft; its answer may be lost.
CreateDraft ==
  /\ pc = "create" /\ draft.to # <<>> /\ ~GuardHeaderInjection(draft)
  /\ drafts' = drafts \cup {draft}
  /\ pc' \in {"created", "failed"}
  /\ UNCHANGED <<cmd, source, src, self, draft, shown>>

CreateFails == Fail("create")

-----------------------------------------------------------------------------
(* `mail read`.                                                            *)

Read(body) ==
  /\ pc \in {"created", "failed"} /\ pc' = "shown"
  /\ body # None /\ shown' = [of |-> body, as |-> ElideQuotedReplyBody(body)]
  /\ UNCHANGED <<cmd, source, src, self, draft, drafts>>

Next == \/ Reject \/ Compose \/ ComposeFails
        \/ NewClient \/ FetchSource \/ FetchProfile \/ ServiceFails
        \/ Derive \/ DeriveFails \/ BuildFails \/ CreateDraft \/ CreateFails
        \/ \E m \in drafts \cup {source} : Read(m.body)

Spec == Init /\ [][Next]_vars

-----------------------------------------------------------------------------
Step == {"flags", "client", "fetch", "profile", "derive", "create", "created", "failed", "shown"}

\* Only parsed addresses reach the draft.
TypeOK ==
  /\ pc \in Step /\ src \in {None, source, [source EXCEPT !.body = None]}
  /\ self \subseteq Range(Lower)
  /\ Range(draft.to) \cup Range(draft.cc) \cup Range(draft.bcc) \subseteq Addrs
  /\ draft.from \in Addrs \cup {None}
  /\ drafts \subseteq {draft}

\* A stored draft has a recipient, and no header or parameter of one has a
\* line break in it, wherever the value came from: a flag, the source
\* message, or the name of a file.
HeadersClean == \A d \in drafts : d.to # <<>> /\ Illegal \notin Headers(d)

\* What the user wrote in a flag is what the draft has, in a reply as well;
\* --to, --cc and --subject take the place of what would be derived.
OverridesWin ==
  \A d \in drafts :
    /\ Given(cmd.to) => d.to = cmd.to
    /\ Given(cmd.cc) => d.cc = cmd.cc
    /\ Given(cmd.subject) => d.subject = cmd.subject
    /\ d.bcc = OrNone(cmd.bcc) /\ d.from = cmd.from

\* A reply continues the conversation: the source's thread, In-Reply-To its
\* Message-Id, and References its chain, ended by that Message-Id.  A chain
\* that ends with it already has it once, one that has it further up twice.
ReplyThreaded ==
  \A d \in drafts : IsReply =>
    /\ d.thread = source.thread /\ d.inReplyTo = source.id
    /\ IsPrefix(source.refs, d.refs) /\ Last(d.refs) = source.id
    /\ IsInjective(source.refs) /\ source.id \notin Range(Front(source.refs)) => IsInjective(d.refs)

\* --reply-all copies everyone the source went to, each once and in one
\* spelling, and never the user, under the account's address or the alias.
EveryoneOnce ==
  \A d \in drafts : IsReply /\ Needs.cc =>
    /\ Cardinality({Lower[a] : a \in Range(d.cc)}) = Len(d.cc)
    /\ {Lower[a] : a \in Range(d.cc)} =
         {Lower[a] : a \in Range(source.to) \cup Range(source.cc)}
           \ {Lower[a] : a \in {Me} \cup ({cmd.from} \ {None})}

\* A draft that is stored is the one that was asked for, and can be sent: its
\* headers are clean, what the flags say wins, and a reply is in its thread.
DraftFaithful == TypeOK /\ HeadersClean /\ OverridesWin /\ ReplyThreaded
=============================================================================
