------------------------------- MODULE Reading -------------------------------
(***************************************************************************)
(* What `mail read` shows of the mailbox that `mail draft` leaves behind:  *)
(* properties of MailCommands that are about what is elided.               *)
(***************************************************************************)
EXTENDS MailCommands

HasText(body) == body.html \/ Range(body.lines) \ {"blank", "emptyquote"} # {}

\* What a mail client writes around a quote, in what the user wrote: a body
\* may be cut there.
ClientMarks(body) ==
  IF body.html
  THEN {i \in DOMAIN body.kids : body.kids[i].tag \in {"hr", "cite"}} # {}
  ELSE "marker" \in Range(body.lines)

\* The two commands agree on what a quote is: `mail read` of a reply that
\* `mail draft` made shows what the user wrote, all of it and nothing else but
\* a blank, and the source elided.  It is shown whole when the user's own text
\* holds the banner of a forwarded message or tags that do not match, or the
\* parser fails on it.
ReadBack ==
  shown # None /\ drafts # {} /\ shown.of = draft.body /\ shown.of # source.body
    /\ ~cmd.noQuote /\ IsReply /\ source.body # None /\ HasText(source.body) =>
      IF draft.body.html
      THEN IF ~cmd.balanced \/ ~Parses(draft.body) THEN shown.as = shown.of
           ELSE ~ClientMarks(HTML(cmd.authored, TRUE)) =>
                  \E blank \in {<<>>, <<Leaf("space")>>} :
                    shown.as.kids = cmd.authored \o blank \o <<Leaf("elided")>>
      ELSE IF "forward" \in Range(cmd.authored) THEN shown.as = shown.of
           ELSE ~ClientMarks(Plain(cmd.authored)) =>
                  \E blank \in {<<>>, <<"blank">>} :
                    shown.as.lines = cmd.authored \o blank \o <<"elided">>

-----------------------------------------------------------------------------
\* An element gives way to its kids, blank text to nothing.
Opened(n) == CASE n.tag = "space" -> <<>>
               [] n.tag # "space" /\ n.kids = <<>> -> <<n>>
               [] OTHER -> n.kids

OpenAll(nodes) == FlattenSeq([i \in DOMAIN nodes |-> Opened(nodes[i])])

\* A forest opened level by level.
Opening(kids) ==
  LET opening[d \in 0..Deep] == IF d = 0 THEN kids ELSE OpenAll(opening[d - 1])
  IN  opening

\* The lines of a body, or the leaves of one that parses, in their order.
Content(body) == IF body.html THEN Opening(body.kids)[Deep] ELSE body.lines
Mark(body)    == IF body.html THEN Leaf("elided") ELSE "elided"

\* What is elided is the end of the body: all that stands before it is
\* shown, and nothing is left behind it.
OnlyTailElided ==
  shown # None /\ shown.as # shown.of =>
    /\ Content(shown.as) # <<>> /\ Last(Content(shown.as)) = Mark(shown.of)
    /\ IsPrefix(Front(Content(shown.as)), Content(shown.of))

EndsWith(s, last, blank) ==
  \E i \in DOMAIN s : s[i] = last /\ \A j \in DOMAIN s : j > i => s[j] = blank

Tags(kids) == [i \in DOMAIN kids |-> kids[i].tag]

\* A body that ends with something the user wrote below the quote is shown
\* whole, unless a client's own divider says that all below is history.
BottomReplyKept ==
  shown # None =>
    IF shown.of.html
    THEN EndsWith(Tags(shown.of.kids), "text", "space") /\ "hr" \notin Range(Tags(shown.of.kids))
           => shown.as = shown.of
    ELSE EndsWith(shown.of.lines, "text", "blank") /\ "marker" \notin Range(shown.of.lines)
           => shown.as = shown.of

\* What is elided of a plain body is the quote alone: where a whole
\* attribution heads a quote, and no header block is there to end the body,
\* the lines above the attribution are shown.
OnlyQuoteElided ==
  shown # None /\ ~shown.of.html /\ shown.as # shown.of
    /\ "marker" \notin Range(shown.of.lines) =>
      \A i \in DOMAIN shown.of.lines :
        shown.of.lines[i] = "attribution" => Len(shown.as.lines) >= i

\* The elided text of a plain body has no quote left to elide.
ElidedOnce == shown # None /\ ~shown.of.html => ElideQuotedReplyBody(shown.as) = shown.as

\* Whatever the body, the elision takes a quote off its end and nothing the
\* user wrote below one, and does it once.
ElisionSafe == OnlyTailElided /\ BottomReplyKept /\ ElidedOnce
=============================================================================
