----------------------------- MODULE QuotedReply -----------------------------
(***************************************************************************)
(* mailcmd/quoted_reply.go: which part of an HTML body `mail read` and     *)
(* `mail thread` leave out as quoted history, and what they show of any    *)
(* body instead.                                                           *)
(***************************************************************************)
EXTENDS PlainReply

Meaningful(kids) == {i \in DOMAIN kids : kids[i].tag # "space"}

HasContent(n) == \E d \in 0..Deep : \E x \in Levels(<<n>>)[d] : x.tag \in {"text", "elided"}

Dividers(kids) ==
  {i \in DOMAIN kids : kids[i].tag = "hr" /\ \E j \in Meaningful(kids) : j > i}

\* The one candidate of a level: its last meaningful node.
QuoteAtEnd(kids) ==
  {i \in Meaningful(kids) : /\ \A j \in Meaningful(kids) : j <= i
                            /\ kids[i].tag \in {"quote", "headers"}
                            /\ HasContent(kids[i])}

\* Where the quote begins that ends a level: at the last divider, if any.
QuotePlace(kids) == IF Dividers(kids) # {} THEN {Max(Dividers(kids))} ELSE QuoteAtEnd(kids)

KidsOfLast(kids) == IF Meaningful(kids) = {} THEN <<>> ELSE kids[Max(Meaningful(kids))].kids

\* The way down: each time the kids of the last meaningful node.
Descent(kids) ==
  LET level[d \in 0..Deep] == IF d = 0 THEN kids ELSE KidsOfLast(level[d - 1])
  IN  level

\* The levels that end in a quote; the first one counts.
TerminalHTMLQuote(kids) == {d \in 0..(Deep - 1) : QuotePlace(Descent(kids)[d]) # {}}

\* A divider goes with all that follows it, a quote with the attribution in
\* front of it.
CutLevel(kids, i) ==
  LET before == {j \in Meaningful(kids) : j < i}
      first  == IF before # {} /\ kids[Max(before)].tag = "cite" THEN Max(before) ELSE i
  IN  IF kids[i].tag = "hr"
      THEN Append(SubSeq(kids, 1, i - 1), Leaf("elided"))
      ELSE Append(SubSeq(kids, 1, first - 1), Leaf("elided")) \o SubSeq(kids, i + 1, Len(kids))

\* The kids of a level with those further down replaced.
Around(kids, inner) == [kids EXCEPT ![Max(Meaningful(kids))].kids = inner]

\* Level D is cut, and the levels above it hold it as they did.
CutAt(kids, D) ==
  LET at(d)          == Descent(kids)[d]
      above[k \in 0..D] == IF k = 0 THEN CutLevel(at(D), CHOOSE i \in QuotePlace(at(D)) : TRUE)
                                     ELSE Around(at(D - k), above[k - 1])
  IN  above[D]

ElideHTML(body) ==
  IF ~Parses(body) \/ TerminalHTMLQuote(body.kids) = {} \/ ~body.balanced THEN body
  ELSE [body EXCEPT !.kids = CutAt(@, Min(TerminalHTMLQuote(@)))]

ElideQuotedReplyBody(body) ==
  IF body.html THEN ElideHTML(body) ELSE Plain(ElidePlain(body.lines))
=============================================================================
