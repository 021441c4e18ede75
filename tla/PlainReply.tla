------------------------------ MODULE PlainReply -----------------------------
(***************************************************************************)
(* Message bodies, and which part of a plain one `mail read` and           *)
(* `mail thread` leave out as quoted history (mailcmd/quoted_reply.go).    *)
(*                                                                         *)
(* A plain body is a sequence of lines, a line being what the code tells   *)
(* apart; an HTML body is the tree that the parser makes of it, with what  *)
(* the tokenizer says of its tags ("balanced").                            *)
(***************************************************************************)
EXTENDS Naturals, Sequences, SequencesExt, FiniteSetsExt, Functions

Header == {"from", "sent", "date", "to", "cc", "subject"}

\* "on" begins an attribution and "wrote" ends one; "attribution" does both.
\* "marker" is a history marker or Outlook's divider, "forward" the banner of
\* a forwarded message, "quote" and "emptyquote" are lines that begin with >.
Line == Header \cup {"blank", "text", "on", "wrote", "attribution", "marker",
                     "forward", "quote", "emptyquote", "elided"}

Quoted(l) == l \in {"quote", "emptyquote"}

\* The line that ends the attribution that begins at line i: itself or one of
\* the next two, nothing blank or quoted in between.
AttributionEnd(s, i) ==
  IF s[i] = "attribution" THEN {i}
  ELSE { e \in (i + 1)..Len(s) :
           /\ s[i] = "on" /\ e <= i + 2
           /\ s[e] \in {"wrote", "attribution"}
           /\ \A k \in (i + 1)..(e - 1) :
                s[k] # "blank" /\ ~Quoted(s[k]) /\ s[k] \notin {"wrote", "attribution"} }

\* Slip: what follows the quote is not looked at.
HasQuoteAfter(s, e) == \E k \in (e + 1)..Len(s) : s[k] = "quote"

HasQuotedSuffix(s, e) ==
  /\ \A k \in (e + 1)..Len(s) : s[k] = "blank" \/ Quoted(s[k])
  /\ \E k \in (e + 1)..Len(s) : s[k] = "quote"

\* The first line from i on that is none of these, or the end.
FirstNot(s, i, kinds) == Min({k \in i..(Len(s) + 1) : k <= Len(s) => s[k] \notin kinds})

\* The headers of a message, and something below them.
HasReplyHeaderBlock(s, i) ==
  LET start == FirstNot(s, i, {"blank"})
      end   == FirstNot(s, start, Header)
      seen  == {s[k] : k \in start..(end - 1)}
  IN  /\ {"from", "to", "subject"} \subseteq seen
      /\ seen \cap {"sent", "date"} # {}
      /\ \E k \in end..Len(s) : s[k] # "blank"

Cuts(s) ==
  { i \in 1..Len(s) :
      \/ \E e \in AttributionEnd(s, i) : HasQuotedSuffix(s, e)
      \/ s[i] = "marker" /\ HasReplyHeaderBlock(s, i + 1) }

ElidePlain(s) ==
  IF "forward" \in Range(s) \/ Cuts(s) = {} THEN s
  ELSE Append(SubSeq(s, 1, Min(Cuts(s)) - 1), "elided")

-----------------------------------------------------------------------------
(* A node is "text", "space" (blank text, a comment), "img" (an element    *)
(* without text), "hr" (Zimbra's divider), or an element with kids:        *)
(* "quote" (a container only mail clients write), "headers" (a div with a  *)
(* top border around a header block), "cite" (an attribution), or "div".   *)

CONSTANT Deep   \* how deep golang.org/x/net/html nests; it fails on a deeper body

Childless == {"text", "space", "img", "hr", "elided"}

Node(tag, kids) == [tag |-> tag, kids |-> kids]
Leaf(tag) == Node(tag, <<>>)

Plain(lines)         == [html |-> FALSE, lines |-> lines]
HTML(kids, balanced) == [html |-> TRUE, kids |-> kids, balanced |-> balanced]

\* The nodes of each level, the given kids being level 0.
Levels(kids) ==
  LET level[d \in 0..Deep] ==
        IF d = 0 THEN Range(kids) ELSE UNION {Range(n.kids) : n \in level[d - 1]}
  IN  level

Parses(body) == Levels(body.kids)[Deep] = {}
=============================================================================
