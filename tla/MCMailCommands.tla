--------------------------- MODULE MCMailCommands ---------------------------
(* Values for checking MailCommands with TLC.                              *)
EXTENDS Reading, TLC

CONSTANTS m1, m2, m3
CONSTANTS ann, Ann, bob, me, ME, alias, m, r, thread

MCAddrs == {ann, Ann, bob, me, ME, alias}
MCLower == (Ann :> ann @@ ME :> me) @@ [a \in {ann, bob, me, alias} |-> a]

Cmd == [reply |-> "id", replyAll |-> FALSE, noQuote |-> FALSE,
        to |-> None, cc |-> None, bcc |-> None, from |-> None, subject |-> None,
        sources |-> {"body"}, formats |-> {"plain"}, authored |-> <<"text">>,
        balanced |-> TRUE, attach |-> {}]

Source == [thread |-> thread, id |-> m, refs |-> <<r>>, from |-> ann,
           to |-> <<me>>, cc |-> <<bob>>, subject |-> "old",
           body |-> Plain(<<"text", "blank", "quote">>)]

\* Every combination of flags that the command may refuse.
Flags ==
  { [cmd |-> [Cmd EXCEPT !.reply = p, !.replyAll = a, !.noQuote = q, !.to = t, !.cc = c,
                         !.from = f, !.subject = s, !.sources = b, !.formats = o],
     source |-> Source] :
      p \in {None, "blank", "id"}, a \in BOOLEAN, q \in BOOLEAN,
      t \in {None, <<>>, Malformed, Illegal, <<bob>>}, c \in {None, Illegal},
      f \in {None, Malformed}, s \in {None, "new"},
      b \in {{}, {"body"}, {"body", "stdin"}}, o \in {{"plain"}, {"plain", "html"}} }

\* Replies to every kind of source, with and without the overrides.
Replies ==
  { [cmd |-> [Cmd EXCEPT !.noQuote = TRUE, !.replyAll = a, !.to = t, !.cc = c, !.from = f,
                         !.subject = s, !.attach = x],
     source |-> [Source EXCEPT !.id = i, !.refs = g, !.from = h, !.to = u, !.cc = v]] :
      a \in BOOLEAN, t \in {None, <<bob>>}, c \in {None, <<ann>>}, f \in {None, alias},
      s \in {None, "new"}, x \in {{}, {"report"}, {Illegal}},
      i \in {None, m, Illegal}, g \in {<<>>, <<r>>, <<r, m>>, <<m, r>>},
      h \in {None, Malformed, ann, me}, u \in {Malformed, <<>>, <<ME, bob>>, <<Ann, bob, ann>>},
      v \in {Malformed, <<>>, <<bob, me, alias>>} }

PlainBodies == {<<"text">>, <<"blank">>, <<"text", "attribution", "quote">>, <<"emptyquote">>,
                <<"forward", "text">>, <<"marker", "from", "sent", "to", "subject", "text">>}
Deeper(kids) == <<Node("div", kids)>>
TooDeep == Deeper(Deeper(Deeper(Deeper(<<Leaf("text"), Node("quote", <<Leaf("text")>>)>>))))
HTMLBodies  == {TooDeep, <<Leaf("text")>>, <<Leaf("img")>>, <<Leaf("text"), Node("quote", <<Leaf("text")>>)>>,
                <<Leaf("text"), Leaf("hr"), Leaf("text")>>, <<>>}
Bodies == {None} \cup {Plain(b) : b \in PlainBodies} \cup {HTML(b, TRUE) : b \in HTMLBodies}

Authored == {<<>>, <<"text">>, <<"text", "on">>, <<"text", "attribution">>, <<"quote", "text">>,
             <<"forward", "text">>, <<"marker", "from", "sent", "to", "subject">>}
Written  == {<<>>, <<Node("div", <<Leaf("text")>>)>>, <<Node("div", <<Leaf("img")>>), Leaf("space")>>,
             <<Node("quote", <<Leaf("text")>>), Node("div", <<Leaf("text")>>)>>,
             <<Leaf("text"), Leaf("hr"), Leaf("text")>>, <<Leaf("text"), Node("cite", <<Leaf("text")>>)>>}

\* Replies that quote every kind of body, in every format.
Quotes ==
  { [cmd |-> [Cmd EXCEPT !.authored = w], source |-> [Source EXCEPT !.body = b]] :
      w \in Authored, b \in Bodies }
  \cup
  { [cmd |-> [Cmd EXCEPT !.formats = o, !.authored = w, !.balanced = o = {} \/ l],
     source |-> [Source EXCEPT !.body = b]] :
      o \in {{}, {"html"}}, l \in BOOLEAN, w \in Written, b \in Bodies }

\* A run that fails at once, so that only the message is read.
ReadOnly(body) == [cmd |-> [Cmd EXCEPT !.reply = "blank"], source |-> [Source EXCEPT !.body = body]]

Fragment == {<<l>> : l \in {"text", "blank", "on", "wrote", "attribution", "quote", "emptyquote",
                            "forward", "marker"}}
            \cup {<<"from", "sent", "to", "subject">>, <<"from", "to">>}
PlainMail == {Plain(FlattenSeq(f)) : f \in BoundedSeq(Fragment, 4)}

Leafs   == {Leaf(t) : t \in {"text", "space", "img", "hr"}}
Element == {Node(t, k) : t \in {"div", "quote", "headers", "cite"}, k \in BoundedSeq(Leafs, 2)}
Small   == Leafs \cup {Node(t, <<Leaf("text")>>) : t \in {"div", "quote", "headers", "cite"}}
                 \cup {Node("quote", <<>>), Node("div", <<Leaf("hr"), Leaf("text")>>)}
Nested  == {Node(t, <<a, b>>) : t \in {"div", "quote"}, a \in Small, b \in Small}
HTMLMail == {HTML(k, l) : k \in BoundedSeq(Small \cup Element, 2) \cup BoundedSeq(Small, 3)
                                \cup {<<a, n>> : a \in Small, n \in Nested}
                                \cup {TooDeep},
                          l \in BOOLEAN}

MCCases == {Flags, Replies, Quotes,
            {ReadOnly(b) : b \in PlainMail}, {ReadOnly(b) : b \in HTMLMail}}

Kids(S) == S \cup UNION {Range(n.kids) : n \in S}
MCNodes == Kids(Kids(Kids(Kids(Kids(UNION {Range(k) : k \in HTMLBodies \cup Written \cup {b.kids : b \in HTMLMail}})))))

\* Bulk commands: every source, alone and with another, and every kind of verb.
Ids(a, s, q) == [args |-> a, stdin |-> s, query |-> q]
OneSource  == {Ids(<<m1>>, None, None), Ids(<<m1, m2, m1, m3>>, None, None), Ids(<<>>, <<m2, m3>>, None),
               Ids(<<>>, None, "inbox")}
NotOne     == {Ids(<<>>, None, None), Ids(<<m1>>, None, "inbox"), Ids(<<>>, <<m2>>, "inbox"),
               Ids(<<>>, Broken, None), Ids(<<>>, <<>>, None)}
Bulky(v, l, g, d) == [verb |-> v, label |-> l, dry |-> d, args |-> g.args, stdin |-> g.stdin, query |-> g.query]
MCCommands ==
  {Bulky(v, None, g, FALSE) : v \in {"archive", "markunread"}, g \in OneSource \cup NotOne}
  \cup {Bulky("archive", None, g, TRUE) : g \in OneSource}
  \cup {Bulky(v, l, g, FALSE) : v \in {"label", "unlabel", "categorize"}, l \in {"work", "updates"},
                               g \in {Ids(<<m1, m2, m3>>, None, None), Ids(<<>>, None, "inbox")}}

\* Messages whose attachments share names or paths, or have one that looks made up.
File(b, s, e) == [base |-> b, made |-> s, ext |-> e]
Image  == File("image", <<>>, ".png")
Dotted == File("./image", <<>>, ".png")
Made   == File("image", <<2>>, ".png")
Packed == File("report", <<>>, ".zip")
Report == File("report", <<>>, "")
Inner  == File("report/x", <<>>, "")
DotZip == File("", <<>>, ".zip")
Up     == File("../up", <<>>, "")
OutputDir == File("", <<>>, "")

\* A path is a name in the output directory, or in a directory below it.
MCJoin(d, n)  == IF d = OutputDir THEN n ELSE [dir |-> d, in |-> n]
MCClean(n)    == CASE n.base = "./image"  -> [n EXCEPT !.base = "image"]
                   [] n.base = "report/x" -> MCJoin(Report, [n EXCEPT !.base = "x"])
                   [] OTHER -> n
MCEscapes(n)  == n.base = Up.base
Part(n, i, d, t, z, p) == [name |-> n, id |-> i, data |-> d, marked |-> t, zip |-> z, parts |-> p]
Attached(n, i, d, z)   == Part(n, i, d, TRUE, z, <<>>)
Multi(p)   == Part(OutputDir, None, None, FALSE, FALSE, p)
TextPart   == Part(OutputDir, None, "text", FALSE, FALSE, <<>>)
MCMessages ==
  {Multi(<<TextPart, Multi(<<Attached(a, None, "a", FALSE), Attached(b, "id", "b", z)>>),
           Attached(c, None, "c", FALSE), Attached(Image, "id", "d", FALSE)>>) :
     a \in {Image, Dotted, Packed, Inner}, b \in {Image, Made, Packed, Report, OutputDir},
     c \in {Image, Dotted, DotZip, Up}, z \in BOOLEAN}
  \cup {Attached(Image, None, "a", FALSE), TextPart}
Inside(S)  == S \cup UNION {Range(p.parts) : p \in S}
MCParts    == Inside(Inside(MCMessages))
MCHeight   == [p \in MCParts |-> CASE p.parts = <<>> -> 0
                                   [] \A q \in Range(p.parts) : q.parts = <<>> -> 1
                                   [] OTHER -> 2]
MCRequests == {[filename |-> f, extract |-> e] : f \in {None, Image, Packed}, e \in BOOLEAN}

\* Archives at each limit and past it, in what they declare and in what they hold.
Entry(n, d, w, a, k, c, s) ==
  [name |-> n, dir |-> d, within |-> w, allowed |-> a, depth |-> k, declared |-> c, size |-> s]
Plainly(n, c, s) == Entry(n, FALSE, {}, TRUE, 0, c, s)
X == File("x", <<>>, "")
Y == File("y", <<>>, "")
D == File("d", <<>>, "")
MCArchives ==
  {<<>>, <<Entry(D, TRUE, {}, TRUE, 0, 0, 0), Entry(MCJoin(D, X), FALSE, {D}, TRUE, 1, 2, 2), Plainly(Y, 1, 3)>>,
   <<Plainly(X, 1, 2), Plainly(Image, 1, 2), Plainly(Y, 1, 2)>>,
   <<Plainly(D, 0, 0), Plainly(X, 1, 1), Plainly(Y, 1, 1), Plainly(Image, 1, 1)>>,
   <<Plainly(X, 3, 2)>>, <<Plainly(X, 2, 2), Entry(Y, FALSE, {}, FALSE, 0, 1, 1)>>,
   <<Entry(X, FALSE, {}, TRUE, 2, 1, 1)>>, <<Plainly(X, 2, 2), Plainly(X, 1, 1)>>}
===============================================================================
