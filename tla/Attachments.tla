------------------------------ MODULE Attachments ------------------------------
(***************************************************************************)
(* `mail attachments download`: the attachments found in the tree of a     *)
(* message's parts and the way back to a part (gmail/messages.go,          *)
(* gmail/attachments.go), the names they are saved under and the archives  *)
(* that are unpacked (mailcmd/attachments_download.go, zip/extract.go).    *)
(* Each attachment is fetched, saved and unpacked on its own; one that     *)
(* fails is passed over.                                                   *)
(*                                                                         *)
(* A file name is its base, the suffixes appended to it ("-2") and its     *)
(* extension; different names may be the same path.  A part is a record:   *)
(* name, id (None when its data came with the message), data, marked       *)
(* (Content-Disposition: attachment), zip (the MIME type of an archive),   *)
(* parts.  An entry of an archive: name, dir, within (the directories it   *)
(* lies in), allowed (its path stays below the directory), depth, and its  *)
(* size as declared and as it is.                                          *)
(***************************************************************************)
EXTENDS Selection, Sequences, Functions, SequencesExt

CONSTANTS
  None,
  Parts,         \* the parts of messages, those inside others included
  Height,        \* how deep parts are nested in a part
  Messages,      \* trees of parts
  Requests,      \* command lines: filename (None with --all), extract
  Clean(_),      \* filepath.Clean: the path of a name in the output directory
  Escapes(_),    \* the names that safeOutputPath refuses
  Join(_, _),    \* the path, in a directory, of an entry's name
  Archives,      \* contents an archive may have
  MaxFileSize, MaxTotalSize, MaxFiles, MaxDepth

FileNames == [base : {p.name.base : p \in Parts}, made : Seq(Nat),
              ext : {p.name.ext : p \in Parts}]

\* What the constants are; MailCommands assumes it.
Limits ==
  /\ {MaxFileSize, MaxTotalSize, MaxFiles, MaxDepth} \subseteq Nat
  /\ Messages \subseteq Parts /\ None \notin FileNames \cup Parts
  /\ Height \in [Parts -> Nat]
  /\ \A p \in Parts : p.name \in FileNames /\ p.parts \in Seq(Parts)
                      /\ \A c \in DOMAIN p.parts : Height[p.parts[c]] < Height[p]
  /\ \A z \in Archives : z \in Seq(Range(z)) /\ \A e \in Range(z) : e.size \in Nat

VARIABLES
  stage,       \* where the command is
  message, request,
  todo, at,    \* the attachments to download, the one being dealt with
  used, next,  \* usedNames; nextSuffix, by file name
  name,        \* the name of the current one
  files,       \* the output directory: paths and what is in them, None if it is
               \* not the whole of an attachment
  dirs,        \* its directories, itself included
  archive, entry, total, unpacked,  \* Extract: entries, the next, bytes counted, files left
  reported     \* the lines "Downloaded: ..."

output == <<files, dirs, reported>>
naming == <<used, next, name>>
unzip  == <<archive, entry, total, unpacked>>
vars == <<stage, message, request, todo, at, naming, output, unzip>>

OutputDir == [base |-> "", made |-> <<>>, ext |-> ""]   \* the empty name

-----------------------------------------------------------------------------
(* The tree of parts.                                                      *)

IsAttachment(part) == part.name # OutputDir \/ part.marked

Itself(part, path) == IF IsAttachment(part) THEN <<[part |-> part, path |-> path]>> ELSE <<>>

\* Slip: the paths of nested parts lack the path of their parent.
ExtractFlat(payload, partPath) ==
  LET extract[part \in Parts] == [path \in Seq(Nat) |->
        Itself(part, path) \o
        FlattenSeq([c \in DOMAIN part.parts |-> extract[part.parts[c]][<<c>>]])]
  IN  extract[payload][partPath]

\* extractAttachments: the part, then its children, each with its path.
ExtractAttachments(payload, partPath) ==
  LET extract[part \in Parts] == [path \in Seq(Nat) |->
        Itself(part, path) \o
        FlattenSeq([c \in DOMAIN part.parts |-> extract[part.parts[c]][Append(path, c)]])]
  IN  extract[payload][partPath]

Child(part, c) == IF part # None /\ c \in DOMAIN part.parts THEN part.parts[c] ELSE None

\* findPart: follow the path down.
FindPart(payload, path) ==
  LET current[n \in 0..Len(path)] == IF n = 0 THEN payload ELSE Child(current[n - 1], path[n])
  IN  current[Len(path)]

-----------------------------------------------------------------------------
Init ==
  /\ message \in Messages /\ request \in Requests
  /\ stage = "start" /\ todo = <<>> /\ at = 1
  /\ used = {} /\ next = <<>> /\ name = None
  /\ files = {} /\ dirs = {OutputDir} /\ reported = {}
  /\ archive = <<>> /\ entry = 1 /\ total = 0 /\ unpacked = {}

Go(from, to) == stage = from /\ stage' = to
Put(n, what) == {f \in files : f.name # n} \cup {[name |-> n, what |-> what]}
Names(atts)  == {a.part.name : a \in Range(atts)}

\* GetAttachments, the filter by name, and the output directory.
List ==
  /\ stage = "start"
  /\ LET all == ExtractAttachments(message, <<>>) IN
       /\ todo' = Selected(all, {i \in DOMAIN all : request.filename \in {None, all[i].part.name}})
       /\ stage' = CASE todo' # <<>> -> "name"
                    [] all = <<>>   -> "done"
                    [] OTHER        -> "failed"
  /\ next' = [n \in Names(todo') |-> 2]
  /\ UNCHANGED <<message, request, at, used, name, output, unzip>>

\* The client, the listing or the directory fails.
ListFails == Go("start", "failed")
             /\ UNCHANGED <<message, request, todo, at, naming, output, unzip>>

Suffixed(n, s) == [n EXCEPT !.made = Append(@, s)]

\* The first suffix that gives a name no attachment has or has been given.
Suffix(n) ==
  CHOOSE s \in next[n] .. next[n] + 2 * Len(todo) :
    /\ Suffixed(n, s) \notin used \cup Names(todo)
    /\ \A t \in next[n] .. s - 1 : Suffixed(n, t) \in used \cup Names(todo)

\* Choose the name; one whose path would leave the directory is skipped.  Names are
\* told apart as they are, not by their paths.
Choose ==
  LET own == todo[at].part.name
      n   == IF own \in used THEN Suffixed(own, Suffix(own)) ELSE own IN
  /\ stage = "name" /\ name' = n /\ used' = used \cup {n}
  /\ next' = IF own \in used THEN [next EXCEPT ![own] = Suffix(own) + 1] ELSE next
  /\ Go("name", IF Escapes(n) THEN "over" ELSE "fetch")
  /\ UNCHANGED <<message, request, todo, at, output, unzip>>

\* DownloadAttachment, or DownloadInlineAttachment by the path of the part.
Fetched(a) == IF a.part.id # None THEN a.part.data
              ELSE LET part == FindPart(message, a.path) IN
                   IF part = None THEN None ELSE part.data

IsZip(a, n) == n.ext = ".zip" \/ a.part.zip

\* os.WriteFile, over any file at that path.
Save ==
  /\ stage = "fetch" /\ Fetched(todo[at]) # None /\ Clean(name) \notin dirs
  /\ Go("fetch", IF request.extract /\ IsZip(todo[at], name) THEN "open" ELSE "over")
  /\ files' = Put(Clean(name), Fetched(todo[at]))
  /\ reported' = reported \cup {[name |-> name, att |-> todo[at]]}
  /\ UNCHANGED <<message, request, todo, at, naming, dirs, unzip>>

\* The download fails, or the write does, which may leave part of the file.
SaveFails ==
  /\ Go("fetch", "over")
  /\ files' \in {files} \cup (IF Clean(name) \in dirs THEN {} ELSE {Put(Clean(name), None)})
  /\ UNCHANGED <<message, request, todo, at, naming, dirs, reported, unzip>>

Over ==
  /\ at' = at + 1 /\ Go("over", IF at = Len(todo) THEN "done" ELSE "name")
  /\ name' = None
  /\ UNCHANGED <<message, request, todo, used, next, output, unzip>>

-----------------------------------------------------------------------------
(* zip.Extract, into the directory named as the archive without extension. *)

\* For an archive named ".zip", the output directory itself.
Dir(n) == Clean([n EXCEPT !.ext = ""])
SumOf(sizes) == FoldSeq(LAMBDA a, b : a + b, 0, sizes)

\* validateZip: what the archive says of itself is within the limits.
Valid(z) ==
  /\ Len(z) <= MaxFiles
  /\ \A e \in Range(z) : e.declared <= MaxFileSize
  /\ SumOf([e \in DOMAIN z |-> z[e].declared]) <= MaxTotalSize

\* Open and validate, then make the directory, unless a file has its name.
Open ==
  /\ stage = "open" /\ archive' \in {z \in Archives : Valid(z)}
  /\ \A f \in files : f.name # Dir(name)
  /\ Go("open", IF archive' = <<>> THEN "over" ELSE "unpack")
  /\ dirs' = dirs \cup {Dir(name)}
  /\ entry' = 1 /\ total' = 0 /\ unpacked' = {}
  /\ UNCHANGED <<message, request, todo, at, naming, files, reported>>

\* The archive cannot be read or is refused, or the directory cannot be made.
OpenFails ==
  /\ Go("open", "over")
  /\ UNCHANGED <<message, request, todo, at, naming, output, unzip>>

\* io.Copy from the LimitedReader.
Written(e) == IF e.size > MaxFileSize THEN MaxFileSize + 1 ELSE e.size

\* Slip: every file has the total to itself.
CountedEach(e) == Written(e)

\* totalSize, with a file copied to its end.
Counted(e) == total + Written(e)

\* The entry's file, and the directories that are made for it.
Place(e)  == Join(Dir(name), e.name)
Around(e) == {Join(Dir(name), d) : d \in e.within} \cup (IF e.dir THEN {Place(e)} ELSE {})

Allowed(e) == e.allowed /\ e.depth <= MaxDepth

\* The directories are there, unless a file is where one should be.
Mkdirs(e, made) ==
  /\ Allowed(e) /\ \A f \in files : f.name \notin made
  /\ dirs' = dirs \cup made

\* k bytes of the entry are in its file, over any that was there.
Leave(e, k) ==
  /\ Place(e) \notin dirs'
  /\ files' = Put(Place(e), None)
  /\ unpacked' = {u \in unpacked : u.name # e.name} \cup {[name |-> e.name, size |-> k]}

\* extractFile: a directory, or a file that stays within the limits.
Unpack ==
  LET e == archive[entry] IN
  /\ Go("unpack", IF entry = Len(archive) THEN "over" ELSE "unpack")
  /\ Mkdirs(e, Around(e))
  /\ IF e.dir THEN UNCHANGED <<files, total, unpacked>>
              ELSE /\ Written(e) <= MaxFileSize /\ Counted(e) <= MaxTotalSize
                   /\ total' = Counted(e) /\ Leave(e, Written(e))
  /\ entry' = entry + 1
  /\ UNCHANGED <<message, request, todo, at, naming, reported, archive>>

\* An entry ends the extraction before its file is made: it is refused, or a
\* directory, the entry or the file cannot be opened.
UnpackStops ==
  LET e == archive[entry] IN
  /\ Go("unpack", "over")
  /\ UNCHANGED dirs \/ \E made \in SUBSET Around(e) : Mkdirs(e, made)
  /\ UNCHANGED <<message, request, todo, at, naming, files, reported, unzip>>

\* It ends with the file made: the copy fails somewhere, or the file is larger
\* than allowed, and is removed if that succeeds, or the total is exceeded.
CopyStops ==
  LET e == archive[entry] IN
  /\ Go("unpack", "over")
  /\ Mkdirs(e, Around(e)) /\ ~e.dir
  /\ \/ (\E k \in 0..Written(e) : Leave(e, k)) /\ UNCHANGED total
     \/ /\ Written(e) > MaxFileSize /\ Place(e) \notin dirs' /\ UNCHANGED total
        /\ files' = {f \in files : f.name # Place(e)}
        /\ unpacked' = {u \in unpacked : u.name # e.name}
     \/ /\ Written(e) <= MaxFileSize /\ Counted(e) > MaxTotalSize
        /\ total' = Counted(e) /\ Leave(e, Written(e))
  /\ UNCHANGED <<message, request, todo, at, naming, reported, archive, entry>>

Next == \/ List \/ ListFails \/ Choose \/ Save \/ SaveFails \/ Over
           \/ Open \/ OpenFails \/ Unpack \/ UnpackStops \/ CopyStops

Spec == Init /\ [][Next]_vars

-----------------------------------------------------------------------------
TypeOK ==
  /\ stage \in {"start", "name", "fetch", "open", "unpack", "over", "done", "failed"}
  /\ at \in 1..Len(todo) + 1 /\ DOMAIN next = Names(todo) /\ Range(next) \subseteq Nat
  /\ stage \in {"name", "fetch", "open", "unpack", "over"} => at <= Len(todo)
  /\ (name = None) = (stage \in {"start", "name", "done", "failed"}) /\ (name # None => name \in used)
  /\ {f.name : f \in files} \cap dirs = {} /\ {r.name : r \in reported} \subseteq used
  /\ archive \in Archives \cup {<<>>} /\ total \in 0..MaxTotalSize + MaxFileSize
  /\ stage = "unpack" => entry \in DOMAIN archive

\* No other name that was given is the path of this report, and no archive whose
\* unpacking began has an entry there (one named ".zip" is unpacked among the
\* attachments).
Undisturbed(r) ==
  /\ \A n \in used : Clean(n) = Clean(r.name) => n = r.name
  /\ \A q \in reported : request.extract /\ IsZip(q.att, q.name) =>
       \A z \in Archives : \A e \in Range(z) : Join(Dir(q.name), e.name) # Clean(r.name)

\* The path an attachment is listed with is its own and leads back to its
\* part, and what is reported as downloaded is in the directory when the
\* command ends, whole and under a name of its own, whatever else was saved,
\* unpacked or failed after it, unless that was at the very same path.
Intact ==
  /\ IsInjective([t \in DOMAIN todo |-> todo[t].path])
  /\ \A a \in Range(todo) : FindPart(message, a.path) = a.part
  /\ \A r \in reported :
       Undisturbed(r) => [name |-> Clean(r.name), what |-> r.att.part.data] \in files
  /\ Cardinality({r.name : r \in reported}) = Cardinality(reported)

\* An attachment whose name no earlier one has keeps it: names made up for
\* the others never take it away, even one that looks like a made-up name.
KeepsName ==
  \A r \in reported : \A t \in DOMAIN todo :
    /\ todo[t] = r.att
    /\ \A s \in 1..t-1 : todo[s].part.name # r.att.part.name
    => r.name = r.att.part.name

\* The bytes of some files, each by its file and its place in it.
Bytes(some) == UNION {{u.name} \X (1..u.size) : u \in some}

\* The file at which the extraction ended.
Cut == IF stage # "unpack" /\ entry \in DOMAIN archive THEN {archive[entry].name} ELSE {}

\* Whatever sizes an archive declares, and wherever its extraction ends or fails:
\* what it leaves behind is within the total it is allowed, each file within the
\* size it is allowed, but for the file at which it ended, and that one is over
\* by one byte at most; and there are no more files than are allowed.
Bounded ==
  LET rest == {u \in unpacked : u.name \notin Cut} IN
  /\ Cardinality(Bytes(rest)) <= MaxTotalSize
  /\ \A u \in rest : u.size <= MaxFileSize
  /\ \A u \in unpacked : u.size <= MaxFileSize + 1
  /\ Cardinality(unpacked) <= MaxFiles
=============================================================================
