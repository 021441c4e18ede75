--------------------------- MODULE Relocation_proofs ---------------------------
(* Theorems of Relocation, for any settings users have written, any refs,  *)
(* any commands and any number of crashes.                                 *)
EXTENDS Relocation, TLAPS

Complete == {c \in Config : c.ref # Unset /\ c.path # Unset}

\* The settings c, when applied, are the chosen ones, if there are any and no init
\* has replaced them.
Agrees(c) == wanted # Unset /\ ~upset => Same(c, wanted)

Chosen == Load = Failed \/ Agrees(Load)

\* What a process has loaded is what it saves.
Opened ==
  /\ pc \in {"open", "promote", "remove", "tokens"} => Agrees(cfg)
  /\ pc = "remove" => new["yml"] = cfg

\* What may be left to be copied ...
CopyRests ==
  {<<<<"json", "new">>, <<"yml", "new">>, <<"credentials", "new">>, <<"client", "new">>>>,
   <<<<"yml", "new">>, <<"credentials", "new">>, <<"client", "new">>>>,
   <<<<"credentials", "new">>, <<"client", "new">>>>,
   <<<<"client", "new">>>>, << >>}

\* While the config files are copied, those that are not yet copied are not
\* there, and the old directory has the settings in force.
Copying ==
  pc = "copy" =>
    /\ todo \in CopyRests
    /\ Len(todo) >= 3 =>
         /\ new["yml"] = Absent
         /\ Authored(old) \in Config
         /\ Agrees(Applied(Authored(old)))
         /\ new["json"] = IF Len(todo) = 4 THEN Absent ELSE old["json"]

\* ... and to be cleared.
ClearRests ==
  {<<<<"yml", "new">>, <<"json", "new">>, <<"yml", "old">>, <<"json", "old">>>>,
   <<<<"json", "new">>, <<"yml", "old">>, <<"json", "old">>>>,
   <<<<"yml", "old">>, <<"json", "old">>>>,
   <<<<"json", "old">>>>, << >>}

\* What has been cleared is gone.
Clearing ==
  pc = "clear" =>
    /\ wanted = Unset
    /\ todo \in ClearRests
    /\ Len(todo) <= 3 => new["yml"] = Absent
    /\ Len(todo) <= 2 => new["json"] = Absent
    /\ Len(todo) <= 1 => old["yml"] = Absent
    /\ Len(todo) = 0 => old["json"] = Absent

Parts == Chosen /\ Opened /\ Copying /\ Clearing

RelocationInv == TypeOK /\ Parts

-----------------------------------------------------------------------------
(* Settings.                                                               *)

\* Defaults fill in what is missing.
LEMMA AppliedFields ==
  ASSUME NEW c \in Config
  PROVE  /\ Applied(c) \in Complete
         /\ Applied(c).ref = IF c.ref = Unset THEN DefaultRef ELSE c.ref
         /\ Applied(c).scopes = c.scopes
         /\ Applied(c).path = IF c.path = Unset THEN "new" ELSE c.path
  <1>1. /\ Applied(c) \in [ref : Refs, scopes : Scopes, path : {"old", "new", "custom"}]
        /\ Applied(c).ref = IF c.ref = Unset THEN DefaultRef ELSE c.ref
        /\ Applied(c).scopes = c.scopes
        /\ Applied(c).path = IF c.path = Unset THEN "new" ELSE c.path
    BY WrittenAssumption DEF Applied, Config, Paths
  <1>2. Applied(c) \in Config /\ Applied(c).ref # Unset /\ Applied(c).path # Unset
    BY <1>1, WrittenAssumption DEF Config, Paths
  <1> QED
    BY <1>1, <1>2 DEF Complete

\* Settings without gaps need no defaults.
LEMMA AppliedTwice ==
  ASSUME NEW c \in Complete
  PROVE  Applied(c) = c
  <1>1. c \in Config /\ c.ref # Unset /\ c.path # Unset
    BY DEF Complete
  <1>2. Applied(c) \in Config /\ Applied(c).ref = c.ref /\ Applied(c).scopes = c.scopes
        /\ Applied(c).path = c.path
    BY <1>1, AppliedFields DEF Complete
  <1> QED
    BY <1>1, <1>2 DEF Config

\* Same is an equivalence.
LEMMA SameAgain ==
  ASSUME NEW a, NEW b, Same(a, b)
  PROVE  Same(b, a) /\ \A c : Same(b, c) => Same(a, c)
  BY DEF Same

\* Settings with one field set anew.
LEMMA FieldsSet ==
  ASSUME NEW a \in Config, NEW r \in Refs
  PROVE  /\ [a EXCEPT !.scopes = "current"] \in Config
         /\ [a EXCEPT !.ref = r] \in Config
         /\ a \in Complete => /\ [a EXCEPT !.scopes = "current"] \in Complete
                              /\ [a EXCEPT !.ref = r] \in Complete
         /\ \A b \in Config : Same(a, b) =>
              /\ Same([a EXCEPT !.scopes = "current"], [b EXCEPT !.scopes = "current"])
              /\ Same([a EXCEPT !.ref = r], [b EXCEPT !.ref = r])
  <1>1. ASSUME NEW c \in Config
        PROVE  /\ [c EXCEPT !.scopes = "current"] \in Config
               /\ [c EXCEPT !.scopes = "current"].scopes = "current"
               /\ [c EXCEPT !.scopes = "current"].ref = c.ref
               /\ [c EXCEPT !.scopes = "current"].path = c.path
               /\ [c EXCEPT !.ref = r] \in Config
               /\ [c EXCEPT !.ref = r].ref = r
               /\ [c EXCEPT !.ref = r].scopes = c.scopes
               /\ [c EXCEPT !.ref = r].path = c.path
    BY DEF Config, Scopes
  <1>2. r # Unset
    BY WrittenAssumption
  <1>3. ASSUME NEW b \in Config, Same(a, b)
        PROVE  /\ Same([a EXCEPT !.scopes = "current"], [b EXCEPT !.scopes = "current"])
               /\ Same([a EXCEPT !.ref = r], [b EXCEPT !.ref = r])
    <2>1. CASE a = b
      BY <2>1 DEF Same
    <2>2. CASE a # b
      BY <1>1, <1>3, <2>2 DEF Same
    <2> QED
      BY <2>1, <2>2
  <1> QED
    BY <1>1, <1>2, <1>3 DEF Complete

\* Files that are materially equal mean the same settings.
LEMMA EqualIsSame ==
  ASSUME NEW a \in Config, NEW b \in Config, MaterialEqual(a, b)
  PROVE  Same(Applied(a), Applied(b))
  <1> DEFINE x == Applied(a)
             y == Applied(b)
  <1>1. /\ x \in Config /\ y \in Config /\ x.ref = y.ref /\ x.scopes = y.scopes
        /\ x.path = y.path \/ {x.path, y.path} \subseteq {"old", "new"}
    BY AppliedFields DEF MaterialEqual, PathEquiv, Complete
  <1>2. CASE x.path = y.path
    <2>1. x = y
      BY <1>1, <1>2 DEF Config
    <2> QED
      BY <2>1 DEF Same
  <1>3. CASE {x.path, y.path} \subseteq {"old", "new"}
    BY <1>1, <1>3 DEF Same
  <1> QED
    BY <1>1, <1>2, <1>3

\* A directory holds config files.
LEMMA DirFields ==
  ASSUME NEW d \in Dir
  PROVE  /\ d \in [Files -> ConfigFile \cup {Client}]
         /\ d["json"] \in Config \cup {Absent, Malformed}
         /\ d["yml"] \in Config \cup {Absent, Malformed}
         /\ Authored(d) \in Config \cup {Absent, Malformed}
         /\ Present(d) <=> Authored(d) # Absent
  BY DEF Dir, ConfigFile, Authored, Present

\* A directory is left one by each write and remove.
LEMMA DirUpdates ==
  ASSUME NEW d \in Dir
  PROVE  /\ \A f \in Files : [d EXCEPT ![f] = Absent] \in Dir
         /\ \A f \in Files, e \in Dir : [d EXCEPT ![f] = e[f]] \in Dir
         /\ \A c \in Config : [d EXCEPT !["yml"] = c] \in Dir
         /\ [d EXCEPT !["client"] = Client] \in Dir
         /\ [d EXCEPT !["credentials"] = Absent, !["client"] = Client] \in Dir
  BY DEF Dir, ConfigFile, Files

\* What the files say of the settings a command gets.
LoadIs ==
  /\ Load \in Complete \cup {Failed}
  /\ Kind \in {"none", "oldOnly", "equal", "divergent"}
  /\ new["yml"] \in Config => Load = Applied(new["yml"])
  /\ new["yml"] = Malformed => Load = Failed
  /\ Kind = "oldOnly" <=> Authored(old) \in Config /\ ~Present(new)
  /\ Kind = "oldOnly" => Load = Applied(Authored(old))
  /\ new["yml"] = Absent /\ new["json"] \in Config =>
       \/ Load = Failed
       \/ Load = Applied(new["json"])
          /\ (Authored(old) \in Config => MaterialEqual(Authored(old), new["json"]))
  /\ new["yml"] = Absent /\ new["json"] = Malformed => Load = Failed
  /\ new["yml"] = Absent /\ new["json"] \in Config /\ Authored(old) = new["json"] =>
       Load = Applied(new["json"])
  /\ ~Present(new) /\ ~Present(old) => Load = Applied(Empty) /\ Kind = "none"

\* What a command loads, as far as the files decide it.
LEMMA LoadFiles == old \in Dir /\ new \in Dir => LoadIs
  <1> SUFFICES ASSUME old \in Dir, new \in Dir PROVE LoadIs
    OBVIOUS
  <1>1. /\ Authored(old) \in Config \cup {Absent, Malformed}
        /\ Authored(new) \in Config \cup {Absent, Malformed}
        /\ Present(old) <=> Authored(old) # Absent
        /\ Present(new) <=> Authored(new) # Absent
        /\ new["json"] \in Config \cup {Absent, Malformed}
        /\ new["yml"] \in Config \cup {Absent, Malformed}
        /\ new["yml"] = Absent => Authored(new) = new["json"]
        /\ new["yml"] # Absent => Present(new)
    BY DirFields DEF Authored, Present
  <1>2. Absent \notin Config /\ Malformed \notin Config /\ Absent # Malformed /\ Empty \in Config
    BY WrittenAssumption DEF Empty, Config, Scopes, Paths
  <1>3. \A c \in Config : Applied(c) \in Complete /\ Applied(c) # Malformed
    BY AppliedFields, <1>2 DEF Complete
  <1>4. /\ ~Present(old) => Kind = "none"
        /\ Present(old) /\ ~Present(new) =>
             Kind = IF Authored(old) = Malformed THEN "divergent" ELSE "oldOnly"
        /\ Present(old) /\ Present(new) =>
             Kind = IF {Authored(old), Authored(new)} \subseteq Config
                       /\ MaterialEqual(Authored(old), Authored(new))
                    THEN "equal" ELSE "divergent"
    BY DEF Kind
  <1> HIDE DEF Authored, Present
  <1>5. /\ new["yml"] \in Config => Load = Applied(new["yml"])
        /\ new["yml"] = Malformed => Load = Failed
    BY <1>2 DEF Load
  <1>6. new["yml"] = Absent =>
          /\ Kind = "divergent" => Load = Failed
          /\ Kind = "oldOnly" => Load = Applied(Authored(old))
          /\ Kind \in {"none", "equal"} =>
               /\ new["json"] = Absent => Load = Applied(Empty)
               /\ new["json"] = Malformed => Load = Failed
               /\ new["json"] \in Config => Load = Applied(new["json"])
    BY <1>2 DEF Load
  <1>7. \A c \in Config : MaterialEqual(c, c)
    BY DEF MaterialEqual, PathEquiv
  <1> QED
    BY <1>1, <1>2, <1>3, <1>4, <1>5, <1>6, <1>7 DEF Failed, LoadIs

\* So in every state of the right types ...
LEMMA LoadFields == TypeOK => LoadIs
  BY LoadFiles DEF TypeOK

\* ... and in the next one.
LEMMA LoadFieldsNext == TypeOK' => LoadIs'
  BY LoadFields, PTL

\* Only the four config files decide what is loaded.
FilesKept == /\ new'["yml"] = new["yml"] /\ new'["json"] = new["json"]
             /\ old'["yml"] = old["yml"] /\ old'["json"] = old["json"]

\* A step that leaves the four files alone changes nothing of what is loaded.
LEMMA LoadFrame == FilesKept => Load' = Load /\ Kind' = Kind /\ Authored(old)' = Authored(old)
  BY DEF FilesKept, Load, Kind, Authored, Present

-----------------------------------------------------------------------------
(* Types.                                                                  *)

\* The tails and heads of short tuples.
LEMMA Tuples ==
  ASSUME NEW S, NEW a \in S, NEW b \in S, NEW c \in S, NEW d \in S
  PROVE  /\ Tail(<<a, b, c, d>>) = <<b, c, d>> /\ Tail(<<b, c, d>>) = <<c, d>>
         /\ Tail(<<c, d>>) = <<d>> /\ Tail(<<d>>) = << >>
         /\ {<<a, b, c, d>>, <<b, c, d>>, <<c, d>>, <<d>>, << >>} \subseteq Seq(S)
         /\ Len(<<a, b, c, d>>) = 4 /\ Len(<<b, c, d>>) = 3 /\ Len(<<c, d>>) = 2
         /\ Len(<<d>>) = 1 /\ Len(<< >>) = 0
         /\ <<a, b, c, d>>[1] = a /\ <<b, c, d>>[1] = b /\ <<c, d>>[1] = c /\ <<d>>[1] = d
  <1>1. Len(<<a, b, c, d>>) = 4 /\ Len(<<b, c, d>>) = 3 /\ Len(<<c, d>>) = 2
         /\ Len(<<d>>) = 1 /\ Len(<< >>) = 0
    OBVIOUS
  <1>2. <<a, b, c, d>>[1] = a /\ <<b, c, d>>[1] = b /\ <<c, d>>[1] = c /\ <<d>>[1] = d
    OBVIOUS
  <1>3. Tail(<<a, b, c, d>>) = <<b, c, d>>
    OBVIOUS
  <1>4. Tail(<<b, c, d>>) = <<c, d>>
    OBVIOUS
  <1>5. Tail(<<c, d>>) = <<d>>
    OBVIOUS
  <1>6. Tail(<<d>>) = << >>
    OBVIOUS
  <1>7. {<<a, b, c, d>>, <<b, c, d>>, <<c, d>>, <<d>>, << >>} \subseteq Seq(S)
    OBVIOUS
  <1> QED
    BY <1>1, <1>2, <1>3, <1>4, <1>5, <1>6, <1>7

\* What is left is copied from the front ...
LEMMA CopyRest ==
  ASSUME NEW s \in CopyRests
  PROVE  /\ s \in Seq(Files \X {"old", "new"}) /\ Len(s) \in 0..4 /\ Len(s) <= 4
         /\ s = << >> <=> Len(s) = 0
         /\ s # << >> => Tail(s) \in CopyRests /\ Len(Tail(s)) = Len(s) - 1
         /\ s # << >> => s[1][1] \in Files
         /\ Len(s) = 4 => s[1][1] = "json"
         /\ Len(s) = 3 => s[1][1] = "yml"
         /\ Len(s) \in 1..2 => s[1][1] = IF Len(s) = 2 THEN "credentials" ELSE "client"
  <1> DEFINE a == <<"json", "new">>
             b == <<"yml", "new">>
             c == <<"credentials", "new">>
             d == <<"client", "new">>
  <1>0. {a, b, c, d} \subseteq Files \X {"old", "new"}
    BY DEF Files
  <1>1. s \in {<<a, b, c, d>>, <<b, c, d>>, <<c, d>>, <<d>>, << >>}
    BY DEF CopyRests
  <1>2. CopyRests = {<<a, b, c, d>>, <<b, c, d>>, <<c, d>>, <<d>>, << >>}
    BY DEF CopyRests
  <1>3. /\ a[1] = "json" /\ a[2] = "new" /\ b[1] = "yml" /\ b[2] = "new"
        /\ c[1] = "credentials" /\ c[2] = "new" /\ d[1] = "client" /\ d[2] = "new"
    OBVIOUS
  <1> HIDE DEF a, b, c, d
  <1>4. /\ Tail(<<a, b, c, d>>) = <<b, c, d>> /\ Tail(<<b, c, d>>) = <<c, d>>
        /\ Tail(<<c, d>>) = <<d>> /\ Tail(<<d>>) = << >>
        /\ {<<a, b, c, d>>, <<b, c, d>>, <<c, d>>, <<d>>, << >>} \subseteq Seq(Files \X {"old", "new"})
        /\ Len(<<a, b, c, d>>) = 4 /\ Len(<<b, c, d>>) = 3 /\ Len(<<c, d>>) = 2
        /\ Len(<<d>>) = 1 /\ Len(<< >>) = 0
        /\ <<a, b, c, d>>[1] = a /\ <<b, c, d>>[1] = b /\ <<c, d>>[1] = c /\ <<d>>[1] = d
    BY <1>0, Tuples
  <1>5. CASE s = <<a, b, c, d>>
    BY <1>2, <1>3, <1>4, <1>5 DEF Files
  <1>6. CASE s = <<b, c, d>>
    BY <1>2, <1>3, <1>4, <1>6 DEF Files
  <1>7. CASE s = <<c, d>>
    BY <1>2, <1>3, <1>4, <1>7 DEF Files
  <1>8. CASE s = <<d>>
    BY <1>2, <1>3, <1>4, <1>8 DEF Files
  <1>9. CASE s = << >>
    BY <1>2, <1>4, <1>9
  <1> QED
    BY <1>1, <1>5, <1>6, <1>7, <1>8, <1>9

\* ... and so is cleared what is left.
LEMMA ClearRest ==
  ASSUME NEW s \in ClearRests
  PROVE  /\ s \in Seq(Files \X {"old", "new"}) /\ Len(s) \in 0..4 /\ Len(s) <= 4
         /\ s = << >> <=> Len(s) = 0
         /\ s # << >> => Tail(s) \in ClearRests /\ Len(Tail(s)) = Len(s) - 1
         /\ Len(s) = 4 => s[1][1] = "yml" /\ s[1][2] = "new"
         /\ Len(s) = 3 => s[1][1] = "json" /\ s[1][2] = "new"
         /\ Len(s) = 2 => s[1][1] = "yml" /\ s[1][2] = "old"
         /\ Len(s) = 1 => s[1][1] = "json" /\ s[1][2] = "old"
  <1> DEFINE a == <<"yml", "new">>
             b == <<"json", "new">>
             c == <<"yml", "old">>
             d == <<"json", "old">>
  <1>0. {a, b, c, d} \subseteq Files \X {"old", "new"}
    BY DEF Files
  <1>1. s \in {<<a, b, c, d>>, <<b, c, d>>, <<c, d>>, <<d>>, << >>}
    BY DEF ClearRests
  <1>2. ClearRests = {<<a, b, c, d>>, <<b, c, d>>, <<c, d>>, <<d>>, << >>}
    BY DEF ClearRests
  <1>3. /\ a[1] = "yml" /\ a[2] = "new" /\ b[1] = "json" /\ b[2] = "new"
        /\ c[1] = "yml" /\ c[2] = "old" /\ d[1] = "json" /\ d[2] = "old"
    OBVIOUS
  <1> HIDE DEF a, b, c, d
  <1>4. /\ Tail(<<a, b, c, d>>) = <<b, c, d>> /\ Tail(<<b, c, d>>) = <<c, d>>
        /\ Tail(<<c, d>>) = <<d>> /\ Tail(<<d>>) = << >>
        /\ {<<a, b, c, d>>, <<b, c, d>>, <<c, d>>, <<d>>, << >>} \subseteq Seq(Files \X {"old", "new"})
        /\ Len(<<a, b, c, d>>) = 4 /\ Len(<<b, c, d>>) = 3 /\ Len(<<c, d>>) = 2
        /\ Len(<<d>>) = 1 /\ Len(<< >>) = 0
        /\ <<a, b, c, d>>[1] = a /\ <<b, c, d>>[1] = b /\ <<c, d>>[1] = c /\ <<d>>[1] = d
    BY <1>0, Tuples
  <1>5. CASE s = <<a, b, c, d>>
    BY <1>2, <1>3, <1>4, <1>5 DEF Files
  <1>6. CASE s = <<b, c, d>>
    BY <1>2, <1>3, <1>4, <1>6 DEF Files
  <1>7. CASE s = <<c, d>>
    BY <1>2, <1>3, <1>4, <1>7 DEF Files
  <1>8. CASE s = <<d>>
    BY <1>2, <1>3, <1>4, <1>8 DEF Files
  <1>9. CASE s = << >>
    BY <1>2, <1>4, <1>9
  <1> QED
    BY <1>1, <1>5, <1>6, <1>7, <1>8, <1>9

\* Every step keeps the types.
LEMMA TypeStep ==
  ASSUME TypeOK, Copying, Clearing, [Next]_vars
  PROVE  TypeOK'
  <1>0. /\ old \in Dir /\ new \in Dir /\ Load \in Complete \cup {Failed}
        /\ Complete \subseteq Config /\ Empty \in Config
        /\ CopyList \in CopyRests /\ << >> \in CopyRests /\ ClearList \in ClearRests
    BY LoadFields DEF LoadIs, TypeOK, Complete, CopyList, CopyRests, ClearList, ClearRests,
                      Empty, Config, Scopes, Paths
  <1>00. \A s \in CopyRests \cup ClearRests : s \in Seq(Files \X {"old", "new"}) /\ Len(s) <= 4
    <2>1. ASSUME NEW s \in CopyRests PROVE s \in Seq(Files \X {"old", "new"}) /\ Len(s) <= 4
      BY CopyRest
    <2>2. ASSUME NEW s \in ClearRests PROVE s \in Seq(Files \X {"old", "new"}) /\ Len(s) <= 4
      BY ClearRest
    <2> QED
      BY <2>1, <2>2
  <1> USE <1>0 DEF TypeOK, Goto
  <1>1. CASE UNCHANGED vars
    BY <1>1 DEF vars
  <1>2. CASE Gate
    <2>1. todo' \in CopyRests
      BY <1>2 DEF Gate
    <2>2. todo' \in Seq(Files \X {"old", "new"}) /\ Len(todo') <= 4
      BY <2>1, <1>00
    <2> QED
      BY <1>2, <2>2 DEF Gate, AllCommands
  <1>3. CASE CopyFile
    <2>1. todo[1][1] \in Files /\ Tail(todo) \in CopyRests
      BY <1>3, CopyRest DEF CopyFile, Copying
    <2>2. [new EXCEPT ![todo[1][1]] = old[todo[1][1]]] \in Dir
      BY <2>1, DirUpdates
    <2>3. new' \in Dir
      BY <1>3, <2>2 DEF CopyFile
    <2> QED
      BY <1>3, <2>1, <2>3, CopyRest DEF CopyFile
  <1>4. CASE OpenStore
    BY <1>4 DEF OpenStore, AllCommands, Complete
  <1>5. CASE OpenFails
    BY <1>5 DEF OpenFails
  <1>6. CASE MoveClient
    <2>1. /\ [new EXCEPT !["credentials"] = Absent, !["client"] = Client] \in Dir
          /\ [new EXCEPT !["credentials"] = Absent] \in Dir
          /\ [old EXCEPT !["client"] = Client] \in Dir
      BY DirUpdates DEF Files
    <2>2. new' \in Dir /\ old' \in Dir /\ custom' \in {Absent, Client}
      <3>1. cfg.path \in {"new", "old", "custom"}
        BY DEF Config, Paths
      <3> QED
        BY <1>6, <2>1, <3>1 DEF MoveClient
    <2> QED
      BY <1>6, <2>2 DEF MoveClient
  <1>7. CASE Promote \/ RemoveJSON \/ \E found \in BOOLEAN : MigrateTokens(found)
    <2>1. [new EXCEPT !["yml"] = cfg] \in Dir /\ [new EXCEPT !["json"] = Absent] \in Dir
      BY DirUpdates DEF Files
    <2>2. new' \in Dir /\ UNCHANGED <<old, custom, cmd, todo, cfg, crashes, wanted, upset, start>>
      BY <1>7, <2>1 DEF Promote, RemoveJSON, MigrateTokens
    <2>3. pc' \in {"idle", "copy", "open", "promote", "remove", "tokens", "scopes", "clear"}
      BY <1>7 DEF Promote, RemoveJSON, MigrateTokens
    <2> QED
      BY <2>2, <2>3
  <1>8. ASSUME NEW fresh \in BOOLEAN, SaveScopes(fresh)
        PROVE  TypeOK'
    <2>1. CASE fresh
      <3>1. /\ Load \in Config /\ Known \in Config
            /\ new' = [new EXCEPT !["yml"] = [Load EXCEPT !.scopes = "current"]]
            /\ wanted' = [Known EXCEPT !.scopes = "current"]
        BY <1>8, <2>1 DEF SaveScopes, Known
      <3>2. [Load EXCEPT !.scopes = "current"] \in Config
        BY <3>1, FieldsSet, WrittenAssumption
      <3>3. wanted' \in Config
        BY <3>1, FieldsSet, WrittenAssumption
      <3>4. new' \in Dir
        BY <3>1, <3>2, DirUpdates
      <3> QED
        BY <1>8, <3>3, <3>4 DEF SaveScopes
    <2>2. CASE ~fresh
      BY <1>8, <2>2 DEF SaveScopes
    <2> QED
      BY <2>1, <2>2
  <1>14. CASE SaveBlindly
    <2>1. [Empty EXCEPT !.scopes = "current"] \in Config
      BY DEF Empty, Config, Scopes, Paths
    <2>2. new' \in Dir
      BY <1>14, <2>1, DirUpdates DEF SaveBlindly
    <2> QED
      BY <1>14, <2>2 DEF SaveBlindly
  <1>9. ASSUME NEW r \in Refs, ProfilesUse(r)
        PROVE  TypeOK'
    <2>1. Load \in Config /\ Known \in Config
      BY <1>9 DEF ProfilesUse, Known
    <2>2. [Load EXCEPT !.ref = r] \in Config /\ [Known EXCEPT !.ref = r] \in Config
      BY <2>1, FieldsSet
    <2>3. [new EXCEPT !["yml"] = [Load EXCEPT !.ref = r]] \in Dir
      BY <2>2, DirUpdates
    <2> QED
      BY <1>9, <2>2, <2>3 DEF ProfilesUse, AllCommands
  <1>10. CASE Clear
    <2>1. todo' \in ClearRests
      BY <1>10 DEF Clear
    <2>2. todo' \in Seq(Files \X {"old", "new"}) /\ Len(todo') <= 4
      BY <2>1, <1>00
    <2> QED
      BY <1>10, <2>2 DEF Clear, AllCommands
  <1>11. CASE RemoveFile
    <2>1. todo[1][1] \in Files /\ Tail(todo) \in ClearRests
      BY <1>11, ClearRest DEF RemoveFile, Clearing, Files
    <2>2. new' \in Dir /\ old' \in Dir
      BY <1>11, <2>1, DirUpdates DEF RemoveFile
    <2> QED
      BY <1>11, <2>1, <2>2, ClearRest DEF RemoveFile
  <1>12. CASE Cleared
    <2>1. Applied(Empty) \in Config
      BY AppliedFields DEF Complete
    <2> QED
      BY <1>12, <2>1 DEF Cleared
  <1>13. CASE Crash
    BY <1>13, CommandsAssumption DEF Crash
  <1> QED
    BY <1>1, <1>2, <1>3, <1>4, <1>5, <1>6, <1>7, <1>8, <1>9, <1>10, <1>11, <1>12, <1>13,
       <1>14 DEF Next

-----------------------------------------------------------------------------
(* The settings in force.                                                  *)

\* Saving settings that have no gaps puts them in force.
LEMMA Saved ==
  ASSUME TypeOK, TypeOK', NEW c \in Complete, new' = [new EXCEPT !["yml"] = c]
  PROVE  Load' = c /\ new'["yml"] = c
  <1>1. new'["yml"] = c /\ c \in Config
    BY DirFields DEF TypeOK, Files, Complete
  <1>2. Load' = Applied(new'["yml"])
    BY <1>1, LoadFieldsNext DEF LoadIs
  <1> QED
    BY <1>1, <1>2, AppliedTwice

\* What the user starts from is what a command has loaded.
LEMMA KnownIsLoaded ==
  ASSUME TypeOK, Chosen, Load # Failed
  PROVE  Load \in Complete /\ Known \in Config /\ (~upset => Same(Load, Known))
  <1>1. Load \in Complete
    BY LoadFields DEF LoadIs
  <1>2. Complete \subseteq Config /\ Unset \notin Config
    BY WrittenAssumption DEF Complete
  <1> QED
    BY <1>1, <1>2 DEF Known, Chosen, Agrees, Same

\* A step that leaves the config files and the chosen settings alone.
LEMMA NothingLoaded == Chosen /\ FilesKept /\ UNCHANGED <<wanted, upset>> => Chosen'
  BY LoadFrame DEF Chosen, Agrees, Failed

\* Copying: the config files first, then the rest.
LEMMA CopyStep ==
  ASSUME TypeOK, TypeOK', Parts, CopyFile
  PROVE  Parts'
  <1> DEFINE f == todo[1][1]
  <1>1. /\ todo \in CopyRests /\ todo # << >> /\ pc = "copy" /\ pc' = "copy"
        /\ todo' = Tail(todo) /\ old' = old /\ UNCHANGED <<wanted, upset>>
        /\ new' = IF new[f] = Absent THEN [new EXCEPT ![f] = old[f]] ELSE new
    BY DEF CopyFile, Goto, Parts, Copying
  <1>2. /\ Len(todo) \in 1..4 /\ todo' \in CopyRests /\ Len(todo') = Len(todo) - 1
        /\ Len(todo) = 4 => f = "json"
        /\ Len(todo) = 3 => f = "yml"
        /\ Len(todo) \in 1..2 => f \in {"credentials", "client"}
    <2>1. Len(todo) # 0 /\ Len(todo) \in 0..4
      BY <1>1, CopyRest
    <2> QED
      BY <1>1, <2>1, CopyRest
  <1>3. /\ Opened' /\ Clearing' /\ LoadIs /\ LoadIs'
        /\ new \in [Files -> ConfigFile \cup {Client}] /\ old["yml"] \in Config \cup {Absent, Malformed}
        /\ old["json"] \in Config \cup {Absent, Malformed}
    BY <1>1, LoadFields, LoadFieldsNext, DirFields DEF Opened, Clearing, TypeOK
  <1>4. /\ Chosen
        /\ Len(todo) >= 3 =>
             /\ new["yml"] = Absent /\ Authored(old) \in Config /\ Agrees(Applied(Authored(old)))
             /\ new["json"] = IF Len(todo) = 4 THEN Absent ELSE old["json"]
    BY <1>1 DEF Parts, Copying
  <1>5. Authored(old)' = Authored(old) /\ \A c : Agrees(c)' <=> Agrees(c)
    BY <1>1 DEF Authored, Agrees
  <1>6. CASE Len(todo) \in 1..2
    <2>1. FilesKept
      BY <1>1, <1>2, <1>3, <1>6 DEF FilesKept, Files
    <2> QED
      BY <1>1, <1>2, <1>3, <1>4, <1>6, <2>1, NothingLoaded DEF Parts, Copying
  <1>7. CASE Len(todo) = 4
    <2>1. new'["json"] = old["json"] /\ new'["yml"] = Absent
      BY <1>1, <1>2, <1>3, <1>4, <1>7 DEF Files
    <2>2. Copying'
      BY <1>1, <1>2, <1>4, <1>5, <1>7, <2>1 DEF Copying
    <2>3. CASE old["json"] = Absent
      <3>1. FilesKept
        BY <1>1, <1>4, <1>7, <2>1, <2>3 DEF FilesKept
      <3> QED
        BY <1>1, <1>3, <1>4, <2>2, <3>1, NothingLoaded DEF Parts
    <2>4. CASE old["json"] = Malformed
      BY <1>3, <2>1, <2>2, <2>4 DEF LoadIs, Parts, Chosen
    <2>5. CASE old["json"] \in Config
      <3>1. Load' = Failed \/ (Load' = Applied(old["json"]) /\ MaterialEqual(Authored(old), old["json"]))
        BY <1>3, <1>4, <1>5, <1>7, <2>1, <2>5 DEF LoadIs
      <3>2. MaterialEqual(Authored(old), old["json"]) =>
              Same(Applied(Authored(old)), Applied(old["json"]))
        BY <1>4, <1>7, <2>5, EqualIsSame
      <3>3. Load' = Failed \/ (wanted # Unset /\ ~upset => Same(Load', wanted))
        BY <1>4, <1>7, <3>1, <3>2, SameAgain DEF Agrees
      <3> QED
        BY <1>1, <1>3, <2>2, <3>3 DEF Parts, Chosen, Agrees, Failed
    <2> QED
      BY <1>3, <2>3, <2>4, <2>5
  <1>8. CASE Len(todo) = 3
    <2>0. f = "yml" /\ new["yml"] = Absent /\ new' = [new EXCEPT !["yml"] = old["yml"]]
      <3>1. f = "yml"
        BY <1>2, <1>8
      <3>2. new["yml"] = Absent
        BY <1>4, <1>8
      <3> QED
        BY <1>1, <3>1, <3>2
    <2>1. new'["json"] = new["json"] /\ new'["yml"] = old["yml"] /\ Copying'
      <3>1. new'["json"] = new["json"] /\ new'["yml"] = old["yml"]
        BY <1>3, <2>0 DEF Files
      <3>2. Len(todo') = 2
        BY <1>2, <1>8
      <3> QED
        BY <1>1, <1>2, <3>1, <3>2 DEF Copying
    <2>2. CASE old["yml"] = Absent
      <3>1. FilesKept
        BY <1>1, <1>4, <1>8, <2>1, <2>2 DEF FilesKept
      <3> QED
        BY <1>1, <1>3, <1>4, <2>1, <3>1, NothingLoaded DEF Parts
    <2>3. CASE old["yml"] # Absent
      <3>1. Authored(old) = old["yml"] /\ Load' = Applied(old["yml"])
        BY <1>3, <1>4, <1>8, <2>1, <2>3 DEF Authored, LoadIs
      <3> QED
        BY <1>1, <1>3, <1>4, <1>8, <2>1, <3>1 DEF Parts, Chosen, Agrees
    <2> QED
      BY <2>2, <2>3
  <1> QED
    BY <1>2, <1>6, <1>7, <1>8

\* Clearing: one file after the other.
LEMMA ClearStep ==
  ASSUME TypeOK, Parts, RemoveFile
  PROVE  Parts'
  <1>1. /\ todo \in ClearRests /\ todo # << >> /\ pc = "clear" /\ pc' = "clear" /\ wanted = Unset
        /\ todo' = Tail(todo) /\ UNCHANGED <<wanted, upset>> /\ Clearing
        /\ IF todo[1][2] = "new" THEN new' = [new EXCEPT ![todo[1][1]] = Absent] /\ old' = old
                                 ELSE old' = [old EXCEPT ![todo[1][1]] = Absent] /\ new' = new
    BY DEF RemoveFile, Goto, Parts, Clearing
  <1>2. /\ Len(todo) \in 1..4 /\ todo' \in ClearRests /\ Len(todo') = Len(todo) - 1
        /\ Len(todo) = 4 => todo[1][1] = "yml" /\ todo[1][2] = "new"
        /\ Len(todo) = 3 => todo[1][1] = "json" /\ todo[1][2] = "new"
        /\ Len(todo) = 2 => todo[1][1] = "yml" /\ todo[1][2] = "old"
        /\ Len(todo) = 1 => todo[1][1] = "json" /\ todo[1][2] = "old"
    <2>1. Len(todo) # 0 /\ Len(todo) \in 0..4
      BY <1>1, ClearRest
    <2> QED
      BY <1>1, <2>1, ClearRest
  <1>3. DOMAIN new = Files /\ DOMAIN old = Files
    BY DirFields DEF TypeOK
  <1>4. Chosen' /\ Opened' /\ Copying'
    BY <1>1 DEF Chosen, Agrees, Opened, Copying
  <1>5. Clearing'
    BY <1>1, <1>2, <1>3 DEF Clearing, Files
  <1> QED
    BY <1>4, <1>5 DEF Parts

\* Every other step.
LEMMA PartsStep ==
  ASSUME TypeOK, TypeOK', Parts, [Next]_vars
  PROVE  Parts'
  <1>0. /\ Chosen /\ Opened /\ Copying /\ Clearing /\ LoadIs /\ LoadIs'
        /\ Complete \subseteq Config /\ Failed \notin Config /\ Empty \in Config
    BY LoadFields, LoadFieldsNext, WrittenAssumption
       DEF Parts, Complete, Failed, Empty, Config, Scopes, Paths
  <1>1. CASE UNCHANGED vars
    <2>1. FilesKept
      BY <1>1 DEF vars, FilesKept
    <2> QED
      BY <1>0, <1>1, <2>1, NothingLoaded, LoadFrame
         DEF vars, Parts, Opened, Copying, Clearing, Agrees
  <1>2. CASE Gate
    <2>1. FilesKept /\ UNCHANGED <<wanted, upset>> /\ old' = old /\ new' = new /\ pc' = "copy"
      BY <1>2 DEF Gate, FilesKept, Goto
    <2>2. CASE Kind = "oldOnly"
      <3>1. /\ Authored(old) \in Config /\ new["yml"] = Absent /\ new["json"] = Absent
            /\ Agrees(Applied(Authored(old)))
        <4>1. Authored(old) \in Config /\ ~Present(new) /\ Load = Applied(Authored(old))
          BY <1>0, <2>2 DEF LoadIs
        <4>2. Load # Failed
          BY <1>0, <4>1, AppliedFields
        <4> QED
          BY <1>0, <4>1, <4>2 DEF Chosen, Present
      <3>2. todo' \in CopyRests /\ Len(todo') = 4
        BY <1>2, <2>2 DEF Gate, CopyList, CopyRests
      <3>3. Authored(old)' = Authored(old)
        BY <2>1, LoadFrame
      <3>4. Copying'
        BY <2>1, <3>1, <3>2, <3>3 DEF Copying, Agrees
      <3> QED
        BY <1>0, <2>1, <3>4, NothingLoaded DEF Parts, Opened, Clearing
    <2>3. CASE Kind # "oldOnly"
      <3>1. todo' = << >> /\ << >> \in CopyRests /\ Len(<< >>) = 0
        BY <1>2, <2>3 DEF Gate, CopyRests
      <3> QED
        BY <1>0, <2>1, <3>1, NothingLoaded DEF Parts, Opened, Copying, Clearing
    <2> QED
      BY <2>2, <2>3
  <1>3. CASE CopyFile
    BY <1>3, CopyStep
  <1>4. CASE OpenStore
    <2>1. FilesKept /\ UNCHANGED <<wanted, upset>> /\ pc' = "open" /\ cfg' = Load /\ Load # Failed
      BY <1>4 DEF OpenStore, FilesKept
    <2>2. Agrees(cfg)'
      BY <1>0, <2>1 DEF Chosen, Agrees
    <2> QED
      BY <1>0, <2>1, <2>2, NothingLoaded DEF Parts, Opened, Copying, Clearing
  <1>5. CASE OpenFails \/ Crash
    <2>1. FilesKept /\ UNCHANGED <<wanted, upset>> /\ pc' = "idle"
      BY <1>5 DEF OpenFails, Crash, FilesKept, Goto
    <2> QED
      BY <1>0, <2>1, NothingLoaded DEF Parts, Opened, Copying, Clearing
  <1>6. CASE MoveClient
    <2>1. DOMAIN new = Files /\ DOMAIN old = Files /\ cfg.path \in {"new", "old", "custom"}
      BY WrittenAssumption, DirFields DEF TypeOK, Config, Paths
    <2>2. FilesKept
      BY <1>6, <2>1 DEF MoveClient, FilesKept, Files
    <2>3. UNCHANGED <<wanted, upset>> /\ pc' = "promote" /\ cfg' = cfg /\ pc = "open"
      BY <1>6 DEF MoveClient, Goto
    <2> QED
      BY <1>0, <2>2, <2>3, NothingLoaded DEF Parts, Opened, Copying, Clearing, Agrees
  <1>7. CASE Promote \/ \E found \in BOOLEAN : MigrateTokens(found)
    <2>1. /\ UNCHANGED <<wanted, upset>> /\ cfg' = cfg /\ old' = old /\ pc \in {"promote", "tokens"}
          /\ \/ new' = new /\ pc' # "remove"
             \/ new' = [new EXCEPT !["yml"] = cfg]
          /\ pc' \in {"remove", "tokens", "scopes", "idle"}
      BY <1>7 DEF Promote, MigrateTokens, Goto
    <2>2. cfg \in Complete /\ Agrees(cfg) /\ Agrees(cfg)'
      BY <1>0, <2>1 DEF TypeOK, Complete, Opened, Agrees
    <2>3. CASE new' = new /\ pc' # "remove"
      <3>1. FilesKept
        BY <2>1, <2>3 DEF FilesKept
      <3> QED
        BY <1>0, <2>1, <2>2, <2>3, <3>1, NothingLoaded DEF Parts, Opened, Copying, Clearing
    <2>4. CASE new' = [new EXCEPT !["yml"] = cfg]
      <3>1. Load' = cfg /\ new'["yml"] = cfg
        BY <2>2, <2>4, Saved
      <3> QED
        BY <2>1, <2>2, <3>1 DEF Parts, Chosen, Opened, Copying, Clearing, Agrees
    <2> QED
      BY <2>1, <2>3, <2>4
  <1>8. CASE RemoveJSON
    <2>1. /\ UNCHANGED <<wanted, upset>> /\ cfg' = cfg /\ pc = "remove" /\ pc' = "tokens"
          /\ new' = [new EXCEPT !["json"] = Absent]
      BY <1>8 DEF RemoveJSON, Goto
    <2>2. cfg \in Complete /\ Agrees(cfg)' /\ new["yml"] = cfg /\ DOMAIN new = Files
      BY <1>0, <2>1, DirFields DEF TypeOK, Complete, Opened, Agrees
    <2>3. new'["yml"] = cfg
      BY <2>1, <2>2 DEF Files
    <2>4. Load' = cfg
      BY <1>0, <2>2, <2>3, AppliedTwice DEF LoadIs
    <2> QED
      BY <2>1, <2>2, <2>4 DEF Parts, Chosen, Opened, Copying, Clearing, Agrees
  <1>9. ASSUME NEW fresh \in BOOLEAN, SaveScopes(fresh)
        PROVE  Parts'
    <2>1. pc' = "idle"
      BY <1>9 DEF SaveScopes, Goto
    <2>2. CASE fresh
      <3> DEFINE c == [Load EXCEPT !.scopes = "current"]
                 w == [Known EXCEPT !.scopes = "current"]
      <3>1. Load # Failed /\ upset' = upset
        BY <1>9, <2>2 DEF SaveScopes
      <3>2. c \in Complete /\ (~upset => Same(c, w))
        BY <1>0, <3>1, KnownIsLoaded, FieldsSet, WrittenAssumption DEF Complete
      <3> HIDE DEF c, w
      <3>3. new' = [new EXCEPT !["yml"] = c] /\ wanted' = w
        BY <1>9, <2>2 DEF SaveScopes, c, w
      <3>4. Load' = c
        BY <3>2, <3>3, Saved
      <3> QED
        BY <2>1, <3>1, <3>2, <3>3, <3>4 DEF Parts, Chosen, Opened, Copying, Clearing, Agrees
    <2>3. CASE ~fresh
      <3>1. FilesKept /\ UNCHANGED <<wanted, upset>>
        BY <1>9, <2>3 DEF SaveScopes, FilesKept
      <3> QED
        BY <1>0, <2>1, <3>1, NothingLoaded DEF Parts, Opened, Copying, Clearing
    <2> QED
      BY <2>2, <2>3
  <1>14. CASE SaveBlindly
    <2>1. upset' = TRUE /\ pc' = "idle"
      BY <1>14 DEF SaveBlindly, Goto
    <2> QED
      BY <2>1 DEF Parts, Chosen, Opened, Copying, Clearing, Agrees
  <1>10. ASSUME NEW r \in Refs, ProfilesUse(r)
         PROVE  Parts'
    <2> DEFINE c == [Load EXCEPT !.ref = r]
               w == [Known EXCEPT !.ref = r]
    <2>1. Load # Failed /\ upset' = upset /\ pc' = "idle"
      BY <1>10, <1>0 DEF ProfilesUse
    <2>2. c \in Complete /\ (~upset => Same(c, w))
      BY <1>0, <2>1, KnownIsLoaded, FieldsSet DEF Complete
    <2> HIDE DEF c, w
    <2>3. new' = [new EXCEPT !["yml"] = c] /\ wanted' = w
      BY <1>10 DEF ProfilesUse, c, w
    <2>4. Load' = c
      BY <2>2, <2>3, Saved
    <2> QED
      BY <2>1, <2>2, <2>3, <2>4 DEF Parts, Chosen, Opened, Copying, Clearing, Agrees
  <1>11. CASE Clear
    <2>1. wanted' = Unset /\ pc' = "clear" /\ todo' \in ClearRests /\ Len(todo') = 4
      BY <1>11 DEF Clear, Goto, ClearList, ClearRests
    <2> QED
      BY <2>1 DEF Parts, Chosen, Opened, Copying, Clearing, Agrees
  <1>12. CASE RemoveFile
    BY <1>12, ClearStep
  <1>13. CASE Cleared
    <2>1. /\ pc' = "idle" /\ wanted' = Applied(Empty) /\ old' = old /\ new' = new
          /\ pc = "clear" /\ todo = << >>
      BY <1>13 DEF Cleared, Goto
    <2>2. new["yml"] = Absent /\ new["json"] = Absent /\ old["yml"] = Absent /\ old["json"] = Absent
      BY <1>0, <2>1 DEF Clearing
    <2>3. Load' = Applied(Empty)
      <3>1. ~Present(new) /\ ~Present(old)
        BY <2>2 DEF Present
      <3>2. Load = Applied(Empty)
        BY <1>0, <3>1 DEF LoadIs
      <3>3. FilesKept
        BY <2>1 DEF FilesKept
      <3> QED
        BY <3>2, <3>3, LoadFrame
    <2> QED
      BY <2>1, <2>3 DEF Parts, Chosen, Opened, Copying, Clearing, Agrees, Same
  <1> QED
    BY <1>1, <1>2, <1>3, <1>4, <1>5, <1>6, <1>7, <1>8, <1>9, <1>10, <1>11, <1>12, <1>13,
       <1>14 DEF Next

-----------------------------------------------------------------------------
(* The theorems.                                                           *)

\* The invariant holds at the start ...
LEMMA InvInit == Init => RelocationInv
  <1> SUFFICES ASSUME Init PROVE RelocationInv
    OBVIOUS
  <1>1. InitialDir \subseteq Dir
    BY WrittenAssumption DEF InitialDir, Dir, ConfigFile, Files
  <1>2. /\ old \in Dir /\ new \in Dir /\ custom = Absent /\ pc = "idle" /\ cmd = "run"
        /\ todo = << >> /\ cfg = Applied(Empty) /\ crashes = 0 /\ wanted = Load
        /\ upset = FALSE
        /\ start = [dir |-> old, kind |-> Kind]
    BY <1>1 DEF Init
  <1>3. cfg \in Complete
    BY <1>2, AppliedFields, WrittenAssumption DEF Empty, Config, Scopes, Paths
  <1>4. Load \in Config \cup {Failed} /\ Kind \in {"none", "oldOnly", "equal", "divergent"}
    BY <1>2, LoadFiles DEF LoadIs, Complete
  <1>5. todo \in Seq(Files \X {"old", "new"}) /\ Len(todo) <= 4
    BY <1>2
  <1>6. TypeOK
    <2>1. wanted \in Config \cup {Failed, Unset} /\ upset \in BOOLEAN
      BY <1>2, <1>4
    <2>2. start \in [dir : Dir, kind : {"none", "oldOnly", "equal", "divergent"}]
      BY <1>2, <1>4
    <2>3. crashes \in 0..MaxCrashes
      BY <1>2, CommandsAssumption
    <2> QED
      BY <1>2, <1>3, <1>5, <2>1, <2>2, <2>3 DEF TypeOK, Complete, AllCommands
  <1>7. Parts
    BY <1>2 DEF Parts, Chosen, Opened, Copying, Clearing, Agrees, Same
  <1> QED
    BY <1>6, <1>7 DEF RelocationInv

\* ... and so in every state.
LEMMA Invariance == Spec => []RelocationInv
  <1>1. RelocationInv /\ [Next]_vars => RelocationInv'
    BY TypeStep, PartsStep DEF RelocationInv, Parts
  <1> QED
    BY InvInit, <1>1, PTL DEF Spec

\* Whatever the two directories hold, and wherever a relocation, a promotion or
\* a save was cut short: a command gets the settings last chosen, or fails, unless
\* an init could not read them and saved empty ones.
THEOREM NeverSwitched == Spec => []NoSilentSwitch
  <1>1. RelocationInv => NoSilentSwitch
    BY DEF RelocationInv, Parts, Chosen, Agrees, NoSilentSwitch
  <1> QED
    BY <1>1, Invariance, PTL

\* A completed `config clear --all` leaves no settings in either directory.
THEOREM ClearedForGood == Spec => ClearResets
  <1> DEFINE Reset == pc = "clear" /\ pc' = "idle" /\ crashes' = crashes
                        => Kind' = "none" /\ Load' = Applied(Empty)
  <1>1. RelocationInv /\ [Next]_vars => [Reset]_vars
    <2> SUFFICES ASSUME RelocationInv, Next, pc = "clear", pc' = "idle", crashes' = crashes
                 PROVE  Kind' = "none" /\ Load' = Applied(Empty)
      OBVIOUS
    <2>1. TypeOK /\ Clearing /\ LoadIs /\ crashes \in Nat
      BY LoadFields, CommandsAssumption DEF RelocationInv, Parts, TypeOK
    <2>2. Cleared
      BY <2>1 DEF Next, Gate, CopyFile, OpenStore, OpenFails, MoveClient, Promote, RemoveJSON,
                  MigrateTokens, SaveScopes, SaveBlindly, ProfilesUse, Clear, RemoveFile, Crash, Goto
    <2>3. todo = << >> /\ old' = old /\ new' = new
      BY <2>2 DEF Cleared
    <2>4. new["yml"] = Absent /\ new["json"] = Absent /\ old["yml"] = Absent /\ old["json"] = Absent
      BY <2>1, <2>3 DEF Clearing
    <2>5. Kind = "none" /\ Load = Applied(Empty)
      BY <2>1, <2>4 DEF LoadIs, Present
    <2> QED
      BY <2>3, <2>5, LoadFrame DEF FilesKept
  <1> QED
    BY <1>1, Invariance, PTL DEF Spec, ClearResets

\* Behind the config files, the settings in force are the old directory's, and
\* behind credentials.json, the new directory has it, too.
Carrying ==
  pc = "copy" /\ Len(todo) \in 1..2 =>
    /\ Authored(old) \in Config /\ Load = Applied(Authored(old))
    /\ Len(todo) = 1 /\ old["credentials"] = Client => new["credentials"] = Client

\* What CopyFile does to the file in turn.
LEMMA FileCopied ==
  ASSUME TypeOK, Copying, CopyFile
  PROVE  /\ todo \in CopyRests /\ Len(todo) \in 1..4 /\ Len(todo') = Len(todo) - 1
         /\ old' = old /\ old \in Dir /\ new \in Dir
         /\ \E f \in Files :
              /\ new' = IF new[f] = Absent THEN [new EXCEPT ![f] = old[f]] ELSE new
              /\ Len(todo) = 3 => f = "yml"
              /\ Len(todo) \in 1..2 => f = IF Len(todo) = 2 THEN "credentials" ELSE "client"
  <1>1. todo \in CopyRests /\ todo # << >> /\ todo' = Tail(todo) /\ old' = old
        /\ new' = IF new[todo[1][1]] = Absent
                  THEN [new EXCEPT ![todo[1][1]] = old[todo[1][1]]] ELSE new
    BY DEF CopyFile, Goto, Copying
  <1>2. Len(todo) # 0 /\ Len(todo) \in 0..4
    BY <1>1, CopyRest
  <1>3. /\ todo[1][1] \in Files /\ Len(todo') = Len(todo) - 1 /\ Len(todo) \in 1..4
        /\ Len(todo) = 3 => todo[1][1] = "yml"
        /\ Len(todo) \in 1..2 => todo[1][1] = IF Len(todo) = 2 THEN "credentials" ELSE "client"
    BY <1>1, <1>2, CopyRest
  <1>4. \E f \in Files :
          /\ new' = IF new[f] = Absent THEN [new EXCEPT ![f] = old[f]] ELSE new
          /\ Len(todo) = 3 => f = "yml"
          /\ Len(todo) \in 1..2 => f = IF Len(todo) = 2 THEN "credentials" ELSE "client"
    BY <1>1, <1>3
  <1> QED
    BY <1>1, <1>3, <1>4 DEF TypeOK

\* Every step keeps this.
LEMMA CarryingStep ==
  ASSUME RelocationInv, TypeOK', Carrying, [Next]_vars
  PROVE  Carrying'
  <1>0. TypeOK /\ Copying /\ LoadIs'
    BY LoadFieldsNext DEF RelocationInv, Parts
  <1>1. CASE UNCHANGED vars
    <2>1. FilesKept
      BY <1>1 DEF vars, FilesKept
    <2> QED
      BY <1>1, <2>1, LoadFrame DEF vars, Carrying
  <1>2. CASE Gate
    <2>1. Len(todo') \in {0, 4}
      BY <1>2 DEF Gate, CopyList
    <2> QED
      BY <2>1 DEF Carrying
  <1>3. CASE CopyFile
    <2>1. PICK f \in Files :
            /\ new' = IF new[f] = Absent THEN [new EXCEPT ![f] = old[f]] ELSE new
            /\ Len(todo) = 3 => f = "yml"
            /\ Len(todo) \in 1..2 => f = IF Len(todo) = 2 THEN "credentials" ELSE "client"
      BY <1>0, <1>3, FileCopied
    <2>2. /\ Len(todo) \in 1..4 /\ Len(todo') = Len(todo) - 1 /\ pc = "copy"
          /\ old' = old /\ old \in Dir /\ new \in Dir /\ Authored(old)' = Authored(old)
      BY <1>0, <1>3, FileCopied DEF CopyFile, Goto, Authored
    <2>3. new \in [Files -> ConfigFile \cup {Client}] /\ new["credentials"] \in {Absent, Client}
      BY <2>2 DEF Dir
    <2>4. CASE Len(todo) = 3
      <3>1. /\ new["yml"] = Absent /\ new["json"] = old["json"] /\ Authored(old) \in Config
        BY <1>0, <2>2, <2>4 DEF Copying
      <3>2. new'["yml"] = old["yml"] /\ new'["json"] = old["json"]
        BY <2>1, <2>3, <2>4, <3>1 DEF Files
      <3>3. Load' = Applied(Authored(old))
        <4>1. CASE old["yml"] = Absent
          BY <1>0, <2>2, <3>1, <3>2, <4>1 DEF LoadIs, Authored
        <4>2. CASE old["yml"] # Absent
          BY <1>0, <3>1, <3>2, <4>2 DEF LoadIs, Authored
        <4> QED
          BY <4>1, <4>2
      <3> QED
        BY <2>2, <2>4, <3>1, <3>3 DEF Carrying
    <2>5. CASE Len(todo) = 2
      <3>1. FilesKept
        BY <2>1, <2>2, <2>3, <2>5 DEF FilesKept, Files
      <3>2. old["credentials"] = Client => new'["credentials"] = Client
        BY <2>1, <2>3, <2>5 DEF Files
      <3> QED
        BY <2>2, <2>5, <3>1, <3>2, LoadFrame DEF Carrying
    <2>6. CASE Len(todo) \in {1, 4}
      <3>0. Len(todo') = Len(todo) - 1
        BY <2>2
      <3>1. Len(todo') \in {0, 3}
        BY <2>6, <3>0
      <3> QED
        BY <3>1 DEF Carrying
    <2> QED
      BY <2>2, <2>4, <2>5, <2>6
  <1>4. CASE ~ (Gate \/ CopyFile \/ UNCHANGED vars)
    <2>1. pc' # "copy"
      BY <1>4 DEF Next, OpenStore, OpenFails, MoveClient, Promote, RemoveJSON, MigrateTokens,
                  SaveScopes, SaveBlindly, ProfilesUse, Clear, RemoveFile, Cleared, Crash, Goto
    <2> QED
      BY <2>1 DEF Carrying
  <1> QED
    BY <1>1, <1>2, <1>3, <1>4

\* A relocation that comes to its end takes the client JSON along.
THEOREM ClientCarried == Spec => RelocationCarries
  <1> DEFINE Inv == RelocationInv /\ Carrying
             Carries == pc = "copy" /\ todo # << >> /\ pc' = "copy" /\ todo' = << >> /\ HasClient(old)
                          => ClientThere'
  <1>1. Init => Inv
    BY InvInit DEF Init, Carrying
  <1>2. Inv /\ [Next]_vars => Inv'
    BY TypeStep, PartsStep, CarryingStep DEF RelocationInv, Parts
  <1>3. Inv /\ [Next]_vars => [Carries]_vars
    <2> SUFFICES ASSUME Inv, Next, pc = "copy", todo # << >>, pc' = "copy", todo' = << >>,
                        HasClient(old)
                 PROVE  ClientThere'
      OBVIOUS
    <2>1. TypeOK /\ Copying
      BY DEF RelocationInv, Parts
    <2>2. CopyFile
      BY DEF Next, Gate, OpenStore, OpenFails, MoveClient, Promote, RemoveJSON, MigrateTokens,
             SaveScopes, SaveBlindly, ProfilesUse, Clear, RemoveFile, Cleared, Crash, Goto
    <2>3. Len(todo) = 1 /\ old' = old /\ old \in Dir /\ new \in Dir /\ Authored(old)' = Authored(old)
      <3>1. Len(todo') = 0
        OBVIOUS
      <3> QED
        BY <2>1, <2>2, <3>1, FileCopied DEF Authored
    <2>4. new' = IF new["client"] = Absent THEN [new EXCEPT !["client"] = old["client"]] ELSE new
      BY <2>1, <2>2, <2>3, FileCopied
    <2>5. /\ new \in [Files -> ConfigFile \cup {Client}] /\ new["client"] \in {Absent, Client}
          /\ old["client"] = Client => new'["client"] = Client
          /\ new'["credentials"] = new["credentials"]
          /\ FilesKept
      BY <2>3, <2>4 DEF Dir, Files, FilesKept
    <2>6. Load' = Applied(Authored(old)) /\ Authored(old) \in Config
          /\ (old["credentials"] = Client => new["credentials"] = Client)
      BY <2>3, <2>5, LoadFrame DEF Carrying
    <2>7. CASE old["credentials"] = Client
      BY <2>5, <2>6, <2>7 DEF ClientThere
    <2>8. CASE old["client"] = Client /\ Authored(old).path \in {Unset, "old"}
      <3>1. Load'.path \in {"new", "old"}
        BY <2>6, <2>8, AppliedFields
      <3> QED
        BY <2>3, <2>5, <2>8, <3>1 DEF ClientThere, At
    <2> QED
      BY <2>7, <2>8 DEF HasClient
  <1> QED
    BY <1>1, <1>2, <1>3, PTL DEF Spec, RelocationCarries

===============================================================================
