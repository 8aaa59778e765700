----------------------------- MODULE Composer_proofs -----------------------------
(***************************************************************************)
(* The composer's collection and the folder behind it, proved for any names,  *)
(* edits, failures and calls in flight.                                      *)
(*                                                                         *)
(* The folder agrees with the list because a call that moves a file is alone   *)
(* of its kind: no other file has the name it leaves or takes, and a text of a *)
(* file lies only where the list says, or where the one call about it left it.  *)
(* So the call of a file that is alone in flight meets nothing but texts of its *)
(* own file; a call that overlapped another may be served upon any text, and    *)
(* the history remembers which it destroyed.  What the folder holds of a file   *)
(* is what is on the screen unless a timer is running, or the change is         *)
(* remembered as unsaved.  All of this rests on the page knowing the list: the   *)
(* name field can be used before, and from then on only what the page keeps of   *)
(* itself is proved.                                                         *)
(***************************************************************************)
EXTENDS Composer, TLAPS, SequenceTheorems

-----------------------------------------------------------------------------
(* Bags of calls *)

IsBag(B) == B \in [DOMAIN B -> Nat \ {0}]

(* One more of an element. *)
LEMMA Added ==
  ASSUME NEW B, IsBag(B), NEW x
  PROVE  /\ IsBag(BagAdd(B, x)) /\ DOMAIN BagAdd(B, x) = DOMAIN B \cup {x}
         /\ BagAdd(B, x)[x] = IF x \in DOMAIN B THEN B[x] + 1 ELSE 1
         /\ \A y \in DOMAIN B \ {x} : BagAdd(B, x)[y] = B[y]
  BY DEF IsBag, BagAdd

(* One less, of an element there is one of. *)
LEMMA Removed ==
  ASSUME NEW B, IsBag(B), NEW x \in DOMAIN B
  PROVE  /\ IsBag(BagRemove(B, x))
         /\ DOMAIN BagRemove(B, x) = IF B[x] = 1 THEN DOMAIN B \ {x} ELSE DOMAIN B
         /\ \A y \in DOMAIN BagRemove(B, x) \ {x} : BagRemove(B, x)[y] = B[y]
<1>1. CASE B[x] = 1
  BY <1>1 DEF IsBag, BagRemove
<1>2. CASE B[x] # 1
  BY <1>2 DEF IsBag, BagRemove
<1>3. QED
  BY <1>1, <1>2

-----------------------------------------------------------------------------
(* Texts and lists of files *)

LEMMA Numbers ==
  /\ Len(Order) \in Nat /\ DOMAIN Order = 1..Len(Order)
  /\ MaxEdits \in Nat /\ MaxNameOps \in Nat /\ MaxFailures \in Nat /\ MaxCalls \in Nat
  /\ Ids \subseteq Nat \ {0} /\ DOMAIN Order \subseteq Ids
<1>1. Len(Order) \in Nat /\ DOMAIN Order = 1..Len(Order)
  BY ComposerAssumption, LenProperties
<1>2. QED
  BY <1>1, ComposerAssumption DEF Ids

(* Each name has its place. *)
LEMMA Places ==
  \A n \in Names : Place(n) \in DOMAIN Order /\ Order[Place(n)] = n /\ Place(n) \in Ids
<1>1. ASSUME NEW n \in Names PROVE Place(n) \in DOMAIN Order /\ Order[Place(n)] = n
  <2>1. \E i \in DOMAIN Order : Order[i] = n
    BY DEF Names, Range
  <2>2. QED
    BY <2>1 DEF Place
<1>2. QED
  BY <1>1, Numbers

(* Texts are texts. *)
LEMMA TextTypes ==
  /\ Absent \in Texts /\ Absent.of = 0
  /\ \A id \in Ids, version \in 0..MaxEdits :
       /\ Text(id, version) \in Texts /\ Text(id, version).of = id
       /\ [Text(id, version) EXCEPT !.empty = TRUE] \in Texts
       /\ [Text(id, version) EXCEPT !.empty = TRUE].of = id
  /\ \A text \in Texts : Torn(text) \in Texts /\ Torn(text).of = text.of
<1>1. 0 \in 0..MaxEdits
  BY Numbers
<1>2. Absent \in Texts /\ Absent.of = 0
  BY <1>1 DEF Absent, Text, Texts
<1>3. ASSUME NEW id \in Ids, NEW version \in 0..MaxEdits
      PROVE  /\ Text(id, version) \in Texts /\ Text(id, version).of = id
             /\ [Text(id, version) EXCEPT !.empty = TRUE] \in Texts
             /\ [Text(id, version) EXCEPT !.empty = TRUE].of = id
  BY DEF Text, Texts
<1>4. \A text \in Texts : Torn(text) \in Texts /\ Torn(text).of = text.of
  BY DEF Texts, Torn
<1>5. QED
  BY <1>2, <1>3, <1>4

(* What is on a list. *)
LEMMA OnList ==
  ASSUME NEW S, NEW list \in Seq(S)
  PROVE  Range(list) \subseteq S
  BY LenProperties DEF Range

OneEach(list) ==
  \A i, j \in DOMAIN list :
    list[i].id = list[j].id \/ list[i].name = list[j].name => i = j

(* A file is found by its id. *)
LEMMA Finds ==
  ASSUME NEW list, OneEach(list), NEW i \in DOMAIN list
  PROVE  /\ (CHOOSE f \in Range(list) : f.id = list[i].id) = list[i]
         /\ (CHOOSE j \in DOMAIN list : list[j].id = list[i].id) = i
<1>1. list[i] \in Range(list)
  BY DEF Range
<1>2. \A f \in Range(list) : f.id = list[i].id => f = list[i]
  BY DEF Range, OneEach
<1>3. \A j \in DOMAIN list : list[j].id = list[i].id => j = i
  BY DEF OneEach
<1>4. QED
  BY <1>1, <1>2, <1>3

LEMMA AtIndex ==
  ASSUME OneEach(files), NEW i \in DOMAIN files
  PROVE  Listed(files[i].id) /\ Named(files[i].id) = files[i] /\ Index(files[i].id) = i
  BY Finds DEF Listed, Named, Index

LEMMA AtIndexNext ==
  ASSUME OneEach(files'), NEW i \in DOMAIN files', NEW id, files'[i].id = id
  PROVE  Listed(id)' /\ Named(id)' = files'[i]
  BY Finds DEF Listed, Named

(* The files on the list, and those with an id. *)
LEMMA Files1 ==
  ASSUME OneEach(files), NEW id, Listed(id)
  PROVE  /\ Index(id) \in DOMAIN files /\ files[Index(id)].id = id
         /\ Named(id) = files[Index(id)]
         /\ \A i \in DOMAIN files : files[i].id = id => i = Index(id)
  BY AtIndex DEF Listed

LEMMA ListedIds == \A id : Listed(id) <=> id \in {f.id : f \in Range(files)}
  BY DEF Listed, Range

(* A list on which only texts have changed. *)
Retouched(list) ==
  /\ list \in Seq(Files) /\ DOMAIN list = DOMAIN files
  /\ \A i \in DOMAIN files : list[i].id = files[i].id /\ list[i].name = files[i].name

LEMMA RetouchedFiles ==
  ASSUME OneEach(files), Retouched(files')
  PROVE  /\ OneEach(files')
         /\ \A id :
              /\ Listed(id)' <=> Listed(id)
              /\ Listed(id) =>
                   /\ Named(id)' = files'[Index(id)] /\ Named(id)'.name = Named(id).name
                   /\ Named(id)'.id = id
<1>1. OneEach(files')
  BY DEF OneEach, Retouched
<1>2. \A id : Listed(id)' <=> Listed(id)
  BY DEF Listed, Retouched
<1>3. ASSUME NEW id, Listed(id)
      PROVE  /\ Named(id)' = files'[Index(id)] /\ Named(id)'.name = Named(id).name
             /\ Named(id)'.id = id
  <2>1. Index(id) \in DOMAIN files' /\ files'[Index(id)].id = id /\ Named(id) = files[Index(id)]
    BY <1>3, Files1 DEF Retouched
  <2>2. Named(id)' = files'[Index(id)]
    BY <1>1, <2>1, AtIndexNext
  <2>3. QED
    BY <1>3, <2>1, <2>2, Files1 DEF Retouched
<1>4. QED
  BY <1>1, <1>2, <1>3

LEMMA Retouch ==
  ASSUME files \in Seq(Files), OneEach(files), NEW id, Listed(id), NEW text \in Texts,
         files' = WithText(id, text)
  PROVE  /\ Retouched(files')
         /\ \A i \in DOMAIN files :
              files'[i].text = IF files[i].id = id THEN text ELSE files[i].text
         /\ \A o : Listed(o) => Named(o)'.text = IF o = id THEN text ELSE Named(o).text
<1>1. /\ Index(id) \in DOMAIN files /\ \A i \in DOMAIN files : files[i].id = id <=> i = Index(id)
      /\ DOMAIN files = 1..Len(files) /\ files[Index(id)] \in Files
  BY Files1, LenProperties, ElementOfSeq
<1>2. [files[Index(id)] EXCEPT !.text = text] \in Files
  BY <1>1 DEF Files
<1>3. files' = [files EXCEPT ![Index(id)] = [files[Index(id)] EXCEPT !.text = text]]
  BY DEF WithText
<1>4. files' \in Seq(Files) /\ DOMAIN files' = DOMAIN files
  BY <1>1, <1>2, <1>3, ExceptSeq, LenProperties
<1>5. \A i \in DOMAIN files :
        files'[i] = IF i = Index(id) THEN [files[i] EXCEPT !.text = text] ELSE files[i]
  BY <1>1, <1>3
<1>6. /\ [files[Index(id)] EXCEPT !.text = text].id = files[Index(id)].id
      /\ [files[Index(id)] EXCEPT !.text = text].name = files[Index(id)].name
      /\ [files[Index(id)] EXCEPT !.text = text].text = text
  BY <1>1 DEF Files
<1>7. Retouched(files')
  BY <1>4, <1>5, <1>6 DEF Retouched
<1>8. \A i \in DOMAIN files :
        files'[i].text = IF files[i].id = id THEN text ELSE files[i].text
  BY <1>1, <1>5, <1>6
<1>9. QED
  BY <1>7, <1>8, RetouchedFiles, Files1

-----------------------------------------------------------------------------
(* The invariant of the folder and the list *)

(* What the types come to while no list was replaced. *)
Drafts ==
  /\ \A f \in Range(files) : f.text.of = f.id
  /\ tab = "raw" /\ cur # 0 => raw.of = cur

Types ==
  /\ disk \in [Names -> Texts]
  /\ Range(legacy) \subseteq Range(Initial)
  /\ load \in {"asked", "listed", "unanswered", "migrating", "done", "failed"}
  /\ Range(found) \subseteq Files /\ Range(files) \subseteq Files
  /\ tab \in {"raw", "form"} /\ raw \in Texts
  /\ saveErr \in Ids \cup {0}
  /\ naming \in {Closed, NewName} \cup {NameOf(id) : id \in Ids}
  /\ busy \in BOOLEAN
  /\ doubtful \cup overwritten \cup unsaved \subseteq Ids
  /\ dirty \cup due \cup ({cur} \ {0}) \subseteq {f.id : f \in Range(files)}
  /\ Drafts

CallType ==
  [kind : {"put", "create", "rename", "delete"}, file : Ids, name : Names, to : Names,
   text : Texts, stage : {"sent", "checked", "ok", "failed"}]

(* A bag of calls: how many of each there are. *)
CallsInv ==
  /\ IsBag(calls) /\ DOMAIN calls \subseteq CallType
  /\ \A c \in DOMAIN calls :
       /\ c.kind \in {"put", "create"} => c.to = c.name /\ c.text.of = c.file
       /\ c.stage = "checked" => c.kind = "rename"

(* Files each with an id and a name of its own. *)
ListInv ==
  /\ files \in Seq(Files) /\ OneEach(files)
  /\ \A i \in DOMAIN files : files[i].id <= NextId

(* A draft that differs from the text behind it has not been scheduled. *)
DraftInv == tab = "raw" /\ cur # 0 => raw = Named(cur).text \/ cur \in unsaved

CountersInv ==
  /\ edits \in 0..MaxEdits /\ nameOps \in 0..MaxNameOps /\ failures \in 0..MaxFailures
  /\ naming # Closed => nameOps >= 1
  /\ naming = NewName => ~Listed(NextId)

(* Nothing but the name field is used before the list is there. *)
Early ==
  load # "done" =>
    /\ files = <<>> /\ cur = 0 /\ dirty = {} /\ due = {} /\ unsaved = {}
    /\ naming \in {Closed, NewName} /\ ~busy /\ calls = EmptyBag /\ edits = 0

(* What has been found: files of the beginning, each once. *)
FoundInv ==
  /\ found \in Seq(Files)
  /\ \A i \in DOMAIN found :
       /\ found[i].id = Place(found[i].name) /\ found[i].text.of = found[i].id
  /\ \A i, j \in DOMAIN found : found[i].name = found[j].name => i = j

LegacyInv ==
  /\ legacy \in Seq(Names)
  /\ \A i \in DOMAIN legacy : legacy[i] \in Range(Initial)
  /\ \A i, j \in DOMAIN legacy : legacy[i] = legacy[j] => i = j

(* The folder holds what has been found, and otherwise only doubtful texts. *)
FoundInFolder ==
  /\ \A i \in DOMAIN found : disk[found[i].name] = found[i].text
  /\ \A n \in Names :
       disk[n] = Absent \/ disk[n].of \in doubtful \/ \E i \in DOMAIN found : found[i].name = n

(* There is nothing in the folder but texts of files. *)
FolderTexts == \A n \in Names : disk[n] = Absent \/ disk[n].of \in Ids

ReadingInv ==
  /\ FoundInv /\ LegacyInv /\ FolderTexts
  /\ load = "asked" =>
       /\ found = <<>>
       /\ \A n \in Names : disk[n] # Absent => disk[n].of = Place(n)
  /\ load \in {"listed", "migrating"} => FoundInFolder
  /\ load = "migrating" => \A i \in DOMAIN found, j \in DOMAIN legacy : found[i].name # legacy[j]

(* What a call that creates, renames or deletes a file relies on: no other file    *)
(* takes its name meanwhile.                                                *)
Relies(c) ==
  /\ Listed(c.file) <=> c.kind # "create"
  /\ c.kind # "create" => Named(c.file).name = c.name
  /\ c.kind = "create" => c.file <= NextId
  /\ c.kind \in {"create", "rename"} =>
       \A i \in DOMAIN files : files[i].name = c.to => files[i].id = c.file

NameOps == {c \in DOMAIN calls : c.kind # "put"}

NamingInv ==
  /\ busy <=> NameOps # {}
  /\ \A c, d \in NameOps : c = d
  /\ \A c \in NameOps : calls[c] = 1 /\ Relies(c)

(* Where the text of a file lies, and where it should while a call is in flight.   *)
Where(id) == {n \in Names : disk[n].of = id}

Left(c) ==
  IF c.kind = "put" THEN {c.name}
  ELSE IF c.stage = "ok" THEN IF c.kind = "delete" THEN {} ELSE {c.to}
  ELSE IF c.kind = "create" THEN {} ELSE {c.name}

Placed(id) ==
  /\ InFlight(id) = {} => Where(id) = IF Listed(id) THEN {Named(id).name} ELSE {}
  /\ \A c \in InFlight(id) :
       /\ Where(id) = Left(c)
       /\ c.kind \in {"put", "create"} /\ c.stage = "ok" => disk[c.name] = c.text

(* The one call about a file, which writes under the name the file has. *)
Alone(id) ==
  \A c \in InFlight(id) :
    /\ InFlight(id) = {c} /\ calls[c] = 1
    /\ c.kind = "put" => Listed(id) /\ c.name = Named(id).name

(* What is on the screen is in the folder, or on its way there. *)
Saved(id) ==
  Listed(id) /\ id \notin due \cup unsaved =>
    /\ \A c \in InFlight(id) : c.kind = "put" => c.text = Seen(id)
    /\ (\A c \in InFlight(id) : c.kind # "put") => \A n \in Where(id) : disk[n] = Seen(id)

(* What is said of a file: of its calls unless they overlapped or an answer was   *)
(* lost, of its texts unless another file's late write destroyed them besides.   *)
Kept(id) ==
  /\ id \notin doubtful => Alone(id)
  /\ id \notin AtRisk => Placed(id) /\ Saved(id)

FolderInv == load = "done" => \A id \in Ids : Kept(id)

Agreement ==
  /\ Types /\ CallsInv /\ ListInv /\ DraftInv /\ CountersInv /\ Early /\ ReadingInv
  /\ NamingInv /\ FolderInv
-----------------------------------------------------------------------------
(* Files that a step leaves alone *)

(* The promises about a file depend only on its place in the list, its calls, its  *)
(* texts in the folder, and what is on the screen.                             *)
LEMMA Undisturbed ==
  ASSUME CallsInv, NEW id, Kept(id), doubtful \subseteq doubtful', AtRisk \subseteq AtRisk',
         InFlight(id)' = InFlight(id), \A c \in InFlight(id) : calls'[c] = calls[c],
         id \notin AtRisk' =>
           \A n \in Names : disk[n].of = id \/ disk'[n].of = id => disk'[n] = disk[n],
         Listed(id)' <=> Listed(id), Listed(id) => Named(id)'.name = Named(id).name,
         Listed(id) /\ id \notin due' \cup unsaved' =>
           id \notin due \cup unsaved /\ Seen(id)' = Seen(id)
  PROVE  Kept(id)'
<1>1. ASSUME id \notin doubtful' PROVE Alone(id)'
  BY <1>1 DEF Kept, Alone
<1>2. ASSUME id \notin AtRisk' PROVE Placed(id)' /\ Saved(id)'
  <2>1. Placed(id) /\ Saved(id)
    BY <1>2 DEF Kept
  <2>2. Where(id)' = Where(id) /\ \A n \in Where(id) : disk'[n] = disk[n]
    BY <1>2 DEF Where
  <2>3. \A c \in InFlight(id) : c \in CallType /\ (c.kind \in {"put", "create"} => c.to = c.name)
    BY DEF InFlight, BagToSet, CallsInv
  <2>4. ASSUME NEW c \in InFlight(id), c.kind \in {"put", "create"}, c.stage = "ok"
        PROVE  disk'[c.name] = c.text
    <3>1. Left(c) = {c.name} /\ Where(id) = Left(c) /\ disk[c.name] = c.text
      BY <2>1, <2>3, <2>4 DEF Left, Placed
    <3>2. QED
      BY <2>2, <3>1
  <2>5. InFlight(id) = {} => Where(id)' = IF Listed(id)' THEN {Named(id)'.name} ELSE {}
    BY <2>1, <2>2 DEF Placed
  <2>6. \A c \in InFlight(id) : Where(id)' = Left(c)
    BY <2>1, <2>2 DEF Placed
  <2>7. Placed(id)'
    BY <2>4, <2>5, <2>6 DEF Placed, Left
  <2>8. Saved(id)'
    BY <2>1, <2>2 DEF Saved
  <2>9. QED
    BY <2>7, <2>8
<1>3. QED
  BY <1>1, <1>2 DEF Kept

(* Calls that rely on a list rely on it still when only texts change. *)
LEMMA ReliesStill ==
  ASSUME OneEach(files), Retouched(files'), nameOps' \in Nat, nameOps \in Nat, nameOps' >= nameOps,
         NEW c, c.file \in Nat, Relies(c)
  PROVE  Relies(c)'
<1>1. /\ Listed(c.file)' <=> Listed(c.file)
      /\ Listed(c.file) => Named(c.file)'.name = Named(c.file).name
  BY RetouchedFiles
<1>2. c.file <= NextId => c.file <= NextId'
  BY Numbers DEF NextId
<1>3. \A i \in DOMAIN files' :
        i \in DOMAIN files /\ files'[i].name = files[i].name /\ files'[i].id = files[i].id
  BY DEF Retouched
<1>4. QED
  BY <1>1, <1>2, <1>3 DEF Relies

(* The editor: texts, drafts and schedules change, and nothing else.            *)
LEMMA EditorKeeps ==
  ASSUME Agreement, Early',
         UNCHANGED <<folder, reading, saveErr, pane, calls, nameOps, failures, doubtful>>,
         Retouched(files'), Drafts', DraftInv',
         edits' \in 0..MaxEdits, tab' \in {"raw", "form"}, raw' \in Texts,
         cur' = 0 \/ Listed(cur'), \A id \in dirty' \cup due' : Listed(id),
         due \subseteq due', unsaved \subseteq unsaved', unsaved' \subseteq Ids,
         \A id : Listed(id) /\ id \notin due' \cup unsaved' => Seen(id)' = Seen(id)
  PROVE  Agreement'
<1>1. /\ Types /\ CallsInv /\ ListInv /\ CountersInv /\ ReadingInv /\ NamingInv /\ FolderInv
      /\ UNCHANGED <<disk, overwritten, legacy, load, found, saveErr, naming, busy, calls, nameOps, failures,
                     doubtful>>
  BY DEF Agreement, folder, reading, pane
<1>2. /\ OneEach(files) /\ OneEach(files') /\ files' \in Seq(Files)
      /\ \A id : /\ Listed(id)' <=> Listed(id)
                 /\ Listed(id) => Named(id)'.name = Named(id).name
  BY <1>1, RetouchedFiles DEF ListInv, Retouched
<1>3. Types'
  <2>1. Range(files') \subseteq Files
    BY <1>2, OnList
  <2>2. \A id : Listed(id)' <=> id \in {f.id : f \in Range(files')}
    BY DEF Listed, Range
  <2>3. dirty' \cup due' \cup ({cur'} \ {0}) \subseteq {f.id : f \in Range(files')}
    BY <1>2, <2>2
  <2>4. doubtful' \cup overwritten' \cup unsaved' \subseteq Ids
    BY <1>1 DEF Types
  <2>5. QED
    BY <1>1, <2>1, <2>3, <2>4 DEF Types
<1>4. CallsInv'
  BY <1>1 DEF CallsInv
<1>5. ListInv'
  BY <1>1, <1>2 DEF ListInv, Retouched, NextId
<1>6. CountersInv'
  BY <1>1, <1>2 DEF CountersInv, NextId
<1>7. ReadingInv'
  BY <1>1 DEF ReadingInv, FoundInv, LegacyInv, FolderTexts, FoundInFolder
<1>8. NamingInv'
  <2>1. NameOps' = NameOps
    BY <1>1 DEF NameOps
  <2>2. \A c \in NameOps : c.file \in Nat
    BY <1>1, Numbers DEF NameOps, CallsInv, CallType
  <2>3. nameOps \in Nat /\ nameOps' >= nameOps
    BY <1>1, Numbers DEF CountersInv
  <2>4. \A c \in NameOps : Relies(c)'
    BY <1>1, <1>2, <2>2, <2>3, ReliesStill DEF NamingInv
  <2>5. QED
    BY <1>1, <2>1, <2>4 DEF NamingInv
<1>9. FolderInv'
  <2>1. ASSUME load' = "done", NEW id \in Ids
        PROVE  Kept(id)'
    <3>1. Kept(id)
      BY <1>1, <2>1 DEF FolderInv
    <3>2. InFlight(id)' = InFlight(id) /\ AtRisk' = AtRisk
      BY <1>1 DEF InFlight, AtRisk
    <3>3. Listed(id) /\ id \notin due' \cup unsaved' =>
            id \notin due \cup unsaved /\ Seen(id)' = Seen(id)
      OBVIOUS
    <3>4. QED
      BY <1>1, <1>2, <3>1, <3>2, <3>3, Undisturbed
  <2>2. QED
    BY <2>1 DEF FolderInv
<1>10. QED
  BY <1>3, <1>4, <1>5, <1>6, <1>7, <1>8, <1>9 DEF Agreement

(* What is on the screen when nothing is done to a file but to show it. *)
LEMMA SeenText ==
  \A id : Seen(id) = IF Named(id).id = cur /\ tab = "raw" THEN raw ELSE Named(id).text
  BY DEF Seen, Content

(* The facts of a state in which a file can be edited. *)
LEMMA Editing ==
  ASSUME Agreement, files # <<>> \/ cur # 0
  PROVE  /\ load = "done" /\ files \in Seq(Files) /\ OneEach(files)
         /\ 0 \notin Ids /\ (cur # 0 => Listed(cur))
         /\ \A id : Listed(id) =>
              /\ id \in Ids /\ Named(id) \in Files /\ Named(id).id = id /\ Named(id).text.of = id
              /\ Named(id) \in Range(files)
         /\ \A f \in Range(files) : Listed(f.id) /\ Named(f.id) = f
<1>1. load = "done" /\ files \in Seq(Files) /\ OneEach(files)
  BY DEF Agreement, Early, ListInv
<1>2. 0 \notin Ids /\ (cur # 0 => Listed(cur))
  BY Numbers, ListedIds DEF Agreement, Types
<1>3. ASSUME NEW id, Listed(id)
      PROVE  /\ id \in Ids /\ Named(id) \in Files /\ Named(id).id = id /\ Named(id).text.of = id
             /\ Named(id) \in Range(files)
  <2>1. Named(id) \in Range(files) /\ Named(id).id = id
    BY <1>1, <1>3, Files1 DEF Range
  <2>2. Named(id) \in Files
    BY <1>1, <2>1, OnList
  <2>3. QED
    BY <2>1, <2>2 DEF Files, Agreement, Types, Drafts
<1>4. \A f \in Range(files) : Listed(f.id) /\ Named(f.id) = f
  BY <1>1, AtIndex DEF Range
<1>5. QED
  BY <1>1, <1>2, <1>3, <1>4

(* A list that does not change. *)
LEMMA SameList ==
  ASSUME Agreement, UNCHANGED files
  PROVE  /\ Retouched(files')
         /\ \A id : (Listed(id)' <=> Listed(id)) /\ Named(id)' = Named(id)
  BY DEF Agreement, ListInv, Retouched, Listed, Named

(* A new text of a file. *)
LEMMA ChangeText ==
  ASSUME Agreement, NEW id, Listed(id), Change(id)
  PROVE  /\ Retouched(files') /\ edits' \in 0..MaxEdits
         /\ Text(id, edits + 1) \in Texts /\ Text(id, edits + 1).of = id
         /\ Named(id)'.text = Text(id, edits + 1)
         /\ \A o : Listed(o) => /\ Named(o)'.id = o
                                /\ o # id => Named(o)'.text = Named(o).text
         /\ \A f \in Range(files') : f.text.of = f.id
<1>1. files # <<>>
  BY Numbers DEF Listed
<1>2. /\ files \in Seq(Files) /\ OneEach(files) /\ id \in Ids
      /\ \A f \in Range(files) : f.text.of = f.id
  BY <1>1, Editing DEF Agreement, Types, Drafts
<1>3. edits + 1 \in 0..MaxEdits /\ edits' = edits + 1
  BY Numbers DEF Change, CountEdit, Agreement, CountersInv
<1>4. Text(id, edits + 1) \in Texts /\ Text(id, edits + 1).of = id
  BY <1>2, <1>3, TextTypes
<1>5. /\ Retouched(files')
      /\ \A i \in DOMAIN files :
           files'[i].text = IF files[i].id = id THEN Text(id, edits + 1) ELSE files[i].text
      /\ \A o : Listed(o) =>
           Named(o)'.text = IF o = id THEN Text(id, edits + 1) ELSE Named(o).text
  BY <1>2, <1>4, Retouch DEF Change
<1>6. \A f \in Range(files') : f.text.of = f.id
  <2>1. ASSUME NEW i \in DOMAIN files' PROVE files'[i].text.of = files'[i].id
    <3>1. i \in DOMAIN files /\ files'[i].id = files[i].id /\ files[i].text.of = files[i].id
      BY <1>2, <1>5 DEF Retouched, Range
    <3>2. QED
      BY <1>4, <1>5, <3>1
  <2>2. QED
    BY <2>1 DEF Range
<1>7. QED
  BY <1>2, <1>3, <1>4, <1>5, <1>6, RetouchedFiles

(* A new text of the file being edited, whose write-back is scheduled or missing. *)
LEMMA ChangeStep ==
  ASSUME Agreement, cur # 0, Change(cur),
         UNCHANGED <<folder, reading, cur, tab, saveErr, pane, calls, nameOps, failures, doubtful>>,
         raw' = IF tab = "raw" THEN Text(cur, edits + 1) ELSE raw,
         due \subseteq due', unsaved \subseteq unsaved', unsaved' \subseteq unsaved \cup {cur},
         due' \subseteq due \cup {cur}, dirty' \subseteq dirty \cup {cur},
         cur \in due' \cup unsaved'
  PROVE  Agreement'
<1>1. /\ load = "done" /\ Listed(cur) /\ cur \in Ids /\ OneEach(files)
      /\ \A id : Listed(id) => Named(id).id = id
      /\ Types /\ DraftInv
  BY Editing DEF Agreement
<1>2. /\ Retouched(files') /\ edits' \in 0..MaxEdits
      /\ Text(cur, edits + 1) \in Texts /\ Text(cur, edits + 1).of = cur
      /\ Named(cur)'.text = Text(cur, edits + 1)
      /\ \A o : Listed(o) => /\ Named(o)'.id = o
                             /\ o # cur => Named(o)'.text = Named(o).text
      /\ \A f \in Range(files') : f.text.of = f.id
  BY <1>1, ChangeText
<1>3. Early'
  BY <1>1 DEF Early, reading
<1>4. Drafts' /\ DraftInv' /\ raw' \in Texts
  BY <1>1, <1>2 DEF Drafts, DraftInv, Types
<1>5. \A id \in dirty' \cup due' : Listed(id)
  BY <1>1, ListedIds DEF Types
<1>6. ASSUME NEW id, Listed(id), id # cur
      PROVE  Seen(id)' = Seen(id)
  <2>1. Named(id).id = id /\ Named(id)'.id = id /\ Named(id)'.text = Named(id).text
    BY <1>1, <1>2, <1>6
  <2>2. QED
    BY <1>6, <2>1 DEF Seen, Content
<1>7. QED
  BY <1>1, <1>2, <1>3, <1>4, <1>5, <1>6, EditorKeeps DEF Types

LEMMA EditStep ==
  ASSUME Agreement, Edit \/ Duplicate
  PROVE  Agreement'
  BY ChangeStep DEF Edit, Duplicate, Touch, Scheduled, history

(* What is seen of a file is its text, except for a draft nothing has scheduled. *)
LEMMA DraftSeen ==
  ASSUME Agreement, NEW id, Listed(id), id \notin unsaved
  PROVE  Seen(id) = Named(id).text
<1>1. files # <<>>
  BY Numbers DEF Listed
<1>2. Named(id).id = id /\ id \in Ids /\ 0 \notin Ids
  BY <1>1, Editing
<1>3. QED
  BY <1>2 DEF Seen, Content, Agreement, DraftInv

(* The texts of the list stay, the editor moves between the files.               *)
LEMMA MoveStep ==
  ASSUME Agreement, load = "done",
         UNCHANGED <<folder, reading, files, saveErr, pane, calls, nameOps, failures, doubtful,
                     unsaved>>,
         edits' \in 0..MaxEdits, due \subseteq due', \A id \in dirty' \cup due' : Listed(id),
         tab' \in {"raw", "form"}, raw' \in Texts,
         cur' = 0 \/ Listed(cur'),
         tab' = "raw" /\ cur' # 0 =>
           raw' = Named(cur').text \/ (cur' = cur /\ tab = "raw" /\ raw' = raw)
  PROVE  Agreement'
<1>1. /\ Types /\ DraftInv /\ \A id : (Listed(id)' <=> Listed(id)) /\ Named(id)' = Named(id)
      /\ Retouched(files')
  BY SameList DEF Agreement
<1>2. \A id : Listed(id) => Named(id).id = id /\ Named(id).text.of = id /\ id \in Ids
  <2>1. ASSUME NEW id, Listed(id) PROVE files # <<>>
    BY <2>1, Numbers DEF Listed
  <2>2. QED
    BY <2>1, Editing
<1>3. DraftInv' /\ Drafts'
  BY <1>1, <1>2 DEF DraftInv, Drafts, Types
<1>4. ASSUME NEW id, Listed(id), id \notin due' \cup unsaved'
      PROVE  Seen(id)' = Seen(id)
  <2>1. Seen(id) = Named(id).text /\ Named(id).id = id /\ id # 0
    BY <1>2, <1>4, DraftSeen, Numbers
  <2>2. Seen(id)' = Named(id).text
    BY <1>1, <1>4, <2>1 DEF Seen, Content, DraftInv
  <2>3. QED
    BY <2>1, <2>2
<1>5. Early'
  BY DEF Early, reading
<1>6. QED
  BY <1>1, <1>3, <1>4, <1>5, EditorKeeps DEF Types

LEMMA SelectStep ==
  ASSUME Agreement, SelectRequest \/ OpenFile
  PROVE  Agreement'
<1>1. /\ UNCHANGED <<folder, reading, files, dirty, due, saveErr, pane, calls, counters, history>>
      /\ \E f \in Range(files) :
           /\ cur' = f.id
           /\ \/ raw' = DraftOn(f.id) /\ UNCHANGED tab
              \/ raw' = f.text /\ tab' = "raw"
  <2>1. CASE SelectRequest
    BY <2>1 DEF SelectRequest
  <2>2. CASE OpenFile
    BY <2>2 DEF OpenFile, Shows
  <2>3. QED
    BY <2>1, <2>2
<1>2. PICK f \in Range(files) :
        /\ cur' = f.id
        /\ \/ raw' = DraftOn(f.id) /\ UNCHANGED tab
           \/ raw' = f.text /\ tab' = "raw"
  BY <1>1
<1>3. files # <<>>
  BY <1>2, Numbers DEF Range
<1>4. /\ load = "done" /\ Listed(f.id) /\ Named(f.id) = f /\ f.text \in Texts /\ Types
      /\ edits \in 0..MaxEdits
  BY <1>2, <1>3, Editing DEF Agreement, Types, Files, CountersInv
<1>5. raw' \in Texts /\ tab' \in {"raw", "form"}
  BY <1>2, <1>4, TextTypes DEF DraftOn, Types
<1>6. tab' = "raw" => raw' = Named(cur').text \/ (cur' = cur /\ tab = "raw" /\ raw' = raw)
  BY <1>2, <1>4 DEF DraftOn
<1>7. \A id \in dirty' \cup due' : Listed(id)
  BY <1>1, <1>4, ListedIds DEF Types
<1>8. QED
  BY <1>1, <1>2, <1>4, <1>5, <1>6, <1>7, MoveStep DEF counters, history

(* The other view of a file: leaving the text schedules its write-back. *)
LEMMA TabStep ==
  ASSUME Agreement, SetTab
  PROVE  Agreement'
<1>1. /\ UNCHANGED <<folder, reading, files, cur, saveErr, pane, calls, nameOps, failures, history>>
      /\ Types /\ edits \in 0..MaxEdits /\ Early
  BY DEF SetTab, Agreement, CountersInv
<1>2. \/ tab = "raw" /\ tab' = "form" /\ raw' = Absent
      \/ tab = "form" /\ tab' = "raw" /\ cur # 0 /\ raw' = Named(cur).text
  BY DEF SetTab
<1>3. \/ UNCHANGED <<dirty, due, edits>>
      \/ /\ cur # 0 /\ dirty' = dirty \cup {cur} /\ due' = due \cup {cur}
         /\ edits < MaxEdits /\ edits' = edits + 1
  BY DEF SetTab, Touch, Scheduled, CountEdit
<1>4. edits' \in 0..MaxEdits
  BY <1>1, <1>3, Numbers
<1>5. cur # 0 => load = "done" /\ Listed(cur) /\ Named(cur).text \in Texts
  BY Editing DEF Files
<1>6. \A id \in dirty' \cup due' : Listed(id)
  BY <1>1, <1>3, <1>5, ListedIds DEF Types
<1>7. raw' \in Texts /\ tab' \in {"raw", "form"}
  BY <1>2, <1>5, TextTypes
<1>8. CASE load = "done"
  BY <1>1, <1>2, <1>3, <1>4, <1>5, <1>6, <1>7, <1>8, MoveStep DEF history
<1>9. CASE load # "done"
  <2>1. cur = 0 /\ UNCHANGED <<dirty, due, edits>>
    BY <1>3, <1>5, <1>9
  <2>2. Early' /\ Drafts' /\ DraftInv'
    BY <1>1, <1>9, <2>1 DEF Early, Drafts, DraftInv, Types, reading, pane, history
  <2>3. files = <<>>
    BY <1>1, <1>9 DEF Early
  <2>4. \A id : ~Listed(id)
    BY <2>3 DEF Listed
  <2>5. Retouched(files')
    BY <1>1, SameList
  <2>6. QED
    BY <1>1, <1>4, <1>6, <1>7, <2>1, <2>2, <2>4, <2>5, EditorKeeps DEF Types, history
<1>10. QED
  BY <1>8, <1>9

(* An emptied draft is not the text of its file any more. *)
LEMMA EmptyDraftStep ==
  ASSUME Agreement, EmptyDraft
  PROVE  Agreement'
<1>1. /\ UNCHANGED <<folder, reading, files, cur, tab, dirty, due, saveErr, pane, calls, nameOps,
                     failures, doubtful>>
      /\ unsaved' = unsaved \cup {cur} /\ raw' = [Text(cur, edits + 1) EXCEPT !.empty = TRUE]
      /\ cur # 0 /\ edits < MaxEdits /\ edits' = edits + 1
      /\ Types /\ edits \in 0..MaxEdits
  BY DEF EmptyDraft, CountEdit, Agreement, CountersInv
<1>2. load = "done" /\ Listed(cur) /\ cur \in Ids
  BY <1>1, Editing
<1>3. edits' \in 0..MaxEdits /\ raw' \in Texts /\ raw'.of = cur
  <2>1. edits + 1 \in 0..MaxEdits
    BY <1>1, Numbers
  <2>2. /\ [Text(cur, edits + 1) EXCEPT !.empty = TRUE] \in Texts
        /\ [Text(cur, edits + 1) EXCEPT !.empty = TRUE].of = cur
    BY <1>2, <2>1, TextTypes
  <2>3. QED
    BY <1>1, <2>1, <2>2
<1>4. Early' /\ Drafts' /\ DraftInv'
  BY <1>1, <1>2, <1>3 DEF Early, Drafts, DraftInv, Types, reading
<1>5. \A id \in dirty' \cup due' : Listed(id)
  BY <1>1, ListedIds DEF Types
<1>6. ASSUME NEW id, Listed(id), id \notin unsaved'
      PROVE  Seen(id)' = Seen(id)
  <2>1. Named(id).id = id /\ id # cur /\ Named(id)' = Named(id)
    BY <1>1, <1>6, Editing, SameList
  <2>2. QED
    BY <1>1, <2>1 DEF Seen, Content
<1>7. QED
  BY <1>1, <1>2, <1>3, <1>4, <1>5, <1>6, SameList, EditorKeeps DEF Types

(* A request that is added to a file selects the file. *)
LEMMA AddRequestStep ==
  ASSUME Agreement, AddRequest
  PROVE  Agreement'
<1>1. PICK id \in {f.id : f \in Range(files)} :
        /\ Change(id) /\ cur' = id
        /\ raw' = IF tab = "raw" THEN Text(id, edits + 1) ELSE Absent
        /\ dirty' = dirty \cup {id} /\ unsaved' = unsaved \cup {id}
  BY DEF AddRequest
<1>2. /\ UNCHANGED <<folder, reading, tab, due, saveErr, pane, calls, nameOps, failures, doubtful>>
      /\ Types /\ DraftInv /\ Listed(id)
  BY <1>1, ListedIds DEF AddRequest, Agreement
<1>3. files # <<>>
  BY <1>2, Numbers DEF Listed
<1>4. /\ load = "done" /\ OneEach(files) /\ id \in Ids /\ id # 0
      /\ \A o : Listed(o) => Named(o).id = o
  BY <1>2, <1>3, Editing, Numbers
<1>5. /\ Retouched(files') /\ edits' \in 0..MaxEdits
      /\ Text(id, edits + 1) \in Texts /\ Text(id, edits + 1).of = id
      /\ Named(id)'.text = Text(id, edits + 1)
      /\ \A o : Listed(o) => /\ Named(o)'.id = o
                             /\ o # id => Named(o)'.text = Named(o).text
      /\ \A f \in Range(files') : f.text.of = f.id
  BY <1>1, <1>2, ChangeText
<1>6. Early'
  BY <1>2, <1>4 DEF Early, reading
<1>7. Drafts' /\ DraftInv' /\ raw' \in Texts
  BY <1>1, <1>2, <1>5, TextTypes DEF Drafts, DraftInv, Types
<1>8. \A o \in dirty' \cup due' : Listed(o)
  BY <1>1, <1>2, ListedIds DEF Types
<1>9. ASSUME NEW o, Listed(o), o \notin unsaved'
      PROVE  Seen(o)' = Seen(o)
  <2>1. o # id /\ Seen(o) = Named(o).text /\ Named(o)'.id = o /\ Named(o)'.text = Named(o).text
    BY <1>1, <1>5, <1>9, DraftSeen
  <2>2. QED
    BY <1>1, <2>1 DEF Seen, Content
<1>10. QED
  BY <1>1, <1>2, <1>4, <1>5, <1>6, <1>7, <1>8, <1>9, EditorKeeps DEF Types


-----------------------------------------------------------------------------
(* Calls that are made *)

LEMMA FlightIn == \A id, c : c \in InFlight(id) <=> c \in DOMAIN calls /\ c.file = id
  BY DEF InFlight, BagToSet

(* A call that is made, and what it makes doubtful. *)
LEMMA Made ==
  ASSUME CallsInv, NEW kind, NEW id, NEW name, NEW to, NEW text, Call(kind, id, name, to, text),
         NEW c, c = [kind |-> kind, file |-> id, name |-> name, to |-> to, text |-> text,
                     stage |-> "sent"]
  PROVE  /\ IsBag(calls') /\ DOMAIN calls' = DOMAIN calls \cup {c}
         /\ \A d \in DOMAIN calls : d # c => calls'[d] = calls[d]
         /\ c \notin DOMAIN calls => calls'[c] = 1
         /\ \A o : o # id => InFlight(o)' = InFlight(o)
         /\ doubtful \subseteq doubtful' /\ doubtful' \subseteq doubtful \cup {id}
         /\ id \notin doubtful' =>
              InFlight(id) = {} /\ InFlight(id)' = {c} /\ c \notin DOMAIN calls
<1>1. /\ IsBag(calls') /\ DOMAIN calls' = DOMAIN calls \cup {c}
      /\ \A d \in DOMAIN calls : d # c => calls'[d] = calls[d]
      /\ c \notin DOMAIN calls => calls'[c] = 1
  <2>1. IsBag(calls) /\ calls' = BagAdd(calls, c)
    BY DEF Call, CallsInv
  <2>2. /\ IsBag(BagAdd(calls, c)) /\ DOMAIN BagAdd(calls, c) = DOMAIN calls \cup {c}
        /\ BagAdd(calls, c)[c] = IF c \in DOMAIN calls THEN calls[c] + 1 ELSE 1
        /\ \A d \in DOMAIN calls \ {c} : BagAdd(calls, c)[d] = calls[d]
    BY ONLY <2>1, Added
  <2>3. QED
    BY <2>1, <2>2
<1>2. c.file = id
  OBVIOUS
<1>3. \A o : InFlight(o)' = {d \in DOMAIN calls' : d.file = o}
                /\ InFlight(o) = {d \in DOMAIN calls : d.file = o}
  BY DEF InFlight, BagToSet
<1>4. \A o : o # id => InFlight(o)' = InFlight(o)
  BY <1>1, <1>2, <1>3
<1>5. doubtful' = IF InFlight(id) = {} THEN doubtful ELSE doubtful \cup {id}
  BY DEF Call
<1>6. id \notin doubtful' =>
        InFlight(id) = {} /\ InFlight(id)' = {c} /\ c \notin DOMAIN calls
  <2>1. ASSUME id \notin doubtful' PROVE InFlight(id) = {}
    BY <1>5, <2>1
  <2>2. ASSUME InFlight(id) = {} PROVE InFlight(id)' = {c} /\ c \notin DOMAIN calls
    BY <1>1, <1>2, <1>3, <2>2
  <2>3. QED
    BY <2>1, <2>2
<1>7. QED
  BY <1>1, <1>4, <1>5, <1>6

(* A call about one file leaves the promises about the others alone.             *)
LEMMA CallKeeps ==
  ASSUME Agreement, load = "done", NEW c, NEW id \in Ids, c \in CallType, c.file = id,
         c.kind \in {"put", "create"} => c.to = c.name /\ c.text.of = id, c.stage = "sent",
         Call(c.kind, id, c.name, c.to, c.text),
         c = [kind |-> c.kind, file |-> id, name |-> c.name, to |-> c.to, text |-> c.text,
              stage |-> "sent"],
         UNCHANGED <<folder, reading, files, cur, tab, raw, dirty, saveErr, failures, unsaved>>,
         due \ {id} \subseteq due', due' \subseteq due,
         naming' \in {Closed, NewName} \cup {NameOf(o) : o \in Ids}, busy' \in BOOLEAN,
         nameOps' >= nameOps, CountersInv', NamingInv',
         Kept(id)'
  PROVE  Agreement'
<1>1. /\ Types /\ CallsInv /\ ListInv /\ DraftInv /\ CountersInv /\ ReadingInv /\ NamingInv
      /\ FolderInv
      /\ UNCHANGED <<disk, overwritten, legacy, load, found, files, cur, tab, raw, dirty,
                     saveErr, failures, unsaved>>
  BY DEF Agreement, folder, reading
<1>2. /\ IsBag(calls') /\ DOMAIN calls' = DOMAIN calls \cup {c}
      /\ \A d \in DOMAIN calls : d # c => calls'[d] = calls[d]
      /\ \A o : o # id => InFlight(o)' = InFlight(o)
      /\ doubtful \subseteq doubtful' /\ doubtful' \subseteq doubtful \cup {id}
  <2> HIDE DEF Call
  <2>1. QED
    BY <1>1, Made
<1>3. \A o : (Listed(o)' <=> Listed(o)) /\ Named(o)' = Named(o)
  BY SameList, <1>1
<1>4. Types'
  <2>1. due' \subseteq {f.id : f \in Range(files)}
    BY <1>1 DEF Types
  <2>2. doubtful' \cup overwritten' \cup unsaved' \subseteq Ids
    BY <1>1, <1>2 DEF Types
  <2>3. QED
    BY <1>1, <2>1, <2>2 DEF Types, Drafts
<1>5. CallsInv'
  BY <1>1, <1>2 DEF CallsInv
<1>6. ListInv'
  <2>1. nameOps \in Nat /\ nameOps' \in Nat
    BY <1>1, Numbers DEF CountersInv
  <2>2. \A i \in DOMAIN files : files[i].id \in Nat
    <3>1. ASSUME NEW i \in DOMAIN files PROVE files[i].id \in Ids
      <4>1. files[i] \in Files
        BY <1>1, LenProperties, ElementOfSeq DEF ListInv
      <4>2. QED
        BY <4>1 DEF Files
    <3>2. QED
      BY <3>1, Numbers
  <2>3. QED
    BY <1>1, <2>1, <2>2, Numbers DEF ListInv, NextId
<1>7. DraftInv'
  BY <1>1, <1>3 DEF DraftInv
<1>8. Early'
  BY <1>1 DEF Early
<1>9. ReadingInv'
  BY <1>1 DEF ReadingInv, FoundInv, LegacyInv, FolderTexts
<1>10. FolderInv'
  <2>1. ASSUME NEW o \in Ids, o # id
        PROVE  Kept(o)'
    <3>1. Kept(o) /\ InFlight(o)' = InFlight(o) /\ AtRisk \subseteq AtRisk'
      BY <1>1, <1>2, <2>1 DEF FolderInv, AtRisk
    <3>2. \A d \in InFlight(o) : calls'[d] = calls[d]
      BY <1>2, <2>1, FlightIn
    <3>3. Listed(o) /\ o \notin due' \cup unsaved' => o \notin due \cup unsaved /\ Seen(o)' = Seen(o)
      BY <1>1, <1>3, <2>1 DEF Seen, Content
    <3>4. QED
      BY <1>1, <1>2, <1>3, <3>1, <3>2, <3>3, Undisturbed
  <2>2. QED
    BY <2>1 DEF FolderInv
<1>11. QED
  BY <1>4, <1>5, <1>6, <1>7, <1>8, <1>9, <1>10 DEF Agreement

(* The calls that create, rename and delete files, when another is made. *)
LEMMA OtherNameOps ==
  ASSUME CallsInv, NamingInv, NEW c, c.kind = "put",
         DOMAIN calls' = DOMAIN calls \cup {c}, UNCHANGED <<files, nameOps, busy>>,
         \A d \in DOMAIN calls : d # c => calls'[d] = calls[d]
  PROVE  NamingInv'
<1>1. NameOps' = NameOps /\ \A d \in NameOps : calls'[d] = calls[d]
  BY DEF NameOps
<1>2. \A d \in NameOps : Relies(d)'
  BY DEF NamingInv, Relies, Listed, Named, NextId
<1>3. QED
  BY <1>1, <1>2 DEF NamingInv

(* A text that is written back. *)
LEMMA PersistStep ==
  ASSUME Agreement, NEW id, Listed(id), Persist(Named(id)), edits' \in 0..MaxEdits,
         UNCHANGED <<folder, reading, files, cur, tab, raw, dirty, saveErr, pane, nameOps, failures,
                     unsaved>>
  PROVE  Agreement'
<1> DEFINE f == Named(id)
           c == [kind |-> "put", file |-> id, name |-> f.name, to |-> f.name, text |-> Seen(id),
                 stage |-> "sent"]
<1>1. files # <<>>
  BY Numbers DEF Listed
<1>2. /\ load = "done" /\ OneEach(files) /\ id \in Ids /\ f.id = id /\ f.name \in Names
      /\ f.text \in Texts /\ f.text.of = id
      /\ Types /\ CallsInv /\ CountersInv /\ NamingInv /\ FolderInv
  BY <1>1, Editing DEF Files, Agreement
<1>3. Seen(id) \in Texts /\ Seen(id).of = id
  BY <1>2, Numbers DEF Seen, Content, Types, Drafts
<1>4. /\ c \in CallType /\ c.file = id /\ c.kind = "put" /\ c.to = c.name /\ c.text = Seen(id)
      /\ c.name = f.name /\ c.stage = "sent"
  BY <1>2, <1>3 DEF CallType
<1>5. Call(c.kind, id, c.name, c.to, c.text) /\ due' = due \ {id}
  BY <1>2, <1>4 DEF Persist, Seen
<1>6. /\ DOMAIN calls' = DOMAIN calls \cup {c}
      /\ \A d \in DOMAIN calls : d # c => calls'[d] = calls[d]
      /\ c \notin DOMAIN calls => calls'[c] = 1
      /\ doubtful \subseteq doubtful'
      /\ id \notin doubtful' =>
           InFlight(id) = {} /\ InFlight(id)' = {c} /\ c \notin DOMAIN calls
  <2> HIDE DEF c
  <2>1. c = [kind |-> c.kind, file |-> id, name |-> c.name, to |-> c.to, text |-> c.text,
             stage |-> "sent"]
    BY DEF c
  <2>2. QED
    BY <1>2, <1>5, <2>1, Made
<1>7. /\ UNCHANGED <<disk, overwritten, legacy, load, found, files, cur, tab, raw, dirty,
                     saveErr, naming, busy, nameOps, failures, unsaved>>
      /\ \A o : (Listed(o)' <=> Listed(o)) /\ Named(o)' = Named(o)
  BY SameList DEF folder, reading, pane
<1>8. NamingInv'
  <2> HIDE DEF c
  <2>1. QED
    BY <1>2, <1>4, <1>6, <1>7, OtherNameOps
<1>9. CountersInv'
  BY <1>2, <1>7 DEF CountersInv, NextId, Listed
<1>10. Kept(id)'
  <2>1. ASSUME id \notin doubtful'
        PROVE  /\ InFlight(id) = {} /\ InFlight(id)' = {c} /\ calls'[c] = 1
    BY <1>6, <2>1
  <2> HIDE DEF c
  <2>2. ASSUME id \notin doubtful' PROVE Alone(id)'
    BY <1>4, <1>7, <2>1, <2>2 DEF Alone
  <2>3. ASSUME id \notin AtRisk' PROVE Placed(id)' /\ Saved(id)'
    <3>1. Placed(id) /\ id \notin doubtful'
      BY <1>2, <1>6, <1>7, <2>3 DEF FolderInv, Kept, AtRisk
    <3>2. Where(id)' = {f.name}
      BY <1>7, <2>1, <3>1 DEF Where, Placed
    <3>3. Seen(id)' = Seen(id)
      BY <1>7 DEF Seen, Content
    <3>4. Placed(id)'
      BY <1>4, <2>1, <3>1, <3>2 DEF Placed, Left
    <3>5. Saved(id)'
      BY <1>4, <2>1, <3>1, <3>3 DEF Saved
    <3>6. QED
      BY <3>4, <3>5
  <2>4. QED
    BY <2>2, <2>3 DEF Kept
<1>11. c = [kind |-> c.kind, file |-> id, name |-> c.name, to |-> c.to, text |-> c.text,
            stage |-> "sent"]
  OBVIOUS
<1>12. nameOps' >= nameOps /\ due \ {id} \subseteq due' /\ due' \subseteq due /\ busy' \in BOOLEAN
       /\ naming' \in {Closed, NewName} \cup {NameOf(o) : o \in Ids}
  BY <1>2, <1>5, <1>7, Numbers DEF CountersInv, Types
<1> HIDE DEF c
<1>13. QED
  BY <1>2, <1>3, <1>4, <1>5, <1>7, <1>8, <1>9, <1>10, <1>11, <1>12, CallKeeps DEF folder, reading

LEMMA WriteBackStep ==
  ASSUME Agreement, cut = {}, SaveNow \/ \E id \in Ids : TimerFires(id)
  PROVE  Agreement'
<1>1. Types /\ edits \in 0..MaxEdits
  BY DEF Agreement, CountersInv
<1>2. ASSUME NEW id \in Ids, TimerFires(id) PROVE Agreement'
  <2>1. Listed(id)
    BY <1>1, <1>2, ListedIds DEF TimerFires, Fires, Types
  <2>2. Object(id) = Named(id)
    BY DEF Object, Named
  <2>3. QED
    BY <1>1, <1>2, <2>1, <2>2, PersistStep DEF TimerFires, counters
<1>3. ASSUME SaveNow PROVE Agreement'
  <2>1. Listed(cur) /\ edits' \in 0..MaxEdits
    BY <1>1, <1>3, Editing, Numbers DEF SaveNow, CountEdit
  <2>2. QED
    BY <1>3, <2>1, PersistStep DEF SaveNow
<1>4. QED
  BY <1>2, <1>3

-----------------------------------------------------------------------------
(* The name field *)

(* The name field opens and closes, and nothing else changes. *)
LEMMA PaneKeeps ==
  ASSUME Agreement, Early', CountersInv', nameOps' >= nameOps, busy' = busy,
         UNCHANGED <<folder, reading, files, cur, tab, raw, dirty, due, saveErr, calls, edits, failures,
                     history>>,
         naming' \in {Closed, NewName} \cup {NameOf(id) : id \in Ids}
  PROVE  Agreement'
<1>1. /\ Types /\ CallsInv /\ ListInv /\ DraftInv /\ CountersInv /\ ReadingInv /\ NamingInv
      /\ FolderInv
      /\ UNCHANGED <<disk, overwritten, legacy, load, found, files, cur, tab, raw, dirty, due,
                     saveErr, busy, calls, edits, failures, doubtful, unsaved>>
  BY DEF Agreement, folder, reading, history
<1>2. \A id : (Listed(id)' <=> Listed(id)) /\ Named(id)' = Named(id) /\ Seen(id)' = Seen(id)
  BY <1>1, SameList DEF Seen, Content
<1>3. Types'
  BY <1>1 DEF Types, Drafts
<1>4. CallsInv' /\ DraftInv' /\ ReadingInv'
  BY <1>1, <1>2 DEF CallsInv, DraftInv, ReadingInv, FoundInv, LegacyInv, FolderTexts, FoundInFolder
<1>5. nameOps \in Nat /\ nameOps' \in Nat /\ NextId' >= NextId /\ NextId \in Nat /\ NextId' \in Nat
  BY <1>1, Numbers DEF CountersInv, NextId
<1>6. ListInv'
  <2>1. ASSUME NEW i \in DOMAIN files PROVE files[i].id <= NextId'
    <3>1. files[i] \in Files
      BY <1>1, LenProperties, ElementOfSeq DEF ListInv
    <3>2. files[i].id \in Nat
      BY <3>1, Numbers DEF Files
    <3>3. QED
      BY <1>1, <1>5, <3>2 DEF ListInv
  <2>2. QED
    BY <1>1, <2>1 DEF ListInv
<1>7. NamingInv'
  <2>1. ASSUME NEW c \in NameOps PROVE Relies(c)'
    <3>1. c.file \in Nat
      BY <1>1, Numbers DEF NameOps, CallsInv, CallType
    <3>2. c.file <= NextId => c.file <= NextId'
      BY <1>5, <3>1
    <3>3. QED
      BY <1>1, <1>2, <3>2 DEF NamingInv, Relies
  <2>2. NameOps' = NameOps
    BY <1>1 DEF NameOps
  <2>3. QED
    BY <1>1, <2>1, <2>2 DEF NamingInv
<1>8. FolderInv'
  <2>1. \A id : InFlight(id)' = InFlight(id) /\ Where(id)' = Where(id)
    BY <1>1 DEF InFlight, Where
  <2>2. QED
    BY <1>1, <1>2, <2>1 DEF FolderInv, Kept, AtRisk, Alone, Placed, Saved, Left
<1>9. QED
  BY <1>3, <1>4, <1>6, <1>7, <1>8 DEF Agreement

LEMMA FieldStep ==
  ASSUME Agreement, OpenNameField \/ CancelName
  PROVE  Agreement'
<1>1. Types /\ ListInv /\ CountersInv /\ Early
  BY DEF Agreement
<1>2. CASE OpenNameField
  <2>1. /\ UNCHANGED <<folder, reading, files, cur, tab, raw, dirty, due, saveErr, busy, calls, edits,
                       failures, history>>
        /\ nameOps' = nameOps + 1 /\ nameOps' \in 0..MaxNameOps
        /\ nameOps' >= nameOps
        /\ nameOps' >= 1
    BY <1>1, <1>2, Numbers DEF OpenNameField, CountNameOp, CountersInv
  <2>2. naming' \in {Closed, NewName} \cup {NameOf(id) : id \in Ids}
    <3>1. \A f \in Range(files) : f.id \in Ids
      BY <1>1 DEF Types, Files
    <3>2. QED
      BY <1>2, <3>1 DEF OpenNameField
  <2>3. ~Listed(NextId)'
    <3>1. NextId' = NextId + 1 /\ NextId \in Nat
      BY <1>1, <2>1, Numbers DEF NextId, CountersInv
    <3>2. \A i \in DOMAIN files : files[i].id # NextId'
      BY <1>1, <3>1 DEF ListInv
    <3>3. QED
      BY <2>1, <3>2 DEF Listed
  <2>4. CountersInv'
    BY <1>1, <2>1, <2>3 DEF CountersInv
  <2>5. Early'
    <3>1. files = <<>> => Range(files) = {}
      BY DEF Range
    <3>2. load # "done" => naming' \in {Closed, NewName}
      BY <1>1, <1>2, <3>1 DEF OpenNameField, Early
    <3>3. QED
      BY <1>1, <2>1, <3>2 DEF Early, reading, history
  <2>6. QED
    BY <2>1, <2>2, <2>4, <2>5, PaneKeeps
<1>3. CASE CancelName
  <2>1. /\ UNCHANGED <<folder, reading, files, cur, tab, raw, dirty, due, saveErr, busy, calls, edits,
                       nameOps, failures, history>>
        /\ naming' = Closed
    BY <1>3 DEF CancelName, BusyAfterCancel, counters
  <2>2. CountersInv' /\ Early'
    BY <1>1, <2>1 DEF CountersInv, Early, reading, history, Closed, NewName, NextId
  <2>3. nameOps' >= nameOps
    BY <1>1, <2>1, Numbers DEF CountersInv
  <2>4. QED
    BY <2>1, <2>2, <2>3, PaneKeeps
<1>4. QED
  BY <1>2, <1>3

(* A file is created, renamed or deleted: there is no other such call, and no     *)
(* other file has the name.                                                  *)
LEMMA NameOpMade ==
  ASSUME Agreement, load = "done", ~busy, busy' = TRUE,
         NEW c \in CallType, NEW id \in Ids, c.file = id, c.kind # "put", c.stage = "sent",
         c.kind = "create" => c.to = c.name /\ c.text.of = id,
         Call(c.kind, id, c.name, c.to, c.text),
         UNCHANGED <<folder, reading, files, cur, tab, raw, dirty, due, saveErr, failures, unsaved>>,
         naming' \in {Closed, NewName} \cup {NameOf(o) : o \in Ids},
         nameOps' >= nameOps, CountersInv', Relies(c)'
  PROVE  Agreement'
<1>1. /\ Types /\ CallsInv /\ NamingInv /\ FolderInv
      /\ UNCHANGED <<disk, overwritten, legacy, load, found, files, cur, tab, raw, dirty, due,
                     saveErr, failures, unsaved>>
      /\ \A o : (Listed(o)' <=> Listed(o)) /\ Named(o)' = Named(o) /\ Seen(o)' = Seen(o)
  BY SameList DEF Agreement, folder, reading, Seen, Content
<1>2. c = [kind |-> c.kind, file |-> id, name |-> c.name, to |-> c.to, text |-> c.text,
           stage |-> "sent"]
  BY DEF CallType
<1>3. /\ DOMAIN calls' = DOMAIN calls \cup {c}
      /\ c \notin DOMAIN calls => calls'[c] = 1
      /\ id \notin doubtful' =>
           InFlight(id) = {} /\ InFlight(id)' = {c} /\ c \notin DOMAIN calls
      /\ doubtful \subseteq doubtful'
  BY <1>1, <1>2, Made
<1>4. NameOps = {} /\ c \notin DOMAIN calls
  BY <1>1 DEF NamingInv, NameOps
<1>5. NameOps' = {c}
  BY <1>3, <1>4 DEF NameOps
<1>6. NamingInv'
  BY <1>3, <1>4, <1>5 DEF NamingInv
<1>7. Kept(id)'
  <2>1. ASSUME id \notin doubtful'
        PROVE  InFlight(id) = {} /\ InFlight(id)' = {c} /\ calls'[c] = 1
    BY <1>3, <2>1
  <2>2. ASSUME id \notin doubtful' PROVE Alone(id)'
    BY <2>1, <2>2 DEF Alone
  <2>3. ASSUME id \notin AtRisk' PROVE Placed(id)' /\ Saved(id)'
    <3>1. Placed(id) /\ Saved(id) /\ id \notin doubtful'
      BY <1>1, <1>3, <2>3 DEF FolderInv, Kept, AtRisk
    <3>2. Where(id)' = Where(id) /\ Where(id) = IF Listed(id) THEN {Named(id).name} ELSE {}
      BY <1>1, <2>1, <3>1 DEF Where, Placed
    <3>3. Where(id)' = Left(c)
      BY <1>1, <3>2 DEF Relies, Left
    <3>4. Placed(id)'
      BY <2>1, <3>1, <3>3 DEF Placed, Left
    <3>5. Saved(id)'
      BY <1>1, <2>1, <3>1, <3>2 DEF Saved
    <3>6. QED
      BY <3>4, <3>5
  <2>4. QED
    BY <2>2, <2>3 DEF Kept
<1>8. due \ {id} \subseteq due' /\ due' \subseteq due /\ busy' \in BOOLEAN
  BY <1>1
<1>9. QED
  BY <1>1, <1>2, <1>6, <1>7, <1>8, CallKeeps DEF folder, reading

LEMMA ConfirmStep ==
  ASSUME Agreement, ConfirmName, blind \in BOOLEAN, ~blind'
  PROVE  Agreement'
<1>1. PICK name \in Names :
        /\ ~NameTaken(name)
        /\ IF naming = NewName
           THEN /\ Call("create", NextId, name, name, Text(NextId, 0))
                /\ busy' = TRUE /\ UNCHANGED naming /\ blind' = (blind \/ load # "done")
           ELSE IF Listed(naming.id)
           THEN /\ Call("rename", naming.id, Named(naming.id).name, name, Absent)
                /\ busy' = TRUE /\ UNCHANGED <<naming, blind>>
           ELSE naming' = Closed /\ busy' = FALSE /\ UNCHANGED <<calls, doubtful, blind>>
  BY DEF ConfirmName
<1>2. /\ UNCHANGED <<folder, legacy, load, found, cut, files, cur, tab, raw, dirty, due, saveErr,
                     edits, nameOps, failures, unsaved>>
      /\ naming # Closed /\ ~busy /\ Types /\ CountersInv /\ Early
      /\ load = "done" \/ naming = NewName
      /\ nameOps' >= nameOps
  BY Numbers DEF ConfirmName, counters, Agreement, Early, CountersInv
<1>3. load = "done" /\ UNCHANGED <<folder, reading>>
  <2>1. load = "done" /\ UNCHANGED blind
    BY <1>1, <1>2
  <2>2. QED
    BY <1>2, <2>1 DEF reading
<1>4. \A o : (Listed(o)' <=> Listed(o)) /\ Named(o)' = Named(o)
  BY <1>2, SameList
<1>5. naming \in {Closed, NewName} \cup {NameOf(o) : o \in Ids}
  BY <1>2 DEF Types
<1>6. \A i \in DOMAIN files : files[i].name = name => NameOf(files[i].id) = naming
  BY <1>1 DEF NameTaken, Range
<1>7. CASE naming = NewName
  <2>0. PICK c : c = [kind |-> "create", file |-> NextId, name |-> name, to |-> name,
                      text |-> Text(NextId, 0), stage |-> "sent"]
    OBVIOUS
  <2>1. NextId \in Ids /\ NextId' = NextId /\ ~Listed(NextId)
    BY <1>2, <1>7, Numbers DEF NextId, Ids, CountersInv
  <2>2. 0 \in 0..MaxEdits
    BY Numbers
  <2>3. Text(NextId, 0) \in Texts /\ Text(NextId, 0).of = NextId
    BY <2>1, <2>2, TextTypes
  <2>4. /\ c \in CallType /\ c.file = NextId /\ c.kind = "create" /\ c.stage = "sent" /\ c.to = name
        /\ c.name = name /\ c.text = Text(NextId, 0)
    BY <2>0, <2>1, <2>3 DEF CallType
  <2>5. UNCHANGED naming /\ busy' = TRUE /\ Call(c.kind, NextId, c.name, c.to, c.text)
    BY <1>1, <1>7, <2>4
  <2>6. CountersInv'
    BY <1>2, <1>4, <2>1, <2>5 DEF CountersInv
  <2>7. \A i \in DOMAIN files : files[i].name # name
    BY <1>6, <1>7 DEF NewName, NameOf
  <2>8. Relies(c)'
    <3>1. NextId <= NextId
      BY <2>1, Numbers
    <3>2. QED
      BY <1>2, <1>4, <2>1, <2>4, <2>7, <3>1 DEF Relies
  <2>9. QED
    BY <1>2, <1>3, <1>5, <2>1, <2>3, <2>4, <2>5, <2>6, <2>8, NameOpMade
<1>8. CASE naming # NewName /\ Listed(naming.id)
  <2> PICK id : id = naming.id
    OBVIOUS
  <2>0. PICK c : c = [kind |-> "rename", file |-> id, name |-> Named(id).name, to |-> name,
                      text |-> Absent, stage |-> "sent"]
    OBVIOUS
  <2>1. files # <<>>
    BY <1>8, Numbers DEF Listed
  <2>2. id \in Ids /\ Named(id).name \in Names
    BY <1>8, <2>1, Editing DEF Files
  <2>3. /\ c \in CallType /\ c.file = id /\ c.kind = "rename" /\ c.stage = "sent" /\ c.to = name
        /\ c.name = Named(id).name /\ c.text = Absent
    BY <2>0, <2>2, TextTypes DEF CallType
  <2>4. UNCHANGED naming /\ busy' = TRUE /\ Call(c.kind, id, c.name, c.to, c.text)
    BY <1>1, <1>8, <2>3
  <2>5. CountersInv'
    BY <1>2, <1>4, <2>4 DEF CountersInv, NextId
  <2>6. \A i \in DOMAIN files : files[i].name = name => files[i].id = id
    BY <1>6 DEF NameOf
  <2>7. Relies(c)'
    BY <1>2, <1>4, <1>8, <2>3, <2>6 DEF Relies
  <2>8. QED
    BY <1>2, <1>3, <1>5, <2>2, <2>3, <2>4, <2>5, <2>7, NameOpMade
<1>9. CASE naming # NewName /\ ~Listed(naming.id)
  <2>1. naming' = Closed /\ busy' = busy /\ UNCHANGED <<calls, doubtful>>
    BY <1>1, <1>2, <1>9 DEF Types
  <2>2. CountersInv'
    BY <1>2, <2>1 DEF CountersInv, Closed, NewName
  <2>3. QED
    BY <1>2, <1>3, <2>1, <2>2, PaneKeeps DEF Early, reading, history
<1>10. QED
  BY <1>7, <1>8, <1>9

LEMMA DeleteStep ==
  ASSUME Agreement, DeleteFile
  PROVE  Agreement'
<1>0. PICK c : c = [kind |-> "delete", file |-> cur, name |-> Named(cur).name, to |-> Named(cur).name,
                    text |-> Absent, stage |-> "sent"]
  OBVIOUS
<1>1. /\ UNCHANGED <<folder, reading, files, cur, tab, raw, dirty, due, saveErr, naming, edits,
                     failures, unsaved>>
      /\ cur # 0 /\ ~busy /\ busy' = TRUE /\ nameOps < MaxNameOps /\ nameOps' = nameOps + 1
      /\ Call("delete", cur, Named(cur).name, Named(cur).name, Absent)
      /\ Types /\ CountersInv /\ ListInv
  BY DEF DeleteFile, CountNameOp, Agreement
<1>2. /\ load = "done" /\ Listed(cur) /\ cur \in Ids /\ Named(cur).name \in Names /\ OneEach(files)
  BY <1>1, Editing DEF Files
<1>3. \A o : (Listed(o)' <=> Listed(o)) /\ Named(o)' = Named(o)
  BY <1>1, SameList
<1>4. /\ c \in CallType /\ c.file = cur /\ c.kind = "delete" /\ c.stage = "sent"
      /\ c.name = Named(cur).name /\ c.to = Named(cur).name /\ c.text = Absent
  BY <1>0, <1>2, TextTypes DEF CallType
<1>5. ~Listed(NextId)'
  <2>1. NextId' = NextId + 1 /\ NextId \in Nat
    BY <1>1, Numbers DEF NextId, CountersInv
  <2>2. \A i \in DOMAIN files : files[i].id # NextId'
    BY <1>1, <2>1 DEF ListInv
  <2>3. QED
    BY <1>1, <2>2 DEF Listed
<1>6. nameOps' >= nameOps /\ nameOps' \in 0..MaxNameOps /\ nameOps' >= 1
  BY <1>1, Numbers DEF CountersInv
<1>7. CountersInv'
  BY <1>1, <1>5, <1>6 DEF CountersInv
<1>8. Relies(c)'
  BY <1>2, <1>3, <1>4 DEF Relies
<1>9. naming' \in {Closed, NewName} \cup {NameOf(o) : o \in Ids}
  BY <1>1 DEF Types
<1>10. QED
  BY <1>1, <1>2, <1>4, <1>6, <1>7, <1>8, <1>9, NameOpMade

-----------------------------------------------------------------------------
(* Calls that are served *)

(* A call that moves on: there is one of it less, and one more of what it becomes. *)
LEMMA MovesOn ==
  ASSUME CallsInv, NEW call \in DOMAIN calls, NEW stage \in {"checked", "ok", "failed"},
         stage # call.stage, stage = "checked" => call.kind = "rename", Becomes(call, stage),
         NEW d, d = [call EXCEPT !.stage = stage]
  PROVE  /\ d \in CallType /\ d.stage = stage
         /\ d.kind = call.kind /\ d.file = call.file /\ d.name = call.name /\ d.to = call.to
         /\ d.text = call.text
         /\ CallsInv'
         /\ \A c \in DOMAIN calls \ {call, d} : c \in DOMAIN calls' /\ calls'[c] = calls[c]
         /\ \A o : o # call.file => InFlight(o)' = InFlight(o)
         /\ d \in DOMAIN calls' /\ DOMAIN calls' \subseteq DOMAIN calls \cup {d}
         /\ calls[call] = 1 => call \notin DOMAIN calls'
         /\ d \notin DOMAIN calls => calls'[d] = 1
<1>1. IsBag(calls) /\ call \in CallType
  BY DEF CallsInv
<1>2. /\ d \in CallType /\ d.stage = stage
      /\ d.kind = call.kind /\ d.file = call.file /\ d.name = call.name /\ d.to = call.to
      /\ d.text = call.text
  BY <1>1 DEF CallType
<1> DEFINE B == BagRemove(calls, call)
<1>3. /\ IsBag(B) /\ DOMAIN B \subseteq DOMAIN calls /\ DOMAIN calls \ {call} \subseteq DOMAIN B
      /\ calls[call] = 1 => call \notin DOMAIN B
      /\ \A c \in DOMAIN B : c # call => B[c] = calls[c]
  BY <1>1, Removed
<1>4. calls' = BagAdd(B, d)
  BY DEF Becomes
<1> HIDE DEF B
<1>5. /\ IsBag(BagAdd(B, d)) /\ DOMAIN BagAdd(B, d) = DOMAIN B \cup {d}
      /\ BagAdd(B, d)[d] = IF d \in DOMAIN B THEN B[d] + 1 ELSE 1
      /\ \A c \in DOMAIN B \ {d} : BagAdd(B, d)[c] = B[c]
  BY ONLY <1>3, Added
<1>6. /\ IsBag(calls') /\ DOMAIN calls' = DOMAIN B \cup {d}
      /\ d \notin DOMAIN B => calls'[d] = 1
      /\ \A c \in DOMAIN B : c # d => calls'[c] = B[c]
  BY <1>4, <1>5
<1>7. call # d
  BY <1>2
<1>8. CallsInv'
  <2>1. ASSUME NEW c \in DOMAIN calls'
        PROVE  /\ c \in CallType
               /\ c.kind \in {"put", "create"} => c.to = c.name /\ c.text.of = c.file
               /\ c.stage = "checked" => c.kind = "rename"
    <3>1. c \in DOMAIN calls \/ c = d
      BY <1>3, <1>6, <2>1
    <3>2. call \in DOMAIN calls
      OBVIOUS
    <3>3. QED
      BY <1>2, <3>1, <3>2 DEF CallsInv
  <2>2. QED
    BY <1>6, <2>1 DEF CallsInv
<1>9. \A c \in DOMAIN calls \ {call, d} : c \in DOMAIN calls' /\ calls'[c] = calls[c]
  BY <1>3, <1>6
<1>10. ASSUME NEW o, o # call.file PROVE InFlight(o)' = InFlight(o)
  <2>1. \A c : c.file = o => (c \in DOMAIN calls' <=> c \in DOMAIN calls)
    BY <1>2, <1>3, <1>6, <1>10
  <2>2. QED
    BY <2>1 DEF InFlight, BagToSet
<1>11. QED
  BY <1>2, <1>3, <1>6, <1>7, <1>8, <1>9, <1>10

(* No text of another file lies under a name a call alone can have, unless that   *)
(* file is doubtful.                                                         *)
LEMMA NotInTheWay ==
  ASSUME Agreement, load = "done", NEW call \in NameOps, NEW n \in Names,
         \A i \in DOMAIN files : files[i].name = n => files[i].id = call.file,
         NEW o \in Ids \ AtRisk, o # call.file
  PROVE  disk[n].of # o
<1>1. Placed(o) /\ Alone(o) /\ OneEach(files) /\ \A c, d \in NameOps : c = d
  BY DEF Agreement, FolderInv, Kept, AtRisk, NamingInv, ListInv
<1>2. ASSUME disk[n].of = o PROVE FALSE
  <2>1. n \in Where(o)
    BY <1>2 DEF Where
  <2>2. Listed(o) => Named(o).name # n
    BY <1>1, Files1
  <2>3. InFlight(o) # {}
    BY <1>1, <2>1, <2>2 DEF Placed
  <2>4. PICK c \in InFlight(o) : TRUE
    BY <2>3
  <2>5. c.kind = "put"
    <3>1. c \in DOMAIN calls /\ c.file = o
      BY <2>4, FlightIn
    <3>2. QED
      BY <1>1, <3>1 DEF NameOps
  <2>6. QED
    BY <1>1, <2>1, <2>2, <2>4, <2>5 DEF Placed, Alone, Left
<1>3. QED
  BY <1>2

(* Nor does one lie under the name of a listed file. *)
LEMMA NotUnderItsName ==
  ASSUME Agreement, load = "done", NEW id, Listed(id), NEW n, n = Named(id).name,
         NEW o \in Ids \ AtRisk, o # id, n \in Names
  PROVE  disk[n].of # o
<1>1. Placed(o) /\ Alone(o) /\ OneEach(files) /\ NamingInv /\ CallsInv
  BY DEF Agreement, FolderInv, Kept, AtRisk, ListInv
<1>2. PICK k \in DOMAIN files : files[k].id = id /\ files[k].name = n
  BY <1>1, Files1
<1>3. Listed(o) => Named(o).name # n
  BY <1>1, <1>2, Files1 DEF OneEach
<1>4. ASSUME disk[n].of = o PROVE FALSE
  <2>1. n \in Where(o)
    BY <1>4 DEF Where
  <2>2. PICK c \in InFlight(o) : n \in Left(c)
    BY <1>1, <1>3, <2>1 DEF Placed
  <2>3. c \in DOMAIN calls /\ c.file = o /\ c \in CallType /\ (c.kind = "create" => c.to = c.name)
    BY <1>1, <2>2, FlightIn DEF CallsInv
  <2>4. CASE c.kind = "put"
    BY <1>1, <1>3, <2>2, <2>4 DEF Alone, Left
  <2>5. CASE c.kind # "put"
    <3>1. Relies(c)
      BY <1>1, <2>3, <2>5 DEF NamingInv, NameOps
    <3>2. n \in {c.name, c.to} /\ (c.stage = "ok" \/ c.kind = "create" => n = c.to /\ c.kind # "delete")
      BY <2>2, <2>3, <2>5 DEF Left, CallType
    <3>3. CASE n = c.to /\ c.kind \in {"create", "rename"}
      BY <1>2, <2>3, <3>1, <3>3 DEF Relies
    <3>4. CASE n = c.name /\ c.kind # "create"
      BY <1>3, <2>3, <3>1, <3>4 DEF Relies
    <3>5. QED
      BY <2>2, <2>3, <2>5, <3>3, <3>4 DEF Left, CallType
  <2>6. QED
    BY <2>4, <2>5
<1>5. QED
  BY <1>4

(* A call is served or fails: the texts of all but its own file stay, and those    *)
(* that may not become doubtful.                                             *)
LEMMA ServeKeeps ==
  ASSUME Agreement, NEW call \in DOMAIN calls, NEW stage \in {"checked", "ok", "failed"},
         stage # call.stage, stage = "checked" => call.kind = "rename", Becomes(call, stage),
         NEW d, d = [call EXCEPT !.stage = stage],
         UNCHANGED <<reading, files, cur, tab, raw, dirty, due, saveErr, pane, edits, nameOps,
                     unsaved>>,
         failures' \in 0..MaxFailures, disk' \in [Names -> Texts], FolderTexts',
         doubtful \subseteq doubtful', doubtful' \subseteq Ids,
         overwritten \subseteq overwritten', overwritten' \subseteq Ids,
         \A o \in Ids \ AtRisk' : o # call.file =>
           \A n \in Names : disk[n].of = o \/ disk'[n].of = o => disk'[n] = disk[n],
         call.file \notin AtRisk' =>
           /\ Where(call.file)' = Left(d)
           /\ d.kind \in {"put", "create"} /\ stage = "ok" => disk'[d.name] = d.text
           /\ Listed(call.file) /\ call.file \notin due \cup unsaved /\ call.kind # "put" =>
                \A n \in Where(call.file)' : disk'[n] = Seen(call.file)
  PROVE  Agreement'
<1>1. /\ Types /\ CallsInv /\ ListInv /\ DraftInv /\ CountersInv /\ ReadingInv /\ NamingInv
      /\ FolderInv /\ Early
      /\ UNCHANGED <<legacy, load, found, files, cur, tab, raw, dirty, due, saveErr, naming, busy,
                     edits, nameOps, unsaved>>
      /\ \A o : (Listed(o)' <=> Listed(o)) /\ Named(o)' = Named(o) /\ Seen(o)' = Seen(o)
  BY SameList DEF Agreement, reading, pane, Seen, Content
<1>2. load = "done"
  BY <1>1 DEF Early, EmptyBag, SetToBag
<1>3. /\ d \in CallType /\ d.stage = stage
      /\ d.kind = call.kind /\ d.file = call.file /\ d.name = call.name /\ d.to = call.to
      /\ d.text = call.text
      /\ CallsInv'
      /\ \A c \in DOMAIN calls \ {call, d} : c \in DOMAIN calls' /\ calls'[c] = calls[c]
      /\ \A o : o # call.file => InFlight(o)' = InFlight(o)
      /\ d \in DOMAIN calls' /\ DOMAIN calls' \subseteq DOMAIN calls \cup {d}
      /\ calls[call] = 1 => call \notin DOMAIN calls'
      /\ d \notin DOMAIN calls => calls'[d] = 1
  BY <1>1, MovesOn
<1>4. Types'
  BY <1>1 DEF Types, Drafts
<1>5. ListInv' /\ DraftInv' /\ CountersInv' /\ Early'
  BY <1>1, <1>2 DEF ListInv, DraftInv, CountersInv, Early, NextId
<1>6. ReadingInv'
  BY <1>1, <1>2 DEF ReadingInv, FoundInv, LegacyInv, FolderTexts
<1>7. NamingInv'
  <2>1. ASSUME NEW c PROVE Relies(c)' <=> Relies(c)
    BY <1>1 DEF Relies, NextId
  <2>2. CASE call.kind = "put"
    <3>1. NameOps' = NameOps /\ \A c \in NameOps : calls'[c] = calls[c]
      BY <1>3, <2>2 DEF NameOps
    <3>2. QED
      BY <1>1, <2>1, <3>1 DEF NamingInv
  <2>3. CASE call.kind # "put"
    <3>1. call \in NameOps /\ NameOps = {call} /\ calls[call] = 1 /\ Relies(call)
      BY <1>1, <2>3 DEF NameOps, NamingInv
    <3>2. d \notin DOMAIN calls
      BY <1>3, <2>3, <3>1 DEF NameOps
    <3>3. NameOps' = {d} /\ calls'[d] = 1
      <4>1. ASSUME NEW c \in NameOps' PROVE c = d
        <5>1. c = d \/ c \in NameOps
          BY <1>3, <4>1 DEF NameOps
        <5>2. c # call
          BY <1>3, <3>1, <4>1 DEF NameOps
        <5>3. QED
          BY <3>1, <5>1, <5>2
      <4>2. d \in NameOps'
        BY <1>3, <2>3 DEF NameOps
      <4>3. QED
        BY <1>3, <3>2, <4>1, <4>2
    <3>4. Relies(d)
      BY <1>3, <3>1 DEF Relies
    <3>5. QED
      BY <1>1, <2>1, <3>1, <3>3, <3>4 DEF NamingInv
  <2>4. QED
    BY <2>2, <2>3
<1>8. AtRisk \subseteq AtRisk'
  BY DEF AtRisk
<1>9. ASSUME NEW o \in Ids, o # call.file
      PROVE  Kept(o)'
  <2>1. Kept(o) /\ InFlight(o)' = InFlight(o)
    BY <1>1, <1>2, <1>3, <1>9 DEF FolderInv
  <2>2. ASSUME NEW c \in InFlight(o) PROVE calls'[c] = calls[c]
    <3>1. c \in DOMAIN calls /\ c.file = o
      BY <2>2, FlightIn
    <3>2. QED
      BY <1>3, <1>9, <3>1
  <2>3. QED
    BY <1>1, <1>8, <1>9, <2>1, <2>2, Undisturbed
<1>10. Kept(call.file)'
  <2> PICK id : id = call.file
    OBVIOUS
  <2>1. ASSUME id \notin doubtful'
        PROVE  /\ Alone(id) /\ InFlight(id) = {call} /\ calls[call] = 1
               /\ InFlight(id)' = {d} /\ calls'[d] = 1
    <3>1. id \in Ids /\ call \in InFlight(id)
      BY <1>1, FlightIn DEF CallsInv, CallType
    <3>2. Alone(id) /\ InFlight(id) = {call} /\ calls[call] = 1
      BY <1>1, <1>2, <2>1, <3>1 DEF FolderInv, Kept, Alone
    <3>3. d \notin DOMAIN calls
      BY <1>3, <3>2, FlightIn
    <3>4. InFlight(id)' = {d} /\ calls'[d] = 1
      BY <1>3, <3>2, <3>3 DEF InFlight, BagToSet
    <3>5. QED
      BY <3>2, <3>4
  <2>2. ASSUME id \notin doubtful' PROVE Alone(id)'
    <3>1. call.kind = "put" => Listed(id) /\ call.name = Named(id).name
      BY <2>1, <2>2 DEF Alone
    <3>2. d.kind = "put" => Listed(id)' /\ d.name = Named(id)'.name
      BY <1>1, <1>3, <3>1
    <3>3. QED
      BY <2>1, <2>2, <3>2 DEF Alone
  <2>3. ASSUME id \notin AtRisk' PROVE Placed(id)' /\ Saved(id)'
    <3>1. id \notin doubtful' /\ id \in Ids
      BY <1>1, <2>3 DEF AtRisk, CallsInv, CallType
    <3>2. Placed(id) /\ Saved(id)
      BY <1>1, <1>2, <1>8, <2>3, <3>1 DEF FolderInv, Kept
    <3>3. Placed(id)'
      BY <1>1, <1>3, <2>1, <2>3, <3>1, <3>2 DEF Placed, Left
    <3>4. ASSUME Listed(id)', id \notin due' \cup unsaved'
          PROVE  /\ d.kind = "put" => d.text = Seen(id)'
                 /\ d.kind # "put" => \A n \in Where(id)' : disk'[n] = Seen(id)'
      <4>1. Listed(id) /\ id \notin due \cup unsaved /\ Seen(id)' = Seen(id)
        BY <1>1, <3>4
      <4>2. call.kind = "put" => call.text = Seen(id)
        BY <2>1, <3>1, <3>2, <4>1 DEF Saved
      <4>3. call.kind # "put" => \A n \in Where(id)' : disk'[n] = Seen(id)
        BY <2>3, <4>1
      <4>4. QED
        BY <1>3, <4>1, <4>2, <4>3
    <3>5. InFlight(id)' = {d}
      BY <2>1, <3>1
    <3>6. Saved(id)'
      BY <3>4, <3>5 DEF Saved
    <3>7. QED
      BY <3>3, <3>6
  <2>4. QED
    BY <2>2, <2>3 DEF Kept
<1>11. FolderInv'
  BY <1>9, <1>10 DEF FolderInv
<1>12. QED
  BY <1>3, <1>4, <1>5, <1>6, <1>7, <1>11 DEF Agreement

ServeFrame ==
  UNCHANGED <<reading, files, cur, tab, raw, dirty, due, saveErr, pane, edits, nameOps, unsaved>>

(* A call that changes the folder, and is answered or not. *)
LEMMA Served ==
  ASSUME Agreement, ServeFrame, NEW call \in DOMAIN calls, call.stage \in {"sent", "checked"},
         NEW newDisk \in [Names -> Texts], Serve(call, newDisk),
         overwritten \subseteq overwritten', overwritten' \subseteq Ids,
         \A n \in Names : newDisk[n] = Absent \/ newDisk[n].of \in Ids,
         \A o \in Ids \ (AtRisk \cup overwritten') : o # call.file =>
           \A n \in Names : disk[n].of = o \/ newDisk[n].of = o => newDisk[n] = disk[n],
         call.file \notin AtRisk =>
           /\ {n \in Names : newDisk[n].of = call.file} = Left([call EXCEPT !.stage = "ok"])
           /\ call.kind \in {"put", "create"} => newDisk[call.name] = call.text
           /\ Listed(call.file) /\ call.file \notin due \cup unsaved /\ call.kind # "put" =>
                \A n \in Names : newDisk[n].of = call.file => newDisk[n] = Seen(call.file)
  PROVE  Agreement'
<1>1. PICK stage \in {"ok", "failed"} :
        /\ Becomes(call, stage) /\ doubtful \subseteq doubtful'
        /\ doubtful' \subseteq doubtful \cup {call.file}
        /\ stage = "failed" /\ call.kind # "put" => call.file \in doubtful'
        /\ failures' = failures \/ (failures < MaxFailures /\ failures' = failures + 1)
  <2>1. CASE Becomes(call, "ok") /\ doubtful' = doubtful /\ UNCHANGED failures
    <3> WITNESS "ok" \in {"ok", "failed"}
    <3>1. QED
      BY <2>1
  <2>2. CASE /\ failures < MaxFailures /\ failures' = failures + 1 /\ Becomes(call, "failed")
             /\ doubtful' = doubtful \cup (IF call.kind = "put" THEN {} ELSE {call.file})
    BY <2>2
  <2>3. QED
    BY <2>1, <2>2 DEF Serve
<1>2. PICK d : d = [call EXCEPT !.stage = stage]
  OBVIOUS
<1>3. Types /\ CallsInv /\ CountersInv /\ call \in CallType /\ disk' = newDisk
  BY DEF Agreement, CallsInv, Serve
<1>4. failures' \in 0..MaxFailures /\ FolderTexts'
  BY <1>1, <1>3, Numbers DEF CountersInv, FolderTexts
<1>5. doubtful' \subseteq Ids
  BY <1>1, <1>3 DEF Types, CallType
<1>6. /\ d.stage = stage /\ d.kind = call.kind /\ d.name = call.name /\ d.text = call.text
      /\ d.to = call.to
      /\ \A e : e = [call EXCEPT !.stage = "ok"] =>
           e.stage = "ok" /\ e.kind = call.kind /\ e.name = call.name /\ e.to = call.to
  BY <1>2, <1>3 DEF CallType
<1>7. ASSUME call.file \notin AtRisk'
      PROVE  /\ Where(call.file)' = Left(d)
             /\ d.kind \in {"put", "create"} /\ stage = "ok" => disk'[d.name] = d.text
             /\ Listed(call.file) /\ call.file \notin due \cup unsaved /\ call.kind # "put" =>
                  \A n \in Where(call.file)' : disk'[n] = Seen(call.file)
  <2>1. call.file \notin AtRisk /\ call.file \notin doubtful' /\ (stage = "ok" \/ call.kind = "put")
    BY <1>1, <1>7 DEF AtRisk
  <2>2. PICK id : id = call.file
    OBVIOUS
  <2>3. Where(id)' = {n \in Names : newDisk[n].of = id}
    BY <1>3 DEF Where
  <2>4. PICK e : e = [call EXCEPT !.stage = "ok"]
    OBVIOUS
  <2>5. Left(d) = Left(e)
    BY <1>6, <2>1, <2>4 DEF Left
  <2>6. QED
    BY <1>3, <1>6, <2>1, <2>2, <2>3, <2>4, <2>5
<1>8. \A o \in Ids \ AtRisk' : o \in Ids \ (AtRisk \cup overwritten')
  BY <1>1 DEF AtRisk
<1>9. \A o \in Ids \ AtRisk' : o # call.file =>
        \A n \in Names : disk[n].of = o \/ disk'[n].of = o => disk'[n] = disk[n]
  BY <1>3, <1>8
<1>10. stage \in {"checked", "ok", "failed"} /\ stage # call.stage /\ stage # "checked"
  BY <1>1
<1>11. QED
  BY <1>1, <1>2, <1>3, <1>4, <1>5, <1>7, <1>9, <1>10, ServeKeeps DEF ServeFrame

(* A call that leaves the folder as it is. *)
LEMMA NotServed ==
  ASSUME Agreement, ServeFrame, NEW call \in DOMAIN calls, UNCHANGED <<folder, doubtful>>,
         failures' \in 0..MaxFailures, NEW stage \in {"checked", "failed"}, stage # call.stage,
         stage = "checked" => call.kind = "rename", Becomes(call, stage),
         call.stage = "sent" \/ (call.kind = "rename" /\ call.stage = "checked")
  PROVE  Agreement'
<1>1. PICK d : d = [call EXCEPT !.stage = stage]
  OBVIOUS
<1>2. Types /\ CallsInv /\ FolderInv /\ Early /\ call \in CallType
  BY DEF Agreement, CallsInv
<1>3. load = "done"
  BY <1>2 DEF Early, EmptyBag, SetToBag
<1>4. /\ d.stage = stage /\ d.kind = call.kind /\ d.name = call.name /\ d.text = call.text
      /\ d.to = call.to
  BY <1>1, <1>2 DEF CallType
<1>5. ASSUME call.file \notin AtRisk'
      PROVE  /\ Where(call.file)' = Left(d)
             /\ Listed(call.file) /\ call.file \notin due \cup unsaved /\ call.kind # "put" =>
                  \A n \in Where(call.file)' : disk'[n] = Seen(call.file)
  <2>1. PICK id : id = call.file
    OBVIOUS
  <2>2. Placed(id) /\ Saved(id) /\ Alone(id) /\ call \in InFlight(id)
    BY <1>2, <1>3, <1>5, <2>1, FlightIn DEF FolderInv, Kept, AtRisk, CallType, folder
  <2>3. InFlight(id) = {call} /\ Where(id) = Left(call)
    BY <2>2 DEF Placed, Alone
  <2>4. Left(d) = Left(call)
    BY <1>4 DEF Left
  <2>5. Where(id)' = Where(id) /\ disk' = disk
    BY DEF Where, folder
  <2>6. Listed(id) /\ id \notin due \cup unsaved /\ call.kind # "put" =>
          \A n \in Where(id) : disk[n] = Seen(id)
    BY <2>2, <2>3 DEF Saved
  <2>7. QED
    BY <2>1, <2>3, <2>4, <2>5, <2>6
<1>6. /\ disk' \in [Names -> Texts] /\ doubtful' \subseteq Ids /\ FolderTexts'
      /\ disk' = disk /\ doubtful' = doubtful /\ overwritten' = overwritten
      /\ overwritten' \subseteq Ids
  BY <1>2 DEF Types, Agreement, ReadingInv, FolderTexts, folder
<1>7. stage \in {"checked", "ok", "failed"} /\ stage # "ok"
  OBVIOUS
<1>8. QED
  BY <1>1, <1>5, <1>6, <1>7, ServeKeeps DEF ServeFrame

LEMMA SaveServed ==
  ASSUME Agreement, ServeFrame, NEW call \in DOMAIN calls, ServeSave(call)
  PROVE  Agreement'
<1> DEFINE Over(text) == [disk EXCEPT ![call.name] = text]
<1>1. /\ call.kind \in {"put", "create"} /\ call.stage = "sent"
      /\ overwritten' = IF call.file \in doubtful /\ disk[call.name].of \notin {0, call.file}
                        THEN overwritten \cup {disk[call.name].of} ELSE overwritten
  BY DEF ServeSave
<1>2. /\ Types /\ CallsInv /\ FolderInv /\ Early /\ NamingInv /\ CountersInv /\ FolderTexts
      /\ call \in CallType /\ call.text.of = call.file /\ call.to = call.name
  BY <1>1 DEF Agreement, CallsInv, ReadingInv
<1>3. load = "done" /\ call.name \in Names /\ call.file \in Ids /\ call.text \in Texts
  BY <1>2 DEF Early, EmptyBag, SetToBag, CallType
<1>4. ASSUME NEW text \in Texts, text.of = call.file
      PROVE  /\ Over(text) \in [Names -> Texts] /\ Over(text)[call.name] = text
             /\ \A n \in Names : n # call.name => Over(text)[n] = disk[n]
             /\ \A n \in Names : Over(text)[n] = Absent \/ Over(text)[n].of \in Ids
  BY <1>2, <1>3, <1>4 DEF Types, FolderTexts
<1>5. overwritten \subseteq overwritten' /\ overwritten' \subseteq Ids
  BY <1>1, <1>2, <1>3, TextTypes DEF FolderTexts, Types
<1>6. ASSUME NEW o \in Ids \ (AtRisk \cup overwritten'), o # call.file
      PROVE  disk[call.name].of # o
  <2>1. CASE call.file \in doubtful
    BY <1>1, <1>6, <2>1, Numbers
  <2>2. CASE call.file \notin doubtful /\ call.kind = "put"
    <3>1. Listed(call.file) /\ call.name = Named(call.file).name
      BY <1>2, <1>3, <2>2, FlightIn DEF FolderInv, Kept, Alone
    <3>2. QED
      BY <1>3, <1>6, <3>1, NotUnderItsName
  <2>3. CASE call.kind = "create"
    <3>1. call \in NameOps /\ Relies(call)
      BY <1>2, <2>3 DEF NameOps, NamingInv
    <3>2. \A i \in DOMAIN files : files[i].name = call.name => files[i].id = call.file
      BY <1>2, <2>3, <3>1 DEF Relies
    <3>3. QED
      BY <1>3, <1>6, <3>1, <3>2, NotInTheWay
  <2>4. QED
    BY <1>1, <2>1, <2>2, <2>3
<1>7. ASSUME NEW text \in Texts, text.of = call.file, NEW o \in Ids \ (AtRisk \cup overwritten'),
             o # call.file
      PROVE  \A n \in Names : disk[n].of = o \/ Over(text)[n].of = o => Over(text)[n] = disk[n]
  BY <1>4, <1>6, <1>7
<1>8. ASSUME call.file \notin AtRisk
      PROVE  /\ \A text \in Texts : text.of = call.file =>
                  {n \in Names : Over(text)[n].of = call.file} = {call.name}
             /\ Listed(call.file) => call.kind = "put"
  <2>1. Placed(call.file) /\ call \in InFlight(call.file)
    BY <1>2, <1>3, <1>8, FlightIn DEF FolderInv, Kept
  <2>2. \A n \in Names : disk[n].of = call.file => n = call.name
    BY <1>1, <2>1 DEF Placed, Left, Where
  <2>3. ASSUME NEW text \in Texts, text.of = call.file
        PROVE  {n \in Names : Over(text)[n].of = call.file} = {call.name}
    BY <1>3, <1>4, <2>2, <2>3
  <2>4. Listed(call.file) => call.kind = "put"
    BY <1>1, <1>2 DEF NameOps, NamingInv, Relies
  <2>5. QED
    BY <2>3, <2>4
<1> HIDE DEF Over
<1>9. CASE Serve(call, Over(call.text))
  <2>1. Left([call EXCEPT !.stage = "ok"]) = {call.name}
    BY <1>1, <1>2 DEF Left, CallType
  <2>2. PICK newDisk : newDisk = Over(call.text)
    OBVIOUS
  <2>3. /\ newDisk \in [Names -> Texts] /\ newDisk[call.name] = call.text
        /\ \A n \in Names : newDisk[n] = Absent \/ newDisk[n].of \in Ids
        /\ \A o \in Ids \ (AtRisk \cup overwritten') : o # call.file =>
             \A n \in Names : disk[n].of = o \/ newDisk[n].of = o => newDisk[n] = disk[n]
        /\ call.file \notin AtRisk =>
             /\ {n \in Names : newDisk[n].of = call.file} = {call.name}
             /\ Listed(call.file) => call.kind = "put"
    BY <1>2, <1>3, <1>4, <1>7, <1>8, <2>2
  <2>4. QED
    BY <1>1, <1>5, <1>9, <2>1, <2>2, <2>3, Served
<1>10. CASE /\ failures < MaxFailures /\ failures' = failures + 1 /\ Becomes(call, "failed")
            /\ disk' = Over(Torn(call.text))
            /\ doubtful' = doubtful \cup (IF call.kind = "put" THEN {} ELSE {call.file})
  <2>1. Torn(call.text) \in Texts /\ Torn(call.text).of = call.file
    BY <1>2, <1>3, TextTypes
  <2>2. PICK d : d = [call EXCEPT !.stage = "failed"]
    OBVIOUS
  <2>3. d.stage = "failed" /\ d.kind = call.kind /\ d.name = call.name
    BY <1>2, <2>2 DEF CallType
  <2>4. /\ failures' \in 0..MaxFailures /\ disk' \in [Names -> Texts] /\ FolderTexts'
        /\ doubtful \subseteq doubtful' /\ doubtful' \subseteq Ids
    BY <1>2, <1>3, <1>4, <1>10, <2>1, Numbers DEF CountersInv, Types, FolderTexts
  <2>5. \A o \in Ids \ AtRisk' : o # call.file =>
          \A n \in Names : disk[n].of = o \/ disk'[n].of = o => disk'[n] = disk[n]
    <3>1. \A o \in Ids \ AtRisk' : o \in Ids \ (AtRisk \cup overwritten')
      BY <1>5, <2>4 DEF AtRisk
    <3>2. QED
      BY <1>7, <1>10, <2>1, <3>1
  <2>6. ASSUME call.file \notin AtRisk'
        PROVE  Where(call.file)' = Left(d) /\ call.kind = "put"
    <3>1. call.file \notin AtRisk /\ call.kind = "put"
      BY <1>5, <1>10, <2>4, <2>6 DEF AtRisk
    <3>2. QED
      BY <1>8, <1>10, <2>1, <2>3, <3>1 DEF Where, Left
  <2>7. QED
    BY <1>1, <1>5, <1>10, <2>2, <2>3, <2>4, <2>5, <2>6, ServeKeeps DEF ServeFrame
<1>11. QED
  BY <1>9, <1>10 DEF ServeSave, Over

LEMMA DeleteServed ==
  ASSUME Agreement, ServeFrame, NEW call \in DOMAIN calls, ServeDelete(call)
  PROVE  Agreement'
<1> DEFINE newDisk == [disk EXCEPT ![call.name] = Absent]
<1>1. call.kind = "delete" /\ call.stage = "sent" /\ Serve(call, newDisk)
  BY DEF ServeDelete
<1>2. /\ Types /\ ListInv /\ FolderInv /\ Early /\ ReadingInv /\ call \in CallType
      /\ call \in NameOps /\ Relies(call)
  BY <1>1 DEF Agreement, CallsInv, NameOps, NamingInv
<1>3. /\ load = "done" /\ call.name \in Names /\ call.file \in Ids
      /\ overwritten' = overwritten /\ overwritten \subseteq Ids
  BY <1>2 DEF Early, EmptyBag, SetToBag, CallType, Types, ServeDelete
<1>4. /\ newDisk \in [Names -> Texts] /\ newDisk[call.name] = Absent
      /\ \A n \in Names : n # call.name => newDisk[n] = disk[n]
  BY <1>2, <1>3, TextTypes DEF Types
<1>5. \A n \in Names : newDisk[n] = Absent \/ newDisk[n].of \in Ids
  BY <1>2, <1>4 DEF ReadingInv, FolderTexts
<1>6. \A i \in DOMAIN files : files[i].name = call.name => files[i].id = call.file
  BY <1>1, <1>2, Files1 DEF ListInv, OneEach, Relies
<1>7. \A o \in Ids \ AtRisk : o # call.file => disk[call.name].of # o
  BY <1>2, <1>3, <1>6, NotInTheWay
<1>8. \A o \in Ids \ (AtRisk \cup overwritten') : o # call.file =>
        \A n \in Names : disk[n].of = o \/ newDisk[n].of = o => newDisk[n] = disk[n]
  BY <1>4, <1>7, TextTypes, Numbers
<1>9. ASSUME call.file \notin AtRisk
      PROVE  /\ {n \in Names : newDisk[n].of = call.file} = {}
             /\ Left([call EXCEPT !.stage = "ok"]) = {}
  <2>1. Where(call.file) = {call.name}
    BY <1>1, <1>2, <1>3, <1>9, FlightIn DEF FolderInv, Kept, Placed, Left
  <2>2. {n \in Names : newDisk[n].of = call.file} = {}
    BY <1>3, <1>4, <2>1, TextTypes, Numbers DEF Where
  <2>3. Left([call EXCEPT !.stage = "ok"]) = {}
    BY <1>1, <1>2 DEF Left, CallType
  <2>4. QED
    BY <2>2, <2>3
<1> HIDE DEF newDisk
<1>10. QED
  BY <1>1, <1>3, <1>4, <1>5, <1>8, <1>9, Served

LEMMA RenameServed ==
  ASSUME Agreement, ServeFrame, NEW call \in DOMAIN calls, ServeRename(call)
  PROVE  Agreement'
<1>1. call.kind = "rename" /\ call.stage = "checked"
  BY DEF ServeRename
<1>2. /\ Types /\ ListInv /\ FolderInv /\ Early /\ ReadingInv /\ CountersInv /\ call \in CallType
      /\ call \in NameOps /\ Relies(call)
  BY <1>1 DEF Agreement, CallsInv, NameOps, NamingInv
<1>3. load = "done" /\ call.name \in Names /\ call.to \in Names /\ call.file \in Ids
  BY <1>2 DEF Early, EmptyBag, SetToBag, CallType
<1>4. ASSUME call.file \notin AtRisk
      PROVE  /\ Where(call.file) = {call.name} /\ Left([call EXCEPT !.stage = "ok"]) = {call.to}
             /\ Listed(call.file) /\ call.file \notin due \cup unsaved =>
                  disk[call.name] = Seen(call.file)
  <2>1. Placed(call.file) /\ Saved(call.file) /\ Alone(call.file) /\ call \in InFlight(call.file)
    BY <1>2, <1>3, <1>4, FlightIn DEF FolderInv, Kept, AtRisk
  <2>2. Where(call.file) = {call.name} /\ InFlight(call.file) = {call}
    BY <1>1, <2>1 DEF Placed, Alone, Left
  <2>3. Left([call EXCEPT !.stage = "ok"]) = {call.to}
    BY <1>1, <1>2 DEF Left, CallType
  <2>4. QED
    BY <1>1, <2>1, <2>2, <2>3 DEF Saved
<1>5. CASE disk[call.name] = Absent
  <2>1. Refuse(call) /\ UNCHANGED failures
    BY <1>5 DEF ServeRename
  <2>2. failures' \in 0..MaxFailures
    BY <1>2, <2>1 DEF CountersInv
  <2>3. QED
    BY <1>1, <2>1, <2>2, NotServed DEF Refuse
<1>6. CASE disk[call.name] # Absent /\ call.name = call.to
  <2>1. Serve(call, disk) /\ overwritten' = overwritten /\ overwritten \subseteq Ids
    BY <1>2, <1>6 DEF ServeRename, Types
  <2>2. disk \in [Names -> Texts] /\ \A n \in Names : disk[n] = Absent \/ disk[n].of \in Ids
    BY <1>2 DEF Types, ReadingInv, FolderTexts
  <2>3. QED
    BY <1>1, <1>4, <1>6, <2>1, <2>2, Served DEF Where
<1>7. CASE disk[call.name] # Absent /\ call.name # call.to
  <2> DEFINE newDisk == [disk EXCEPT ![call.to] = disk[call.name], ![call.name] = Absent]
  <2>1. Serve(call, newDisk) /\ overwritten' = overwritten /\ overwritten \subseteq Ids
    BY <1>2, <1>7 DEF ServeRename, Types
  <2>2. /\ newDisk \in [Names -> Texts] /\ newDisk[call.name] = Absent
        /\ newDisk[call.to] = disk[call.name]
        /\ \A n \in Names : n \notin {call.name, call.to} => newDisk[n] = disk[n]
    BY <1>2, <1>3, <1>7, TextTypes DEF Types
  <2> HIDE DEF newDisk
  <2>3. \A n \in Names : newDisk[n] = Absent \/ newDisk[n].of \in Ids
    BY <1>2, <1>3, <2>2 DEF ReadingInv, FolderTexts
  <2>4. \A i \in DOMAIN files : files[i].name \in {call.name, call.to} => files[i].id = call.file
    BY <1>1, <1>2, Files1 DEF ListInv, OneEach, Relies
  <2>5. \A o \in Ids \ AtRisk : o # call.file => disk[call.name].of # o /\ disk[call.to].of # o
    BY <1>2, <1>3, <2>4, NotInTheWay
  <2>6. \A o \in Ids \ (AtRisk \cup overwritten') : o # call.file =>
          \A n \in Names : disk[n].of = o \/ newDisk[n].of = o => newDisk[n] = disk[n]
    BY <1>3, <2>2, <2>5, TextTypes, Numbers
  <2>7. ASSUME call.file \notin AtRisk
        PROVE  {n \in Names : newDisk[n].of = call.file} = {call.to}
    <3>1. disk[call.name].of = call.file /\ \A n \in Names : disk[n].of = call.file => n = call.name
      BY <1>4, <2>7 DEF Where
    <3>2. \A n \in Names : newDisk[n].of = call.file <=> n = call.to
      BY <1>3, <1>7, <2>2, <3>1, TextTypes, Numbers
    <3>3. QED
      BY <1>3, <3>2
  <2>8. ASSUME call.file \notin AtRisk, Listed(call.file), call.file \notin due \cup unsaved
        PROVE  \A n \in Names : newDisk[n].of = call.file => newDisk[n] = Seen(call.file)
    BY <1>4, <2>2, <2>7, <2>8
  <2>9. QED
    BY <1>1, <1>4, <2>1, <2>2, <2>3, <2>6, <2>7, <2>8, Served
<1>8. QED
  BY <1>5, <1>6, <1>7

LEMMA ServeStep ==
  ASSUME Agreement, ServeCall
  PROVE  Agreement'
<1>1. PICK call \in DOMAIN calls :
        \/ ServeSave(call) \/ ServeDelete(call) \/ CheckRename(call) \/ ServeRename(call)
        \/ FailCall(call)
  BY DEF ServeCall, BagToSet
<1>2. ServeFrame /\ CountersInv
  BY DEF ServeCall, ServeFrame, Agreement
<1>3. CASE CheckRename(call)
  <2>1. failures' \in 0..MaxFailures /\ call.kind = "rename" /\ call.stage = "sent"
    BY <1>2, <1>3 DEF CheckRename, CountersInv
  <2>2. PICK stage \in {"checked", "failed"} : Becomes(call, stage) /\ UNCHANGED <<folder, doubtful>>
    BY <1>3 DEF CheckRename, Refuse
  <2>3. QED
    BY <1>2, <2>1, <2>2, NotServed
<1>4. CASE FailCall(call)
  <2>1. failures' \in 0..MaxFailures /\ call.stage = "sent"
    BY <1>2, <1>4, Numbers DEF FailCall, CountersInv
  <2>2. Becomes(call, "failed") /\ UNCHANGED <<folder, doubtful>>
    BY <1>4 DEF FailCall, Refuse
  <2>3. QED
    BY <1>2, <2>1, <2>2, NotServed
<1>5. QED
  BY <1>1, <1>2, <1>3, <1>4, SaveServed, DeleteServed, RenameServed

-----------------------------------------------------------------------------
(* Answers *)

LEMMA Gone ==
  ASSUME CallsInv, NEW call \in DOMAIN calls, calls' = BagRemove(calls, call)
  PROVE  /\ CallsInv' /\ DOMAIN calls' \subseteq DOMAIN calls
         /\ \A c \in DOMAIN calls \ {call} : c \in DOMAIN calls' /\ calls'[c] = calls[c]
         /\ calls[call] = 1 => call \notin DOMAIN calls'
         /\ \A o : o # call.file => InFlight(o)' = InFlight(o)
<1>1. IsBag(calls)
  BY DEF CallsInv
<1>2. /\ IsBag(BagRemove(calls, call))
      /\ DOMAIN BagRemove(calls, call) =
           IF calls[call] = 1 THEN DOMAIN calls \ {call} ELSE DOMAIN calls
      /\ \A c \in DOMAIN BagRemove(calls, call) \ {call} : BagRemove(calls, call)[c] = calls[c]
  BY ONLY <1>1, Removed
<1>3. /\ IsBag(calls') /\ DOMAIN calls' \subseteq DOMAIN calls
      /\ \A c \in DOMAIN calls \ {call} : c \in DOMAIN calls' /\ calls'[c] = calls[c]
      /\ calls[call] = 1 => call \notin DOMAIN calls'
  BY <1>2
<1>4. CallsInv'
  BY <1>3 DEF CallsInv
<1>5. \A o : o # call.file => InFlight(o)' = InFlight(o)
  BY <1>3 DEF InFlight, BagToSet
<1>6. QED
  BY <1>3, <1>4, <1>5

(* A write-back is answered: what was written is what is seen, unless the file has  *)
(* been edited since, and is scheduled again.                                 *)
LEMMA SaveAnsweredStep ==
  ASSUME Agreement, SaveAnswered
  PROVE  Agreement'
<1>1. PICK call \in DOMAIN calls :
        /\ call.kind = "put" /\ call.stage \in {"ok", "failed"}
        /\ calls' = BagRemove(calls, call)
        /\ IF call.stage = "ok" THEN saveErr' = 0 /\ dirty' = dirty \ {call.file}
           ELSE saveErr' = call.file /\ UNCHANGED dirty
        /\ unsaved' = IF call.stage = "failed" THEN unsaved \cup {call.file}
                      ELSE IF Settles(call) THEN unsaved \ {call.file} ELSE unsaved
  BY DEF SaveAnswered, BagToSet
<1>2. /\ UNCHANGED <<disk, overwritten, legacy, load, found, files, cur, tab, raw, due,
                     naming, busy, edits, nameOps, failures, doubtful>>
      /\ Types /\ CallsInv /\ ListInv /\ DraftInv /\ CountersInv /\ ReadingInv /\ NamingInv
      /\ FolderInv /\ Early /\ call \in CallType
  BY DEF SaveAnswered, folder, reading, pane, counters, Agreement, CallsInv
<1>3. load = "done" /\ call.file \in Ids
  BY <1>2 DEF Early, EmptyBag, SetToBag, CallType
<1>4. \A o : (Listed(o)' <=> Listed(o)) /\ Named(o)' = Named(o) /\ Seen(o)' = Seen(o)
  BY <1>2, SameList DEF Seen, Content
<1>5. /\ CallsInv' /\ DOMAIN calls' \subseteq DOMAIN calls
      /\ \A c \in DOMAIN calls \ {call} : c \in DOMAIN calls' /\ calls'[c] = calls[c]
      /\ calls[call] = 1 => call \notin DOMAIN calls'
      /\ \A o : o # call.file => InFlight(o)' = InFlight(o)
  BY <1>1, <1>2, Gone
<1>6. unsaved' \subseteq Ids /\ saveErr' \in Ids \cup {0} /\ dirty' \subseteq dirty
  BY <1>1, <1>2, <1>3 DEF Types
<1>7. Types'
  BY <1>2, <1>6 DEF Types, Drafts
<1>8. ListInv' /\ CountersInv' /\ Early' /\ ReadingInv'
  BY <1>2, <1>3, <1>4
  DEF ListInv, CountersInv, Early, NextId, ReadingInv, FoundInv, LegacyInv, FolderTexts
<1>9. DraftInv'
  <2>1. ASSUME tab = "raw", cur # 0, cur \in unsaved, cur \notin unsaved'
        PROVE  raw = Named(cur).text
    <3>1. cur = call.file /\ Settles(call)
      BY <1>1, <2>1
    <3>2. call.text = Named(cur).text /\ call.text = Seen(cur)
      BY <3>1 DEF Settles
    <3>3. Named(cur).id = cur
      BY <2>1, Editing
    <3>4. QED
      BY <2>1, <3>2, <3>3 DEF Seen, Content
  <2>2. QED
    BY <1>2, <1>4, <2>1 DEF DraftInv
<1>10. NamingInv'
  <2>1. NameOps' = NameOps /\ \A c \in NameOps : calls'[c] = calls[c]
    BY <1>1, <1>5 DEF NameOps
  <2>2. \A c : Relies(c)' <=> Relies(c)
    BY <1>2, <1>4 DEF Relies, NextId
  <2>3. QED
    BY <1>2, <2>1, <2>2 DEF NamingInv
<1>11. ASSUME NEW o \in Ids, o # call.file
       PROVE  Kept(o)'
  <2>1. Kept(o) /\ InFlight(o)' = InFlight(o) /\ AtRisk' = AtRisk
    BY <1>2, <1>3, <1>5, <1>11 DEF FolderInv, AtRisk
  <2>2. ASSUME NEW c \in InFlight(o) PROVE calls'[c] = calls[c]
    <3>1. c \in DOMAIN calls /\ c.file = o
      BY <2>2, FlightIn
    <3>2. QED
      BY <1>5, <1>11, <3>1
  <2>3. o \in unsaved' <=> o \in unsaved
    BY <1>1, <1>11
  <2>4. QED
    BY <1>2, <1>4, <2>1, <2>2, <2>3, Undisturbed
<1>12. ASSUME NEW id, id = call.file
       PROVE  Kept(id)'
  <2>1. call \in InFlight(id) /\ id \in Ids /\ AtRisk' = AtRisk /\ Kept(id)
    BY <1>2, <1>3, <1>12, FlightIn DEF AtRisk, FolderInv
  <2>2. ASSUME id \notin doubtful
        PROVE  /\ InFlight(id) = {call} /\ calls[call] = 1 /\ InFlight(id)' = {}
               /\ Listed(id) /\ call.name = Named(id).name
    <3>1. /\ InFlight(id) = {call} /\ calls[call] = 1 /\ Listed(id) /\ call.name = Named(id).name
      BY <1>1, <2>1, <2>2 DEF Kept, Alone
    <3>2. InFlight(id)' = {}
      BY <1>5, <3>1 DEF InFlight, BagToSet
    <3>3. QED
      BY <3>1, <3>2
  <2>3. ASSUME id \notin doubtful PROVE Alone(id)'
    BY <2>2, <2>3 DEF Alone
  <2>4. ASSUME id \notin AtRisk PROVE Placed(id)' /\ Saved(id)'
    <3>1. Placed(id) /\ Saved(id) /\ id \notin doubtful
      BY <2>1, <2>4 DEF Kept, AtRisk
    <3>2. Where(id) = {call.name} /\ (call.stage = "ok" => disk[call.name] = call.text)
      BY <1>1, <2>1, <3>1 DEF Placed, Left
    <3>3. Where(id)' = {Named(id)'.name}
      BY <1>2, <1>4, <2>2, <3>1, <3>2 DEF Where
    <3>4. ASSUME id \notin due \cup unsaved' PROVE disk[call.name] = Seen(id)
      <4>1. call.stage = "ok" /\ (Settles(call) \/ id \notin unsaved)
        BY <1>1, <1>12, <3>4
      <4>2. call.text = Seen(id)
        BY <1>1, <1>12, <2>1, <2>2, <3>1, <3>4, <4>1 DEF Settles, Saved
      <4>3. QED
        BY <3>2, <4>1, <4>2
    <3>5. Placed(id)'
      BY <1>4, <2>2, <3>1, <3>3 DEF Placed
    <3>6. Saved(id)'
      BY <1>2, <1>4, <2>2, <3>1, <3>2, <3>3, <3>4 DEF Saved
    <3>7. QED
      BY <3>5, <3>6
  <2>5. QED
    BY <1>2, <2>1, <2>3, <2>4 DEF Kept
<1>13. FolderInv'
  BY <1>2, <1>11, <1>12 DEF FolderInv
<1>14. QED
  BY <1>5, <1>7, <1>8, <1>9, <1>10, <1>13 DEF Agreement

(* A file is created, renamed or deleted: the list changes in its place only.     *)
LEMMA AnswerKeeps ==
  ASSUME Agreement, NEW call \in NameOps, calls' = BagRemove(calls, call), busy' = FALSE,
         UNCHANGED <<folder, legacy, load, found, blind, saveErr, counters, history>>,
         files' \in Seq(Files), OneEach(files'),
         \A o : o # call.file =>
           /\ Listed(o)' <=> Listed(o)
           /\ Listed(o) => /\ Named(o)'.name = Named(o).name /\ Named(o)'.id = o
                           /\ Named(o)'.text = Named(o).text,
         Listed(call.file)' => call.file <= NextId,
         naming' = Closed \/ (naming' = naming /\ (~Listed(NextId) => ~Listed(NextId)')),
         tab' \in {"raw", "form"}, raw' \in Texts, Drafts', DraftInv',
         cur' = 0 \/ Listed(cur)', \A o \in dirty' \cup due' : Listed(o)',
         due \ {call.file} \subseteq due',
         call.file \notin AtRisk => Placed(call.file)' /\ Saved(call.file)'
  PROVE  Agreement'
<1>1. /\ UNCHANGED <<disk, overwritten, legacy, load, found, saveErr, edits, nameOps, failures,
                     doubtful, unsaved>>
      /\ Types /\ CallsInv /\ ListInv /\ DraftInv /\ CountersInv /\ ReadingInv /\ NamingInv
      /\ FolderInv /\ Early /\ call \in DOMAIN calls /\ call.kind # "put"
  BY DEF folder, counters, history, Agreement, NameOps
<1>2. load = "done" /\ calls[call] = 1 /\ NameOps = {call}
  BY <1>1 DEF Early, EmptyBag, SetToBag, NamingInv
<1>3. /\ CallsInv' /\ DOMAIN calls' \subseteq DOMAIN calls
      /\ \A c \in DOMAIN calls \ {call} : c \in DOMAIN calls' /\ calls'[c] = calls[c]
      /\ call \notin DOMAIN calls'
      /\ \A o : o # call.file => InFlight(o)' = InFlight(o)
  BY <1>1, <1>2, Gone
<1>4. Types'
  <2>1. Range(files') \subseteq Files
    BY OnList
  <2>2. \A o : Listed(o)' <=> o \in {f.id : f \in Range(files')}
    BY DEF Listed, Range
  <2>3. dirty' \cup due' \cup ({cur'} \ {0}) \subseteq {f.id : f \in Range(files')}
    BY <2>2
  <2>4. naming' \in {Closed, NewName} \cup {NameOf(id) : id \in Ids}
    BY <1>1 DEF Types
  <2>5. QED
    BY <1>1, <2>1, <2>3, <2>4 DEF Types
<1>5. ListInv'
  <2>1. NextId' = NextId
    BY <1>1 DEF NextId
  <2>2. ASSUME NEW i \in DOMAIN files' PROVE files'[i].id <= NextId
    <3>1. PICK o : o = files'[i].id
      OBVIOUS
    <3>2. Listed(o)'
      BY <2>2, <3>1 DEF Listed
    <3>3. QED
      BY <1>1, <3>1, <3>2 DEF Listed, ListInv
  <2>3. QED
    BY <2>1, <2>2 DEF ListInv
<1>6. CountersInv'
  <2>1. CASE naming' = Closed
    BY <1>1, <2>1 DEF CountersInv, Closed, NewName
  <2>2. CASE naming' = naming /\ (~Listed(NextId) => ~Listed(NextId)')
    BY <1>1, <2>2 DEF CountersInv
  <2>3. QED
    BY <2>1, <2>2
<1>7. Early' /\ ReadingInv'
  BY <1>1, <1>2 DEF Early, ReadingInv, FoundInv, LegacyInv, FolderTexts
<1>8. NamingInv'
  <2>1. NameOps' = {}
    BY <1>2, <1>3 DEF NameOps
  <2>2. QED
    BY <2>1 DEF NamingInv
<1>9. ASSUME NEW o \in Ids, o # call.file
      PROVE  Kept(o)'
  <2>1. Kept(o) /\ InFlight(o)' = InFlight(o) /\ AtRisk' = AtRisk
    BY <1>1, <1>2, <1>3, <1>9 DEF FolderInv, AtRisk
  <2>2. ASSUME NEW c \in InFlight(o) PROVE calls'[c] = calls[c]
    <3>1. c \in DOMAIN calls /\ c.file = o
      BY <2>2, FlightIn
    <3>2. QED
      BY <1>3, <1>9, <3>1
  <2>3. ASSUME Listed(o), o \notin due' \cup unsaved'
        PROVE  o \notin due \cup unsaved /\ Seen(o)' = Seen(o)
    <3>1. o \notin due \cup unsaved
      BY <1>1, <1>9, <2>3
    <3>2. Seen(o) = Named(o).text
      BY <2>3, <3>1, DraftSeen
    <3>3. Seen(o)' = Named(o)'.text
      BY <1>1, <1>9, <2>3, <3>1, Numbers DEF Seen, Content, DraftInv
    <3>4. QED
      BY <1>9, <2>3, <3>1, <3>2, <3>3
  <2>4. QED
    BY <1>1, <1>9, <2>1, <2>2, <2>3, Undisturbed
<1>10. Kept(call.file)'
  <2>1. PICK id : id = call.file
    OBVIOUS
  <2>2. ASSUME id \notin doubtful PROVE InFlight(id)' = {}
    <3>1. id \in Ids /\ call \in InFlight(id)
      BY <1>1, <2>1, FlightIn DEF CallsInv, CallType
    <3>2. InFlight(id) = {call}
      BY <1>1, <1>2, <2>2, <3>1 DEF FolderInv, Kept, Alone
    <3>3. QED
      BY <1>3, <3>2 DEF InFlight, BagToSet
  <2>3. ASSUME id \notin doubtful PROVE Alone(id)'
    BY <2>2, <2>3 DEF Alone
  <2>4. AtRisk' = AtRisk
    BY <1>1 DEF AtRisk
  <2>5. QED
    BY <1>1, <2>1, <2>3, <2>4 DEF Kept
<1>11. FolderInv'
  BY <1>1, <1>9, <1>10 DEF FolderInv
<1>12. QED
  BY <1>3, <1>4, <1>5, <1>6, <1>7, <1>8, <1>11 DEF Agreement

(* The file of an answered call, unless it is at risk: nothing is under way about   *)
(* it any more, and its text lies where the call has left it.                  *)
LEMMA AnsweredFile ==
  ASSUME Agreement, NEW call \in NameOps, calls' = BagRemove(calls, call), UNCHANGED disk,
         call.file \notin AtRisk
  PROVE  /\ InFlight(call.file)' = {} /\ Where(call.file)' = Left(call)
         /\ call.kind = "create" /\ call.stage = "ok" => disk[call.name] = call.text
         /\ Listed(call.file) /\ call.file \notin due \cup unsaved =>
              \A n \in Left(call) : disk[n] = Seen(call.file)
<1>1. /\ CallsInv /\ FolderInv /\ Early /\ call \in DOMAIN calls /\ call.kind # "put"
      /\ call \in CallType
  BY DEF Agreement, NameOps, CallsInv
<1>2. load = "done" /\ call.file \in Ids
  BY <1>1 DEF Early, EmptyBag, SetToBag, CallType
<1>3. PICK id : id = call.file
  OBVIOUS
<1>4. Placed(id) /\ Saved(id) /\ Alone(id) /\ call \in InFlight(id)
  BY <1>1, <1>2, <1>3, FlightIn DEF FolderInv, Kept, AtRisk
<1>5. /\ InFlight(id) = {call} /\ calls[call] = 1 /\ Where(id) = Left(call)
      /\ call.kind = "create" /\ call.stage = "ok" => disk[call.name] = call.text
      /\ Listed(id) /\ id \notin due \cup unsaved => \A n \in Left(call) : disk[n] = Seen(id)
  BY <1>1, <1>4 DEF Placed, Alone, Saved
<1>6. DOMAIN calls' \subseteq DOMAIN calls /\ call \notin DOMAIN calls'
  BY <1>1, <1>5, Gone
<1>7. InFlight(id)' = {}
  BY <1>5, <1>6 DEF InFlight, BagToSet
<1>8. Where(id)' = Where(id)
  BY DEF Where
<1>9. QED
  BY <1>3, <1>5, <1>7, <1>8

AnswerFrame(call) ==
  /\ calls' = BagRemove(calls, call) /\ busy' = FALSE
  /\ UNCHANGED <<folder, legacy, load, found, blind, saveErr, counters, history>>

LEMMA CreateDone ==
  ASSUME Agreement, NEW call \in NameOps, AnswerFrame(call), CreateAnswered(call)
  PROVE  Agreement'
<1> DEFINE new == File(call.file, call.name, call.text)
<1>1. /\ call.kind = "create" /\ call.stage = "ok" /\ files' = Append(files, new)
      /\ cur' = call.file /\ tab' = "raw" /\ raw' = call.text
      /\ naming' = Closed /\ UNCHANGED <<dirty, due, disk, doubtful, unsaved>>
  BY DEF CreateAnswered, Shows, AnswerFrame, history, folder
<1>2. /\ Types /\ ListInv /\ Relies(call) /\ call \in CallType /\ call.text.of = call.file
      /\ call.to = call.name
  BY <1>1 DEF Agreement, CallsInv, NamingInv, NameOps
<1>3. /\ new \in Files /\ new.id = call.file /\ new.name = call.name /\ new.text = call.text
      /\ call.file \in Ids /\ call.text \in Texts /\ call.name \in Names
  BY <1>2 DEF Files, File, CallType
<1>4. /\ ~Listed(call.file) /\ call.file <= NextId
      /\ \A i \in DOMAIN files : files[i].name # call.name
  BY <1>1, <1>2 DEF Relies, Listed
<1>5. /\ files \in Seq(Files) /\ Len(files) \in Nat /\ DOMAIN files = 1..Len(files)
      /\ files' \in Seq(Files) /\ DOMAIN files' = 1..Len(files) + 1
      /\ \A i \in DOMAIN files : files'[i] = files[i]
      /\ files'[Len(files) + 1] = new
  <2> HIDE DEF new
  <2>1. files \in Seq(Files)
    BY <1>2 DEF ListInv
  <2>2. QED
    BY <1>1, <1>3, <2>1, LenProperties, AppendProperties
<1> HIDE DEF new
<1>6. \A i \in DOMAIN files' :
        (i \in DOMAIN files /\ files'[i] = files[i]) \/ (i = Len(files) + 1 /\ files'[i] = new)
  BY <1>5
<1>7. \A i \in DOMAIN files : files[i].id # call.file
  BY <1>4 DEF Listed
<1>8. OneEach(files')
  BY <1>2, <1>3, <1>4, <1>6, <1>7 DEF OneEach, ListInv
<1>9. Listed(call.file)' /\ Named(call.file)' = new
  <2>1. Len(files) + 1 \in DOMAIN files'
    BY <1>5
  <2>2. QED
    BY <1>3, <1>5, <1>8, <2>1, AtIndexNext
<1>10. ASSUME NEW o, o # call.file
       PROVE  /\ Listed(o)' <=> Listed(o)
              /\ Listed(o) => /\ Named(o)'.name = Named(o).name /\ Named(o)'.id = o
                              /\ Named(o)'.text = Named(o).text
  <2>1. Listed(o)' <=> Listed(o)
    BY <1>3, <1>5, <1>6, <1>10 DEF Listed
  <2>2. ASSUME Listed(o) PROVE Named(o)' = Named(o) /\ Named(o).id = o
    <3>1. Index(o) \in DOMAIN files /\ files[Index(o)].id = o /\ Named(o) = files[Index(o)]
      BY <1>2, <2>2, Files1 DEF ListInv
    <3>2. Index(o) \in DOMAIN files' /\ files'[Index(o)] = files[Index(o)]
      BY <1>5, <3>1
    <3>3. Named(o)' = files'[Index(o)]
      BY <1>8, <3>1, <3>2, AtIndexNext
    <3>4. QED
      BY <3>1, <3>2, <3>3
  <2>3. QED
    BY <2>1, <2>2
<1>11. Drafts' /\ DraftInv'
  <2>1. \A f \in Range(files') : f.text.of = f.id
    BY <1>2, <1>3, <1>6 DEF Range, Types, Drafts
  <2>2. QED
    BY <1>1, <1>2, <1>3, <1>9, <2>1 DEF Drafts, DraftInv
<1>12. \A o \in dirty' \cup due' : Listed(o)'
  BY <1>1, <1>2, <1>9, <1>10, ListedIds DEF Types
<1>13. ASSUME call.file \notin AtRisk PROVE Placed(call.file)' /\ Saved(call.file)'
  <2>1. PICK id : id = call.file
    OBVIOUS
  <2>2. InFlight(id)' = {} /\ Where(id)' = {call.name} /\ disk[call.name] = call.text
    BY <1>1, <1>2, <1>13, <2>1, AnsweredFile DEF AnswerFrame, Left
  <2>3. Seen(id)' = call.text
    BY <1>1, <1>3, <1>9, <2>1 DEF Seen, Content
  <2>4. QED
    BY <1>1, <1>3, <1>9, <2>1, <2>2, <2>3 DEF Placed, Saved
<1>14. QED
  BY <1>1, <1>3, <1>4, <1>5, <1>8, <1>9, <1>10, <1>11, <1>12, <1>13, AnswerKeeps DEF AnswerFrame

LEMMA RenameDone ==
  ASSUME Agreement, NEW call \in NameOps, AnswerFrame(call), RenameAnswered(call)
  PROVE  Agreement'
<1>1. /\ call.kind = "rename" /\ call.stage = "ok"
      /\ naming' = Closed /\ UNCHANGED <<cur, tab, raw, dirty, due, disk, doubtful, unsaved>>
  BY DEF RenameAnswered, AnswerFrame, history, folder
<1>2. /\ Types /\ ListInv /\ DraftInv /\ Relies(call) /\ call \in CallType
  BY DEF Agreement, CallsInv, NamingInv, NameOps
<1>3. /\ Listed(call.file) /\ call.to \in Names /\ files \in Seq(Files) /\ OneEach(files)
      /\ \A i \in DOMAIN files : files[i].name = call.to => files[i].id = call.file
  BY <1>1, <1>2 DEF Relies, CallType, ListInv
<1>4. files' = [files EXCEPT ![Index(call.file)].name = call.to]
  BY <1>3 DEF RenameAnswered
<1>5. PICK k \in DOMAIN files :
        /\ k = Index(call.file) /\ files[k].id = call.file
        /\ \A i \in DOMAIN files : files[i].id = call.file => i = k
  BY <1>3, Files1
<1>6. files[k] \in Files
  BY <1>3, LenProperties, ElementOfSeq
<1>7. PICK f : f = [files[k] EXCEPT !.name = call.to]
  OBVIOUS
<1>8. f \in Files /\ f.id = call.file /\ f.name = call.to /\ f.text = files[k].text
  BY <1>3, <1>5, <1>6, <1>7 DEF Files
<1>9. files' = [files EXCEPT ![k] = f]
  BY <1>4, <1>5, <1>7
<1>10. files' \in Seq(Files) /\ DOMAIN files' = DOMAIN files
  BY <1>3, <1>8, <1>9, ExceptSeq, LenProperties
<1>11. files'[k] = f /\ \A i \in DOMAIN files : i # k => files'[i] = files[i]
  BY <1>9
<1>12. OneEach(files')
  BY <1>3, <1>5, <1>8, <1>10, <1>11 DEF OneEach
<1>13. \A i \in DOMAIN files : files'[i].id = files[i].id /\ files'[i].text = files[i].text
  BY <1>5, <1>8, <1>11
<1>14. \A o : Listed(o)' <=> Listed(o)
  BY <1>10, <1>13 DEF Listed
<1>15. Named(call.file)' = f
  BY <1>5, <1>8, <1>10, <1>11, <1>12, AtIndexNext
<1>16. ASSUME NEW o, Listed(o)
       PROVE  /\ o # call.file => Named(o)'.name = Named(o).name
              /\ Named(o)'.id = o /\ Named(o)'.text = Named(o).text
  <2>1. PICK i \in DOMAIN files : files[i].id = o
    BY <1>16 DEF Listed
  <2>2. Named(o) = files[i]
    BY <1>3, <2>1, AtIndex
  <2>3. Named(o)' = files'[i]
    BY <1>10, <1>12, <1>13, <2>1, AtIndexNext
  <2>4. QED
    BY <1>5, <1>11, <1>13, <2>1, <2>2, <2>3
<1>17. cur = 0 \/ Listed(cur)
  BY <1>2, ListedIds DEF Types
<1>18. Drafts' /\ DraftInv'
  <2>1. \A g \in Range(files') : g.text.of = g.id
    BY <1>2, <1>10, <1>13 DEF Range, Types, Drafts
  <2>2. QED
    BY <1>1, <1>2, <1>16, <1>17, <2>1 DEF Drafts, DraftInv, Types
<1>19. \A o \in dirty' \cup due' : Listed(o)'
  BY <1>1, <1>2, <1>14, ListedIds DEF Types
<1>20. ASSUME call.file \notin AtRisk PROVE Placed(call.file)' /\ Saved(call.file)'
  <2>1. PICK id : id = call.file
    OBVIOUS
  <2>2. /\ InFlight(id)' = {} /\ Where(id)' = {call.to}
        /\ id \notin due \cup unsaved => disk[call.to] = Seen(id)
    BY <1>1, <1>3, <1>20, <2>1, AnsweredFile DEF AnswerFrame, Left
  <2>3. Listed(id)' /\ Named(id)'.name = call.to
    BY <1>3, <1>8, <1>14, <1>15, <2>1
  <2>4. Seen(id)' = Seen(id)
    <3>1. Named(id).id = id /\ Named(id)'.id = id /\ Named(id)'.text = Named(id).text
      BY <1>3, <1>16, <2>1, Files1
    <3>2. QED
      BY <1>1, <3>1 DEF Seen, Content
  <2>5. QED
    BY <1>1, <2>1, <2>2, <2>3, <2>4 DEF Placed, Saved
<1>21. Listed(call.file)' => call.file <= NextId
  BY <1>2, <1>5 DEF ListInv
<1>22. raw' \in Texts /\ tab' \in {"raw", "form"}
  BY <1>1, <1>2 DEF Types
<1>23. QED
  BY <1>1, <1>10, <1>12, <1>14, <1>16, <1>17, <1>18, <1>19, <1>20, <1>21, <1>22, AnswerKeeps
  DEF AnswerFrame

LEMMA FailureShown ==
  ASSUME Agreement, NEW call \in NameOps, AnswerFrame(call), NameOpFailed(call)
  PROVE  Agreement'
<1>1. /\ call.stage = "failed" /\ call.kind # "put"
      /\ UNCHANGED <<files, cur, tab, raw, dirty, due, naming, disk, doubtful, unsaved>>
  BY DEF NameOpFailed, AnswerFrame, history, folder
<1>2. /\ Types /\ ListInv /\ DraftInv /\ Relies(call) /\ call \in CallType
  BY DEF Agreement, CallsInv, NamingInv, NameOps
<1>3. \A o : (Listed(o)' <=> Listed(o)) /\ Named(o)' = Named(o) /\ Seen(o)' = Seen(o)
  BY <1>1, SameList DEF Seen, Content
<1>4. \A o : Listed(o) => Named(o).id = o
  BY <1>2, Files1 DEF ListInv
<1>5. files' \in Seq(Files) /\ OneEach(files')
  BY <1>1, <1>2 DEF ListInv
<1>6. \A o \in dirty' \cup due' : Listed(o)'
  BY <1>1, <1>2, <1>3, ListedIds DEF Types
<1>7. cur' = 0 \/ Listed(cur)'
  BY <1>1, <1>2, <1>3, ListedIds DEF Types
<1>8. /\ Drafts' /\ DraftInv' /\ raw' \in Texts /\ tab' \in {"raw", "form"}
  BY <1>1, <1>2, <1>3 DEF Drafts, DraftInv, Types
<1>9. Listed(call.file)' => call.file <= NextId
  BY <1>1, <1>2, <1>3 DEF ListInv, Listed
<1>10. ASSUME call.file \notin AtRisk PROVE Placed(call.file)' /\ Saved(call.file)'
  <2>1. PICK id : id = call.file
    OBVIOUS
  <2>2. /\ InFlight(id)' = {} /\ Where(id)' = Left(call)
        /\ Listed(id) /\ id \notin due \cup unsaved => \A n \in Left(call) : disk[n] = Seen(id)
    BY <1>1, <1>10, <2>1, AnsweredFile DEF AnswerFrame
  <2>3. Left(call) = IF Listed(id) THEN {Named(id).name} ELSE {}
    BY <1>1, <1>2, <2>1 DEF Left, Relies
  <2>4. QED
    BY <1>1, <1>3, <2>1, <2>2, <2>3 DEF Placed, Saved
<1>11. ~Listed(NextId) => ~Listed(NextId)'
  BY <1>1 DEF Listed, NextId, AnswerFrame, counters
<1>12. QED
  BY <1>1, <1>3, <1>4, <1>5, <1>6, <1>7, <1>8, <1>9, <1>10, <1>11, AnswerKeeps DEF AnswerFrame

(* A sequence without one of its elements. *)
LEMMA Without ==
  ASSUME NEW S, NEW s \in Seq(S), NEW k \in DOMAIN s
  PROVE  /\ RemoveAt(s, k) \in Seq(S)
         /\ DOMAIN RemoveAt(s, k) = 1..Len(s) - 1
         /\ \A i \in 1..Len(s) - 1 : RemoveAt(s, k)[i] = IF i < k THEN s[i] ELSE s[i + 1]
<1>1. Len(s) \in Nat /\ k \in 1..Len(s)
  BY LenProperties
<1> DEFINE a == SubSeq(s, 1, k - 1)
           b == SubSeq(s, k + 1, Len(s))
<1>2. a \in Seq(S) /\ Len(a) = k - 1 /\ \A i \in 1..k - 1 : a[i] = s[i]
  <2>1. 1 \in Int /\ k - 1 \in Int /\ \A i \in 1..k - 1 : i \in 1..Len(s)
    BY <1>1
  <2>2. a \in Seq(S) /\ Len(a) = (IF 1 <= k - 1 THEN k - 1 - 1 + 1 ELSE 0)
        /\ \A i \in 1..k - 1 - 1 + 1 : a[i] = s[1 + i - 1]
    BY <1>1, <2>1, SubSeqProperties
  <2>3. QED
    BY <1>1, <2>2
<1>3. b \in Seq(S) /\ Len(b) = Len(s) - k /\ \A i \in 1..Len(s) - k : b[i] = s[k + i]
  <2>1. k + 1 \in Int /\ Len(s) \in Int /\ \A i \in k + 1..Len(s) : i \in 1..Len(s)
    BY <1>1
  <2>2. b \in Seq(S) /\ Len(b) = (IF k + 1 <= Len(s) THEN Len(s) - (k + 1) + 1 ELSE 0)
        /\ \A i \in 1..Len(s) - (k + 1) + 1 : b[i] = s[k + 1 + i - 1]
    BY <1>1, <2>1, SubSeqProperties
  <2>3. QED
    BY <1>1, <2>2
<1>4. RemoveAt(s, k) = a \o b
  BY DEF RemoveAt
<1> HIDE DEF a, b
<1>5. /\ a \o b \in Seq(S) /\ Len(a \o b) = Len(a) + Len(b)
      /\ \A i \in 1..Len(a) + Len(b) : (a \o b)[i] = IF i <= Len(a) THEN a[i] ELSE b[i - Len(a)]
  BY <1>2, <1>3, ConcatProperties
<1>6. Len(a \o b) = Len(s) - 1
  BY <1>1, <1>2, <1>3, <1>5
<1>7. DOMAIN (a \o b) = 1..Len(s) - 1
  BY <1>5, <1>6, LenProperties
<1>8. ASSUME NEW i \in 1..Len(s) - 1
      PROVE  (a \o b)[i] = IF i < k THEN s[i] ELSE s[i + 1]
  <2>1. (a \o b)[i] = IF i <= k - 1 THEN a[i] ELSE b[i - (k - 1)]
    <3>1. i \in 1..Len(a) + Len(b) /\ Len(a) = k - 1 /\ (i <= Len(a) <=> i <= k - 1)
      BY <1>1, <1>2, <1>3, <1>8
    <3>2. QED
      BY <1>5, <3>1
  <2>2. CASE i < k
    BY <1>1, <1>2, <2>1, <2>2
  <2>3. CASE ~(i < k)
    <3>1. i - (k - 1) \in 1..Len(s) - k /\ k + (i - (k - 1)) = i + 1
      BY <1>1, <1>8, <2>3
    <3>2. QED
      BY <1>1, <1>3, <1>8, <2>1, <2>3, <3>1
  <2>4. QED
    BY <2>2, <2>3
<1>9. QED
  BY <1>4, <1>5, <1>7, <1>8

LEMMA DeleteDone ==
  ASSUME Agreement, NEW call \in NameOps, AnswerFrame(call), DeleteAnswered(call)
  PROVE  Agreement'
<1>1. /\ Types /\ ListInv /\ DraftInv /\ Relies(call) /\ call \in CallType
  BY DEF Agreement, CallsInv, NamingInv, NameOps
<1>2. /\ call.kind = "delete" /\ call.stage = "ok"
      /\ Listed(call.file) /\ files \in Seq(Files) /\ OneEach(files)
  BY <1>1 DEF DeleteAnswered, Relies, ListInv
<1>3. PICK k \in DOMAIN files :
        /\ k = Index(call.file) /\ files[k].id = call.file
        /\ \A i \in DOMAIN files : files[i].id = call.file => i = k
  BY <1>2, Files1
<1>4. /\ files' = RemoveAt(files, k)
      /\ \/ cur # call.file /\ UNCHANGED <<cur, tab, raw>>
         \/ /\ cur = call.file /\ files' # <<>>
            /\ cur' = files'[1].id /\ tab' = "raw" /\ raw' = files'[1].text
         \/ cur = call.file /\ cur' = 0 /\ raw' = Absent /\ UNCHANGED tab
      /\ dirty' = dirty \ {call.file} /\ due' = due \ {call.file}
      /\ UNCHANGED <<naming, disk, doubtful, unsaved>>
  BY <1>2, <1>3 DEF DeleteAnswered, Shows, DueWithout, AnswerFrame, history, folder
<1>5. /\ files' \in Seq(Files) /\ DOMAIN files' = 1..Len(files) - 1
      /\ \A i \in DOMAIN files' : files'[i] = IF i < k THEN files[i] ELSE files[i + 1]
      /\ Len(files) \in Nat /\ DOMAIN files = 1..Len(files)
  <2>1. /\ RemoveAt(files, k) \in Seq(Files) /\ DOMAIN RemoveAt(files, k) = 1..Len(files) - 1
        /\ \A i \in 1..Len(files) - 1 :
             RemoveAt(files, k)[i] = IF i < k THEN files[i] ELSE files[i + 1]
    BY <1>2, Without
  <2>2. QED
    BY <1>2, <1>4, <2>1, LenProperties
<1> DEFINE Was(i) == IF i < k THEN i ELSE i + 1
<1>6. ASSUME NEW i \in DOMAIN files'
      PROVE  Was(i) \in DOMAIN files /\ Was(i) # k /\ files'[i] = files[Was(i)]
  BY <1>3, <1>5, <1>6
<1>7. ASSUME NEW i \in DOMAIN files, i # k
      PROVE  \E j \in DOMAIN files' : files'[j] = files[i]
  <2>1. CASE i < k
    BY <1>3, <1>5, <1>7, <2>1
  <2>2. CASE i > k
    <3>1. i - 1 \in DOMAIN files' /\ ~(i - 1 < k) /\ i - 1 + 1 = i
      BY <1>3, <1>5, <1>7, <2>2
    <3>2. QED
      BY <1>5, <3>1
  <2>3. QED
    BY <1>3, <1>5, <1>7, <2>1, <2>2
<1>8. \A i, j \in DOMAIN files' : Was(i) = Was(j) => i = j
  BY <1>3, <1>5
<1> HIDE DEF Was
<1>9. OneEach(files')
  BY <1>2, <1>6, <1>8 DEF OneEach
<1>10. ~Listed(call.file)'
  BY <1>3, <1>6 DEF Listed
<1>11. ASSUME NEW o, o # call.file
       PROVE  (Listed(o)' <=> Listed(o)) /\ (Listed(o) => Named(o)' = Named(o) /\ Named(o).id = o)
  <2>1. ASSUME Listed(o) PROVE Listed(o)' /\ Named(o)' = Named(o) /\ Named(o).id = o
    <3>1. PICK i \in DOMAIN files : files[i].id = o /\ Named(o) = files[i]
      BY <1>2, <2>1, Files1
    <3>2. PICK j \in DOMAIN files' : files'[j] = files[i]
      BY <1>3, <1>7, <1>11, <3>1
    <3>3. Listed(o)' /\ Named(o)' = files'[j]
      BY <1>9, <3>1, <3>2, AtIndexNext
    <3>4. QED
      BY <3>1, <3>2, <3>3
  <2>2. Listed(o)' => Listed(o)
    BY <1>6 DEF Listed
  <2>3. QED
    BY <2>1, <2>2
<1>12. \A f \in Range(files') : f \in Files /\ f.text.of = f.id /\ f.id # 0
  <2>1. \A f \in Range(files) : f \in Files /\ f.text.of = f.id /\ f.id # 0
    BY <1>1, Numbers DEF Types, Drafts, Files
  <2>2. Range(files') \subseteq Range(files)
    BY <1>6 DEF Range
  <2>3. QED
    BY <2>1, <2>2
<1>13. /\ cur' = 0 \/ Listed(cur)'
       /\ Drafts' /\ DraftInv' /\ raw' \in Texts /\ tab' \in {"raw", "form"}
  <2>1. CASE cur # call.file /\ UNCHANGED <<cur, tab, raw>>
    <3>1. cur = 0 \/ Listed(cur)
      BY <1>1, ListedIds DEF Types
    <3>2. QED
      BY <1>1, <1>4, <1>11, <1>12, <2>1, <3>1 DEF Drafts, DraftInv, Types
  <2>2. CASE files' # <<>> /\ cur' = files'[1].id /\ tab' = "raw" /\ raw' = files'[1].text
    <3>1. 1 \in DOMAIN files'
      BY <1>5, <2>2, EmptySeq, LenProperties
    <3>2. PICK id : id = files'[1].id
      OBVIOUS
    <3>3. Listed(id)' /\ Named(id)' = files'[1]
      BY <1>9, <3>1, <3>2, AtIndexNext
    <3>4. files'[1] \in Range(files')
      BY <3>1 DEF Range
    <3>5. raw'.of = id /\ raw' \in Texts
      BY <1>12, <2>2, <3>2, <3>4 DEF Files
    <3>6. QED
      BY <1>12, <2>2, <3>2, <3>3, <3>5 DEF Drafts, DraftInv
  <2>3. CASE cur' = 0 /\ raw' = Absent /\ UNCHANGED tab
    BY <1>1, <1>12, <2>3, TextTypes DEF Drafts, DraftInv, Types
  <2>4. QED
    BY <1>4, <2>1, <2>2, <2>3
<1>14. \A o \in dirty' \cup due' : Listed(o)'
  BY <1>1, <1>4, <1>11, ListedIds DEF Types
<1>15. ASSUME call.file \notin AtRisk PROVE Placed(call.file)' /\ Saved(call.file)'
  <2>1. PICK id : id = call.file
    OBVIOUS
  <2>2. InFlight(id)' = {} /\ Where(id)' = {}
    BY <1>2, <1>4, <1>15, <2>1, AnsweredFile DEF AnswerFrame, Left
  <2>3. QED
    BY <1>10, <2>1, <2>2 DEF Placed, Saved
<1>16. ~Listed(NextId) => ~Listed(NextId)'
  <2>1. NextId' = NextId
    BY DEF NextId, AnswerFrame, counters
  <2>2. QED
    BY <1>6, <2>1 DEF Listed
<1>17. QED
  BY <1>4, <1>5, <1>9, <1>10, <1>11, <1>13, <1>14, <1>15, <1>16, AnswerKeeps DEF AnswerFrame

LEMMA AnswerStep ==
  ASSUME Agreement, NameOpAnswered
  PROVE  Agreement'
<1>1. PICK call \in DOMAIN calls :
        /\ CreateAnswered(call) \/ RenameAnswered(call) \/ DeleteAnswered(call) \/ NameOpFailed(call)
        /\ AnswerFrame(call)
  BY DEF NameOpAnswered, AnswerFrame, BagToSet
<1>2. call \in NameOps
  BY <1>1 DEF NameOps, CreateAnswered, RenameAnswered, DeleteAnswered, NameOpFailed
<1>3. QED
  BY <1>1, <1>2, CreateDone, RenameDone, DeleteDone, FailureShown

-----------------------------------------------------------------------------
(* Reading the collection *)

(* Until the list is there, only what is being read changes. *)
LEMMA ReadingKeeps ==
  ASSUME Agreement, load # "done", load' # "done",
         load' \in {"asked", "listed", "unanswered", "migrating", "failed"},
         UNCHANGED <<files, cur, tab, raw, dirty, due, saveErr, pane, calls, edits, nameOps,
                     unsaved>>,
         disk' \in [Names -> Texts], doubtful' \subseteq Ids, UNCHANGED overwritten,
         failures' \in 0..MaxFailures, ReadingInv'
  PROVE  Agreement'
<1>1. /\ UNCHANGED <<overwritten, files, cur, tab, raw, dirty, due, saveErr, naming, busy,
                     calls, edits, nameOps, unsaved>>
      /\ Types /\ CallsInv /\ ListInv /\ DraftInv /\ CountersInv /\ Early /\ NamingInv
  BY DEF Agreement, pane
<1>2. \A id : (Listed(id)' <=> Listed(id)) /\ Named(id)' = Named(id)
  BY <1>1, SameList
<1>3. Range(legacy') \subseteq Range(Initial) /\ Range(found') \subseteq Files
  <2>1. found' \in Seq(Files) /\ \A i \in DOMAIN legacy' : legacy'[i] \in Range(Initial)
    BY DEF ReadingInv, FoundInv, LegacyInv
  <2>2. Range(found') \subseteq Files
    BY <2>1, OnList
  <2>3. QED
    BY <2>1, <2>2 DEF Range
<1>4. Types'
  BY <1>1, <1>3 DEF Types, Drafts
<1>5. CallsInv' /\ ListInv' /\ DraftInv' /\ CountersInv' /\ Early'
  BY <1>1, <1>2 DEF CallsInv, ListInv, DraftInv, CountersInv, Early, NextId
<1>6. NamingInv'
  BY <1>1, <1>2 DEF NamingInv, NameOps, Relies, NextId
<1>7. QED
  BY <1>4, <1>5, <1>6 DEF Agreement, FolderInv

(* The backend lists each file there is, once. *)
LEMMA Listing ==
  ASSUME NEW names \in SUBSET Names, NEW there \in InOrder(names)
  PROVE  /\ there \in Seq(names) /\ Range(there) = names
         /\ \A i, j \in DOMAIN there : there[i] = there[j] => i = j
<1>1. /\ there \in UNION {[1..m -> names] : m \in 0..Len(Order)} /\ Range(there) = names
      /\ \A i, j \in DOMAIN there : i < j => Place(there[i]) < Place(there[j])
  BY DEF InOrder, BoundedSeq, SeqOf
<1>2. Len(Order) \in Nat /\ DOMAIN Order = 1..Len(Order) /\ Names = Range(Order)
  BY ComposerAssumption, LenProperties DEF Names
<1>3. PICK m \in 0..Len(Order) : there \in [1..m -> names]
  BY <1>1
<1>4. there \in Seq(names) /\ DOMAIN there \subseteq Nat
  BY <1>2, <1>3, SeqDef
<1>5. ASSUME NEW n \in Names PROVE Place(n) \in Nat
  BY <1>5, Places, Numbers
<1>6. ASSUME NEW i \in DOMAIN there, NEW j \in DOMAIN there, there[i] = there[j]
      PROVE  i = j
  <2>1. there[i] \in Names
    BY <1>3, <1>6
  <2>2. Place(there[i]) \in Nat /\ Place(there[j]) = Place(there[i])
    BY <1>5, <1>6, <2>1
  <2>3. ~(i < j) /\ ~(j < i)
    BY <1>1, <1>6, <2>2
  <2>4. QED
    BY <1>4, <1>6, <2>3
<1>7. QED
  BY <1>1, <1>4, <1>6

LEMMA ListStep ==
  ASSUME Agreement, ServerLists
  PROVE  Agreement'
<1>1. /\ load = "asked"
      /\ UNCHANGED <<disk, overwritten, legacy, files, cur, tab, raw, dirty, due, saveErr,
                     pane, calls, edits, nameOps, doubtful, unsaved>>
      /\ Types /\ CountersInv /\ ReadingInv /\ Early
  BY DEF ServerLists, folder, history, Agreement
<1>2. CASE /\ load' = "unanswered" /\ UNCHANGED found
           /\ failures < MaxFailures /\ failures' = failures + 1
  <2>1. failures' \in 0..MaxFailures
    BY <1>1, <1>2, Numbers DEF CountersInv
  <2>2. ReadingInv'
    BY <1>1, <1>2 DEF ReadingInv, FoundInv, LegacyInv, FolderTexts
  <2>3. QED
    BY <1>1, <1>2, <2>1, <2>2, ReadingKeeps DEF Types
<1>3. CASE /\ load' = "listed" /\ UNCHANGED failures
           /\ \E there \in InOrder({n \in Names : disk[n] # Absent}) :
                found' = [i \in DOMAIN there |-> ReadAs(there[i])]
  <2> DEFINE names == {n \in Names : disk[n] # Absent}
  <2>1. PICK there \in InOrder(names) :
          found' = [i \in DOMAIN there |-> ReadAs(there[i])]
    BY <1>3
  <2>2. /\ there \in Seq(names) /\ Range(there) = names
        /\ \A i, j \in DOMAIN there : there[i] = there[j] => i = j
    BY <2>1, Listing
  <2>3. \A n \in names : /\ n \in Names /\ disk[n] \in Texts
                         /\ disk[n].of = Place(n) /\ Place(n) \in Ids
    BY <1>1, Places DEF Types, ReadingInv
  <2>4. ASSUME NEW i \in DOMAIN there
        PROVE  /\ there[i] \in names /\ i \in DOMAIN found' /\ found'[i] \in Files
               /\ found'[i].id = Place(there[i]) /\ found'[i].name = there[i]
               /\ found'[i].text = disk[there[i]]
    <3>1. there[i] \in names
      BY <2>2, LenProperties, ElementOfSeq
    <3>2. PICK n : n = there[i]
      OBVIOUS
    <3>3. [disk[n] EXCEPT !.of = Place(n)] = disk[n] /\ n \in Names
      BY <2>3, <3>1, <3>2 DEF Texts
    <3>4. i \in DOMAIN found' /\ found'[i] = File(Place(n), n, disk[n])
      BY <2>1, <3>2, <3>3 DEF ReadAs
    <3>5. QED
      BY <2>3, <3>1, <3>2, <3>4 DEF File, Files
  <2>5. DOMAIN found' = DOMAIN there /\ found' \in Seq(Files)
    <3>1. DOMAIN found' = DOMAIN there
      BY <2>1
    <3>2. DOMAIN there = 1..Len(there) /\ Len(there) \in Nat
      BY <2>2, LenProperties
    <3>3. found' \in [1..Len(there) -> Files]
      BY <2>1, <2>4, <3>2
    <3>4. QED
      BY <3>1, <3>2, <3>3, SeqDef
  <2>6. FoundInv'
    BY <2>2, <2>3, <2>4, <2>5 DEF FoundInv
  <2>7. FoundInFolder'
    <3>1. \A n \in names : \E i \in DOMAIN there : there[i] = n
      BY <2>2 DEF Range
    <3>2. \A n \in Names : disk[n] = Absent \/ \E i \in DOMAIN found' : found'[i].name = n
      BY <2>4, <2>5, <3>1
    <3>3. QED
      BY <1>1, <2>4, <2>5, <3>2 DEF FoundInFolder
  <2>8. ReadingInv'
    BY <1>1, <1>3, <2>6, <2>7 DEF ReadingInv, LegacyInv, FolderTexts
  <2>9. failures' \in 0..MaxFailures
    BY <1>1, <1>3 DEF CountersInv
  <2>10. QED
    BY <1>1, <1>3, <2>8, <2>9, ReadingKeeps DEF Types
<1>4. QED
  BY <1>2, <1>3 DEF ServerLists

LEMMA MigrateStep ==
  ASSUME Agreement, MigrateFile
  PROVE  Agreement'
<1>1. PICK name : name = Head(legacy)
  OBVIOUS
<1>2. PICK k : k = Place(name)
  OBVIOUS
<1>3. PICK text : text = Text(k, 0)
  OBVIOUS
<1>4. /\ load = "migrating" /\ legacy # <<>> /\ legacy' = Tail(legacy)
      /\ \/ /\ disk' = [disk EXCEPT ![name] = text]
            /\ found' = Append(found, File(text.of, name, text))
            /\ UNCHANGED <<failures, doubtful>>
         \/ /\ failures < MaxFailures /\ failures' = failures + 1 /\ UNCHANGED found
            /\ \/ /\ \E w \in {text, Torn(text)} : disk' = [disk EXCEPT ![name] = w]
                  /\ doubtful' = doubtful \cup {text.of}
               \/ UNCHANGED <<disk, doubtful>>
      /\ UNCHANGED <<overwritten, load, files, cur, tab, raw, dirty, due, saveErr, pane, calls,
                     edits, nameOps, unsaved>>
  BY <1>1, <1>2, <1>3 DEF MigrateFile
<1>5. /\ Types /\ CountersInv /\ FoundInv /\ LegacyInv /\ FolderTexts /\ FoundInFolder
      /\ \A i \in DOMAIN found, j \in DOMAIN legacy : found[i].name # legacy[j]
  BY <1>4 DEF Agreement, ReadingInv
<1>6. /\ legacy \in Seq(Names) /\ DOMAIN legacy = 1..Len(legacy) /\ 1 \in DOMAIN legacy
      /\ legacy' \in Seq(Names)
      /\ \A i \in DOMAIN legacy' : i + 1 \in DOMAIN legacy /\ legacy'[i] = legacy[i + 1]
      /\ DOMAIN legacy' \subseteq Nat \ {0} /\ name = legacy[1]
  <2>1. legacy \in Seq(Names)
    BY <1>5 DEF LegacyInv
  <2>2. /\ Len(legacy) \in Nat \ {0} /\ DOMAIN legacy = 1..Len(legacy)
    BY <1>4, <2>1, EmptySeq, LenProperties
  <2>3. /\ Tail(legacy) \in Seq(Names) /\ Len(Tail(legacy)) = Len(legacy) - 1
        /\ \A i \in 1..Len(Tail(legacy)) : Tail(legacy)[i] = legacy[i + 1]
        /\ DOMAIN Tail(legacy) = 1..Len(Tail(legacy))
    BY <1>4, <2>1, HeadTailProperties, LenProperties
  <2>4. Head(legacy) = legacy[1]
    OBVIOUS
  <2>5. QED
    BY <1>1, <1>4, <2>1, <2>2, <2>3, <2>4
<1>7. name \in Names /\ name \in Range(Initial)
  BY <1>5, <1>6, ElementOfSeq DEF LegacyInv
<1>8. k = Place(name) /\ k \in Ids
  BY <1>2, <1>7, Places
<1>9. 0 \in 0..MaxEdits /\ k \in Ids
  BY <1>8, Numbers
<1>10. text \in Texts /\ text.of = k /\ Torn(text) \in Texts /\ Torn(text).of = k
  BY <1>3, <1>9, TextTypes
<1>11. LegacyInv'
  BY <1>5, <1>6 DEF LegacyInv
<1>12. \A j \in DOMAIN legacy' : legacy'[j] # name
  BY <1>5, <1>6 DEF LegacyInv
<1>13. CASE /\ disk' = [disk EXCEPT ![name] = text]
            /\ found' = Append(found, File(text.of, name, text))
            /\ UNCHANGED <<failures, doubtful>>
  <2>1. PICK f : f = File(k, name, text)
    OBVIOUS
  <2>2. f \in Files /\ f.id = k /\ f.name = name /\ f.text = text
    BY <1>7, <1>9, <1>10, <2>1 DEF File, Files
  <2>3. /\ found' \in Seq(Files) /\ DOMAIN found' = 1..Len(found) + 1
        /\ DOMAIN found = 1..Len(found) /\ Len(found) \in Nat
        /\ \A i \in DOMAIN found : found'[i] = found[i]
        /\ found'[Len(found) + 1] = f
    <3>1. found \in Seq(Files) /\ found' = Append(found, f)
      BY <1>5, <1>10, <1>13, <2>1 DEF FoundInv
    <3>2. QED
      BY <2>2, <3>1, LenProperties, AppendProperties
  <2>4. \A i \in DOMAIN found' :
          (i \in DOMAIN found /\ found'[i] = found[i]) \/ (i = Len(found) + 1 /\ found'[i] = f)
    BY <2>3
  <2>5. \A i \in DOMAIN found : found[i].name # name
    BY <1>5, <1>6
  <2>6. FoundInv'
    BY <1>5, <1>8, <1>10, <2>2, <2>3, <2>4, <2>5 DEF FoundInv
  <2>7. /\ disk' \in [Names -> Texts] /\ disk'[name] = text
        /\ \A n \in Names : n # name => disk'[n] = disk[n]
    BY <1>5, <1>7, <1>10, <1>13 DEF Types
  <2>8. \A i \in DOMAIN found : found[i].name \in Names
    <3>1. \A i \in DOMAIN found : found[i] \in Files
      BY <1>5, LenProperties, ElementOfSeq DEF FoundInv
    <3>2. QED
      BY <3>1 DEF Files
  <2>9. FoundInFolder'
    <3>1. \A i \in DOMAIN found' : disk'[found'[i].name] = found'[i].text
      BY <1>5, <2>2, <2>4, <2>5, <2>7, <2>8 DEF FoundInFolder
    <3>2. ASSUME NEW n \in Names
          PROVE  \/ disk'[n] = Absent \/ disk'[n].of \in doubtful'
                 \/ \E i \in DOMAIN found' : found'[i].name = n
      <4>1. CASE n = name
        BY <2>2, <2>3, <4>1
      <4>2. CASE n # name
        BY <1>5, <1>13, <2>3, <2>7, <3>2, <4>2 DEF FoundInFolder
      <4>3. QED
        BY <4>1, <4>2
    <3>3. QED
      BY <3>1, <3>2 DEF FoundInFolder
  <2>10. \A i \in DOMAIN found', j \in DOMAIN legacy' : found'[i].name # legacy'[j]
    BY <1>5, <1>6, <1>12, <2>2, <2>4
  <2>11. FolderTexts'
    BY <1>5, <1>9, <1>10, <2>7 DEF FolderTexts
  <2>12. ReadingInv'
    BY <1>4, <1>11, <2>6, <2>9, <2>10, <2>11 DEF ReadingInv
  <2>13. failures' \in 0..MaxFailures /\ doubtful' \subseteq Ids
    BY <1>5, <1>13 DEF CountersInv, Types
  <2>14. QED
    BY <1>4, <2>7, <2>12, <2>13, ReadingKeeps
<1>14. CASE /\ failures < MaxFailures /\ failures' = failures + 1 /\ UNCHANGED found
            /\ \/ /\ \E w \in {text, Torn(text)} : disk' = [disk EXCEPT ![name] = w]
                  /\ doubtful' = doubtful \cup {text.of}
               \/ UNCHANGED <<disk, doubtful>>
  <2>1. failures' \in 0..MaxFailures /\ doubtful' \subseteq Ids /\ doubtful \subseteq doubtful'
    BY <1>5, <1>9, <1>10, <1>14, Numbers DEF CountersInv, Types
  <2>2. /\ disk' \in [Names -> Texts] /\ \A n \in Names : n # name => disk'[n] = disk[n]
        /\ disk'[name] = disk[name] \/ disk'[name].of \in doubtful'
    BY <1>5, <1>7, <1>10, <1>14 DEF Types
  <2>3. \A i \in DOMAIN found : found[i].name \in Names /\ found[i].name # name
    <3>1. \A i \in DOMAIN found : found[i] \in Files
      BY <1>5, LenProperties, ElementOfSeq DEF FoundInv
    <3>2. QED
      BY <1>5, <1>6, <3>1 DEF Files
  <2>4. FoundInFolder'
    <3>1. \A i \in DOMAIN found' : disk'[found'[i].name] = found'[i].text
      BY <1>5, <1>14, <2>2, <2>3 DEF FoundInFolder
    <3>2. ASSUME NEW n \in Names
          PROVE  \/ disk'[n] = Absent \/ disk'[n].of \in doubtful'
                 \/ \E i \in DOMAIN found' : found'[i].name = n
      BY <1>5, <1>14, <2>1, <2>2 DEF FoundInFolder
    <3>3. QED
      BY <3>1, <3>2 DEF FoundInFolder
  <2>5. \A i \in DOMAIN found', j \in DOMAIN legacy' : found'[i].name # legacy'[j]
    BY <1>5, <1>6, <1>14
  <2>6. FolderTexts'
    BY <1>5, <2>1, <2>2 DEF FolderTexts
  <2>7. FoundInv'
    BY <1>5, <1>14 DEF FoundInv
  <2>8. ReadingInv'
    BY <1>4, <1>11, <2>4, <2>5, <2>6, <2>7 DEF ReadingInv
  <2>9. QED
    BY <1>4, <2>1, <2>2, <2>8, ReadingKeeps
<1>15. QED
  BY <1>4, <1>13, <1>14

(* The list is shown: it is what is in the folder. *)
LEMMA ShowStep ==
  ASSUME Agreement, load \in {"listed", "migrating"}, ShowFiles(found),
         UNCHANGED <<folder, legacy, tab, dirty, due, saveErr, pane, calls, counters, history>>
  PROVE  Agreement'
<1>1. /\ UNCHANGED <<disk, overwritten, legacy, tab, dirty, due, saveErr, naming, busy, calls,
                     edits, nameOps, failures, doubtful, unsaved>>
      /\ load' = "done" /\ files' = found /\ found' = <<>>
      /\ cur' = IF found = <<>> THEN 0 ELSE Head(found).id
      /\ raw' = IF found # <<>> /\ tab = "raw" THEN Head(found).text ELSE raw
  BY DEF ShowFiles, folder, pane, counters, history
<1>2. /\ dirty = {} /\ due = {} /\ unsaved = {} /\ naming \in {Closed, NewName} /\ ~busy
      /\ calls = EmptyBag /\ Types /\ CallsInv /\ CountersInv /\ FoundInv /\ LegacyInv /\ FolderTexts
      /\ FoundInFolder
  BY DEF Agreement, Early, ReadingInv
<1>3. /\ found \in Seq(Files) /\ DOMAIN found = 1..Len(found) /\ Len(found) \in Nat
      /\ \A i \in DOMAIN found : found[i] \in Files /\ found[i].text.of = found[i].id
                                 /\ found[i].id = Place(found[i].name)
                                 /\ found[i].name \in Names
  <2>1. found \in Seq(Files) /\ DOMAIN found = 1..Len(found) /\ Len(found) \in Nat
    BY <1>2, LenProperties DEF FoundInv
  <2>2. \A i \in DOMAIN found : found[i] \in Files
    BY <2>1, ElementOfSeq
  <2>3. \A i \in DOMAIN found : found[i].name \in Names
    BY <2>2 DEF Files
  <2>4. QED
    BY <1>2, <2>1, <2>2, <2>3 DEF FoundInv
<1>4. OneEach(files')
  BY <1>1, <1>2, <1>3, Places DEF FoundInv, OneEach
<1>5. ListInv'
  <2>1. ASSUME NEW i \in DOMAIN found PROVE found[i].id <= NextId'
    <3>1. found[i].id \in 1..Len(Order) /\ NextId' = Len(Order) + nameOps /\ nameOps \in Nat
      BY <1>1, <1>2, <1>3, Places, Numbers DEF NextId, CountersInv
    <3>2. QED
      BY <3>1, Numbers
  <2>2. QED
    BY <1>1, <1>3, <1>4, <2>1 DEF ListInv
<1>6. ASSUME found # <<>>
      PROVE  /\ Listed(cur)' /\ cur' \in Ids /\ Named(cur)' = Head(found)
             /\ Head(found).text \in Texts /\ Head(found).text.of = cur'
  <2>1. 1 \in DOMAIN found /\ Head(found) = found[1]
    BY <1>3, <1>6, EmptySeq
  <2>2. PICK id : id = found[1].id
    OBVIOUS
  <2>3. Listed(id)' /\ Named(id)' = found[1]
    BY <1>1, <1>4, <2>1, <2>2, AtIndexNext
  <2>4. QED
    BY <1>1, <1>3, <1>6, <2>1, <2>2, <2>3 DEF Files, Listed, Named
<1>7. raw' \in Texts /\ Drafts' /\ DraftInv'
  <2>1. \A f \in Range(files') : f.text.of = f.id
    BY <1>1, <1>3 DEF Range
  <2>2. CASE found = <<>>
    BY <1>1, <1>2, <2>1, <2>2 DEF Drafts, DraftInv, Types
  <2>3. CASE found # <<>>
    BY <1>1, <1>2, <1>6, <2>1, <2>3 DEF Drafts, DraftInv, Types
  <2>4. QED
    BY <2>2, <2>3
<1>8. Types'
  <2>1. Range(files') \subseteq Files /\ Range(found') \subseteq Files
    <3>1. Range(<<>>) = {}
      BY DEF Range
    <3>2. QED
      BY <1>1, <1>3, <3>1, OnList
  <2>2. \A o : Listed(o)' <=> o \in {f.id : f \in Range(files')}
    BY DEF Listed, Range
  <2>3. dirty' \cup due' \cup ({cur'} \ {0}) \subseteq {f.id : f \in Range(files')}
    <3>1. cur' = 0 \/ Listed(cur)'
      BY <1>1, <1>6
    <3>2. QED
      BY <1>1, <1>2, <2>2, <3>1
  <2>4. QED
    BY <1>1, <1>2, <1>7, <2>1, <2>3 DEF Types
<1>9. CallsInv' /\ CountersInv' /\ Early'
  <2>1. ASSUME naming # Closed, NEW i \in DOMAIN found PROVE found[i].id # NextId'
    <3>1. /\ found[i].id \in 1..Len(Order) /\ NextId' = Len(Order) + nameOps
          /\ nameOps \in Nat /\ nameOps >= 1
      BY <1>1, <1>2, <1>3, <2>1, Places, Numbers DEF NextId, CountersInv
    <3>2. QED
      BY <3>1, Numbers
  <2>2. naming = NewName => ~Listed(NextId)'
    BY <1>1, <2>1 DEF Listed, Closed, NewName
  <2>3. QED
    BY <1>1, <1>2, <2>2 DEF CallsInv, CountersInv, Early
<1>10. ReadingInv'
  <2>1. FoundInv'
    <3>1. <<>> \in Seq(Files) /\ DOMAIN <<>> = {}
      BY EmptySeq
    <3>2. QED
      BY <1>1, <3>1 DEF FoundInv
  <2>2. QED
    BY <1>1, <1>2, <2>1 DEF ReadingInv, LegacyInv, FolderTexts
<1>11. DOMAIN calls = {} /\ NamingInv'
  BY <1>1, <1>2 DEF EmptyBag, SetToBag, NamingInv, NameOps
<1>12. ASSUME NEW id \in Ids \ AtRisk PROVE Placed(id)' /\ Saved(id)'
  <2>1. InFlight(id)' = {}
    BY <1>1, <1>11 DEF InFlight, BagToSet
  <2>2. ASSUME NEW n \in Names, disk[n].of = id
        PROVE  Listed(id)' /\ Named(id)'.name = n /\ disk[n] = Named(id)'.text
    <3>1. disk[n] # Absent /\ disk[n].of \notin doubtful
      BY <1>12, <2>2, TextTypes, Numbers DEF AtRisk
    <3>2. PICK i \in DOMAIN found : found[i].name = n
      BY <1>2, <3>1 DEF FoundInFolder
    <3>3. disk[n] = found[i].text /\ found[i].id = id
      BY <1>2, <1>3, <2>2, <3>2 DEF FoundInFolder
    <3>4. Listed(id)' /\ Named(id)' = found[i]
      BY <1>1, <1>4, <3>2, <3>3, AtIndexNext
    <3>5. QED
      BY <3>2, <3>3, <3>4
  <2>3. ASSUME Listed(id)'
        PROVE  /\ Named(id)'.name \in Names /\ disk[Named(id)'.name].of = id
               /\ Named(id)'.id = id
    <3>1. PICK i \in DOMAIN files' : files'[i].id = id
      BY <2>3 DEF Listed
    <3>2. Named(id)' = files'[i]
      BY <1>4, <3>1, AtIndexNext
    <3>3. QED
      BY <1>1, <1>2, <1>3, <3>1, <3>2 DEF FoundInFolder, Files
  <2>4. Where(id)' = IF Listed(id)' THEN {Named(id)'.name} ELSE {}
    BY <1>1, <2>2, <2>3 DEF Where
  <2>5. ASSUME Listed(id)' PROVE Seen(id)' = Named(id)'.text
    BY <1>1, <1>2, <2>3, <2>5, <1>7, <1>12, Numbers DEF Seen, Content, DraftInv
  <2>6. Placed(id)'
    BY <2>1, <2>4 DEF Placed
  <2>7. Saved(id)'
    BY <1>1, <2>1, <2>2, <2>5 DEF Saved, Where
  <2>8. QED
    BY <2>6, <2>7
<1>13. FolderInv'
  <2>1. AtRisk' = AtRisk /\ \A id : InFlight(id)' = {}
    BY <1>1, <1>11 DEF AtRisk, InFlight, BagToSet
  <2>2. QED
    BY <1>12, <2>1 DEF FolderInv, Kept, Alone
<1>14. QED
  BY <1>5, <1>7, <1>8, <1>9, <1>10, <1>11, <1>13 DEF Agreement

LEMMA ArriveStep ==
  ASSUME Agreement, FilesArrive \/ MigrationEnds
  PROVE  Agreement'
<1>1. /\ Types /\ ReadingInv /\ CountersInv
      /\ UNCHANGED <<folder, legacy, tab, dirty, due, saveErr, pane, calls, counters, history>>
  BY DEF Agreement, FilesArrive, MigrationEnds
<1>2. CASE load \in {"listed", "migrating"} /\ ShowFiles(found)
  BY <1>1, <1>2, ShowStep
<1>3. CASE /\ UNCHANGED <<found, files, cur, raw>>
           /\ \/ load = "listed" /\ load' = "migrating" /\ found = <<>>
              \/ load = "unanswered" /\ load' = "failed"
  <2>1. /\ disk' \in [Names -> Texts] /\ doubtful' \subseteq Ids /\ failures' \in 0..MaxFailures
        /\ UNCHANGED overwritten
    BY <1>1 DEF Types, CountersInv, folder, counters, history
  <2>2. FoundInv' /\ LegacyInv' /\ FolderTexts' /\ (FoundInFolder => FoundInFolder')
    BY <1>1, <1>3 DEF ReadingInv, FoundInv, LegacyInv, FolderTexts, FoundInFolder, folder, history
  <2>3. ReadingInv'
    BY <1>1, <1>3, <2>2 DEF ReadingInv
  <2>4. QED
    BY <1>1, <1>3, <2>1, <2>3, ReadingKeeps DEF counters, history
<1>4. QED
  BY <1>2, <1>3 DEF FilesArrive, MigrationEnds

-----------------------------------------------------------------------------
(* The page, whatever is on its list *)

(* What the invariant of the page says besides the types: its calls are calls, its  *)
(* lists lists of files with texts of their own, one call at most creates, renames *)
(* or deletes a file, and the list replaces the files there were only once.        *)
Counts ==
  /\ edits \in 0..MaxEdits /\ nameOps \in 0..MaxNameOps /\ failures \in 0..MaxFailures
  /\ naming # Closed => nameOps >= 1

OneOp ==
  /\ busy <=> NameOps # {}
  /\ \A c, d \in NameOps : c = d
  /\ \A c \in NameOps : calls[c] = 1

Lists ==
  /\ files \in Seq(Files) /\ found \in Seq(Files) /\ legacy \in Seq(Names)
  /\ \A i \in DOMAIN found : found[i].text.of = found[i].id
  /\ load # "done" => cut = {}

PageInv == TypeOK /\ CallsInv /\ Counts /\ OneOp /\ Lists

Known == {f.id : f \in Range(files) \cup cut}

LEMMA ListedFile ==
  ASSUME PageInv, NEW id, Listed(id)
  PROVE  /\ id \in Known /\ id \in Ids /\ id # 0
         /\ Named(id) \in Range(files) /\ Named(id) \in Files /\ Named(id).id = id
         /\ Named(id).text.of = id
         /\ Index(id) \in DOMAIN files /\ files[Index(id)].id = id /\ files[Index(id)] \in Files
<1>1. PICK i \in DOMAIN files : files[i].id = id
  BY DEF Listed
<1>2. Index(id) \in DOMAIN files /\ files[Index(id)].id = id
  BY <1>1 DEF Index
<1>3. files[Index(id)] \in Range(files) /\ Range(files) \subseteq Files
  BY <1>2 DEF Range, PageInv, TypeOK
<1>4. \E f \in Range(files) : f.id = id
  BY <1>2, <1>3
<1>5. Named(id) \in Range(files) /\ Named(id).id = id
  BY <1>4 DEF Named
<1>6. QED
  BY <1>2, <1>3, <1>5, Numbers DEF Known, Files, PageInv, TypeOK, NoForeignDraft

LEMMA OfTheList ==
  ASSUME PageInv, NEW f \in Range(files)
  PROVE  Listed(f.id) /\ f \in Files /\ f.text \in Texts /\ f.text.of = f.id /\ f.id \in Ids
  BY DEF Listed, Range, PageInv, TypeOK, NoForeignDraft, Files

(* A new text of a file of the list. *)
LEMMA NewText ==
  ASSUME PageInv, NEW id, Listed(id), Change(id)
  PROVE  /\ edits' \in 0..MaxEdits
         /\ Text(id, edits + 1) \in Texts /\ Text(id, edits + 1).of = id
         /\ files' \in Seq(Files) /\ \A f \in Range(files') : f.text.of = f.id
         /\ \A o : Listed(o)' <=> Listed(o)
<1>1. edits + 1 \in 0..MaxEdits /\ edits' = edits + 1
  BY Numbers DEF Change, CountEdit, PageInv, Counts
<1>2. /\ Index(id) \in DOMAIN files /\ files[Index(id)].id = id /\ files[Index(id)] \in Files
      /\ id \in Ids
  BY ListedFile
<1>3. PICK text : text = Text(id, edits + 1)
  OBVIOUS
<1>4. text \in Texts /\ text.of = id
  BY <1>1, <1>2, <1>3, TextTypes
<1>5. PICK f : f = [files[Index(id)] EXCEPT !.text = text]
  OBVIOUS
<1>6. f \in Files /\ f.id = id /\ f.text = text
  BY <1>2, <1>4, <1>5 DEF Files
<1>7. files' = [files EXCEPT ![Index(id)] = f] /\ files \in Seq(Files)
  BY <1>3, <1>5 DEF Change, WithText, PageInv, Lists
<1>8. files' \in Seq(Files) /\ DOMAIN files' = DOMAIN files
  BY <1>2, <1>6, <1>7, ExceptSeq, LenProperties
<1>9. \A i \in DOMAIN files : files'[i] = IF i = Index(id) THEN f ELSE files[i]
  BY <1>7
<1>10. ASSUME NEW i \in DOMAIN files'
       PROVE  files'[i].text.of = files'[i].id /\ files'[i].id = files[i].id
  <2>1. files[i].text.of = files[i].id
    BY <1>8, <1>10, OfTheList DEF Range
  <2>2. QED
    BY <1>2, <1>4, <1>6, <1>8, <1>9, <1>10, <2>1
<1>11. \A o : Listed(o)' <=> Listed(o)
  BY <1>8, <1>10 DEF Listed
<1>12. \A g \in Range(files') : g.text.of = g.id
  BY <1>10 DEF Range
<1>13. QED
  BY <1>1, <1>3, <1>4, <1>8, <1>11, <1>12

(* The editor: texts, drafts and schedules change, and nothing else.            *)
LEMMA EditorPage ==
  ASSUME PageInv,
         UNCHANGED <<folder, reading, saveErr, pane, calls, nameOps, failures, doubtful>>,
         files' \in Seq(Files), \A f \in Range(files') : f.text.of = f.id,
         \A o : Listed(o)' <=> Listed(o),
         edits' \in 0..MaxEdits, tab' \in {"raw", "form"}, raw' \in Texts,
         tab' = "raw" /\ cur' # 0 => raw'.of = cur', cur' = 0 \/ Listed(cur'),
         \A id \in dirty' \cup due' : id \in dirty \cup due \/ Listed(id),
         \A id \in unsaved' : id \in unsaved \/ Listed(id)
  PROVE  PageInv'
<1>1. /\ TypeOK /\ CallsInv /\ Counts /\ OneOp /\ Lists
      /\ UNCHANGED <<disk, overwritten, legacy, load, found, blind, cut, saveErr, naming, busy,
                     calls, nameOps, failures, doubtful>>
  BY DEF PageInv, folder, reading, pane
<1>2. CallsInv' /\ Counts' /\ OneOp' /\ Lists'
  BY <1>1 DEF CallsInv, Counts, OneOp, NameOps, Lists
<1>3. Range(files') \subseteq Files
  BY OnList
<1>4. \A id : Listed(id) => id \in Ids
  BY ListedFile
<1>5. Known \subseteq Known'
  <2>1. \A id : id \in Known <=> Listed(id) \/ \E f \in cut : f.id = id
    BY DEF Known, Listed, Range
  <2>2. \A id : id \in Known' <=> Listed(id)' \/ \E f \in cut' : f.id = id
    BY DEF Known, Listed, Range
  <2>3. QED
    BY <1>1, <2>1, <2>2
<1>6. dirty' \cup due' \subseteq Known'
  BY <1>1, <1>5, ListedFile DEF Known, TypeOK
<1>7. TypeOK'
  BY <1>1, <1>3, <1>4, <1>6 DEF TypeOK, NoForeignDraft, Known
<1>8. QED
  BY <1>2, <1>7 DEF PageInv

LEMMA EditorSteps ==
  ASSUME PageInv, Edit \/ EmptyDraft \/ Duplicate \/ AddRequest \/ SelectRequest \/ OpenFile \/ SetTab
  PROVE  PageInv'
<1>1. /\ files \in Seq(Files) /\ \A f \in Range(files) : f.text.of = f.id
      /\ edits \in 0..MaxEdits /\ tab \in {"raw", "form"} /\ raw \in Texts
      /\ (tab = "raw" /\ cur # 0 => raw.of = cur) /\ (cur = 0 \/ Listed(cur))
  BY DEF PageInv, TypeOK, NoForeignDraft, Counts, Lists
<1>2. UNCHANGED files => \A o : Listed(o)' <=> Listed(o)
  BY DEF Listed
<1>3. CASE Edit \/ Duplicate
  <2>1. Listed(cur) /\ Change(cur)
    BY <1>1, <1>3 DEF Edit, Duplicate
  <2>2. /\ UNCHANGED <<folder, reading, cur, tab, saveErr, pane, calls, nameOps, failures, doubtful>>
        /\ raw' = IF tab = "raw" THEN Text(cur, edits + 1) ELSE raw
        /\ \A id \in dirty' \cup due' \cup unsaved' : id \in dirty \cup due \/ id \in unsaved \/ id = cur
        /\ dirty' \cup due' \subseteq dirty \cup due \cup {cur} /\ unsaved' \subseteq unsaved \cup {cur}
    BY <1>3 DEF Edit, Duplicate, Touch, Scheduled, history
  <2>3. QED
    BY <1>1, <2>1, <2>2, NewText, EditorPage
<1>4. CASE EmptyDraft
  <2>1. /\ UNCHANGED <<folder, reading, files, cur, tab, dirty, due, saveErr, pane, calls, nameOps,
                       failures, doubtful>>
        /\ Listed(cur) /\ unsaved' = unsaved \cup {cur} /\ edits < MaxEdits /\ edits' = edits + 1
        /\ raw' = [Text(cur, edits + 1) EXCEPT !.empty = TRUE]
    BY <1>1, <1>4 DEF EmptyDraft, CountEdit
  <2>2. cur \in Ids /\ edits + 1 \in 0..MaxEdits
    BY <1>1, <2>1, ListedFile, Numbers
  <2>3. raw' \in Texts /\ raw'.of = cur
    BY <2>1, <2>2, TextTypes
  <2>4. QED
    BY <1>1, <1>2, <2>1, <2>2, <2>3, EditorPage
<1>5. CASE AddRequest
  <2>1. PICK f \in Range(files) :
          /\ Change(f.id) /\ cur' = f.id
          /\ raw' = IF tab = "raw" THEN Text(f.id, edits + 1) ELSE Absent
          /\ dirty' = dirty \cup {f.id} /\ unsaved' = unsaved \cup {f.id}
    BY <1>5 DEF AddRequest
  <2>2. UNCHANGED <<folder, reading, tab, due, saveErr, pane, calls, nameOps, failures, doubtful>>
    BY <1>5 DEF AddRequest
  <2>3. PICK id : id = f.id
    OBVIOUS
  <2>4. Listed(id)
    BY <2>3, OfTheList
  <2>5. QED
    BY <1>1, <2>1, <2>2, <2>3, <2>4, NewText, TextTypes, EditorPage
<1>6. CASE SelectRequest \/ OpenFile
  <2>1. UNCHANGED <<folder, reading, files, dirty, due, saveErr, pane, calls, counters, history>>
    BY <1>6 DEF SelectRequest, OpenFile
  <2>2. PICK f \in Range(files) :
          /\ cur' = f.id
          /\ \/ raw' = DraftOn(f.id) /\ UNCHANGED tab
             \/ raw' = f.text /\ tab' = "raw"
    BY <1>6 DEF SelectRequest, OpenFile, Shows
  <2>3. /\ Listed(f.id) /\ f.text \in Texts /\ f.text.of = f.id /\ f.id # 0
        /\ Named(f.id).text \in Texts /\ Named(f.id).text.of = f.id
    BY OfTheList, ListedFile DEF Files
  <2>4. raw' \in Texts /\ tab' \in {"raw", "form"} /\ (tab' = "raw" => raw'.of = cur')
    BY <1>1, <2>2, <2>3, TextTypes DEF DraftOn
  <2>5. QED
    BY <1>1, <1>2, <2>1, <2>2, <2>3, <2>4, EditorPage DEF counters, history
<1>7. CASE SetTab
  <2>1. /\ UNCHANGED <<folder, reading, files, cur, saveErr, pane, calls, nameOps, failures, history>>
        /\ \/ UNCHANGED <<dirty, due, edits>>
           \/ /\ cur # 0 /\ dirty' = dirty \cup {cur} /\ due' = due \cup {cur}
              /\ edits < MaxEdits /\ edits' = edits + 1
        /\ \/ tab' = "form" /\ raw' = Absent
           \/ tab' = "raw" /\ cur # 0 /\ raw' = Named(cur).text
    BY <1>7 DEF SetTab, Touch, Scheduled, CountEdit
  <2>2. cur # 0 => Named(cur).text \in Texts /\ Named(cur).text.of = cur
    BY <1>1, ListedFile DEF Files
  <2>3. /\ edits' \in 0..MaxEdits /\ raw' \in Texts /\ tab' \in {"raw", "form"}
        /\ (tab' = "raw" /\ cur' # 0 => raw'.of = cur')
    BY <1>1, <2>1, <2>2, TextTypes, Numbers
  <2>4. \A id \in dirty' \cup due' : id \in dirty \cup due \/ Listed(id)
    BY <1>1, <2>1
  <2>5. QED
    BY <1>1, <1>2, <2>1, <2>3, <2>4, EditorPage DEF history
<1>8. QED
  BY <1>3, <1>4, <1>5, <1>6, <1>7

(* A call is made, and the name field may change. *)
LEMMA CallPage ==
  ASSUME PageInv, NEW c \in CallType, c.stage = "sent",
         c.kind \in {"put", "create"} => c.to = c.name /\ c.text.of = c.file,
         Call(c.kind, c.file, c.name, c.to, c.text),
         IF c.kind = "put" THEN UNCHANGED busy ELSE ~busy /\ busy' = TRUE,
         UNCHANGED <<folder, legacy, load, found, cut, files, cur, tab, raw, dirty, saveErr,
                     failures, unsaved>>,
         blind' \in BOOLEAN, due' \subseteq due, edits' \in 0..MaxEdits,
         nameOps' \in 0..MaxNameOps, nameOps' >= nameOps, naming' = naming
  PROVE  PageInv'
<1>1. /\ TypeOK /\ CallsInv /\ Counts /\ OneOp /\ Lists
      /\ UNCHANGED <<disk, overwritten, legacy, load, found, cut, files, cur, tab, raw, dirty,
                     saveErr, failures, unsaved>>
  BY DEF PageInv, folder
<1>2. PICK file : file = c.file
  OBVIOUS
<1>3. c = [kind |-> c.kind, file |-> file, name |-> c.name, to |-> c.to, text |-> c.text,
           stage |-> "sent"] /\ file \in Ids
  BY <1>2 DEF CallType
<1>4. /\ IsBag(calls') /\ DOMAIN calls' = DOMAIN calls \cup {c}
      /\ \A d \in DOMAIN calls : d # c => calls'[d] = calls[d]
      /\ c \notin DOMAIN calls => calls'[c] = 1
      /\ doubtful' \subseteq doubtful \cup {file}
  <2> HIDE DEF Call
  <2>1. QED
    BY <1>1, <1>2, <1>3, Made
<1>5. CallsInv'
  BY <1>1, <1>4 DEF CallsInv
<1>6. OneOp'
  <2>1. CASE c.kind = "put"
    <3>1. NameOps' = NameOps /\ \A d \in NameOps : calls'[d] = calls[d]
      BY <1>4, <2>1 DEF NameOps
    <3>2. QED
      BY <1>1, <2>1, <3>1 DEF OneOp
  <2>2. CASE c.kind # "put"
    <3>1. NameOps = {} /\ c \notin DOMAIN calls
      BY <1>1, <2>2 DEF OneOp, NameOps
    <3>2. NameOps' = {c} /\ calls'[c] = 1
      BY <1>4, <2>2, <3>1 DEF NameOps
    <3>3. QED
      BY <2>2, <3>2 DEF OneOp
  <2>3. QED
    BY <2>1, <2>2
<1>7. Counts' /\ Lists'
  BY <1>1, Numbers DEF Counts, Lists
<1>8. Listed(cur)' <=> Listed(cur)
  BY <1>1 DEF Listed
<1>9. busy' \in BOOLEAN
  BY <1>1 DEF TypeOK
<1>10. TypeOK'
  BY <1>1, <1>3, <1>4, <1>8, <1>9 DEF TypeOK, NoForeignDraft
<1>11. QED
  BY <1>5, <1>6, <1>7, <1>10 DEF PageInv

(* A file is written back, on the list or not. *)
LEMMA WriteBackPage ==
  ASSUME PageInv, NEW f \in Range(files) \cup cut, Persist(f), edits' \in 0..MaxEdits,
         UNCHANGED <<folder, reading, files, cur, tab, raw, dirty, saveErr, pane, nameOps, failures,
                     unsaved>>
  PROVE  PageInv'
<1>1. /\ f \in Files /\ f.text.of = f.id /\ raw \in Texts /\ busy \in BOOLEAN /\ blind \in BOOLEAN
      /\ (tab = "raw" /\ cur # 0 => raw.of = cur) /\ nameOps \in 0..MaxNameOps
  BY DEF PageInv, TypeOK, NoForeignDraft, Counts
<1>2. /\ f.id \in Ids /\ f.id # 0 /\ f.name \in Names
      /\ Content(f) \in Texts /\ Content(f).of = f.id
  BY <1>1, Numbers DEF Files, Content
<1>3. PICK c : c = [kind |-> "put", file |-> f.id, name |-> f.name, to |-> f.name,
                    text |-> Content(f), stage |-> "sent"]
  OBVIOUS
<1>4. /\ c \in CallType /\ c.stage = "sent" /\ c.kind = "put" /\ c.to = c.name
      /\ c.text.of = c.file /\ c.file = f.id /\ c.name = f.name /\ c.text = Content(f)
  BY <1>2, <1>3 DEF CallType
<1>5. Call(c.kind, c.file, c.name, c.to, c.text) /\ due' \subseteq due
  BY <1>4 DEF Persist
<1>6. /\ UNCHANGED <<folder, legacy, load, found, cut, files, cur, tab, raw, dirty, saveErr,
                     failures, unsaved, blind, busy, naming, nameOps>>
      /\ nameOps' >= nameOps /\ nameOps' \in 0..MaxNameOps /\ blind' \in BOOLEAN
  BY <1>1, Numbers DEF reading, pane
<1>7. QED
  BY <1>4, <1>5, <1>6, CallPage

LEMMA TimerSteps ==
  ASSUME PageInv, SaveNow \/ \E id \in Ids : TimerFires(id)
  PROVE  PageInv'
<1>1. TypeOK /\ edits \in 0..MaxEdits
  BY DEF PageInv, Counts
<1>2. ASSUME NEW id \in Ids, TimerFires(id) PROVE PageInv'
  <2>1. \E f \in Range(files) \cup cut : f.id = id
    BY <1>1, <1>2 DEF TimerFires, Fires, TypeOK
  <2>2. Object(id) \in Range(files) \cup cut
    BY <2>1 DEF Object
  <2>3. QED
    BY <1>1, <1>2, <2>2, WriteBackPage DEF TimerFires, counters
<1>3. ASSUME SaveNow PROVE PageInv'
  <2>1. Named(cur) \in Range(files) \cup cut /\ edits' \in 0..MaxEdits
    BY <1>1, <1>3, ListedFile, Numbers DEF SaveNow, CountEdit, TypeOK
  <2>2. QED
    BY <1>3, <2>1, WriteBackPage DEF SaveNow
<1>4. QED
  BY <1>2, <1>3

(* The name field opens and closes. *)
LEMMA FieldPage ==
  ASSUME PageInv, naming' \in {Closed, NewName} \cup {NameOf(id) : id \in Ids},
         naming' # Closed => nameOps' >= 1, nameOps' \in 0..MaxNameOps, busy' = busy,
         UNCHANGED <<folder, reading, files, cur, tab, raw, dirty, due, saveErr, calls, edits,
                     failures, history>>
  PROVE  PageInv'
<1>1. /\ TypeOK /\ CallsInv /\ Counts /\ OneOp /\ Lists
      /\ UNCHANGED <<disk, overwritten, legacy, load, found, blind, cut, files, cur, tab, raw,
                     dirty, due, saveErr, busy, calls, edits, failures, doubtful, unsaved>>
  BY DEF PageInv, folder, reading, history
<1>2. CallsInv' /\ Counts' /\ OneOp' /\ Lists'
  BY <1>1 DEF CallsInv, Counts, OneOp, NameOps, Lists
<1>3. Listed(cur)' <=> Listed(cur)
  BY <1>1 DEF Listed
<1>4. TypeOK'
  BY <1>1, <1>3 DEF TypeOK, NoForeignDraft
<1>5. QED
  BY <1>2, <1>4 DEF PageInv

LEMMA FieldSteps ==
  ASSUME PageInv, OpenNameField \/ CancelName \/ ConfirmName \/ DeleteFile
  PROVE  PageInv'
<1>1. TypeOK /\ Counts /\ OneOp /\ nameOps' >= nameOps
  BY Numbers DEF PageInv, Counts, OpenNameField, CancelName, ConfirmName, DeleteFile, CountNameOp,
                 counters
<1>2. CASE OpenNameField
  <2>1. /\ nameOps' \in 0..MaxNameOps /\ nameOps' >= 1 /\ busy' = busy
        /\ UNCHANGED <<folder, reading, files, cur, tab, raw, dirty, due, saveErr, calls, edits,
                       failures, history>>
    BY <1>1, <1>2, Numbers DEF OpenNameField, CountNameOp, Counts
  <2>2. naming' \in {Closed, NewName} \cup {NameOf(id) : id \in Ids}
    BY <1>2, OfTheList DEF OpenNameField
  <2>3. QED
    BY <2>1, <2>2, FieldPage
<1>3. CASE CancelName
  <2>1. /\ naming' = Closed /\ busy' = busy /\ nameOps' \in 0..MaxNameOps
        /\ UNCHANGED <<folder, reading, files, cur, tab, raw, dirty, due, saveErr, calls, edits,
                       failures, history>>
    BY <1>1, <1>3 DEF CancelName, BusyAfterCancel, counters, Counts
  <2>2. QED
    BY <2>1, FieldPage
<1>4. CASE ConfirmName
  <2>1. PICK name \in Names :
          IF naming = NewName
          THEN /\ Call("create", NextId, name, name, Text(NextId, 0))
               /\ busy' = TRUE /\ UNCHANGED naming
               /\ blind' = (blind \/ load # "done")
          ELSE IF Listed(naming.id)
          THEN /\ Call("rename", naming.id, Named(naming.id).name, name, Absent)
               /\ busy' = TRUE /\ UNCHANGED <<naming, blind>>
          ELSE naming' = Closed /\ busy' = FALSE /\ UNCHANGED <<calls, doubtful, blind>>
    BY <1>4 DEF ConfirmName
  <2>2. /\ UNCHANGED <<folder, legacy, load, found, cut, files, cur, tab, raw, dirty, due, saveErr,
                       counters, unsaved>>
        /\ naming # Closed /\ ~busy
    BY <1>4 DEF ConfirmName
  <2>3. /\ edits' \in 0..MaxEdits /\ nameOps' \in 0..MaxNameOps /\ UNCHANGED <<edits, failures>>
        /\ nameOps >= 1 /\ nameOps' = nameOps /\ blind \in BOOLEAN /\ busy \in BOOLEAN
    BY <1>1, <2>2 DEF counters, Counts, TypeOK
  <2>4. CASE naming = NewName
    <3>1. NextId \in Ids /\ 0 \in 0..MaxEdits
      BY <2>3, Numbers DEF NextId, Ids
    <3>2. Text(NextId, 0) \in Texts /\ Text(NextId, 0).of = NextId
      BY <3>1, TextTypes
    <3>3. PICK c : c = [kind |-> "create", file |-> NextId, name |-> name, to |-> name,
                        text |-> Text(NextId, 0), stage |-> "sent"]
      OBVIOUS
    <3>4. /\ c \in CallType /\ c.stage = "sent" /\ c.kind = "create" /\ c.to = name
          /\ c.name = name /\ c.file = NextId /\ c.text = Text(NextId, 0)
      BY <3>1, <3>2, <3>3 DEF CallType
    <3>5. /\ Call(c.kind, c.file, c.name, c.to, c.text) /\ busy' = TRUE /\ naming' = naming
          /\ blind' \in BOOLEAN
      BY <2>1, <2>4, <3>4
    <3>6. QED
      BY <1>1, <2>2, <2>3, <3>2, <3>4, <3>5, CallPage
  <2>5. CASE naming # NewName /\ Listed(naming.id)
    <3>1. PICK id : id = naming.id
      OBVIOUS
    <3>2. id \in Ids /\ Named(id).name \in Names
      BY <2>5, <3>1, ListedFile DEF Files
    <3>3. PICK c : c = [kind |-> "rename", file |-> id, name |-> Named(id).name, to |-> name,
                        text |-> Absent, stage |-> "sent"]
      OBVIOUS
    <3>4. /\ c \in CallType /\ c.stage = "sent" /\ c.kind = "rename" /\ c.to = name
          /\ c.name = Named(id).name /\ c.file = id /\ c.text = Absent
      BY <3>2, <3>3, TextTypes DEF CallType
    <3>5. /\ Call(c.kind, c.file, c.name, c.to, c.text) /\ busy' = TRUE /\ naming' = naming
          /\ blind' \in BOOLEAN
      BY <2>1, <2>3, <2>5, <3>1, <3>4
    <3>6. QED
      BY <1>1, <2>2, <2>3, <3>4, <3>5, CallPage
  <2>6. CASE naming # NewName /\ ~Listed(naming.id)
    <3>1. naming' = Closed /\ busy' = busy /\ UNCHANGED <<calls, doubtful, blind>>
      BY <2>1, <2>2, <2>3, <2>6
    <3>2. QED
      BY <2>2, <2>3, <3>1, FieldPage DEF reading, history
  <2>7. QED
    BY <2>4, <2>5, <2>6
<1>5. CASE DeleteFile
  <2>1. /\ UNCHANGED <<folder, reading, files, cur, tab, raw, dirty, due, saveErr, naming, edits,
                       failures, unsaved>>
        /\ ~busy /\ busy' = TRUE /\ Listed(cur) /\ nameOps < MaxNameOps /\ nameOps' = nameOps + 1
        /\ Call("delete", cur, Named(cur).name, Named(cur).name, Absent)
    BY <1>1, <1>5 DEF DeleteFile, CountNameOp, TypeOK
  <2>2. cur \in Ids /\ Named(cur).name \in Names
    BY <2>1, ListedFile DEF Files
  <2>3. PICK c : c = [kind |-> "delete", file |-> cur, name |-> Named(cur).name,
                      to |-> Named(cur).name, text |-> Absent, stage |-> "sent"]
    OBVIOUS
  <2>4. /\ c \in CallType /\ c.stage = "sent" /\ c.kind = "delete" /\ c.to = Named(cur).name
        /\ c.name = Named(cur).name /\ c.file = cur /\ c.text = Absent
    BY <2>2, <2>3, TextTypes DEF CallType
  <2>5. Call(c.kind, c.file, c.name, c.to, c.text)
    BY <2>1, <2>4
  <2>6. /\ UNCHANGED <<folder, legacy, load, found, blind, cut, files, cur, tab, raw, dirty, due,
                       saveErr, failures, unsaved>>
        /\ nameOps' \in 0..MaxNameOps /\ edits' \in 0..MaxEdits /\ blind' \in BOOLEAN
    BY <1>1, <2>1, Numbers DEF reading, Counts, TypeOK
  <2>7. QED
    BY <1>1, <2>1, <2>4, <2>5, <2>6, CallPage
<1>6. QED
  BY <1>2, <1>3, <1>4, <1>5

(* A call is served or fails. *)
LEMMA ServedPage ==
  ASSUME PageInv, ServeFrame, NEW call \in DOMAIN calls,
         NEW stage \in {"checked", "ok", "failed"}, stage # call.stage,
         stage = "checked" => call.kind = "rename", Becomes(call, stage),
         disk' \in [Names -> Texts], doubtful' \cup overwritten' \subseteq Ids,
         failures' \in 0..MaxFailures
  PROVE  PageInv'
<1>1. PICK d : d = [call EXCEPT !.stage = stage]
  OBVIOUS
<1>2. /\ TypeOK /\ CallsInv /\ Counts /\ OneOp /\ Lists
      /\ UNCHANGED <<legacy, load, found, blind, cut, files, cur, tab, raw, dirty, due, saveErr,
                     naming, busy, edits, nameOps, unsaved>>
  BY DEF PageInv, ServeFrame, reading, pane
<1>3. /\ d.kind = call.kind /\ CallsInv' /\ d.stage = stage
      /\ \A c \in DOMAIN calls \ {call, d} : c \in DOMAIN calls' /\ calls'[c] = calls[c]
      /\ d \in DOMAIN calls' /\ DOMAIN calls' \subseteq DOMAIN calls \cup {d}
      /\ calls[call] = 1 => call \notin DOMAIN calls'
      /\ d \notin DOMAIN calls => calls'[d] = 1
  BY <1>1, <1>2, MovesOn
<1>4. OneOp'
  <2>1. CASE call.kind = "put"
    <3>1. NameOps' = NameOps /\ \A c \in NameOps : calls'[c] = calls[c]
      BY <1>3, <2>1 DEF NameOps
    <3>2. QED
      BY <1>2, <3>1 DEF OneOp
  <2>2. CASE call.kind # "put"
    <3>1. call \in NameOps /\ NameOps = {call} /\ calls[call] = 1 /\ d # call
      BY <1>2, <1>3, <2>2 DEF OneOp, NameOps
    <3>2. d \notin DOMAIN calls
      BY <1>3, <2>2, <3>1 DEF NameOps
    <3>3. NameOps' = {d} /\ calls'[d] = 1
      <4>1. \A c \in NameOps' : c = d
        BY <1>3, <3>1 DEF NameOps
      <4>2. d \in NameOps'
        BY <1>3, <2>2 DEF NameOps
      <4>3. QED
        BY <1>3, <3>2, <4>1, <4>2
    <3>4. QED
      BY <1>2, <3>1, <3>3 DEF OneOp
  <2>3. QED
    BY <2>1, <2>2
<1>5. Counts' /\ Lists'
  BY <1>2 DEF Counts, Lists
<1>6. Listed(cur)' <=> Listed(cur)
  BY <1>2 DEF Listed
<1>7. TypeOK'
  BY <1>2, <1>6 DEF TypeOK, NoForeignDraft
<1>8. QED
  BY <1>3, <1>4, <1>5, <1>7 DEF PageInv

LEMMA ServeSteps ==
  ASSUME PageInv, ServeCall
  PROVE  PageInv'
<1>1. PICK call \in DOMAIN calls :
        \/ ServeSave(call) \/ ServeDelete(call) \/ CheckRename(call) \/ ServeRename(call)
        \/ FailCall(call)
  BY DEF ServeCall, BagToSet
<1>2. ServeFrame
  BY DEF ServeCall, ServeFrame
<1>3. /\ TypeOK /\ failures \in 0..MaxFailures /\ doubtful \cup overwritten \subseteq Ids
      /\ call \in CallType /\ disk \in [Names -> Texts]
  BY DEF PageInv, TypeOK, Counts, CallsInv
<1>4. /\ call.name \in Names /\ call.to \in Names /\ call.text \in Texts /\ call.file \in Ids
      /\ Torn(call.text) \in Texts /\ Absent \in Texts /\ disk[call.name] \in Texts
      /\ disk[call.name].of \in Ids \cup {0}
  BY <1>3, TextTypes DEF CallType, Texts
<1>5. overwritten' \subseteq Ids
  <2>1. CASE ServeSave(call)
    BY <1>3, <1>4, <2>1 DEF ServeSave
  <2>2. CASE ~ServeSave(call)
    <3>1. overwritten' = overwritten
      BY <1>1, <2>2 DEF ServeDelete, CheckRename, ServeRename, FailCall, Refuse, folder
    <3>2. QED
      BY <1>3, <3>1
  <2>3. QED
    BY <2>1, <2>2
<1>6. ASSUME NEW newDisk \in [Names -> Texts], Serve(call, newDisk), call.stage \in {"sent", "checked"}
      PROVE  PageInv'
  <2>1. PICK stage \in {"ok", "failed"} :
          Becomes(call, stage) /\ failures' \in 0..MaxFailures /\ doubtful' \subseteq Ids
    <3>1. CASE Becomes(call, "ok") /\ UNCHANGED <<failures, doubtful>>
      BY <1>3, <3>1
    <3>2. CASE /\ failures < MaxFailures /\ failures' = failures + 1 /\ Becomes(call, "failed")
               /\ doubtful' = doubtful \cup (IF call.kind = "put" THEN {} ELSE {call.file})
      <4>1. failures' \in 0..MaxFailures
        BY <1>3, <3>2, Numbers
      <4>2. doubtful' \subseteq Ids
        BY <1>3, <1>4, <3>2
      <4>3. QED
        BY <3>2, <4>1, <4>2
    <3>3. QED
      BY <1>6, <3>1, <3>2 DEF Serve
  <2>2. disk' \in [Names -> Texts] /\ stage # call.stage /\ stage # "checked"
        /\ stage \in {"checked", "ok", "failed"} /\ doubtful' \cup overwritten' \subseteq Ids
    BY <1>5, <1>6, <2>1 DEF Serve
  <2>3. QED
    BY <1>2, <2>1, <2>2, ServedPage
<1>7. ASSUME NEW stage \in {"checked", "failed"}, stage # call.stage, Becomes(call, stage),
             stage = "checked" => call.kind = "rename", UNCHANGED <<folder, doubtful>>,
             failures' \in 0..MaxFailures
      PROVE  PageInv'
  <2>1. disk' \in [Names -> Texts] /\ doubtful' \cup overwritten' \subseteq Ids
        /\ stage \in {"checked", "ok", "failed"}
    BY <1>3, <1>7 DEF folder
  <2>2. QED
    BY <1>2, <1>7, <2>1, ServedPage
<1>8. CASE ServeSave(call)
  <2>1. PICK whole : whole = [disk EXCEPT ![call.name] = call.text]
    OBVIOUS
  <2>2. PICK torn : torn = [disk EXCEPT ![call.name] = Torn(call.text)]
    OBVIOUS
  <2>3. whole \in [Names -> Texts] /\ torn \in [Names -> Texts] /\ call.stage = "sent"
    BY <1>3, <1>4, <1>8, <2>1, <2>2 DEF ServeSave
  <2>4. CASE Serve(call, whole)
    BY <1>6, <2>3, <2>4
  <2>5. CASE /\ failures < MaxFailures /\ failures' = failures + 1 /\ Becomes(call, "failed")
             /\ disk' = torn
             /\ doubtful' = doubtful \cup (IF call.kind = "put" THEN {} ELSE {call.file})
    <3>1. failures' \in 0..MaxFailures /\ doubtful' \cup overwritten' \subseteq Ids
      <4>1. failures' \in 0..MaxFailures
        BY <1>3, <2>5, Numbers
      <4>2. doubtful' \subseteq Ids
        BY <1>3, <1>4, <2>5
      <4>3. QED
        BY <1>5, <4>1, <4>2
    <3>2. "failed" \in {"checked", "ok", "failed"} /\ "failed" # call.stage
      BY <2>3
    <3>3. QED
      BY <1>2, <2>3, <2>5, <3>1, <3>2, ServedPage
  <2>6. QED
    BY <1>8, <2>1, <2>2, <2>4, <2>5 DEF ServeSave
<1>9. CASE ServeDelete(call)
  <2>1. [disk EXCEPT ![call.name] = Absent] \in [Names -> Texts]
    BY <1>3, <1>4
  <2>2. QED
    BY <1>6, <1>9, <2>1 DEF ServeDelete
<1>10. CASE CheckRename(call) \/ FailCall(call)
  <2>1. PICK stage \in {"checked", "failed"} :
          /\ Becomes(call, stage) /\ UNCHANGED <<folder, doubtful>>
          /\ stage = "checked" => call.kind = "rename"
    BY <1>10 DEF CheckRename, FailCall, Refuse
  <2>2. failures' \in 0..MaxFailures /\ call.stage = "sent"
    BY <1>3, <1>10, Numbers DEF CheckRename, FailCall
  <2>3. QED
    BY <1>7, <2>1, <2>2
<1>11. CASE ServeRename(call)
  <2>1. CASE Refuse(call) /\ UNCHANGED failures
    BY <1>3, <1>7, <1>11, <2>1 DEF Refuse, ServeRename
  <2>2. CASE \E newDisk \in {disk, [disk EXCEPT ![call.to] = disk[call.name], ![call.name] = Absent]} :
               Serve(call, newDisk)
    <3>1. [disk EXCEPT ![call.to] = disk[call.name], ![call.name] = Absent] \in [Names -> Texts]
      BY <1>3, <1>4
    <3>2. QED
      BY <1>3, <1>6, <1>11, <2>2, <3>1 DEF ServeRename
  <2>3. QED
    BY <1>11, <2>1, <2>2 DEF ServeRename
<1>12. QED
  BY <1>1, <1>8, <1>9, <1>10, <1>11

(* Answers. *)
LEMMA SavePage ==
  ASSUME PageInv, SaveAnswered
  PROVE  PageInv'
<1>1. PICK call \in DOMAIN calls :
        /\ call.kind = "put" /\ calls' = BagRemove(calls, call)
        /\ IF call.stage = "ok" THEN saveErr' = 0 /\ dirty' = dirty \ {call.file}
           ELSE saveErr' = call.file /\ UNCHANGED dirty
        /\ unsaved' = IF call.stage = "failed" THEN unsaved \cup {call.file}
                      ELSE IF Settles(call) THEN unsaved \ {call.file} ELSE unsaved
  BY DEF SaveAnswered, BagToSet
<1>2. /\ UNCHANGED <<disk, overwritten, legacy, load, found, blind, cut, files, cur, tab, raw, due,
                     naming, busy, edits, nameOps, failures, doubtful>>
      /\ TypeOK /\ CallsInv /\ Counts /\ OneOp /\ Lists /\ call.file \in Ids
  BY DEF SaveAnswered, folder, reading, pane, counters, PageInv, CallsInv, CallType
<1>3. /\ CallsInv' /\ DOMAIN calls' \subseteq DOMAIN calls
      /\ \A c \in DOMAIN calls \ {call} : c \in DOMAIN calls' /\ calls'[c] = calls[c]
  BY <1>1, <1>2, Gone
<1>4. OneOp'
  <2>1. NameOps' = NameOps /\ \A c \in NameOps : calls'[c] = calls[c]
    BY <1>1, <1>3 DEF NameOps
  <2>2. QED
    BY <1>2, <2>1 DEF OneOp
<1>5. Counts' /\ Lists'
  BY <1>2 DEF Counts, Lists
<1>6. (Listed(cur)' <=> Listed(cur)) /\ dirty' \subseteq dirty /\ unsaved' \subseteq Ids
      /\ saveErr' \in Ids \cup {0}
  BY <1>1, <1>2 DEF Listed, TypeOK
<1>7. TypeOK'
  BY <1>2, <1>6 DEF TypeOK, NoForeignDraft
<1>8. QED
  BY <1>3, <1>4, <1>5, <1>7 DEF PageInv

(* A name operation is answered: the list changes, the editor moves. *)
LEMMA AnswerPage ==
  ASSUME PageInv, NEW call \in NameOps, AnswerFrame(call),
         files' \in Seq(Files), cut' \subseteq Files,
         \A f \in Range(files') \cup cut' : f.text.of = f.id,
         tab' \in {"raw", "form"}, raw' \in Texts, tab' = "raw" /\ cur' # 0 => raw'.of = cur',
         cur' = 0 \/ Listed(cur)', dirty' \cup due' \subseteq Known', cut = {} => cut' = {},
         naming' = Closed \/ naming' = naming
  PROVE  PageInv'
<1>1. /\ UNCHANGED <<disk, overwritten, legacy, load, found, blind, saveErr, edits, nameOps,
                     failures, doubtful, unsaved>>
      /\ TypeOK /\ CallsInv /\ Counts /\ OneOp /\ Lists /\ call \in DOMAIN calls
      /\ calls' = BagRemove(calls, call) /\ busy' = FALSE
  BY DEF AnswerFrame, folder, counters, history, PageInv, NameOps
<1>2. NameOps = {call} /\ calls[call] = 1
  BY <1>1 DEF OneOp
<1>3. /\ CallsInv' /\ DOMAIN calls' \subseteq DOMAIN calls /\ call \notin DOMAIN calls'
  BY <1>1, <1>2, Gone
<1>4. NameOps' = {}
  BY <1>2, <1>3 DEF NameOps
<1>5. OneOp' /\ Counts' /\ Lists'
  BY <1>1, <1>4 DEF OneOp, Counts, Lists
<1>6. Range(files') \subseteq Files
  BY OnList
<1>7. TypeOK'
  BY <1>1, <1>6 DEF TypeOK, NoForeignDraft, Known
<1>8. QED
  BY <1>3, <1>5, <1>7 DEF PageInv

LEMMA AnswerSteps ==
  ASSUME PageInv, NameOpAnswered
  PROVE  PageInv'
<1>1. PICK call \in DOMAIN calls :
        /\ CreateAnswered(call) \/ RenameAnswered(call) \/ DeleteAnswered(call) \/ NameOpFailed(call)
        /\ AnswerFrame(call)
  BY DEF NameOpAnswered, AnswerFrame, BagToSet
<1>2. call \in NameOps /\ call \in CallType
  BY <1>1 DEF NameOps, CreateAnswered, RenameAnswered, DeleteAnswered, NameOpFailed, PageInv, CallsInv
<1>3. /\ files \in Seq(Files) /\ cut \subseteq Files
      /\ \A f \in Range(files) \cup cut : f.text.of = f.id
      /\ tab \in {"raw", "form"} /\ raw \in Texts /\ (tab = "raw" /\ cur # 0 => raw.of = cur)
      /\ (cur = 0 \/ Listed(cur)) /\ dirty \cup due \subseteq Known
      /\ \A f \in Range(files) : f \in Files
  BY DEF PageInv, TypeOK, NoForeignDraft, Lists, Known
<1>4. /\ \A id : id \in Known <=> Listed(id) \/ \E f \in cut : f.id = id
      /\ \A id : id \in Known' <=> Listed(id)' \/ \E f \in cut' : f.id = id
  BY DEF Known, Listed, Range
<1>5. CASE CreateAnswered(call)
  <2>1. PICK new : new = File(call.file, call.name, call.text)
    OBVIOUS
  <2>2. /\ files' = Append(files, new) /\ UNCHANGED <<cut, dirty, due>> /\ naming' = Closed
        /\ cur' = call.file /\ tab' = "raw" /\ raw' = call.text
        /\ call.text.of = call.file /\ call.file \in Ids /\ call.text \in Texts /\ call.name \in Names
    BY <1>1, <1>2, <1>5, <2>1 DEF CreateAnswered, Shows, PageInv, CallsInv, CallType
  <2>3. new \in Files /\ new.id = call.file /\ new.text = call.text
    BY <2>1, <2>2 DEF File, Files
  <2>4. /\ Len(files) \in Nat /\ DOMAIN files = 1..Len(files)
        /\ files' \in Seq(Files) /\ DOMAIN files' = 1..Len(files) + 1
        /\ \A i \in DOMAIN files : files'[i] = files[i]
        /\ files'[Len(files) + 1] = new
    BY <1>3, <2>2, <2>3, LenProperties, AppendProperties
  <2>5. \A i \in DOMAIN files' : files'[i] = new \/ files'[i] \in Range(files)
    BY <2>4 DEF Range
  <2>6. \A f \in Range(files') \cup cut' : f.text.of = f.id
    BY <1>3, <2>2, <2>3, <2>5 DEF Range
  <2>7. /\ \A id : Listed(id) => Listed(id)'
        /\ Listed(cur)'
    <3>1. Len(files) + 1 \in DOMAIN files' /\ files'[Len(files) + 1].id = cur'
      BY <2>2, <2>3, <2>4
    <3>2. QED
      BY <2>4, <3>1 DEF Listed
  <2>8. QED
    BY <1>1, <1>2, <1>3, <1>4, <2>2, <2>4, <2>6, <2>7, AnswerPage
<1>6. CASE RenameAnswered(call)
  <2>1. /\ UNCHANGED <<cur, tab, raw, dirty, due>> /\ naming' = Closed /\ call.to \in Names
        /\ cut' = {IF f.id = call.file THEN [f EXCEPT !.name = call.to] ELSE f : f \in cut}
        /\ files' = IF Listed(call.file)
                    THEN [files EXCEPT ![Index(call.file)].name = call.to] ELSE files
    BY <1>2, <1>6 DEF RenameAnswered, CallType
  <2>2. ASSUME NEW f \in Files, f.text.of = f.id, NEW g, g = [f EXCEPT !.name = call.to]
        PROVE  g \in Files /\ g.id = f.id /\ g.text.of = g.id
    BY <2>1, <2>2 DEF Files
  <2>3. /\ cut' \subseteq Files /\ \A g \in cut' : g.text.of = g.id
        /\ \A f \in cut : \E g \in cut' : g.id = f.id
    BY <1>3, <2>1, <2>2
  <2>4. /\ files' \in Seq(Files) /\ DOMAIN files' = DOMAIN files
        /\ \A i \in DOMAIN files : files'[i].id = files[i].id /\ files'[i].text.of = files'[i].id
    <3>1. CASE ~Listed(call.file)
      BY <1>3, <2>1, <3>1 DEF Range
    <3>2. CASE Listed(call.file)
      <4>1. PICK k \in DOMAIN files : k = Index(call.file) /\ files[k] \in Files
        BY <3>2, ListedFile
      <4>2. PICK g : g = [files[k] EXCEPT !.name = call.to]
        OBVIOUS
      <4>3. g \in Files /\ g.id = files[k].id /\ g.text.of = g.id
        BY <1>3, <2>2, <4>1, <4>2 DEF Range
      <4>4. files' = [files EXCEPT ![k] = g]
        BY <2>1, <3>2, <4>1, <4>2
      <4>5. files' \in Seq(Files) /\ DOMAIN files' = DOMAIN files
        BY <1>3, <4>1, <4>3, <4>4, ExceptSeq, LenProperties
      <4>6. \A i \in DOMAIN files : files'[i] = IF i = k THEN g ELSE files[i]
        BY <4>4
      <4>7. \A i \in DOMAIN files : files[i].text.of = files[i].id
        BY <1>3 DEF Range
      <4>8. QED
        BY <4>3, <4>5, <4>6, <4>7
    <3>3. QED
      BY <3>1, <3>2
  <2>5. /\ \A f \in Range(files') \cup cut' : f.text.of = f.id
        /\ \A id : Listed(id)' <=> Listed(id)
    BY <2>3, <2>4 DEF Range, Listed
  <2>6. dirty' \cup due' \subseteq Known'
    <3>1. ASSUME NEW id, id \in Known PROVE id \in Known'
      <4>1. CASE Listed(id)
        BY <1>4, <2>5, <4>1
      <4>2. CASE \E f \in cut : f.id = id
        <5>1. \E g \in cut' : g.id = id
          BY <2>3, <4>2
        <5>2. QED
          BY <1>4, <5>1
      <4>3. QED
        BY <1>4, <3>1, <4>1, <4>2
    <3>2. QED
      BY <1>3, <2>1, <3>1
  <2>7. QED
    BY <1>1, <1>2, <1>3, <2>1, <2>3, <2>4, <2>5, <2>6, AnswerPage
<1>7. CASE DeleteAnswered(call)
  <2>1. PICK kept : kept = IF Listed(call.file) THEN RemoveAt(files, Index(call.file)) ELSE files
    OBVIOUS
  <2>2. /\ files' = kept /\ UNCHANGED <<cut, naming>>
        /\ \/ cur # call.file /\ UNCHANGED <<cur, tab, raw>>
           \/ kept # <<>> /\ cur' = kept[1].id /\ tab' = "raw" /\ raw' = kept[1].text
           \/ cur' = 0 /\ raw' = Absent /\ UNCHANGED tab
        /\ dirty' = dirty \ {call.file} /\ due' = due \ {call.file}
    BY <1>7, <2>1 DEF DeleteAnswered, Shows, DueWithout
  <2>3. /\ kept \in Seq(Files) /\ Range(kept) \subseteq Range(files)
        /\ \A id : Listed(id) /\ id # call.file => Listed(id)'
    <3>1. CASE ~Listed(call.file)
      BY <1>3, <2>1, <2>2, <3>1 DEF Listed
    <3>2. CASE Listed(call.file)
      <4>1. PICK k \in DOMAIN files : k = Index(call.file) /\ files[k].id = call.file
        BY <3>2, ListedFile
      <4>2. /\ kept \in Seq(Files) /\ DOMAIN kept = 1..Len(files) - 1
            /\ \A i \in 1..Len(files) - 1 : kept[i] = IF i < k THEN files[i] ELSE files[i + 1]
        BY <1>3, <2>1, <3>2, <4>1, Without
      <4>3. DOMAIN files = 1..Len(files) /\ Len(files) \in Nat
        BY <1>3, LenProperties
      <4>4. \A i \in DOMAIN kept : \E j \in DOMAIN files : kept[i] = files[j]
        BY <4>1, <4>2, <4>3
      <4>5. ASSUME NEW i \in DOMAIN files, i # k PROVE \E j \in DOMAIN kept : kept[j] = files[i]
        <5>1. CASE i < k
          BY <4>1, <4>2, <4>3, <4>5, <5>1
        <5>2. CASE i > k
          <6>1. i - 1 \in DOMAIN kept /\ ~(i - 1 < k) /\ i - 1 + 1 = i
            BY <4>1, <4>2, <4>3, <4>5, <5>2
          <6>2. QED
            BY <4>2, <6>1
        <5>3. QED
          BY <4>1, <4>3, <4>5, <5>1, <5>2
      <4>6. \A id : Listed(id) /\ id # call.file => Listed(id)'
        BY <2>2, <4>1, <4>5 DEF Listed
      <4>7. QED
        BY <4>2, <4>4, <4>6 DEF Range
    <3>3. QED
      BY <3>1, <3>2
  <2>4. /\ \A f \in Range(files') \cup cut' : f.text.of = f.id
        /\ cut' \subseteq Files /\ files' \in Seq(Files)
    BY <1>3, <2>2, <2>3
  <2>5. dirty' \cup due' \subseteq Known'
    BY <1>3, <1>4, <2>2, <2>3
  <2>6. /\ cur' = 0 \/ Listed(cur)'
        /\ tab' \in {"raw", "form"} /\ raw' \in Texts /\ (tab' = "raw" /\ cur' # 0 => raw'.of = cur')
    <3>1. CASE cur # call.file /\ UNCHANGED <<cur, tab, raw>>
      BY <1>3, <2>3, <3>1, Numbers DEF Listed
    <3>2. CASE kept # <<>> /\ cur' = kept[1].id /\ tab' = "raw" /\ raw' = kept[1].text
      <4>1. 1 \in DOMAIN kept
        BY <2>3, <3>2, EmptySeq, LenProperties
      <4>2. kept[1] \in Range(files) /\ Listed(cur)'
        BY <2>2, <2>3, <3>2, <4>1 DEF Range, Listed
      <4>3. QED
        BY <1>3, <3>2, <4>2 DEF Files
    <3>3. CASE cur' = 0 /\ raw' = Absent /\ UNCHANGED tab
      BY <1>3, <3>3, TextTypes
    <3>4. QED
      BY <2>2, <3>1, <3>2, <3>3
  <2>7. QED
    BY <1>1, <1>2, <2>2, <2>4, <2>5, <2>6, AnswerPage
<1>8. CASE NameOpFailed(call)
  <2>1. UNCHANGED <<cut, files, cur, tab, raw, dirty, due, naming>>
    BY <1>8 DEF NameOpFailed
  <2>2. Known' = Known /\ (Listed(cur)' <=> Listed(cur))
    BY <2>1 DEF Known, Listed
  <2>3. QED
    BY <1>1, <1>2, <1>3, <2>1, <2>2, AnswerPage
<1>9. QED
  BY <1>1, <1>5, <1>6, <1>7, <1>8

(* Reading the collection: what is found, and the list that is shown. *)
LEMMA ReadingSteps ==
  ASSUME PageInv, ServerLists \/ FilesArrive \/ MigrateFile \/ MigrationEnds
  PROVE  PageInv'
<1>1. TypeOK /\ CallsInv /\ Counts /\ OneOp /\ Lists
  BY DEF PageInv
<1>2. /\ UNCHANGED <<overwritten, blind, tab, dirty, due, saveErr, naming, busy, calls, edits, nameOps,
                     unsaved>>
  BY DEF ServerLists, FilesArrive, MigrateFile, MigrationEnds, pane, counters, history, folder
<1>3. CallsInv' /\ OneOp'
  BY <1>1, <1>2 DEF CallsInv, OneOp, NameOps
<1>4. CASE load # "done" /\ ShowFiles(found) /\ UNCHANGED <<folder, legacy, failures, doubtful>>
  <2>1. /\ load' = "done" /\ files' = found /\ cut' = Range(files) /\ found' = <<>>
        /\ cur' = IF found = <<>> THEN 0 ELSE Head(found).id
        /\ raw' = IF found # <<>> /\ tab = "raw" THEN Head(found).text ELSE raw
        /\ UNCHANGED <<disk, legacy, failures, doubtful>>
    BY <1>4 DEF ShowFiles, folder
  <2>2. <<>> \in Seq(Files) /\ Range(<<>>) = {} /\ DOMAIN <<>> = {}
    BY EmptySeq DEF Range
  <2>3. Counts' /\ Lists'
    BY <1>1, <1>2, <2>1, <2>2 DEF Counts, Lists
  <2>4. Range(files') \subseteq Files /\ cut' \subseteq Files
        /\ \A f \in Range(files') \cup cut' : f.text.of = f.id
    BY <1>1, <2>1, OfTheList DEF Lists, Range, TypeOK
  <2>5. /\ cur' = 0 \/ Listed(cur)'
        /\ raw' \in Texts /\ (tab' = "raw" /\ cur' # 0 => raw'.of = cur')
    <3>1. CASE found = <<>>
      BY <1>1, <2>1, <3>1 DEF TypeOK
    <3>2. CASE found # <<>>
      <4>1. 1 \in DOMAIN found /\ Head(found) = found[1]
        BY <1>1, <3>2, EmptySeq, LenProperties DEF Lists
      <4>2. found[1] \in Files /\ found[1].text.of = found[1].id
        BY <1>1, <4>1, LenProperties, ElementOfSeq DEF Lists
      <4>3. Listed(cur)'
        BY <2>1, <3>2, <4>1 DEF Listed
      <4>4. QED
        BY <1>1, <1>2, <2>1, <3>2, <4>1, <4>2, <4>3 DEF Files, TypeOK
    <3>3. QED
      BY <3>1, <3>2
  <2>6. dirty' \cup due' \subseteq Known'
    <3>1. dirty \cup due \subseteq {f.id : f \in Range(files) \cup cut} /\ cut = {}
      BY <1>1, <1>4 DEF TypeOK, Lists
    <3>2. QED
      BY <1>2, <2>1, <3>1 DEF Known
  <2>7. TypeOK'
    BY <1>1, <1>2, <2>1, <2>2, <2>4, <2>5, <2>6 DEF TypeOK, NoForeignDraft, Known
  <2>8. QED
    BY <1>3, <2>3, <2>7 DEF PageInv
<1>5. ASSUME UNCHANGED <<cut, files, cur, raw>>,
             load # "done",
             load' \in {"asked", "listed", "unanswered", "migrating", "done", "failed"},
             disk' \in [Names -> Texts], doubtful' \subseteq Ids, failures' \in 0..MaxFailures,
             legacy' \in Seq(Names), Range(legacy') \subseteq Range(Initial),
             found' \in Seq(Files), \A i \in DOMAIN found' : found'[i].text.of = found'[i].id
      PROVE  PageInv'
  <2>1. Counts' /\ Lists' /\ Range(found') \subseteq Files
    BY <1>1, <1>2, <1>5, OnList DEF Counts, Lists
  <2>2. Listed(cur)' <=> Listed(cur)
    BY <1>5 DEF Listed
  <2>3. TypeOK'
    BY <1>1, <1>2, <1>5, <2>1, <2>2 DEF TypeOK, NoForeignDraft
  <2>4. QED
    BY <1>3, <2>1, <2>3 DEF PageInv
<1>6. CASE /\ UNCHANGED <<folder, legacy, found, cut, files, cur, raw, counters, history>>
           /\ load # "done" /\ load' \in {"migrating", "failed"}
  BY <1>1, <1>5, <1>6 DEF folder, counters, history, TypeOK, Counts, Lists
<1>7. CASE FilesArrive \/ MigrationEnds
  BY <1>4, <1>6, <1>7 DEF FilesArrive, MigrationEnds, counters, history
<1>8. CASE ServerLists
  <2>1. /\ UNCHANGED <<disk, legacy, cut, files, cur, raw, doubtful>>
        /\ load # "done" /\ load' \in {"listed", "unanswered"} /\ failures' \in 0..MaxFailures
    BY <1>1, <1>8, Numbers DEF ServerLists, folder, history, Counts
  <2>2. CASE UNCHANGED found
    BY <1>1, <1>5, <2>1, <2>2 DEF TypeOK, Lists
  <2>3. CASE \E there \in InOrder({n \in Names : disk[n] # Absent}) :
               found' = [i \in DOMAIN there |-> ReadAs(there[i])]
    <3>1. PICK there \in InOrder({n \in Names : disk[n] # Absent}) :
            found' = [i \in DOMAIN there |-> ReadAs(there[i])]
      BY <2>3
    <3>2. there \in Seq({n \in Names : disk[n] # Absent})
      BY Listing
    <3>3. DOMAIN there = 1..Len(there) /\ Len(there) \in Nat /\ \A i \in DOMAIN there : there[i] \in Names
      BY <3>2, LenProperties, ElementOfSeq
    <3>4. ASSUME NEW n \in Names PROVE ReadAs(n) \in Files /\ ReadAs(n).text.of = ReadAs(n).id
      <4>1. disk[n] \in Texts /\ Place(n) \in Ids
        BY <1>1, Places DEF TypeOK
      <4>2. QED
        BY <4>1 DEF ReadAs, File, Files, Texts
    <3>5. \A i \in DOMAIN there : found'[i] \in Files /\ found'[i].text.of = found'[i].id
      BY <3>1, <3>3, <3>4
    <3>6. found' \in [1..Len(there) -> Files] /\ DOMAIN found' = DOMAIN there
      BY <3>1, <3>3, <3>5
    <3>7. found' \in Seq(Files)
      BY <3>3, <3>6, SeqDef
    <3>8. QED
      BY <1>1, <1>5, <2>1, <3>5, <3>6, <3>7 DEF TypeOK, Lists
  <2>4. QED
    BY <1>8, <2>2, <2>3 DEF ServerLists
<1>9. CASE MigrateFile
  <2>1. PICK name : name = Head(legacy)
    OBVIOUS
  <2>2. PICK text : text = Text(Place(name), 0)
    OBVIOUS
  <2>3. /\ load = "migrating" /\ legacy # <<>> /\ legacy' = Tail(legacy) /\ UNCHANGED <<load, cut, files, cur, raw>>
        /\ \/ /\ disk' = [disk EXCEPT ![name] = text]
              /\ found' = Append(found, File(text.of, name, text))
              /\ UNCHANGED <<failures, doubtful>>
           \/ /\ failures < MaxFailures /\ failures' = failures + 1 /\ UNCHANGED found
              /\ \/ /\ \E w \in {text, Torn(text)} : disk' = [disk EXCEPT ![name] = w]
                    /\ doubtful' = doubtful \cup {text.of}
                 \/ UNCHANGED <<disk, doubtful>>
    BY <1>9, <2>1, <2>2 DEF MigrateFile
  <2>4. /\ legacy' \in Seq(Names) /\ name \in Names
        /\ \A i \in DOMAIN legacy' : i + 1 \in DOMAIN legacy /\ legacy'[i] = legacy[i + 1]
    <3>1. legacy \in Seq(Names) /\ Len(legacy) \in Nat \ {0} /\ DOMAIN legacy = 1..Len(legacy)
      BY <1>1, <2>3, EmptySeq, LenProperties DEF Lists
    <3>2. /\ Tail(legacy) \in Seq(Names) /\ Len(Tail(legacy)) = Len(legacy) - 1
          /\ \A i \in 1..Len(Tail(legacy)) : Tail(legacy)[i] = legacy[i + 1]
          /\ DOMAIN Tail(legacy) = 1..Len(Tail(legacy)) /\ Head(legacy) \in Names
      BY <2>3, <3>1, HeadTailProperties, LenProperties
    <3>3. QED
      BY <2>1, <2>3, <3>1, <3>2
  <2>5. Range(legacy') \subseteq Range(Initial)
    BY <1>1, <2>4 DEF Range, TypeOK
  <2>6. Place(name) \in Ids /\ 0 \in 0..MaxEdits
    BY <2>4, Places, Numbers
  <2>7. text \in Texts /\ text.of = Place(name) /\ Torn(text) \in Texts
    BY <2>2, <2>6, TextTypes
  <2>8. disk' \in [Names -> Texts] /\ doubtful' \subseteq Ids /\ failures' \in 0..MaxFailures
        /\ load # "done" /\ load' \in {"asked", "listed", "unanswered", "migrating", "done", "failed"}
    BY <1>1, <2>3, <2>4, <2>6, <2>7, Numbers DEF TypeOK, Counts
  <2>9. found' \in Seq(Files) /\ \A i \in DOMAIN found' : found'[i].text.of = found'[i].id
    <3>1. PICK f : f = File(text.of, name, text)
      OBVIOUS
    <3>2. f \in Files /\ f.text.of = f.id
      BY <2>4, <2>6, <2>7, <3>1 DEF File, Files
    <3>3. CASE found' = Append(found, f)
      <4>1. /\ found' \in Seq(Files) /\ DOMAIN found' = 1..Len(found) + 1
            /\ DOMAIN found = 1..Len(found) /\ Len(found) \in Nat
            /\ \A i \in DOMAIN found : found'[i] = found[i]
            /\ found'[Len(found) + 1] = f
        BY <1>1, <3>2, <3>3, LenProperties, AppendProperties DEF Lists
      <4>2. QED
        BY <1>1, <3>2, <4>1 DEF Lists
    <3>4. CASE found' = found
      BY <1>1, <3>4 DEF Lists
    <3>5. QED
      BY <2>3, <3>1, <3>3, <3>4
  <2>10. QED
    BY <1>5, <2>3, <2>4, <2>5, <2>8, <2>9
<1>10. QED
  BY <1>7, <1>8, <1>9

LEMMA PageNext == PageInv /\ [Next]_vars => PageInv'
<1> SUFFICES ASSUME PageInv, [Next]_vars PROVE PageInv'
  OBVIOUS
<1>1. CASE ServerLists \/ FilesArrive \/ MigrateFile \/ MigrationEnds
  BY <1>1, ReadingSteps
<1>2. CASE Edit \/ EmptyDraft \/ Duplicate \/ AddRequest \/ SelectRequest \/ OpenFile \/ SetTab
  BY <1>2, EditorSteps
<1>3. CASE SaveNow \/ SaveAnswered \/ \E id \in Ids : TimerFires(id)
  BY <1>3, TimerSteps, SavePage
<1>4. CASE OpenNameField \/ CancelName \/ ConfirmName \/ DeleteFile
  BY <1>4, FieldSteps
<1>5. CASE ServeCall \/ NameOpAnswered
  BY <1>5, ServeSteps, AnswerSteps
<1>6. CASE UNCHANGED vars
  <2>1. UNCHANGED <<disk, overwritten, legacy, load, found, blind, cut, files, cur, tab, raw, dirty,
                    due, saveErr, naming, busy, calls, edits, nameOps, failures, doubtful, unsaved>>
    BY <1>6 DEF vars
  <2>2. QED
    BY <2>1 DEF PageInv, TypeOK, NoForeignDraft, Listed, CallsInv, Counts, OneOp, NameOps, Lists
<1>7. QED
  BY <1>1, <1>2, <1>3, <1>4, <1>5, <1>6 DEF Next

-----------------------------------------------------------------------------
(* The theorems *)

LEMMA ComposerStart == Init => PageInv /\ cut = {} /\ Agreement
<1> SUFFICES ASSUME Init PROVE PageInv /\ cut = {} /\ Agreement
  OBVIOUS
<1>1. PICK kept \in BOOLEAN :
        /\ disk = [n \in Names |->
                     IF kept /\ n \in Range(Initial) THEN Text(Place(n), 0) ELSE Absent]
        /\ legacy = IF kept THEN <<>> ELSE Initial
  BY DEF Init
<1>2. /\ load = "asked" /\ found = <<>> /\ blind = FALSE /\ cut = {} /\ files = <<>> /\ cur = 0
      /\ tab \in {"raw", "form"} /\ raw = Absent /\ dirty = {} /\ due = {} /\ saveErr = 0
      /\ naming = Closed /\ busy = FALSE /\ calls = EmptyBag /\ edits = 0 /\ nameOps = 0
      /\ failures = 0 /\ doubtful = {} /\ overwritten = {} /\ unsaved = {}
  BY DEF Init
<1>3. Initial \in Seq(Names) /\ IsInjective(Initial)
  BY ComposerAssumption
<1>4. \A S : <<>> \in Seq(S)
  BY EmptySeq
<1>5. DOMAIN <<>> = {} /\ Range(<<>>) = {}
  BY EmptySeq DEF Range
<1>6. ASSUME NEW n \in Names
      PROVE  disk[n] \in Texts /\ (disk[n] # Absent => disk[n].of = Place(n))
  <2>1. 0 \in 0..MaxEdits /\ Place(n) \in Ids
    BY Numbers, Places
  <2>2. Text(Place(n), 0) \in Texts /\ Text(Place(n), 0).of = Place(n)
    BY <2>1, TextTypes
  <2>3. disk[n] = Text(Place(n), 0) \/ disk[n] = Absent
    BY <1>1
  <2>4. QED
    BY <2>2, <2>3, TextTypes
<1>7. LegacyInv /\ Range(legacy) \subseteq Range(Initial)
  BY <1>1, <1>3, <1>4, <1>5 DEF LegacyInv, IsInjective, Range
<1>8. Types
  <2>1. disk \in [Names -> Texts]
    BY <1>1, <1>6
  <2>2. Absent \in Texts
    BY TextTypes
  <2>3. QED
    BY <1>2, <1>5, <1>7, <2>1, <2>2 DEF Types, Drafts
<1>9. ListInv /\ DraftInv /\ Early
  BY <1>2, <1>4, <1>5 DEF ListInv, OneEach, DraftInv, Early
<1>10. DOMAIN calls = {}
  BY <1>2 DEF EmptyBag, SetToBag
<1>11. CallsInv /\ NamingInv /\ OneOp
  BY <1>2, <1>10 DEF CallsInv, IsBag, NamingInv, OneOp, NameOps, EmptyBag, SetToBag
<1>12. CountersInv /\ Counts
  BY <1>2, Numbers DEF CountersInv, Counts, Closed, NewName
<1>13. ReadingInv
  <2>1. ASSUME NEW n \in Names, disk[n] # Absent PROVE disk[n].of \in Ids
    BY <1>6, <2>1, Places
  <2>2. QED
    BY <1>2, <1>4, <1>5, <1>6, <1>7, <2>1 DEF ReadingInv, FoundInv, FolderTexts
<1>14. Agreement
  BY <1>2, <1>8, <1>9, <1>11, <1>12, <1>13 DEF Agreement, FolderInv
<1>15. TypeOK /\ Lists
  BY <1>2, <1>4, <1>5, <1>7, <1>8 DEF TypeOK, NoForeignDraft, Types, Drafts, Lists, LegacyInv
<1>16. QED
  BY <1>2, <1>11, <1>12, <1>14, <1>15 DEF PageInv

LEMMA AgreementNext ==
  ASSUME Agreement, cut = {}, blind \in BOOLEAN, ~blind', [Next]_vars
  PROVE  Agreement'
<1>1. CASE ServerLists \/ FilesArrive \/ MigrateFile \/ MigrationEnds
  BY <1>1, ListStep, ArriveStep, MigrateStep
<1>2. CASE Edit \/ EmptyDraft \/ Duplicate \/ AddRequest \/ SelectRequest \/ OpenFile \/ SetTab
  BY <1>2, EditStep, EmptyDraftStep, AddRequestStep, SelectStep, TabStep
<1>3. CASE SaveNow \/ SaveAnswered \/ \E id \in Ids : TimerFires(id)
  BY <1>3, WriteBackStep, SaveAnsweredStep
<1>4. CASE OpenNameField \/ CancelName \/ ConfirmName \/ DeleteFile
  BY <1>4, FieldStep, ConfirmStep, DeleteStep
<1>5. CASE ServeCall \/ NameOpAnswered
  BY <1>5, ServeStep, AnswerStep
<1>6. CASE UNCHANGED vars
  <2>1. UNCHANGED <<disk, overwritten, legacy, load, found, files, cur, tab, raw, dirty, due, saveErr,
                    naming, busy, calls, edits, nameOps, failures, doubtful, unsaved>>
    BY <1>6 DEF vars
  <2>2. /\ Types' = Types /\ CallsInv' = CallsInv /\ ListInv' = ListInv /\ DraftInv' = DraftInv
        /\ CountersInv' = CountersInv /\ Early' = Early /\ NamingInv' = NamingInv
    BY <2>1 DEF Types, Drafts, CallsInv, ListInv, DraftInv, CountersInv, Early, NamingInv,
                NameOps, Relies, Listed, Named, NextId
  <2>3. ReadingInv' = ReadingInv
    BY <2>1 DEF ReadingInv, FoundInv, LegacyInv, FolderTexts, FoundInFolder
  <2>4. FolderInv' = FolderInv
    BY <2>1 DEF FolderInv, Kept, AtRisk, Alone, Placed, Saved, Listed, Named, InFlight, Where, Left,
                Seen, Content
  <2>5. QED
    BY <2>2, <2>3, <2>4 DEF Agreement
<1>7. QED
  BY <1>1, <1>2, <1>3, <1>4, <1>5, <1>6 DEF Next

(* A file named while the list is not there is not forgotten. *)
LEMMA StaysBlind == blind /\ [Next]_vars => blind'
<1>1. ASSUME blind, Next PROVE blind'
  BY <1>1 DEF Next, ServerLists, FilesArrive, MigrateFile, MigrationEnds, Edit, EmptyDraft, Duplicate,
              AddRequest, SelectRequest, OpenFile, SetTab, TimerFires, SaveNow, SaveAnswered,
              OpenNameField, CancelName, ConfirmName, DeleteFile, ServeCall, NameOpAnswered, reading
<1>2. QED
  BY <1>1 DEF vars

(* The list that comes replaces no file, unless one was named before.              *)
LEMMA NothingCut ==
  ASSUME Agreement, cut = {}, [Next]_vars
  PROVE  cut' = {}
<1>1. load # "done" => Range(files) = {}
  BY DEF Agreement, Early, Range
<1>2. CASE FilesArrive \/ MigrationEnds
  <2>1. load # "done"
    BY <1>2 DEF FilesArrive, MigrationEnds
  <2>2. QED
    BY <1>1, <1>2, <2>1 DEF FilesArrive, MigrationEnds, ShowFiles
<1>3. CASE NameOpAnswered
  BY <1>3 DEF NameOpAnswered, CreateAnswered, RenameAnswered, DeleteAnswered, NameOpFailed
<1>4. CASE ServerLists \/ MigrateFile \/ ConfirmName \/ UNCHANGED vars
  BY <1>4 DEF ServerLists, MigrateFile, ConfirmName, vars
<1>5. CASE \/ Edit \/ EmptyDraft \/ Duplicate \/ AddRequest \/ SelectRequest \/ OpenFile \/ SetTab
           \/ SaveNow \/ SaveAnswered \/ \E id \in Ids : TimerFires(id)
           \/ OpenNameField \/ CancelName \/ DeleteFile \/ ServeCall
  BY <1>5 DEF Edit, EmptyDraft, Duplicate, AddRequest, SelectRequest, OpenFile, SetTab, SaveNow,
              SaveAnswered, TimerFires, OpenNameField, CancelName, DeleteFile, ServeCall, reading
<1>6. QED
  BY <1>2, <1>3, <1>4, <1>5 DEF Next

(* The invariant: the page's own, and the agreement of folder and list as long as  *)
(* no file was named while the list was not there.                            *)
ComposerInv == PageInv /\ (blind \/ (cut = {} /\ Agreement))

(* In every state, for any names, files, edits, failures and calls in flight, and  *)
(* unless a file was named before the list was there: the list has each id and     *)
(* each name once; a file lies under its own name and nowhere else, or where its   *)
(* only call has left it, and what is on the screen of it is scheduled, on its way, *)
(* or in the folder - of files whose calls overlapped, of which an answer was lost, *)
(* or that a late write of such a file destroyed, nothing of the folder is said     *)
(* (webui/wasm/components/composer, webui/http_files.go).                       *)
THEOREM ComposerInductive == Spec => []ComposerInv
<1>1. Init => ComposerInv
  BY ComposerStart DEF ComposerInv
<1>2. ComposerInv /\ [Next]_vars => ComposerInv'
  <2> SUFFICES ASSUME ComposerInv, [Next]_vars PROVE ComposerInv'
    OBVIOUS
  <2>1. PageInv' /\ blind \in BOOLEAN
    BY PageNext DEF ComposerInv, PageInv, TypeOK
  <2>2. blind => blind'
    BY StaysBlind
  <2>3. ASSUME ~blind' PROVE cut' = {} /\ Agreement'
    <3>1. cut = {} /\ Agreement
      BY <2>2, <2>3 DEF ComposerInv
    <3>2. QED
      BY <2>1, <2>3, <3>1, AgreementNext, NothingCut
  <2>4. QED
    BY <2>1, <2>3 DEF ComposerInv
<1>3. QED
  BY <1>1, <1>2, PTL DEF Spec

(* Every variable stays within what it can hold, whenever a file was named; what is *)
(* marked or scheduled is a file of the list or was one when the list came, what is *)
(* shown is on the list, and a draft belongs to the file it is shown for: persist   *)
(* never writes the draft of one file over another.                            *)
THEOREM TypeCorrect == Spec => []TypeOK
<1>1. ComposerInv => TypeOK
  BY DEF ComposerInv, PageInv
<1>2. QED
  BY <1>1, ComposerInductive, PTL

(* The folder and the list agree: whatever is renamed, deleted, edited or saved      *)
(* meanwhile, a file has its own text under its own name, and no text of it or of a  *)
(* deleted file is left under another.  Three kinds of files are excepted, and one   *)
(* kind of session: files whose calls overlapped, files of which an answer was lost, *)
(* files a late write of one of those was served upon, and sessions in which a file  *)
(* was named before the list was there (http_files.go, files.go).                  *)
THEOREM MirrorsTheList == Spec => []DiskMirrorsTheList
<1>1. ASSUME Agreement, load = "done" PROVE DiskMirrorsTheList
  <2>1. FolderInv /\ ListInv /\ FolderTexts /\ OneEach(files)
    BY <1>1 DEF Agreement, ListInv, ReadingInv
  <2>2. ASSUME NEW f \in Range(files)
        PROVE  f.id \in AtRisk \/ InFlight(f.id) # {} \/ disk[f.name].of = f.id
    <3>1. Listed(f.id) /\ Named(f.id) = f /\ f.id \in Ids
      <4>1. files # <<>>
        BY <2>2, Numbers DEF Range
      <4>2. QED
        BY <1>1, <2>2, <4>1, Editing
    <3>2. QED
      BY <1>1, <2>1, <3>1 DEF FolderInv, Kept, Placed, Where
  <2>3. ASSUME NEW n \in Names, disk[n] # Absent, disk[n].of \notin AtRisk,
               InFlight(disk[n].of) = {}
        PROVE  \E f \in Range(files) : f.id = disk[n].of /\ f.name = n
    <3>1. PICK id : id = disk[n].of
      OBVIOUS
    <3>2. id \in Ids \ AtRisk /\ n \in Where(id)
      BY <2>1, <2>3, <3>1 DEF FolderTexts, Where
    <3>3. Listed(id) /\ Named(id).name = n
      BY <1>1, <2>1, <2>3, <3>1, <3>2 DEF FolderInv, Kept, Placed
    <3>4. files[Index(id)] \in Range(files) /\ files[Index(id)].id = id /\ files[Index(id)].name = n
      BY <2>1, <3>3, Files1 DEF Range
    <3>5. QED
      BY <3>1, <3>4
  <2>4. QED
    BY <2>2, <2>3 DEF DiskMirrorsTheList
<1>2. ComposerInv => DiskMirrorsTheList
  BY <1>1 DEF ComposerInv, DiskMirrorsTheList
<1>3. QED
  BY <1>2, ComposerInductive, PTL

(* A file that is neither scheduled nor being written is, in the folder, what is on  *)
(* the screen (composer.go touch: every edit reaches the folder on its own); except  *)
(* where a save failed or a change was never scheduled, and except the files and the  *)
(* sessions in which folder and list may differ: calls that overlapped, a lost       *)
(* answer, a late write of such a file, a file named before the list was there.       *)
THEOREM SettledSaved == Spec => []SettledFilesAreSaved
<1>1. ASSUME Agreement, load = "done", NEW f \in Range(files),
             f.id \notin due \cup AtRisk \cup unsaved, InFlight(f.id) = {}
      PROVE  disk[f.name] = Seen(f.id)
  <2>1. files # <<>>
    BY <1>1, Numbers DEF Range
  <2>2. Listed(f.id) /\ Named(f.id) = f /\ f.id \in Ids
    BY <1>1, <2>1, Editing
  <2>3. f.name \in Where(f.id) /\ Saved(f.id)
    BY <1>1, <2>2 DEF Agreement, FolderInv, Kept, Placed
  <2>4. QED
    BY <1>1, <2>2, <2>3 DEF Saved
<1>2. ComposerInv => SettledFilesAreSaved
  BY <1>1 DEF ComposerInv, SettledFilesAreSaved
<1>3. QED
  BY <1>2, ComposerInductive, PTL

(* At most one file is being created, renamed or deleted at any time, and the page     *)
(* knows it (busy), whatever is done with the name field meanwhile, before the list is *)
(* there or after.                                                             *)
THEOREM OneOperation == Spec => []OneNameOperation
<1>1. ASSUME PageInv PROVE OneNameOperation
  <2>1. {c \in BagToSet(calls) : c.kind # "put"} = NameOps
    BY DEF BagToSet, NameOps
  <2>2. OneOp
    BY <1>1 DEF PageInv
  <2>3. QED
    BY <2>1, <2>2 DEF OneNameOperation, OneOp
<1>2. ComposerInv => OneNameOperation
  BY <1>1 DEF ComposerInv
<1>3. QED
  BY <1>2, ComposerInductive, PTL

===============================================================================
