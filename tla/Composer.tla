-------------------------------- MODULE Composer --------------------------------
(***************************************************************************)
(* The request composer's collection: the .http files the page edits          *)
(* (webui/wasm/components/composer) and the folder behind the backend         *)
(* (webui/http_files.go).                                                    *)
(*                                                                         *)
(* The page runs one handler at a time and waits only for the backend, so a    *)
(* handler is a step and every call to the backend three: it is sent, it is    *)
(* served, its answer arrives.  Calls in flight are served in any order.      *)
(*                                                                         *)
(* A text is the file object it belongs to and the number of the edit that     *)
(* made it; ParseHTTP and ToHTTP lose what they do not understand, and texts   *)
(* are the same when what is left is.                                        *)
(***************************************************************************)
EXTENDS Naturals, Sequences, SequencesExt, BagsExt

CONSTANTS
  Order,       \* the names files can have, in the order they are listed
  Initial,     \* the names of the files there are in the folder, or in the browser
  MaxEdits,    \* bound: edits of texts, drafts applied by leaving them, uses of Save
  MaxNameOps,  \* bound: uses of the name field, and files deleted
  MaxUses,     \* bound: both together; a failure takes one, naming a file blindly two
  MaxFailures, \* bound: calls that fail, or whose answer is lost
  MaxCalls     \* bound: calls in flight

Names == Range(Order)

ASSUME ComposerAssumption ==
  /\ Order \in Seq(Names) /\ IsInjective(Order)
  /\ Initial \in Seq(Names) /\ IsInjective(Initial)
  /\ {MaxEdits, MaxNameOps, MaxUses, MaxFailures, MaxCalls} \subseteq Nat

VARIABLES
  disk,      \* the folder: the text under each name, or Absent
  overwritten, \* history: files another file's late write was served upon
  legacy,    \* the files of an earlier version, still in the browser
  load,      \* the first read of the collection
  found,     \* what it has found so far: a sequence of files
  blind,     \* history: was a file named while the list was not there?
  cut,       \* files the list replaced when it came; their timers run on
  files,     \* the files listed: their id, name and text
  cur,       \* the id of the file being edited, 0 for none
  tab,       \* "raw": the editor shows the file's text; "form": one request
  raw,       \* the draft in the text editor, or Absent
  dirty,     \* the ids marked as edited
  due,       \* the ids whose write-back is scheduled and not overtaken
  saveErr,   \* the id whose save failed, 0 for none
  naming,    \* what the name field is open for
  busy,      \* is a file being created, renamed or deleted?
  calls,     \* the calls in flight
  edits, nameOps, failures,
  doubtful,  \* history: files of which calls overlapped or an answer was lost
  unsaved    \* history: files changed with no write-back scheduled, or whose write-back failed

vars == <<disk, overwritten, legacy, load, found, blind, cut, files, cur, tab, raw, dirty, due, saveErr, naming, busy,
          calls, edits, nameOps, failures, doubtful, unsaved>>

pane     == <<naming, busy>>
counters == <<edits, nameOps, failures>>
history  == <<doubtful, unsaved>>
reading  == <<legacy, load, found, blind, cut>>
folder   == <<disk, overwritten>>

-----------------------------------------------------------------------------
Text(id, version) == [of |-> id, version |-> version, empty |-> FALSE]
Absent            == Text(0, 0)

(* What is left of a text whose write failed half-way: os.WriteFile truncates.   *)
Torn(text) == [text EXCEPT !.empty = TRUE]

Closed     == [for |-> "nothing", id |-> 0]
NewName    == [for |-> "new", id |-> 0]
NameOf(id) == [for |-> "file", id |-> id]

File(id, name, text) == [id |-> id, name |-> name, text |-> text]
Listed(id) == \E i \in DOMAIN files : files[i].id = id
Named(id)  == CHOOSE f \in Range(files) : f.id = id
Index(id)  == CHOOSE i \in DOMAIN files : files[i].id = id

(* The file a timer was started for, on the list or not.                       *)
Object(id) == CHOOSE f \in Range(files) \cup cut : f.id = id

(* The text a file has on the screen, or in the model behind the form.        *)
Content(f) == IF f.id = cur /\ tab = "raw" THEN raw ELSE f.text
Seen(id)   == Content(Named(id))

WithText(id, text) == [files EXCEPT ![Index(id)].text = text]

(* A file that is read has the place of its name for an id; one that is created  *)
(* that of the use of the name field, which may take it several tries.         *)
Place(n) == CHOOSE i \in DOMAIN Order : Order[i] = n
NextId   == Len(Order) + nameOps
Ids      == 1 .. Len(Order) + MaxNameOps
Spare == edits + nameOps + failures + (IF blind THEN 2 ELSE 0) < MaxUses
InFlight(id) == {c \in BagToSet(calls) : c.file = id}

Init ==
  /\ \E kept \in BOOLEAN : \* in the folder, or in the browser
       /\ disk = [n \in Names |->
                    IF kept /\ n \in Range(Initial) THEN Text(Place(n), 0) ELSE Absent]
       /\ legacy = IF kept THEN <<>> ELSE Initial
  /\ load = "asked"
  /\ found = <<>> /\ blind = FALSE /\ cut = {}
  /\ files = <<>>
  /\ cur = 0
  /\ tab \in {"raw", "form"}
  /\ raw = Absent
  /\ dirty = {} /\ due = {} /\ saveErr = 0
  /\ naming = Closed /\ busy = FALSE
  /\ calls = EmptyBag
  /\ edits = 0 /\ nameOps = 0 /\ failures = 0
  /\ doubtful = {} /\ overwritten = {} /\ unsaved = {}

-----------------------------------------------------------------------------
(* Calls to the backend *)

(* Two calls about one file at the same time may be served in either order.    *)
Call(kind, id, name, to, text) ==
  /\ BagCardinality(calls) < MaxCalls
  /\ calls' = BagAdd(calls, [kind |-> kind, file |-> id, name |-> name, to |-> to,
                            text |-> text, stage |-> "sent"])
  /\ doubtful' = IF InFlight(id) = {} THEN doubtful ELSE doubtful \cup {id}

Becomes(call, stage) == calls' = BagAdd(BagRemove(calls, call), [call EXCEPT !.stage = stage])

(* The call is answered; or the answer, of a call that was served all the       *)
(* same, is lost.                                                           *)
Serve(call, newDisk) ==
  /\ disk' = newDisk
  /\ \/ /\ Becomes(call, "ok")
        /\ UNCHANGED <<failures, doubtful>>
     \/ /\ failures < MaxFailures
        /\ failures' = failures + 1
        /\ Becomes(call, "failed")
        /\ doubtful' = doubtful \cup (IF call.kind = "put" THEN {} ELSE {call.file})

Refuse(call) ==
  /\ Becomes(call, "failed")
  /\ UNCHANGED <<folder, doubtful>>

(* Save: a plain overwrite, whole or broken off.  A write that comes after the   *)
(* name was given up and taken again destroys the text of another file, of     *)
(* which no call may be in flight: that is remembered apart.                  *)
ServeSave(call) ==
  /\ call.kind \in {"put", "create"} /\ call.stage = "sent"
  /\ \/ Serve(call, [disk EXCEPT ![call.name] = call.text])
     \/ /\ failures < MaxFailures
        /\ failures' = failures + 1
        /\ Becomes(call, "failed")
        /\ disk' = [disk EXCEPT ![call.name] = Torn(call.text)]
        /\ doubtful' = doubtful \cup (IF call.kind = "put" THEN {} ELSE {call.file})
  /\ overwritten' = IF call.file \in doubtful /\ disk[call.name].of \notin {0, call.file}
                    THEN overwritten \cup {disk[call.name].of} ELSE overwritten

ServeDelete(call) ==
  /\ call.kind = "delete" /\ call.stage = "sent"
  /\ Serve(call, [disk EXCEPT ![call.name] = Absent])
  /\ UNCHANGED overwritten

(* Rename looks for the target first; a name that stays is only looked up.      *)
CheckRename(call) ==
  /\ call.kind = "rename" /\ call.stage = "sent"
  /\ IF call.name # call.to /\ disk[call.to] # Absent
     THEN Refuse(call)
     ELSE Becomes(call, "checked") /\ UNCHANGED <<folder, doubtful>>
  /\ UNCHANGED failures

ServeRename(call) ==
  /\ call.kind = "rename" /\ call.stage = "checked"
  /\ IF disk[call.name] = Absent
     THEN Refuse(call) /\ UNCHANGED failures
     ELSE /\ Serve(call, IF call.name = call.to THEN disk
                         ELSE [disk EXCEPT ![call.to] = disk[call.name], ![call.name] = Absent])
          /\ UNCHANGED overwritten

(* A call may also fail without having been served.                          *)
FailCall(call) ==
  /\ call.stage = "sent"
  /\ failures < MaxFailures
  /\ failures' = failures + 1
  /\ Refuse(call)

ServeCall ==
  /\ \E call \in BagToSet(calls) :
       ServeSave(call) \/ ServeDelete(call) \/ CheckRename(call) \/ ServeRename(call) \/ FailCall(call)
  /\ UNCHANGED <<reading, files, cur, tab, raw, dirty, due, saveErr, pane, edits, nameOps,
                 unsaved>>

-----------------------------------------------------------------------------
(* Reading the collection (loadFiles) *)

InOrder(names) ==
  {list \in BoundedSeq(names, Len(Order)) :
     /\ Range(list) = names
     /\ \A i, j \in DOMAIN list : i < j => Place(list[i]) < Place(list[j])}

(* What is read is parsed into a file of its own, whoever has written it.        *)
ReadAs(n) == File(Place(n), n, [disk[n] EXCEPT !.of = Place(n)])

ServerLists ==
  /\ load = "asked"
  /\ \/ load' = "listed" /\ UNCHANGED failures
        /\ \E there \in InOrder({n \in Names : disk[n] # Absent}) :
             found' = [i \in DOMAIN there |-> ReadAs(there[i])]
     \/ load' = "unanswered" /\ failures < MaxFailures /\ failures' = failures + 1 /\ UNCHANGED found
  /\ UNCHANGED <<folder, legacy, blind, cut, files, cur, tab, raw, dirty, due, saveErr, pane,
                 calls, edits, nameOps, history>>

(* The list replaces whatever there was, and its first file is shown.          *)
ShowFiles(list) ==
  /\ load' = "done"
  /\ files' = list
  /\ cut' = Range(files)
  /\ found' = <<>>
  /\ cur' = IF list = <<>> THEN 0 ELSE Head(list).id
  /\ raw' = IF list # <<>> /\ tab = "raw" THEN Head(list).text ELSE raw

FilesArrive ==
  /\ \/ load = "listed" /\ found = <<>> /\ legacy # <<>>
        /\ load' = "migrating" /\ UNCHANGED <<found, cut, files, cur, raw>>
     \/ load = "listed" /\ ~(found = <<>> /\ legacy # <<>>) /\ ShowFiles(found)
     \/ load = "unanswered" /\ load' = "failed" /\ UNCHANGED <<found, cut, files, cur, raw>>
  /\ UNCHANGED <<folder, legacy, blind, tab, dirty, due, saveErr, pane, calls, counters, history>>

(* A collection kept in the browser is written file by file; what cannot be     *)
(* written is passed over, and the browser's copy is given up all the same.    *)
MigrateFile ==
  /\ load = "migrating" /\ legacy # <<>>
  /\ LET name == Head(legacy)
         text == Text(Place(name), 0)
     IN \/ /\ disk' = [disk EXCEPT ![name] = text]
           /\ found' = Append(found, File(text.of, name, text))
           /\ UNCHANGED <<failures, doubtful>>
        \/ /\ failures < MaxFailures
           /\ failures' = failures + 1
           /\ \/ /\ disk' \in {[disk EXCEPT ![name] = t] : t \in {text, Torn(text)}}
                 /\ doubtful' = doubtful \cup {text.of}
              \/ UNCHANGED <<disk, doubtful>>
           /\ UNCHANGED found
  /\ legacy' = Tail(legacy)
  /\ UNCHANGED <<overwritten, load, blind, cut, files, cur, tab, raw, dirty, due, saveErr, pane,
                 calls, edits, nameOps, unsaved>>

MigrationEnds ==
  /\ load = "migrating" /\ legacy = <<>>
  /\ ShowFiles(found)
  /\ UNCHANGED <<folder, legacy, blind, tab, dirty, due, saveErr, pane, calls, counters, history>>

-----------------------------------------------------------------------------
(* Editing and writing back *)

(* Mutant: a file that is marked already is not scheduled again.               *)
ScheduledOnce(id) == IF id \in dirty THEN due ELSE due \cup {id}

(* scheduleSave: a later edit overtakes the timer of an earlier one.           *)
Scheduled(id) == due \cup {id}

Touch(id) ==
  /\ dirty' = dirty \cup {id}
  /\ due' = Scheduled(id)

CountEdit ==
  /\ edits < MaxEdits /\ Spare
  /\ edits' = edits + 1

Change(id) ==
  /\ CountEdit
  /\ files' = WithText(id, Text(id, edits + 1))

(* Any edit that ends in touch: a keystroke, a field, a row, a request deleted.  *)
Edit ==
  /\ cur # 0
  /\ Change(cur)
  /\ raw' = IF tab = "raw" THEN Text(cur, edits + 1) ELSE raw
  /\ Touch(cur)
  /\ UNCHANGED <<folder, reading, cur, tab, saveErr, pane, calls, nameOps, failures, history>>

(* An emptied draft is not applied: nothing is marked and nothing scheduled.     *)
EmptyDraft ==
  /\ cur # 0 /\ tab = "raw" /\ ~raw.empty
  /\ CountEdit
  /\ raw' = [Text(cur, edits + 1) EXCEPT !.empty = TRUE]
  /\ unsaved' = unsaved \cup {cur}
  /\ UNCHANGED <<folder, reading, files, cur, tab, dirty, due, saveErr, pane, calls,
                 nameOps, failures, doubtful>>

(* A duplicated request changes the file and leaves it at that.                *)
Duplicate ==
  /\ cur # 0
  /\ Change(cur)
  /\ raw' = IF tab = "raw" THEN Text(cur, edits + 1) ELSE raw
  /\ unsaved' = unsaved \cup {cur}
  /\ UNCHANGED <<folder, reading, cur, tab, dirty, due, saveErr, pane, calls,
                 nameOps, failures, doubtful>>

(* A request added to any file: the file is marked, its write-back not           *)
(* scheduled, and the request selected.                                      *)
AddRequest ==
  /\ \E id \in {f.id : f \in Range(files)} :
       /\ Change(id)
       /\ cur' = id
       /\ raw' = IF tab = "raw" THEN Text(id, edits + 1) ELSE Absent
       /\ dirty' = dirty \cup {id}
       /\ unsaved' = unsaved \cup {id}
  /\ UNCHANGED <<folder, reading, tab, due, saveErr, pane, calls, nameOps, failures,
                 doubtful>>

(* The draft belongs to the file, not to the request that is selected in it.     *)
DraftOn(id) == IF tab # "raw" THEN Absent ELSE IF id = cur THEN raw ELSE Named(id).text

SelectRequest ==
  /\ \E id \in {f.id : f \in Range(files)} :
       /\ cur' = id
       /\ raw' = DraftOn(id)
  /\ UNCHANGED <<folder, reading, files, tab, dirty, due, saveErr, pane, calls, counters, history>>

Shows(id, text) ==
  /\ cur' = id
  /\ tab' = "raw"
  /\ raw' = text

OpenFile ==
  /\ \E f \in Range(files) : Shows(f.id, f.text)
  /\ UNCHANGED <<folder, reading, files, dirty, due, saveErr, pane, calls, counters, history>>

(* Leaving the text applies the draft, edited or not, unless it is empty.        *)
SetTab ==
  /\ \/ /\ tab = "raw"
        /\ tab' = "form"
        /\ raw' = Absent
        /\ IF cur = 0 \/ raw.empty THEN UNCHANGED <<dirty, due, edits>>
           ELSE Touch(cur) /\ CountEdit
     \/ /\ tab = "form" /\ cur # 0
        /\ tab' = "raw"
        /\ raw' = Named(cur).text
        /\ UNCHANGED <<dirty, due, edits>>
  /\ UNCHANGED <<folder, reading, files, cur, saveErr, pane, calls, nameOps, failures, history>>

Persist(f) ==
  /\ due' = due \ {f.id}
  /\ Call("put", f.id, f.name, f.name, Content(f))

(* Mutant: not while the name field is open.                                  *)
FiresWhenClosed(id) == id \in due /\ naming = Closed

Fires(id) == id \in due

TimerFires(id) ==
  /\ Fires(id)
  /\ Persist(Object(id))
  /\ UNCHANGED <<folder, reading, files, cur, tab, raw, dirty, saveErr, pane, counters, unsaved>>

SaveNow ==
  /\ cur # 0
  /\ CountEdit
  /\ Persist(Named(cur))
  /\ UNCHANGED <<folder, reading, files, cur, tab, raw, dirty, saveErr, pane,
                 nameOps, failures, unsaved>>

(* The draft and the model behind it are what has been written.               *)
Settles(call) ==
  Listed(call.file) /\ call.text = Named(call.file).text /\ call.text = Seen(call.file)

SaveAnswered ==
  /\ \E call \in BagToSet(calls) :
       /\ call.kind = "put" /\ call.stage \in {"ok", "failed"}
       /\ calls' = BagRemove(calls, call)
       /\ IF call.stage = "ok" THEN saveErr' = 0 /\ dirty' = dirty \ {call.file}
          ELSE saveErr' = call.file /\ UNCHANGED dirty
       /\ unsaved' = IF call.stage = "failed" THEN unsaved \cup {call.file}
                     ELSE IF Settles(call) THEN unsaved \ {call.file} ELSE unsaved
  /\ UNCHANGED <<folder, reading, files, cur, tab, raw, due, pane, counters, doubtful>>

-----------------------------------------------------------------------------
(* Creating, renaming and deleting (files.go) *)

CountNameOp ==
  /\ nameOps < MaxNameOps /\ Spare
  /\ nameOps' = nameOps + 1

(* The field can be opened at any time, before the list is there, too.          *)
OpenNameField ==
  /\ CountNameOp
  /\ naming' \in {NewName} \cup {NameOf(f.id) : f \in Range(files)}
  /\ UNCHANGED <<folder, reading, files, cur, tab, raw, dirty, due, saveErr, busy, calls, edits, failures, history>>

(* Mutant: giving up the name gives up the call.                              *)
CanceledBusy == FALSE

BusyAfterCancel == busy

CancelName ==
  /\ naming # Closed
  /\ naming' = Closed
  /\ busy' = BusyAfterCancel
  /\ UNCHANGED <<folder, reading, files, cur, tab, raw, dirty, due, saveErr, calls, counters, history>>

(* Mutant: only the file being edited is looked at.                           *)
CurrentHasName(name) == \E f \in Range(files) : f.id = cur /\ f.name = name

NameTaken(name) == \E f \in Range(files) : NameOf(f.id) # naming /\ f.name = name

ConfirmName ==
  /\ naming # Closed /\ ~busy
  /\ \E name \in Names :
       /\ ~NameTaken(name)
       /\ IF naming = NewName
          THEN /\ Call("create", NextId, name, name, Text(NextId, 0))
               /\ busy' = TRUE /\ UNCHANGED naming
               /\ blind' = (blind \/ load # "done")
          ELSE IF Listed(naming.id)
          THEN /\ Call("rename", naming.id, Named(naming.id).name, name, Absent)
               /\ busy' = TRUE /\ UNCHANGED <<naming, blind>>
          ELSE naming' = Closed /\ busy' = FALSE /\ UNCHANGED <<calls, doubtful, blind>>
  /\ UNCHANGED <<folder, legacy, load, found, cut, files, cur, tab, raw, dirty, due, saveErr, counters, unsaved>>

DeleteFile ==
  /\ cur # 0 /\ ~busy
  /\ CountNameOp
  /\ busy' = TRUE
  /\ Call("delete", cur, Named(cur).name, Named(cur).name, Absent)
  /\ UNCHANGED <<folder, reading, files, cur, tab, raw, dirty, due, saveErr, naming,
                 edits, failures, unsaved>>

CreateAnswered(call) ==
  /\ call.kind = "create" /\ call.stage = "ok"
  /\ files' = Append(files, File(call.file, call.name, call.text))
  /\ Shows(call.file, call.text)
  /\ naming' = Closed
  /\ UNCHANGED <<cut, dirty, due>>

RenameAnswered(call) ==
  /\ call.kind = "rename" /\ call.stage = "ok"
  /\ files' = IF Listed(call.file) THEN [files EXCEPT ![Index(call.file)].name = call.to] ELSE files
  /\ cut' = {IF f.id = call.file THEN [f EXCEPT !.name = call.to] ELSE f : f \in cut}
  /\ naming' = Closed
  /\ UNCHANGED <<cur, tab, raw, dirty, due>>

(* Mutant: the timer of a file that is gone still fires.                      *)
DueStill(id) == due

DueWithout(id) == due \ {id}

(* forget: the editor moves to whatever is left.                              *)
DeleteAnswered(call) ==
  /\ call.kind = "delete" /\ call.stage = "ok"
  /\ LET kept == IF Listed(call.file) THEN RemoveAt(files, Index(call.file)) ELSE files IN
     /\ files' = kept
     /\ IF cur # call.file THEN UNCHANGED <<cur, tab, raw>>
        ELSE IF kept # <<>> THEN Shows(kept[1].id, kept[1].text)
        ELSE cur' = 0 /\ raw' = Absent /\ UNCHANGED tab
  /\ dirty' = dirty \ {call.file}
  /\ due' = DueWithout(call.file)
  /\ UNCHANGED <<cut, naming>>

NameOpFailed(call) ==
  /\ call.kind # "put" /\ call.stage = "failed"
  /\ UNCHANGED <<cut, files, cur, tab, raw, dirty, due, naming>>

NameOpAnswered ==
  /\ \E call \in BagToSet(calls) :
       /\ CreateAnswered(call) \/ RenameAnswered(call) \/ DeleteAnswered(call) \/ NameOpFailed(call)
       /\ calls' = BagRemove(calls, call)
  /\ busy' = FALSE
  /\ UNCHANGED <<folder, legacy, load, found, blind, saveErr, counters, history>>

-----------------------------------------------------------------------------
Next ==
  \/ ServerLists \/ FilesArrive \/ MigrateFile \/ MigrationEnds
  \/ Edit \/ EmptyDraft \/ Duplicate \/ AddRequest
  \/ SelectRequest \/ OpenFile \/ SetTab
  \/ \E id \in Ids : TimerFires(id)
  \/ SaveNow \/ SaveAnswered
  \/ OpenNameField \/ CancelName \/ ConfirmName \/ DeleteFile
  \/ ServeCall \/ NameOpAnswered

(* Timers fire, the backend serves or fails every call, its answers arrive.      *)
(* Nothing is asked of the developer.                                        *)
Spec ==
  /\ Init /\ [][Next]_vars
  /\ \A id \in Ids : WF_vars(TimerFires(id))
  /\ WF_vars(ServeCall) /\ WF_vars(SaveAnswered) /\ WF_vars(NameOpAnswered)

-----------------------------------------------------------------------------
(* Properties *)

Texts == [of : Ids \cup {0}, version : 0 .. MaxEdits, empty : BOOLEAN]
Files == [id : Ids, name : Names, text : Texts]

(* What persist sends for the file being edited is the draft: it is that file's. *)
NoForeignDraft ==
  /\ \A f \in Range(files) \cup cut : f.text.of = f.id
  /\ tab = "raw" /\ cur # 0 => raw.of = cur

(* Every variable stays within what it can hold; what is marked or scheduled is  *)
(* a file of the list, or was one when the list came, what is shown is on the    *)
(* list, and a draft belongs to the file it is shown for.                     *)
TypeOK ==
  /\ disk \in [Names -> Texts]
  /\ Range(legacy) \subseteq Range(Initial)
  /\ load \in {"asked", "listed", "unanswered", "migrating", "done", "failed"}
  /\ Range(found) \subseteq Files
  /\ Range(files) \cup cut \subseteq Files
  /\ tab \in {"raw", "form"} /\ raw \in Texts
  /\ saveErr \in Ids \cup {0}
  /\ naming \in {Closed, NewName} \cup {NameOf(id) : id \in Ids}
  /\ busy \in BOOLEAN /\ blind \in BOOLEAN
  /\ doubtful \cup overwritten \cup unsaved \subseteq Ids
  /\ dirty \cup due \subseteq {f.id : f \in Range(files) \cup cut}
  /\ cur = 0 \/ Listed(cur)
  /\ NoForeignDraft

(* Files of which the folder may hold something else than the list says: calls    *)
(* about them overlapped, the answer to a create, rename or delete was lost, or   *)
(* a late write of such a file was served upon theirs.                         *)
AtRisk == doubtful \cup overwritten

(* The folder and the list agree: a file has its own text under its own name,    *)
(* and no text of it lies under another name, nor that of a file deleted; only  *)
(* files of which calls overlapped or an answer was lost, and those that a late  *)
(* write of such a file destroyed, may differ (http_files.go: renaming onto      *)
(* another collection would destroy it).  Nothing of this holds once a file was  *)
(* named while the list was not there: the page knows no name to refuse.       *)
DiskMirrorsTheList ==
  load = "done" /\ ~blind =>
    /\ \A f \in Range(files) :
         f.id \in AtRisk \/ InFlight(f.id) # {} \/ disk[f.name].of = f.id
    /\ \A n \in Names :
         LET id == disk[n].of IN
         \/ disk[n] = Absent \/ id \in AtRisk \/ InFlight(id) # {}
         \/ \E f \in Range(files) : f.id = id /\ f.name = n

(* A file that is neither scheduled nor being written is, in the folder, what is *)
(* on the screen; except for the files and the lists the folder need not agree    *)
(* with, and where a save failed or a change was never scheduled (touch: "every  *)
(* edit reaches the folder on its own").                                     *)
SettledFilesAreSaved ==
  load = "done" /\ ~blind =>
    \A f \in Range(files) :
      \/ f.id \in due \cup AtRisk \cup unsaved
      \/ InFlight(f.id) # {}
      \/ disk[f.name] = Seen(f.id)

(* At most one file is being created, renamed or deleted, whatever is done with  *)
(* the name field meanwhile (busy).                                          *)
OneNameOperation ==
  LET NameOps == {c \in BagToSet(calls) : c.kind # "put"} IN
  /\ \A c \in NameOps : NameOps = {c} /\ calls[c] = 1
  /\ busy <=> NameOps # {}

(* A scheduled edit is written, or its failure is shown, unless the file leaves   *)
(* the list, its calls overlap, or it is changed in a way nothing schedules.     *)
EditsAreWritten ==
  \A id \in Ids :
    id \in due ~>
      \/ saveErr = id
      \/ ~Listed(id)
      \/ id \in doubtful \cup unsaved
      \/ Listed(id) /\ id \notin due /\ disk[Named(id).name] = Seen(id)

(* What the toolbar says (SaveState): "nothing while the file on disk is up to   *)
(* date", of a file no call overlapped on.                                    *)
CleanMeansSaved ==
  load = "done" =>
    \A f \in Range(files) :
      f.id \notin dirty \cup doubtful /\ saveErr = 0 => disk[f.name] = Seen(f.id)

=============================================================================
