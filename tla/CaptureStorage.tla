---------------------------- MODULE CaptureStorage ----------------------------
(***************************************************************************)
(* Capture files: the switchable StorageSink (storage/storage_sink.go), the *)
(* file writer it opens (storage/capture_session_writer.go, with the file   *)
(* name chosen in main.go) and the reader behind /api/captures              *)
(* (storage/capture_session_reader.go).  The supervisor switches the sink   *)
(* on and off; connection goroutines record through it; a write may fail    *)
(* half way and the process may die at any point, leaving what it wrote.    *)
(*                                                                         *)
(* A file is a sequence of pieces, one for each call of Write.  Records are  *)
(* numbered.  The sink's RWMutex is a set of readers and a pending writer,   *)
(* which Go's RWMutex lets no new reader overtake.                           *)
(***************************************************************************)
EXTENDS Naturals, Sequences, FiniteSets

CONSTANTS
  Recorders,   \* connection goroutines
  NoSession,   \* s.current = nil, and a file that does not exist
  MaxSecond,   \* bound: the clock, in seconds, at most
  MaxRecords,  \* bound: records written in a behaviour
  MaxFaults    \* bound: failed writes and process deaths in a behaviour

Piece == [kind: {"header", "payload", "crc", "torn"}, record: 0..MaxRecords]

ASSUME CaptureStorageAssumption ==
  /\ MaxSecond \in Nat /\ MaxRecords \in Nat /\ MaxFaults \in Nat
  /\ NoSession \notin Nat /\ NoSession \notin Recorders /\ NoSession \notin Seq(Piece)

Seconds == 0..MaxSecond
Records == 1..MaxRecords

Header     == [kind |-> "header", record |-> 0]
Payload(r) == [kind |-> "payload", record |-> r]
Crc(r)     == [kind |-> "crc", record |-> r]
Torn(r)    == [kind |-> "torn", record |-> r]   \* a write that stopped half way

VARIABLES
  second,     \* what time.Now().Format yields
  files,      \* the capture folder: the pieces of each file, named by a second
  current,    \* StorageSink.current: the file the open session writes to
  readLocks,  \* recorders in WriteRequest or WriteResponse
  writer,     \* the recorder that holds the file writer's mutex, or NoSession
  switching,  \* "no", or where a call of Enable or Disable is
  opened,     \* the file a call of Enable has opened
  recorder, record,     \* where each recorder is, the record it holds
  written,    \* records given out so far
  faults,
  accepted,   \* history: <<file, record>> of every write that returned nil
  damaged,    \* history: files that a write failed in, or that a death cut off
  overwritten \* history: files opened a second time

disk  == <<files, second>>
ghost == <<accepted, damaged, overwritten>>
vars  == <<disk, current, readLocks, writer, switching, opened, recorder, record,
           written, faults, ghost>>

Init ==
  /\ second = 0
  /\ files = [s \in Seconds |-> NoSession]
  /\ current = NoSession
  /\ readLocks = {}
  /\ writer = NoSession
  /\ switching = "no"
  /\ opened = NoSession
  /\ recorder = [w \in Recorders |-> "idle"]
  /\ record = [w \in Recorders |-> 0]
  /\ written = 0
  /\ faults = 0
  /\ accepted = {}
  /\ damaged = {}
  /\ overwritten = {}

Fault == faults < MaxFaults /\ faults' = faults + 1

AppendTo(f, piece) == files' = [files EXCEPT ![f] = Append(@, piece)]

-----------------------------------------------------------------------------
(* The supervisor: SetStorageEnabled. *)

CallEnable ==
  /\ switching = "no"
  /\ current = NoSession
  /\ switching' = "enable"
  /\ UNCHANGED <<disk, current, readLocks, writer, opened, recorder, record, written,
                 faults, ghost>>

CallDisable ==
  /\ switching = "no"
  /\ current # NoSession
  /\ switching' = "disable"
  /\ UNCHANGED <<disk, current, readLocks, writer, opened, recorder, record, written,
                 faults, ghost>>

(* The factory names the file by the time and truncates it when it exists. *)
OpenFile ==
  /\ switching = "enable"
  /\ readLocks = {}
  /\ \/ /\ files' = [files EXCEPT ![second] = <<>>]
        /\ overwritten' = overwritten \cup
                          (IF files[second] = NoSession THEN {} ELSE {second})
        /\ switching' = "header"
        /\ opened' = second
        /\ UNCHANGED faults
     \/ (* no folder or no file *)
        /\ Fault
        /\ switching' = "no"
        /\ UNCHANGED <<files, overwritten, opened>>
  /\ UNCHANGED <<second, current, readLocks, writer, recorder, record, written, accepted,
                 damaged>>

(* Mutant: no header is written. *)
SkipHeader ==
  /\ switching = "header"
  /\ switching' = "no"
  /\ opened' = NoSession
  /\ current' = opened
  /\ UNCHANGED <<disk, readLocks, writer, recorder, record, written, faults, ghost>>

(* Still under the sink's lock; without its header the file is given up.   *)
WriteHeader ==
  /\ switching = "header"
  /\ switching' = "no"
  /\ opened' = NoSession
  /\ \/ /\ AppendTo(opened, Header)
        /\ current' = opened
        /\ UNCHANGED <<faults, damaged>>
     \/ /\ Fault
        /\ AppendTo(opened, Torn(0))
        /\ damaged' = damaged \cup {opened}
        /\ UNCHANGED current
  /\ UNCHANGED <<second, readLocks, writer, recorder, record, written, accepted,
                 overwritten>>

(* Mutant: the file is closed under the recorders that write to it. *)
CloseAtOnce ==
  /\ switching = "disable"
  /\ current' = NoSession
  /\ switching' = "no"
  /\ UNCHANGED <<disk, readLocks, writer, opened, recorder, record, written, faults, ghost>>

CloseSession ==
  /\ switching = "disable"
  /\ readLocks = {}
  /\ current' = NoSession
  /\ switching' = "no"
  /\ UNCHANGED <<disk, readLocks, writer, opened, recorder, record, written, faults, ghost>>

-----------------------------------------------------------------------------
(* A recorder: isStoring, then WriteRequest or WriteResponse. *)

(* isStoring, under a read lock it gives back. *)
Decide(w) ==
  /\ recorder[w] = "idle"
  /\ switching = "no"
  /\ current # NoSession
  /\ written < MaxRecords
  /\ written' = written + 1
  /\ record' = [record EXCEPT ![w] = written + 1]
  /\ recorder' = [recorder EXCEPT ![w] = "decided"]
  /\ UNCHANGED <<disk, current, readLocks, writer, switching, opened, faults, ghost>>

(* The sink may have been switched since: a record is dropped, or goes to  *)
(* the session that is open now.                                           *)
EnterSink(w) ==
  /\ recorder[w] = "decided"
  /\ switching = "no"
  /\ IF current = NoSession
     THEN /\ recorder' = [recorder EXCEPT ![w] = "idle"]
          /\ UNCHANGED readLocks
     ELSE /\ recorder' = [recorder EXCEPT ![w] = "framed"]
          /\ readLocks' = readLocks \cup {w}
  /\ UNCHANGED <<disk, current, writer, switching, opened, record, written, faults, ghost>>

(* Mutant: the sink's read lock is never given back. *)
LeavesLocked(w) ==
  /\ recorder' = [recorder EXCEPT ![w] = "idle"]
  /\ writer' = NoSession
  /\ UNCHANGED readLocks

Leaves(w) ==
  /\ recorder' = [recorder EXCEPT ![w] = "idle"]
  /\ readLocks' = readLocks \ {w}
  /\ writer' = NoSession

(* writeRecord, under the writer's own mutex: the payload, then its CRC. *)
WritePayload(w) ==
  /\ recorder[w] = "framed"
  /\ writer = NoSession
  /\ \/ /\ AppendTo(current, Payload(record[w]))
        /\ recorder' = [recorder EXCEPT ![w] = "payload"]
        /\ writer' = w
        /\ UNCHANGED <<readLocks, faults, damaged>>
     \/ /\ Fault
        /\ AppendTo(current, Torn(record[w]))
        /\ Leaves(w)
        /\ damaged' = damaged \cup {current}
  /\ UNCHANGED <<second, current, switching, opened, record, written, accepted,
                 overwritten>>

WriteCrc(w) ==
  /\ recorder[w] = "payload"
  /\ Leaves(w)
  /\ \/ /\ AppendTo(current, Crc(record[w]))
        /\ accepted' = accepted \cup {<<current, record[w]>>}
        /\ UNCHANGED <<faults, damaged>>
     \/ /\ Fault
        /\ AppendTo(current, Torn(record[w]))
        /\ damaged' = damaged \cup {current}
        /\ UNCHANGED accepted
  /\ UNCHANGED <<second, current, switching, opened, record, written, overwritten>>

-----------------------------------------------------------------------------
Tick ==
  /\ second < MaxSecond
  /\ second' = second + 1
  /\ UNCHANGED <<files, current, readLocks, writer, switching, opened, recorder, record,
                 written, faults, ghost>>

(* The process dies and is started again; what it was writing stays behind. *)
(* That main enables storage when config.yaml says so is a CallEnable.      *)
Crash ==
  /\ Fault
  /\ current' = NoSession
  /\ readLocks' = {}
  /\ writer' = NoSession
  /\ switching' = "no"
  /\ opened' = NoSession
  /\ recorder' = [w \in Recorders |-> "idle"]
  /\ damaged' = damaged \cup ({current, opened} \cap Seconds)
  /\ UNCHANGED <<disk, record, written, accepted, overwritten>>

-----------------------------------------------------------------------------
(* The reader: the header, then records until the first it cannot read.  It  *)
(* also refuses a field of more than 256 MiB, which a capture limit above     *)
(* that lets the writer write: records here are within it.                   *)

Complete(pieces, i) ==
  /\ pieces[i].kind = "payload"
  /\ i < Len(pieces)
  /\ pieces[i + 1] = Crc(pieces[i].record)

(* The records before the first damaged one; their pieces come in pairs.   *)
RecordsRead(f) ==
  LET pieces == files[f] IN
  IF pieces = <<>> \/ pieces[1] # Header THEN {}
  ELSE {pieces[2 * k].record :
          k \in {n \in 1..Len(pieces) \div 2 :
                   \A m \in 1..n : Complete(pieces, 2 * m)}}

(* countCaptureRecords and readCaptureRecordsPage: an error anywhere is an  *)
(* error of the whole request.                                              *)
ReadsWithoutError(f) ==
  LET pieces == files[f] IN
  /\ pieces # <<>> /\ pieces[1] = Header
  /\ Len(pieces) % 2 = 1
  /\ \A k \in 1..Len(pieces) \div 2 : Complete(pieces, 2 * k)

-----------------------------------------------------------------------------
Switch == CallEnable \/ CallDisable \/ OpenFile \/ WriteHeader \/ CloseSession

Record(w) == Decide(w) \/ EnterSink(w) \/ WritePayload(w) \/ WriteCrc(w)

Next == Switch \/ (\E w \in Recorders : Record(w)) \/ Tick \/ Crash

Spec == Init /\ [][Next]_vars

(* Goroutines that can run do, and the writer's mutex starves nobody.      *)
Fairness ==
  /\ WF_vars(OpenFile \/ WriteHeader \/ CloseSession)
  /\ \A w \in Recorders :
       WF_vars(EnterSink(w)) /\ SF_vars(WritePayload(w)) /\ WF_vars(WriteCrc(w))

FairSpec == Spec /\ Fairness

-----------------------------------------------------------------------------
(* The shape of the state; an open session has its file. *)
TypeOK ==
  /\ second \in Seconds
  /\ files \in [Seconds -> Seq(Piece) \cup {NoSession}]
  /\ current \in Seconds \cup {NoSession}
  /\ current # NoSession => files[current] # NoSession
  /\ readLocks \subseteq Recorders
  /\ writer \in Recorders \cup {NoSession}
  /\ switching \in {"no", "enable", "header", "disable"}
  /\ opened \in Seconds \cup {NoSession}
  /\ switching = "header" => opened # NoSession /\ files[opened] # NoSession
  /\ recorder \in [Recorders -> {"idle", "decided", "framed", "payload"}]
  /\ record \in [Recorders -> 0..MaxRecords]
  /\ written \in 0..MaxRecords
  /\ faults \in 0..MaxFaults
  /\ accepted \subseteq Seconds \X Records
  /\ damaged \subseteq Seconds
  /\ overwritten \subseteq Seconds

(* No recorder writes to a file that has been closed, and no two sessions   *)
(* are open: Disable waits for the writes under way.                        *)
WritersHaveASession ==
  \A w \in Recorders :
    recorder[w] \in {"framed", "payload"} =>
      w \in readLocks /\ current # NoSession /\ switching # "header"

(* Records of different connections never interleave: whatever follows a   *)
(* payload is its own checksum, or what is left of it.                     *)
RecordsNeverInterleave ==
  \A f \in Seconds : files[f] # NoSession =>
    \A i \in DOMAIN files[f] :
      files[f][i].kind = "payload" /\ i < Len(files[f]) =>
        files[f][i + 1] \in {Crc(files[f][i].record), Torn(files[f][i].record)}

(* StorageSink: a session is written by nobody but the recorders inside it, *)
(* one whole record after the other.                                       *)
SinkInv == TypeOK /\ WritersHaveASession /\ RecordsNeverInterleave

(* A file no write failed in is read without error as soon as nobody writes *)
(* to it, and yields exactly the records whose write was reported to have   *)
(* succeeded, each of them in this one file.                                *)
UndamagedFilesAreWhole ==
  \A f \in Seconds \ (damaged \cup overwritten) :
    files[f] # NoSession /\ f # opened /\ (current = f => readLocks = {}) =>
      /\ ReadsWithoutError(f)
      /\ RecordsRead(f) = {r \in Records : <<f, r>> \in accepted}
      /\ \A g \in Seconds \ {f} : \A r \in RecordsRead(f) : <<g, r>> \notin accepted

(* Every call of Enable or Disable returns. *)
SwitchReturns == switching # "no" ~> switching = "no"

=============================================================================
