------------------------- MODULE CaptureStorage_proofs -------------------------
(***************************************************************************)
(* Proofs about CaptureStorage, for any recorders and any number of seconds,   *)
(* records and faults, deaths of the process included.                       *)
(*                                                                         *)
(* That records do not interleave is not inductive: it takes that the file     *)
(* writer's mutex is held by exactly the recorder that has written a payload   *)
(* and not its checksum, that this payload is then the last piece of the open   *)
(* file, and that nobody but the switch writes to a file that is being opened. *)
(* What a file holds follows in a second invariant: payloads and checksums in  *)
(* turn, and as many of them as there are records accepted for the file.       *)
(***************************************************************************)
EXTENDS CaptureStorage, TLAPS

Whole(pieces) ==
  \A i \in DOMAIN pieces :
    pieces[i].kind = "payload" /\ i < Len(pieces) =>
      pieces[i + 1] \in {Crc(pieces[i].record), Torn(pieces[i].record)}

Final(pieces) == pieces[Len(pieces)]

(* The mutex of the file writer is held between the two writes of a record.     *)
WriterHolds == \A w \in Recorders : recorder[w] = "payload" <=> writer = w

(* The last piece of the open file is a payload only while its writer is there. *)
OpenEnd ==
  current # NoSession =>
    IF writer = NoSession
    THEN files[current] = <<>> \/ Final(files[current]).kind # "payload"
    ELSE files[current] # <<>> /\ Final(files[current]) = Payload(record[writer])

(* A file is being opened while none is open, and is empty until its header.    *)
Switching ==
  /\ switching \in {"enable", "header"} => current = NoSession
  /\ switching = "header" => opened \in Seconds /\ files[opened] = <<>>

(* Whoever has decided to record has been given a record.                     *)
RecordsGiven == \A w \in Recorders : recorder[w] # "idle" => record[w] \in Records

IndInv == SinkInv /\ WriterHolds /\ OpenEnd /\ Switching /\ RecordsGiven

LEMMA Names ==
  /\ NoSession \notin Seconds /\ NoSession \notin Recorders /\ NoSession \notin Seq(Piece)
  /\ <<>> \in Seq(Piece) /\ <<>> # NoSession
<1>1. NoSession \notin Seconds
  BY CaptureStorageAssumption DEF Seconds
<1>2. <<>> \in Seq(Piece)
  OBVIOUS
<1>3. QED
  BY <1>1, <1>2, CaptureStorageAssumption

(* A piece behind a sequence of whole records, or behind its own payload.       *)
LEMMA AppendWhole ==
  ASSUME NEW pieces \in Seq(Piece), Whole(pieces), NEW piece \in Piece,
         \/ pieces = <<>>
         \/ Final(pieces).kind # "payload"
         \/ piece \in {Crc(Final(pieces).record), Torn(Final(pieces).record)}
  PROVE  /\ Append(pieces, piece) \in Seq(Piece) /\ Append(pieces, piece) # <<>>
         /\ Final(Append(pieces, piece)) = piece
         /\ Whole(Append(pieces, piece))
<1> DEFINE n == Len(pieces)
           longer == Append(pieces, piece)
<1>1. /\ longer \in Seq(Piece) /\ longer # <<>> /\ Len(longer) = n + 1 /\ n \in Nat
      /\ longer[n + 1] = piece /\ \A i \in 1..n : longer[i] = pieces[i]
      /\ DOMAIN longer = 1..(n + 1) /\ DOMAIN pieces = 1..n
  <2>1. longer \in Seq(Piece) /\ Len(longer) = n + 1 /\ n \in Nat /\ DOMAIN pieces = 1..n
    OBVIOUS
  <2>2. longer[n + 1] = piece /\ \A i \in 1..n : longer[i] = pieces[i]
    OBVIOUS
  <2>3. DOMAIN longer = 1..(n + 1) /\ longer # <<>>
    BY <2>1
  <2>4. QED
    BY <2>1, <2>2, <2>3
<1>2. pieces = <<>> => n = 0
  OBVIOUS
<1> HIDE DEF n, longer
<1>3. Whole(longer)
  <2> SUFFICES ASSUME NEW i \in 1..(n + 1), longer[i].kind = "payload", i < n + 1
               PROVE  longer[i + 1] \in {Crc(longer[i].record), Torn(longer[i].record)}
    BY <1>1 DEF Whole
  <2>1. i \in 1..n /\ longer[i] = pieces[i]
    BY <1>1
  <2>2. CASE i < n
    BY <1>1, <2>1, <2>2 DEF Whole, n
  <2>3. CASE i = n
    <3>1. pieces # <<>> /\ Final(pieces) = pieces[i] /\ longer[i + 1] = piece
      BY <1>1, <1>2, <2>1, <2>3 DEF Final, n
    <3>2. QED
      BY <2>1, <3>1
  <2>4. QED
    BY <1>1, <2>1, <2>2, <2>3
<1>4. QED
  BY <1>1, <1>3 DEF Final, longer

(* One write to one file.                                                    *)
LEMMA AppendToFile ==
  ASSUME TypeOK, RecordsNeverInterleave, NEW f \in Seconds, files[f] # NoSession,
         NEW piece \in Piece, AppendTo(f, piece),
         \/ files[f] = <<>>
         \/ Final(files[f]).kind # "payload"
         \/ piece \in {Crc(Final(files[f]).record), Torn(Final(files[f]).record)}
  PROVE  /\ files' \in [Seconds -> Seq(Piece) \cup {NoSession}]
         /\ files'[f] # NoSession /\ files'[f] # <<>> /\ Final(files'[f]) = piece
         /\ \A g \in Seconds : g # f => files'[g] = files[g]
         /\ RecordsNeverInterleave'
<1>1. files[f] \in Seq(Piece) /\ Whole(files[f])
  BY DEF TypeOK, RecordsNeverInterleave, Whole
<1>2. /\ files'[f] = Append(files[f], piece)
      /\ \A g \in Seconds : g # f => files'[g] = files[g]
      /\ files' = [files EXCEPT ![f] = Append(files[f], piece)]
  BY DEF AppendTo, TypeOK
<1>3. /\ files'[f] \in Seq(Piece) /\ files'[f] # <<>> /\ Final(files'[f]) = piece /\ Whole(files'[f])
  BY <1>1, <1>2, AppendWhole
<1>4. files' \in [Seconds -> Seq(Piece) \cup {NoSession}] /\ files'[f] # NoSession
  BY <1>2, <1>3, Names DEF TypeOK
<1>5. RecordsNeverInterleave'
  <2> SUFFICES ASSUME NEW g \in Seconds, files'[g] # NoSession PROVE Whole(files'[g])
    BY DEF RecordsNeverInterleave, Whole
  <2>1. CASE g = f
    BY <1>3, <2>1
  <2>2. CASE g # f
    BY <1>2, <2>2 DEF RecordsNeverInterleave, Whole
  <2>3. QED
    BY <2>1, <2>2
<1>6. QED
  BY <1>2, <1>3, <1>4, <1>5

LEMMA Pieces ==
  /\ Header \in Piece /\ Torn(0) \in Piece
  /\ \A r \in 0..MaxRecords : Payload(r) \in Piece /\ Crc(r) \in Piece /\ Torn(r) \in Piece
  /\ Header.kind # "payload"
  /\ \A r : Crc(r).kind # "payload" /\ Torn(r).kind # "payload" /\ Payload(r).record = r
  BY CaptureStorageAssumption DEF Header, Torn, Payload, Crc, Piece

LEMMA InitEstablishes == Init => IndInv
<1> SUFFICES ASSUME Init PROVE IndInv
  OBVIOUS
<1> USE CaptureStorageAssumption, Names DEF Init
<1>1. TypeOK
  BY DEF TypeOK, Seconds
<1>2. WritersHaveASession /\ RecordsNeverInterleave /\ WriterHolds /\ OpenEnd /\ Switching
       /\ RecordsGiven
  BY DEF WritersHaveASession, RecordsNeverInterleave, WriterHolds, OpenEnd, Switching, RecordsGiven
<1>3. QED
  BY <1>1, <1>2 DEF IndInv, SinkInv

-----------------------------------------------------------------------------
(* The switch. *)

LEMMA CallKeeps ==
  ASSUME IndInv, CallEnable \/ CallDisable
  PROVE  IndInv'
<1>1. /\ UNCHANGED <<disk, current, readLocks, writer, opened, recorder, record, written, faults,
                     ghost>>
      /\ \/ current = NoSession /\ switching' = "enable"
         \/ current # NoSession /\ switching' = "disable"
  BY DEF CallEnable, CallDisable
<1>2. TypeOK'
  BY <1>1 DEF IndInv, SinkInv, TypeOK, disk, ghost
<1>3. WritersHaveASession' /\ RecordsNeverInterleave'
  BY <1>1 DEF IndInv, SinkInv, WritersHaveASession, RecordsNeverInterleave, disk
<1>4. WriterHolds' /\ OpenEnd' /\ Switching' /\ RecordsGiven'
  BY <1>1 DEF IndInv, WriterHolds, OpenEnd, Switching, RecordsGiven, disk, Final
<1>5. QED
  BY <1>2, <1>3, <1>4 DEF IndInv, SinkInv

(* Nobody writes while no session is open, so a file may be truncated.          *)
LEMMA NoWriterWithoutSession ==
  ASSUME IndInv, current = NoSession
  PROVE  writer = NoSession /\ \A w \in Recorders : recorder[w] \notin {"framed", "payload"}
  BY DEF IndInv, SinkInv, TypeOK, WritersHaveASession, WriterHolds

LEMMA OpenKeeps ==
  ASSUME IndInv, OpenFile
  PROVE  IndInv'
<1>1. /\ switching = "enable" /\ current = NoSession /\ current' = current
      /\ UNCHANGED <<second, readLocks, writer, recorder, record, written, accepted, damaged>>
  BY DEF OpenFile, IndInv, Switching
<1>2. TypeOK /\ second \in Seconds
  BY DEF IndInv, SinkInv, TypeOK
<1>3. CASE /\ files' = [files EXCEPT ![second] = <<>>] /\ faults' = faults
           /\ overwritten' = overwritten \cup (IF files[second] = NoSession THEN {} ELSE {second})
           /\ switching' = "header" /\ opened' = second
  <2>1. files'[second] = <<>> /\ \A g \in Seconds : g # second => files'[g] = files[g]
    BY <1>2, <1>3 DEF TypeOK
  <2>2. files' \in [Seconds -> Seq(Piece) \cup {NoSession}]
    BY <1>2, <1>3, Names DEF TypeOK
  <2>3. overwritten' \subseteq Seconds
    BY <1>2, <1>3 DEF TypeOK
  <2>4. TypeOK'
    BY <1>1, <1>2, <1>3, <2>1, <2>2, <2>3, Names DEF TypeOK
  <2>5. RecordsNeverInterleave'
    BY <1>2, <2>1 DEF IndInv, SinkInv, RecordsNeverInterleave
  <2>6. WritersHaveASession'
    BY <1>1, NoWriterWithoutSession DEF WritersHaveASession
  <2>7. WriterHolds' /\ OpenEnd' /\ Switching' /\ RecordsGiven'
    BY <1>1, <1>2, <1>3, <2>1 DEF IndInv, WriterHolds, OpenEnd, Switching, RecordsGiven
  <2>8. QED
    BY <2>4, <2>5, <2>6, <2>7 DEF IndInv, SinkInv
<1>4. CASE Fault /\ switching' = "no" /\ UNCHANGED <<files, overwritten, opened>>
  <2>1. faults' \in 0..MaxFaults
    BY <1>2, <1>4, CaptureStorageAssumption DEF Fault, TypeOK
  <2>2. TypeOK'
    BY <1>1, <1>2, <1>4, <2>1 DEF TypeOK
  <2>3. WritersHaveASession' /\ RecordsNeverInterleave'
    BY <1>1, <1>4 DEF IndInv, SinkInv, WritersHaveASession, RecordsNeverInterleave
  <2>4. WriterHolds' /\ OpenEnd' /\ Switching' /\ RecordsGiven'
    BY <1>1, <1>4 DEF IndInv, WriterHolds, OpenEnd, Switching, RecordsGiven
  <2>5. QED
    BY <2>2, <2>3, <2>4 DEF IndInv, SinkInv
<1>5. QED
  BY <1>3, <1>4 DEF OpenFile

LEMMA HeaderKeeps ==
  ASSUME IndInv, WriteHeader
  PROVE  IndInv'
<1>1. /\ switching = "header" /\ switching' = "no" /\ current = NoSession
      /\ opened \in Seconds /\ files[opened] = <<>> /\ opened' = NoSession
      /\ UNCHANGED <<second, readLocks, writer, recorder, record, written, accepted, overwritten>>
  BY DEF WriteHeader, IndInv, Switching
<1>2. TypeOK /\ RecordsNeverInterleave
  BY DEF IndInv, SinkInv
<1>3. writer = NoSession /\ \A w \in Recorders : recorder[w] \notin {"framed", "payload"}
  BY <1>1, NoWriterWithoutSession
<1>4. ASSUME NEW piece \in {Header, Torn(0)}, AppendTo(opened, piece)
      PROVE  /\ files' \in [Seconds -> Seq(Piece) \cup {NoSession}]
             /\ files'[opened] # NoSession /\ files'[opened] # <<>>
             /\ Final(files'[opened]) = piece
             /\ RecordsNeverInterleave'
  BY <1>1, <1>2, <1>4, Names, Pieces, AppendToFile
<1>5. WritersHaveASession' /\ WriterHolds' /\ Switching' /\ RecordsGiven'
  BY <1>1, <1>3 DEF IndInv, WritersHaveASession, WriterHolds, Switching, RecordsGiven
<1>6. CASE AppendTo(opened, Header) /\ current' = opened /\ UNCHANGED <<faults, damaged>>
  <2>1. /\ files' \in [Seconds -> Seq(Piece) \cup {NoSession}]
        /\ files'[opened] # NoSession /\ Final(files'[opened]) = Header
        /\ RecordsNeverInterleave'
    BY <1>4, <1>6
  <2>2. TypeOK'
    BY <1>1, <1>2, <1>6, <2>1 DEF TypeOK
  <2>3. OpenEnd'
    BY <1>1, <1>3, <1>6, <2>1, Pieces DEF OpenEnd
  <2>4. QED
    BY <1>5, <2>1, <2>2, <2>3 DEF IndInv, SinkInv
<1>7. CASE Fault /\ AppendTo(opened, Torn(0)) /\ damaged' = damaged \cup {opened} /\ UNCHANGED current
  <2>1. /\ files' \in [Seconds -> Seq(Piece) \cup {NoSession}] /\ RecordsNeverInterleave'
    BY <1>4, <1>7
  <2>2. faults' \in 0..MaxFaults /\ damaged' \subseteq Seconds
    BY <1>1, <1>2, <1>7, CaptureStorageAssumption DEF Fault, TypeOK
  <2>3. TypeOK'
    BY <1>1, <1>2, <1>7, <2>1, <2>2 DEF TypeOK
  <2>4. OpenEnd'
    BY <1>1, <1>7 DEF OpenEnd
  <2>5. QED
    BY <1>5, <2>1, <2>3, <2>4 DEF IndInv, SinkInv
<1>8. QED
  BY <1>6, <1>7 DEF WriteHeader

(* Close waits for the recorders inside: none of them is left.                *)
LEMMA CloseKeeps ==
  ASSUME IndInv, CloseSession
  PROVE  IndInv'
<1>1. /\ readLocks = {} /\ current' = NoSession /\ switching' = "no"
      /\ UNCHANGED <<disk, readLocks, writer, opened, recorder, record, written, faults, ghost>>
  BY DEF CloseSession
<1>2. \A w \in Recorders : recorder[w] \notin {"framed", "payload"}
  BY <1>1 DEF IndInv, SinkInv, WritersHaveASession
<1>3. TypeOK'
  BY <1>1 DEF IndInv, SinkInv, TypeOK, disk, ghost
<1>4. WritersHaveASession' /\ RecordsNeverInterleave'
  BY <1>1, <1>2 DEF IndInv, SinkInv, WritersHaveASession, RecordsNeverInterleave, disk
<1>5. WriterHolds' /\ OpenEnd' /\ Switching' /\ RecordsGiven'
  BY <1>1 DEF IndInv, WriterHolds, OpenEnd, Switching, RecordsGiven
<1>6. QED
  BY <1>3, <1>4, <1>5 DEF IndInv, SinkInv

-----------------------------------------------------------------------------
(* The recorders. *)

LEMMA DecideKeeps ==
  ASSUME IndInv, NEW w \in Recorders, Decide(w)
  PROVE  IndInv'
<1>1. /\ recorder[w] = "idle" /\ written < MaxRecords /\ written' = written + 1
      /\ record' = [record EXCEPT ![w] = written + 1]
      /\ recorder' = [recorder EXCEPT ![w] = "decided"]
      /\ UNCHANGED <<disk, current, readLocks, writer, switching, opened, faults, ghost>>
  BY DEF Decide
<1>2. TypeOK
  BY DEF IndInv, SinkInv
<1>3. written + 1 \in 0..MaxRecords /\ written + 1 \in Records
  BY <1>1, <1>2, CaptureStorageAssumption DEF TypeOK, Records
<1>4. TypeOK'
  BY <1>1, <1>2, <1>3 DEF TypeOK, disk, ghost
<1>5. WritersHaveASession' /\ RecordsNeverInterleave'
  BY <1>1, <1>2 DEF IndInv, SinkInv, TypeOK, WritersHaveASession, RecordsNeverInterleave, disk
<1>6. WriterHolds' /\ writer # w
  BY <1>1, <1>2 DEF IndInv, TypeOK, WriterHolds
<1>7. OpenEnd'
  <2>1. writer # NoSession => record'[writer] = record[writer]
    BY <1>1, <1>2, <1>6 DEF TypeOK
  <2>2. files' = files /\ writer' = writer /\ current' = current
    BY <1>1 DEF disk
  <2>3. QED
    BY <2>1, <2>2 DEF IndInv, OpenEnd
<1>8. Switching' /\ RecordsGiven'
  BY <1>1, <1>2, <1>3 DEF IndInv, TypeOK, Switching, RecordsGiven, disk
<1>9. QED
  BY <1>4, <1>5, <1>6, <1>7, <1>8 DEF IndInv, SinkInv

LEMMA EnterKeeps ==
  ASSUME IndInv, NEW w \in Recorders, EnterSink(w)
  PROVE  IndInv'
<1>1. /\ recorder[w] = "decided" /\ switching = "no"
      /\ UNCHANGED <<disk, current, writer, switching, opened, record, written, faults, ghost>>
      /\ \/ recorder' = [recorder EXCEPT ![w] = "idle"] /\ readLocks' = readLocks
         \/ /\ current # NoSession
            /\ recorder' = [recorder EXCEPT ![w] = "framed"] /\ readLocks' = readLocks \cup {w}
  BY DEF EnterSink
<1>2. TypeOK
  BY DEF IndInv, SinkInv
<1>3. TypeOK'
  BY <1>1, <1>2 DEF TypeOK, disk, ghost
<1>4. WritersHaveASession' /\ RecordsNeverInterleave'
  BY <1>1, <1>2 DEF IndInv, SinkInv, TypeOK, WritersHaveASession, RecordsNeverInterleave, disk
<1>5. WriterHolds' /\ Switching' /\ RecordsGiven'
  BY <1>1, <1>2 DEF IndInv, TypeOK, WriterHolds, Switching, RecordsGiven, disk
<1>6. OpenEnd'
  BY <1>1 DEF IndInv, OpenEnd, disk
<1>7. QED
  BY <1>3, <1>4, <1>5, <1>6 DEF IndInv, SinkInv

(* A payload is written behind a whole record, and its writer keeps the mutex;   *)
(* a payload that fails leaves its remains.                                   *)
LEMMA PayloadKeeps ==
  ASSUME IndInv, NEW w \in Recorders, WritePayload(w)
  PROVE  IndInv'
<1>1. /\ recorder[w] = "framed" /\ writer = NoSession
      /\ UNCHANGED <<second, current, switching, opened, record, written, accepted, overwritten>>
  BY DEF WritePayload
<1>2. TypeOK /\ RecordsNeverInterleave
  BY DEF IndInv, SinkInv
<1>3. /\ current \in Seconds /\ files[current] # NoSession /\ switching # "header"
      /\ files[current] = <<>> \/ Final(files[current]).kind # "payload"
  BY <1>1, <1>2 DEF IndInv, SinkInv, TypeOK, WritersHaveASession, OpenEnd
<1>4. record[w] \in 0..MaxRecords
  BY <1>2 DEF TypeOK
<1>5. ASSUME NEW piece \in {Payload(record[w]), Torn(record[w])}, AppendTo(current, piece)
      PROVE  /\ files' \in [Seconds -> Seq(Piece) \cup {NoSession}]
             /\ files'[current] # NoSession /\ files'[current] # <<>>
             /\ Final(files'[current]) = piece
             /\ RecordsNeverInterleave'
  BY <1>2, <1>3, <1>4, <1>5, Pieces, AppendToFile
<1>6. \A v \in Recorders : recorder[v] # "payload"
  BY <1>1, Names DEF IndInv, WriterHolds
<1>7. Switching'
  BY <1>1, <1>3 DEF IndInv, Switching
<1>8. CASE /\ AppendTo(current, Payload(record[w]))
           /\ recorder' = [recorder EXCEPT ![w] = "payload"] /\ writer' = w
           /\ UNCHANGED <<readLocks, faults, damaged>>
  <2>1. /\ files' \in [Seconds -> Seq(Piece) \cup {NoSession}]
        /\ files'[current] # NoSession /\ files'[current] # <<>>
        /\ Final(files'[current]) = Payload(record[w]) /\ RecordsNeverInterleave'
    BY <1>5, <1>8
  <2>2. TypeOK'
    BY <1>1, <1>2, <1>3, <1>8, <2>1 DEF TypeOK
  <2>3. WritersHaveASession' /\ WriterHolds' /\ RecordsGiven'
    BY <1>1, <1>2, <1>3, <1>6, <1>8
       DEF IndInv, SinkInv, TypeOK, WritersHaveASession, WriterHolds, RecordsGiven
  <2>4. OpenEnd'
    BY <1>1, <1>8, <2>1, Names DEF OpenEnd
  <2>5. QED
    BY <1>7, <2>1, <2>2, <2>3, <2>4 DEF IndInv, SinkInv
<1>9. CASE Fault /\ AppendTo(current, Torn(record[w])) /\ Leaves(w)
            /\ damaged' = damaged \cup {current}
  <2>1. /\ files' \in [Seconds -> Seq(Piece) \cup {NoSession}]
        /\ files'[current] # NoSession
        /\ Final(files'[current]) = Torn(record[w]) /\ RecordsNeverInterleave'
    BY <1>5, <1>9
  <2>2. faults' \in 0..MaxFaults /\ damaged' \subseteq Seconds
    BY <1>2, <1>3, <1>9, CaptureStorageAssumption DEF Fault, TypeOK
  <2>3. TypeOK'
    BY <1>1, <1>2, <1>3, <1>9, <2>1, <2>2 DEF Leaves, TypeOK
  <2>4. WritersHaveASession' /\ WriterHolds' /\ RecordsGiven'
    BY <1>1, <1>2, <1>3, <1>6, <1>9, Names
       DEF IndInv, SinkInv, TypeOK, WritersHaveASession, WriterHolds, RecordsGiven, Leaves
  <2>5. OpenEnd'
    BY <1>1, <1>9, <2>1, Pieces DEF OpenEnd, Leaves
  <2>6. QED
    BY <1>7, <2>1, <2>3, <2>4, <2>5 DEF IndInv, SinkInv
<1>10. QED
  BY <1>8, <1>9 DEF WritePayload

(* The checksum, or its remains, comes right behind the writer's own payload.    *)
LEMMA CrcKeeps ==
  ASSUME IndInv, NEW w \in Recorders, WriteCrc(w)
  PROVE  IndInv'
<1>1. /\ recorder[w] = "payload" /\ Leaves(w) /\ writer = w
      /\ UNCHANGED <<second, current, switching, opened, record, written, overwritten>>
  BY DEF WriteCrc, IndInv, WriterHolds
<1>2. TypeOK /\ RecordsNeverInterleave
  BY DEF IndInv, SinkInv
<1>3. /\ current \in Seconds /\ files[current] # NoSession /\ switching # "header"
      /\ Final(files[current]) = Payload(record[w])
  BY <1>1, <1>2, Names DEF IndInv, SinkInv, TypeOK, WritersHaveASession, OpenEnd
<1>4. record[w] \in 0..MaxRecords /\ record[w] \in Records
  BY <1>1, <1>2 DEF IndInv, TypeOK, RecordsGiven
<1>5. ASSUME NEW piece \in {Crc(record[w]), Torn(record[w])}, AppendTo(current, piece)
      PROVE  /\ files' \in [Seconds -> Seq(Piece) \cup {NoSession}]
             /\ files'[current] # NoSession
             /\ Final(files'[current]).kind # "payload"
             /\ RecordsNeverInterleave'
  <2>1. piece \in Piece /\ piece.kind # "payload" /\ Final(files[current]).record = record[w]
    BY <1>3, <1>4, Pieces
  <2>2. QED
    BY <1>2, <1>3, <1>5, <2>1, AppendToFile
<1>6. WritersHaveASession' /\ WriterHolds' /\ Switching' /\ RecordsGiven'
  <2>1. \A v \in Recorders : recorder[v] = "payload" => v = w
    BY <1>1 DEF IndInv, WriterHolds
  <2>2. /\ recorder'[w] = "idle" /\ \A v \in Recorders : v # w => recorder'[v] = recorder[v]
        /\ readLocks' = readLocks \ {w} /\ writer' = NoSession
    BY <1>1, <1>2 DEF Leaves, TypeOK
  <2>3. WritersHaveASession'
    BY <1>1, <2>2 DEF IndInv, SinkInv, WritersHaveASession
  <2>4. WriterHolds'
    BY <2>1, <2>2, Names DEF WriterHolds
  <2>5. Switching' /\ RecordsGiven'
    BY <1>1, <1>3, <2>2 DEF IndInv, Switching, RecordsGiven
  <2>6. QED
    BY <2>3, <2>4, <2>5
<1>7. CASE /\ AppendTo(current, Crc(record[w]))
           /\ accepted' = accepted \cup {<<current, record[w]>>}
           /\ UNCHANGED <<faults, damaged>>
  <2>1. /\ files' \in [Seconds -> Seq(Piece) \cup {NoSession}]
        /\ files'[current] # NoSession /\ Final(files'[current]).kind # "payload"
        /\ RecordsNeverInterleave'
    BY <1>5, <1>7
  <2>2. accepted' \subseteq Seconds \X Records
    BY <1>2, <1>3, <1>4, <1>7 DEF TypeOK
  <2>3. TypeOK'
    BY <1>1, <1>2, <1>3, <1>7, <2>1, <2>2 DEF Leaves, TypeOK
  <2>4. OpenEnd'
    BY <1>1, <2>1 DEF OpenEnd, Leaves
  <2>5. QED
    BY <1>6, <2>1, <2>3, <2>4 DEF IndInv, SinkInv
<1>8. CASE /\ Fault /\ AppendTo(current, Torn(record[w])) /\ damaged' = damaged \cup {current}
           /\ UNCHANGED accepted
  <2>1. /\ files' \in [Seconds -> Seq(Piece) \cup {NoSession}]
        /\ files'[current] # NoSession /\ Final(files'[current]).kind # "payload"
        /\ RecordsNeverInterleave'
    BY <1>5, <1>8
  <2>2. faults' \in 0..MaxFaults /\ damaged' \subseteq Seconds
    BY <1>2, <1>3, <1>8, CaptureStorageAssumption DEF Fault, TypeOK
  <2>3. TypeOK'
    BY <1>1, <1>2, <1>3, <1>8, <2>1, <2>2 DEF Leaves, TypeOK
  <2>4. OpenEnd'
    BY <1>1, <2>1 DEF OpenEnd, Leaves
  <2>5. QED
    BY <1>6, <2>1, <2>3, <2>4 DEF IndInv, SinkInv
<1>9. QED
  BY <1>7, <1>8 DEF WriteCrc

-----------------------------------------------------------------------------
(* Time, death and the theorem. *)

LEMMA TickKeeps ==
  ASSUME IndInv, Tick
  PROVE  IndInv'
<1>1. /\ second' = second + 1 /\ second < MaxSecond
      /\ UNCHANGED <<files, current, readLocks, writer, switching, opened, recorder, record,
                     written, faults, ghost>>
  BY DEF Tick
<1>2. second' \in Seconds
  BY <1>1, CaptureStorageAssumption DEF IndInv, SinkInv, TypeOK, Seconds
<1>3. TypeOK'
  BY <1>1, <1>2 DEF IndInv, SinkInv, TypeOK, ghost
<1>4. WritersHaveASession' /\ RecordsNeverInterleave'
  BY <1>1 DEF IndInv, SinkInv, WritersHaveASession, RecordsNeverInterleave
<1>5. WriterHolds' /\ OpenEnd' /\ Switching' /\ RecordsGiven'
  BY <1>1 DEF IndInv, WriterHolds, OpenEnd, Switching, RecordsGiven
<1>6. QED
  BY <1>3, <1>4, <1>5 DEF IndInv, SinkInv

(* What a dead process leaves behind is not written to again.                  *)
LEMMA CrashKeeps ==
  ASSUME IndInv, Crash
  PROVE  IndInv'
<1>1. /\ current' = NoSession /\ readLocks' = {} /\ writer' = NoSession /\ switching' = "no"
      /\ opened' = NoSession /\ recorder' = [w \in Recorders |-> "idle"]
      /\ damaged' = damaged \cup ({current, opened} \cap Seconds)
      /\ UNCHANGED <<disk, record, written, accepted, overwritten>>
      /\ faults < MaxFaults /\ faults' = faults + 1
  BY DEF Crash, Fault
<1>2. faults' \in 0..MaxFaults
  BY <1>1, CaptureStorageAssumption DEF IndInv, SinkInv, TypeOK
<1>3. TypeOK'
  BY <1>1, <1>2 DEF IndInv, SinkInv, TypeOK, disk
<1>4. WritersHaveASession' /\ RecordsNeverInterleave'
  BY <1>1 DEF IndInv, SinkInv, WritersHaveASession, RecordsNeverInterleave, disk
<1>5. WriterHolds' /\ OpenEnd' /\ Switching' /\ RecordsGiven'
  BY <1>1, Names DEF WriterHolds, OpenEnd, Switching, RecordsGiven
<1>6. QED
  BY <1>3, <1>4, <1>5 DEF IndInv, SinkInv

LEMMA StutterKeeps ==
  ASSUME IndInv, UNCHANGED vars
  PROVE  IndInv'
<1>1. TypeOK' /\ WritersHaveASession' /\ RecordsNeverInterleave'
  BY DEF IndInv, SinkInv, TypeOK, WritersHaveASession, RecordsNeverInterleave, vars, disk, ghost
<1>2. WriterHolds' /\ OpenEnd' /\ Switching' /\ RecordsGiven'
  BY DEF IndInv, WriterHolds, OpenEnd, Switching, RecordsGiven, vars, disk
<1>3. QED
  BY <1>1, <1>2 DEF IndInv, SinkInv

(* The invariant holds initially and is kept by the switch, the recorders, every *)
(* failed write and the death of the process.                                 *)
THEOREM Inductive == Spec => []IndInv
<1>1. Init => IndInv
  BY InitEstablishes
<1>2. IndInv /\ [Next]_vars => IndInv'
  <2> SUFFICES ASSUME IndInv, [Next]_vars PROVE IndInv'
    OBVIOUS
  <2>1. CASE Switch
    BY <2>1, CallKeeps, OpenKeeps, HeaderKeeps, CloseKeeps DEF Switch
  <2>2. ASSUME NEW w \in Recorders, Record(w) PROVE IndInv'
    BY <2>2, DecideKeeps, EnterKeeps, PayloadKeeps, CrcKeeps DEF Record
  <2>3. CASE Tick \/ Crash
    BY <2>3, TickKeeps, CrashKeeps
  <2>4. CASE UNCHANGED vars
    BY <2>4, StutterKeeps
  <2>5. QED
    BY <2>1, <2>2, <2>3, <2>4 DEF Next
<1>3. QED
  BY <1>1, <1>2, PTL DEF Spec

(* A session is written by nobody but the recorders inside it, one whole record  *)
(* after the other, for any number of recorders and failures (StorageSink).     *)
THEOREM SinkCorrect == Spec => []SinkInv
<1>1. IndInv => SinkInv
  BY DEF IndInv
<1>2. QED
  BY <1>1, Inductive, PTL

-----------------------------------------------------------------------------
(* What the files hold.                                                      *)

(* The records with a checksum behind their payload, by their number in the file. *)
Pairs(pieces) == {k \in 1..Len(pieces) : 2 * k < Len(pieces)}

(* The records of a file, one after the other, the last one's checksum perhaps   *)
(* still to come.                                                            *)
Paired(pieces) ==
  /\ pieces # <<>> /\ pieces[1] = Header
  /\ \A k \in 1..Len(pieces) :
       /\ 2 * k <= Len(pieces) => pieces[2 * k].kind = "payload" /\ pieces[2 * k].record \in Records
       /\ 2 * k < Len(pieces) => pieces[2 * k + 1] = Crc(pieces[2 * k].record)

Checked(pieces) == {pieces[2 * k].record : k \in Pairs(pieces)}

(* A file that was opened once and that no write failed in.                   *)
Intact(f) == f \notin damaged \cup overwritten /\ files[f] # NoSession

WholeFile(f) ==
  /\ Paired(files[f])
  /\ Len(files[f]) % 2 = 1 \/ (current = f /\ writer # NoSession)
  /\ Checked(files[f]) = {r \in Records : <<f, r>> \in accepted}

NewFile(f) == files[f] = <<>> /\ opened = f /\ \A p \in accepted : p[1] # f

IntactFilesAreWhole == \A f \in Seconds : Intact(f) => NewFile(f) \/ WholeFile(f)

(* A record is given to one recorder, and written to one file.               *)
RecordsAreDistinct ==
  /\ \A v \in Recorders : recorder[v] # "idle" => record[v] <= written
  /\ \A v, w \in Recorders :
       v # w /\ recorder[v] # "idle" /\ recorder[w] # "idle" => record[v] # record[w]
  /\ \A p \in accepted :
       /\ p[2] <= written /\ files[p[1]] # NoSession
       /\ \A w \in Recorders : recorder[w] # "idle" => record[w] # p[2]
       /\ \A q \in accepted : p[2] = q[2] => p[1] = q[1]

Contents ==
  /\ IntactFilesAreWhole
  /\ RecordsAreDistinct
  /\ switching # "header" => opened = NoSession

(* Two writes keep the pairs: a payload behind whole pairs, and the checksum of   *)
(* the payload that came last.                                               *)
LEMMA AppendPayload ==
  ASSUME NEW pieces \in Seq(Piece), Paired(pieces), Len(pieces) % 2 = 1, NEW r \in Records
  PROVE  /\ Paired(Append(pieces, Payload(r)))
         /\ Checked(Append(pieces, Payload(r))) = Checked(pieces)
<1> DEFINE n == Len(pieces)
           longer == Append(pieces, Payload(r))
<1>1. /\ n \in Nat /\ Len(longer) = n + 1
      /\ longer[n + 1] = Payload(r) /\ \A i \in 1..n : longer[i] = pieces[i]
      /\ n >= 1
  BY DEF Paired, Payload
<1>2. /\ longer # <<>> /\ longer[1] = Header
  BY <1>1 DEF Paired
<1> HIDE DEF longer
<1>3. ASSUME NEW k \in 1..n + 1, 2 * k <= n + 1
      PROVE  longer[2 * k].kind = "payload" /\ longer[2 * k].record \in Records
  <2>1. CASE 2 * k = n + 1
    BY <1>1, <2>1 DEF Payload
  <2>2. CASE 2 * k < n + 1
    <3>1. k \in 1..n /\ 2 * k \in 1..n
      BY <1>1, <2>2
    <3>2. longer[2 * k] = pieces[2 * k]
      BY <1>1, <3>1
    <3>3. QED
      BY <3>1, <3>2 DEF Paired
  <2>3. QED
    BY <1>1, <1>3, <2>1, <2>2
<1>4. ASSUME NEW k \in 1..n + 1, 2 * k < n + 1
      PROVE  k \in 1..n /\ 2 * k < n /\ longer[2 * k] = pieces[2 * k]
              /\ longer[2 * k + 1] = pieces[2 * k + 1]
  BY <1>1, <1>4
<1>5. Paired(longer)
  <2>1. \A k \in 1..n + 1 : 2 * k < n + 1 => longer[2 * k + 1] = Crc(longer[2 * k].record)
    BY <1>4 DEF Paired
  <2>2. QED
    BY <1>1, <1>2, <1>3, <2>1 DEF Paired
<1>6. Checked(longer) = Checked(pieces)
  <2>1. Pairs(longer) = Pairs(pieces)
    BY <1>1, <1>4 DEF Pairs
  <2>2. \A k \in Pairs(pieces) : longer[2 * k] = pieces[2 * k]
    BY <1>1, <1>4 DEF Pairs
  <2>3. QED
    BY <2>1, <2>2 DEF Checked
<1>7. QED
  BY <1>5, <1>6 DEF longer

LEMMA Halves ==
  ASSUME NEW n \in Nat, n >= 1
  PROVE  /\ n % 2 = 0 => \E k \in 1..n : 2 * k = n
         /\ n % 2 = 1 /\ n # 1 => \E k \in 1..n : n = 2 * k + 1
<1>1. /\ n % 2 = 0 => n = 2 * (n \div 2) /\ n \div 2 \in 1..n
      /\ n % 2 = 1 /\ n # 1 => n = 2 * (n \div 2) + 1 /\ n \div 2 \in 1..n
  OBVIOUS
<1>2. QED
  BY <1>1

LEMMA AppendCrc ==
  ASSUME NEW pieces \in Seq(Piece), Paired(pieces), Final(pieces).kind = "payload"
  PROVE  LET r == Final(pieces).record IN
         /\ Paired(Append(pieces, Crc(r)))
         /\ Checked(Append(pieces, Crc(r))) = Checked(pieces) \cup {r}
         /\ Len(Append(pieces, Crc(r))) % 2 = 1
<1> DEFINE n == Len(pieces)
           r == Final(pieces).record
           longer == Append(pieces, Crc(r))
<1>1. /\ n \in Nat /\ Len(longer) = n + 1
      /\ longer[n + 1] = Crc(r) /\ \A i \in 1..n : longer[i] = pieces[i]
      /\ n >= 1
  BY DEF Paired
<1>2. PICK half \in 1..n : 2 * half = n
  <2>1. n % 2 = 0
    <3>1. SUFFICES ASSUME n % 2 = 1 PROVE FALSE
      BY <1>1
    <3>2. n # 1
      BY Pieces DEF Paired, Final
    <3>3. PICK k \in 1..n : n = 2 * k + 1
      BY <1>1, <3>1, <3>2, Halves
    <3>4. pieces[n] = Crc(pieces[2 * k].record)
      BY <1>1, <3>3 DEF Paired
    <3>5. QED
      BY <3>4, Pieces DEF Final
  <2>2. QED
    BY <1>1, <2>1, Halves
<1>3. longer # <<>> /\ longer[1] = Header /\ r = pieces[2 * half].record
  <2>1. longer # <<>> /\ longer[1] = Header
    BY <1>1 DEF Paired
  <2>2. r = pieces[n].record
    BY DEF Final
  <2>3. QED
    BY <1>2, <2>1, <2>2
<1> HIDE DEF longer, r
<1>4. ASSUME NEW k \in 1..n + 1, 2 * k <= n + 1
      PROVE  /\ k \in 1..n /\ 2 * k <= n /\ 2 * k \in 1..n /\ longer[2 * k] = pieces[2 * k]
             /\ 2 * k < n \/ k = half
  BY <1>1, <1>2, <1>4
<1>5. Paired(longer)
  <2>1. ASSUME NEW k \in 1..n + 1, 2 * k <= n + 1
        PROVE  longer[2 * k].kind = "payload" /\ longer[2 * k].record \in Records
    BY <1>4, <2>1 DEF Paired
  <2>2. ASSUME NEW k \in 1..n + 1, 2 * k < n + 1
        PROVE  longer[2 * k + 1] = Crc(longer[2 * k].record)
    <3>1. CASE k = half
      <4>1. longer[2 * k + 1] = Crc(r)
        BY <1>1, <1>2, <3>1
      <4>2. longer[2 * k].record = r
        BY <1>2, <1>3, <1>4, <2>2, <3>1
      <4>3. QED
        BY <4>1, <4>2
    <3>2. CASE 2 * k < n
      <4>1. pieces[2 * k + 1] = Crc(pieces[2 * k].record) /\ 2 * k + 1 \in 1..n
        BY <1>1, <1>4, <2>2, <3>2 DEF Paired
      <4>2. longer[2 * k + 1] = pieces[2 * k + 1]
        BY <1>1, <4>1
      <4>3. QED
        BY <1>4, <2>2, <4>1, <4>2
    <3>3. QED
      BY <1>1, <1>4, <2>2, <3>1, <3>2
  <2>3. QED
    BY <1>1, <1>3, <2>1, <2>2 DEF Paired
<1>6. Checked(longer) = Checked(pieces) \cup {r}
  <2>1. Pairs(longer) = Pairs(pieces) \cup {half}
    BY <1>1, <1>2, <1>4 DEF Pairs
  <2>2. \A k \in Pairs(longer) : longer[2 * k] = pieces[2 * k]
    BY <1>1, <1>4 DEF Pairs
  <2>3. QED
    BY <1>3, <2>1, <2>2 DEF Checked
<1>7. (n + 1) % 2 = 1
  BY <1>1, <1>2
<1>8. QED
  BY <1>1, <1>5, <1>6, <1>7 DEF longer, r

(* A file that is not written to, and whose writer has not stopped half way, is    *)
(* as whole as it was.                                                       *)
LEMMA FileUntouched ==
  ASSUME IntactFilesAreWhole, NEW f \in Seconds, files'[f] = files[f],
         (Intact(f))' => Intact(f), NewFile(f) => (NewFile(f))',
         \A r \in Records : <<f, r>> \in accepted' <=> <<f, r>> \in accepted,
         current = f /\ writer # NoSession => (current' = f /\ writer' # NoSession) \/ ~(Intact(f))'
  PROVE  (Intact(f))' => (NewFile(f))' \/ (WholeFile(f))'
  BY DEF IntactFilesAreWhole, WholeFile

LEMMA ContentsUntouched ==
  ASSUME Contents, UNCHANGED <<files, current, writer, opened, accepted, damaged, overwritten>>
  PROVE  IntactFilesAreWhole'
  BY DEF Contents, IntactFilesAreWhole, Intact, NewFile, WholeFile

LEMMA InitContents == Init => Contents
<1> SUFFICES ASSUME Init PROVE Contents
  OBVIOUS
<1>1. IntactFilesAreWhole
  BY DEF Init, IntactFilesAreWhole, Intact
<1>2. QED
  BY <1>1 DEF Init, Contents, RecordsAreDistinct

(* Opening and beginning a file.                                              *)
LEMMA OpenContents ==
  ASSUME IndInv, Contents, OpenFile
  PROVE  Contents'
<1>1. /\ switching = "enable" /\ opened = NoSession /\ current' = current /\ current = NoSession
      /\ UNCHANGED <<second, writer, recorder, record, written, accepted, damaged>>
      /\ second \in Seconds /\ files \in [Seconds -> Seq(Piece) \cup {NoSession}]
  BY DEF OpenFile, Contents, IndInv, SinkInv, TypeOK, Switching
<1>2. CASE UNCHANGED <<files, overwritten, opened>>
  BY <1>1, <1>2, ContentsUntouched DEF Contents, RecordsAreDistinct
<1>3. CASE /\ files' = [files EXCEPT ![second] = <<>>]
           /\ overwritten' = overwritten \cup (IF files[second] = NoSession THEN {} ELSE {second})
           /\ switching' = "header" /\ opened' = second
  <2>1. files'[second] = <<>> /\ \A f \in Seconds : f # second => files'[f] = files[f]
    BY <1>1, <1>3
  <2>2. ASSUME NEW f \in Seconds, (Intact(f))'
        PROVE  (NewFile(f))' \/ (WholeFile(f))'
    <3>1. CASE f = second
      <4>1. files[second] = NoSession
        BY <1>3, <2>2, <3>1 DEF Intact
      <4>2. \A p \in accepted : p[1] # second
        BY <4>1 DEF Contents, RecordsAreDistinct
      <4>3. QED
        BY <1>1, <1>3, <2>1, <3>1, <4>2 DEF NewFile
    <3>2. CASE f # second
      <4>1. ~NewFile(f) /\ current # f /\ Intact(f) /\ files'[f] = files[f]
        BY <1>1, <1>3, <2>1, <2>2, <3>2, Names DEF NewFile, Intact
      <4>2. QED
        BY <1>1, <2>2, <4>1, FileUntouched DEF Contents
    <3>3. QED
      BY <3>1, <3>2
  <2>3. RecordsAreDistinct'
    <3>1. \A p \in accepted : p[1] \in Seconds
      BY DEF IndInv, SinkInv, TypeOK
    <3>2. \A p \in accepted : files'[p[1]] # NoSession
      BY <2>1, <3>1, Names DEF Contents, RecordsAreDistinct
    <3>3. QED
      BY <1>1, <3>2 DEF Contents, RecordsAreDistinct
  <2>4. QED
    BY <1>3, <2>2, <2>3 DEF Contents, IntactFilesAreWhole
<1>4. QED
  BY <1>2, <1>3 DEF OpenFile

LEMMA HeaderContents ==
  ASSUME IndInv, Contents, WriteHeader
  PROVE  Contents'
<1>1. /\ switching' = "no" /\ opened' = NoSession /\ current = NoSession
      /\ opened \in Seconds /\ files[opened] = <<>>
      /\ files \in [Seconds -> Seq(Piece) \cup {NoSession}]
      /\ UNCHANGED <<writer, recorder, record, written, accepted, overwritten>>
  BY DEF WriteHeader, IndInv, SinkInv, TypeOK, Switching
<1>2. PICK piece \in {Header, Torn(0)} : AppendTo(opened, piece)
  BY DEF WriteHeader
<1>3. /\ files'[opened] = <<piece>> /\ \A f \in Seconds : f # opened => files'[f] = files[f]
  BY <1>1, <1>2 DEF AppendTo
<1>4. \/ piece = Header /\ current' = opened /\ damaged' = damaged
      \/ opened \in damaged' /\ damaged' = damaged \cup {opened}
  <2>1. CASE AppendTo(opened, Header) /\ current' = opened /\ UNCHANGED <<faults, damaged>>
    <3>1. files'[opened] = <<Header>>
      BY <1>1, <2>1 DEF AppendTo
    <3>2. QED
      BY <1>3, <2>1, <3>1
  <2>2. QED
    BY <2>1 DEF WriteHeader
<1>5. ASSUME NEW f \in Seconds, (Intact(f))'
      PROVE  (NewFile(f))' \/ (WholeFile(f))'
  <2>1. CASE f = opened
    <3>1. files'[f] = <<Header>> /\ f \notin damaged \cup overwritten
      BY <1>1, <1>3, <1>4, <1>5, <2>1 DEF Intact
    <3>2. NewFile(f)
      <4>1. Intact(f) /\ files[f] = <<>>
        BY <1>1, <2>1, <3>1, Names DEF Intact
      <4>2. QED
        BY <4>1 DEF Contents, IntactFilesAreWhole, WholeFile, Paired
    <3>3. Paired(<<Header>>) /\ Checked(<<Header>>) = {} /\ Len(<<Header>>) % 2 = 1
      BY DEF Paired, Checked, Pairs
    <3>4. {r \in Records : <<f, r>> \in accepted} = {}
      BY <3>2 DEF NewFile
    <3>5. QED
      BY <1>1, <3>1, <3>3, <3>4 DEF WholeFile
  <2>2. CASE f # opened
    <3>1. Intact(f) /\ ~NewFile(f) /\ files'[f] = files[f] /\ current # f
      BY <1>1, <1>3, <1>4, <1>5, <2>2, Names DEF Intact, NewFile
    <3>2. QED
      BY <1>1, <1>5, <3>1, FileUntouched DEF Contents
  <2>3. QED
    BY <2>1, <2>2
<1>6. RecordsAreDistinct'
  <2>1. \A p \in accepted : p[1] \in Seconds
    BY DEF IndInv, SinkInv, TypeOK
  <2>2. \A p \in accepted : files'[p[1]] # NoSession
    <3>1. <<piece>> # NoSession
      <4>1. piece \in Piece
        BY Pieces
      <4>2. <<piece>> \in Seq(Piece)
        BY <4>1
      <4>3. QED
        BY <4>2, Names
    <3>2. QED
      BY <1>3, <2>1, <3>1 DEF Contents, RecordsAreDistinct
  <2>3. QED
    BY <1>1, <2>2 DEF Contents, RecordsAreDistinct
<1>7. QED
  BY <1>1, <1>5, <1>6 DEF Contents, IntactFilesAreWhole
(* What changes no file.                                                     *)
LEMMA QuietContents ==
  ASSUME IndInv, Contents,
         \/ CallEnable \/ CallDisable \/ Tick
         \/ \E w \in Recorders : Decide(w) \/ EnterSink(w)
         \/ UNCHANGED vars
  PROVE  Contents'
<1>1. UNCHANGED <<files, current, writer, opened, accepted, damaged, overwritten>>
  BY DEF CallEnable, CallDisable, Tick, Decide, EnterSink, vars, disk, ghost
<1>2. IntactFilesAreWhole'
  BY <1>1, ContentsUntouched
<1>3. (switching # "header" => opened = NoSession)'
  <2>1. switching' = "header" => switching = "header"
    BY DEF CallEnable, CallDisable, Tick, Decide, EnterSink, vars
  <2>2. switching = "header" => switching' = "header"
    BY DEF CallEnable, CallDisable, Tick, Decide, EnterSink, vars
  <2>3. QED
    BY <1>1, <2>2 DEF Contents
<1>4. CASE \E w \in Recorders : Decide(w)
  <2> PICK w \in Recorders : Decide(w)
    BY <1>4
  <2>1. /\ written' = written + 1 /\ written \in Nat
        /\ record' = [record EXCEPT ![w] = written + 1]
        /\ recorder' = [recorder EXCEPT ![w] = "decided"]
        /\ record \in [Recorders -> 0..MaxRecords]
        /\ recorder \in [Recorders -> {"idle", "decided", "framed", "payload"}]
        /\ \A v \in Recorders : record[v] \in Nat
    BY CaptureStorageAssumption DEF Decide, IndInv, SinkInv, TypeOK
  <2>2. /\ record'[w] = written + 1
        /\ \A v \in Recorders : v # w => record'[v] = record[v] /\ recorder'[v] = recorder[v]
    BY <2>1
  <2>3. \A p \in accepted : p[2] <= written /\ p[2] \in Nat
    BY CaptureStorageAssumption DEF Contents, RecordsAreDistinct, IndInv, SinkInv, TypeOK, Records
  <2>4. QED
    BY <1>1, <1>2, <1>3, <2>1, <2>2, <2>3 DEF Contents, RecordsAreDistinct
<1>5. CASE \E w \in Recorders : EnterSink(w)
  <2> PICK w \in Recorders : EnterSink(w)
    BY <1>5
  <2>1. /\ UNCHANGED <<record, written>>
        /\ \A v \in Recorders : recorder'[v] # "idle" => recorder[v] # "idle"
    BY DEF EnterSink, IndInv, SinkInv, TypeOK
  <2>2. QED
    BY <1>1, <1>2, <1>3, <2>1 DEF Contents, RecordsAreDistinct
<1>6. CASE CallEnable \/ CallDisable \/ Tick \/ UNCHANGED vars
  <2>1. UNCHANGED <<record, written, recorder>>
    BY <1>6 DEF CallEnable, CallDisable, Tick, vars
  <2>2. QED
    BY <1>1, <1>2, <1>3, <2>1 DEF Contents, RecordsAreDistinct
<1>7. QED
  BY <1>4, <1>5, <1>6

(* A session that nobody is inside of has no half a record at its end.         *)
LEMMA CloseContents ==
  ASSUME IndInv, Contents, CloseSession
  PROVE  Contents'
<1>1. /\ readLocks = {} /\ current' = NoSession /\ switching' = "no"
      /\ switching = "disable"
      /\ UNCHANGED <<files, opened, writer, recorder, record, written, accepted, damaged,
                     overwritten>>
  BY DEF CloseSession, disk, ghost
<1>2. writer = NoSession
  BY <1>1 DEF IndInv, SinkInv, TypeOK, WritersHaveASession, WriterHolds
<1>3. ASSUME NEW f \in Seconds, (Intact(f))' PROVE (NewFile(f))' \/ (WholeFile(f))'
  <2>1. Intact(f) /\ (NewFile(f) => (NewFile(f))')
    BY <1>1, <1>3 DEF Intact, NewFile
  <2>2. QED
    BY <1>1, <1>2, <1>3, <2>1, FileUntouched DEF Contents
<1>4. QED
  BY <1>1, <1>3 DEF Contents, IntactFilesAreWhole, RecordsAreDistinct

(* A recorder's write to the open file.                                      *)
LEMMA WriteContents ==
  ASSUME IndInv, Contents, NEW w \in Recorders, WritePayload(w) \/ WriteCrc(w)
  PROVE  IntactFilesAreWhole'
<1>1. /\ current \in Seconds /\ files[current] \in Seq(Piece) /\ opened = NoSession
      /\ files \in [Seconds -> Seq(Piece) \cup {NoSession}]
      /\ record[w] \in Records
      /\ UNCHANGED <<current, opened, record, overwritten>>
  BY DEF WritePayload, WriteCrc, IndInv, SinkInv, TypeOK, WritersHaveASession, RecordsGiven, Contents
<1>2. ASSUME NEW f \in Seconds, f # current, (Intact(f))'
      PROVE  (WholeFile(f))'
  <2>1. files'[f] = files[f] /\ Intact(f)
    BY <1>1, <1>2 DEF WritePayload, WriteCrc, AppendTo, Intact
  <2>2. \A r \in Records : <<f, r>> \in accepted' <=> <<f, r>> \in accepted
    BY <1>2 DEF WritePayload, WriteCrc
  <2>3. ~(NewFile(f)) /\ ~(NewFile(f))'
    BY <1>1, Names DEF NewFile
  <2>4. QED
    BY <1>2, <2>1, <2>2, <2>3, FileUntouched DEF Contents
<1>3. ASSUME (Intact(current))'
      PROVE  (WholeFile(current))'
  <2>1. Intact(current) /\ WholeFile(current)
    <3>1. Intact(current)
      BY <1>1, <1>3, Names DEF Intact, WritePayload, WriteCrc
    <3>2. ~NewFile(current)
      BY <1>1, Names DEF NewFile
    <3>3. QED
      BY <1>1, <3>1, <3>2 DEF Contents, IntactFilesAreWhole
  <2>2. current \notin damaged' /\ current' = current
    BY <1>1, <1>3 DEF Intact
  <2>3. CASE WritePayload(w)
    <3>1. /\ files' = [files EXCEPT ![current] = Append(@, Payload(record[w]))]
          /\ writer = NoSession /\ writer' = w /\ accepted' = accepted
      BY <2>2, <2>3 DEF WritePayload, AppendTo
    <3>2. files'[current] = Append(files[current], Payload(record[w])) /\ writer' # NoSession
      BY <1>1, <3>1, Names
    <3>3. Paired(files[current]) /\ Len(files[current]) % 2 = 1
      BY <2>1, <3>1 DEF WholeFile
    <3>4. Paired(files'[current]) /\ Checked(files'[current]) = Checked(files[current])
      BY <1>1, <3>2, <3>3, AppendPayload
    <3>5. QED
      BY <2>1, <2>2, <3>1, <3>2, <3>4 DEF WholeFile
  <2>4. CASE WriteCrc(w)
    <3>1. /\ files' = [files EXCEPT ![current] = Append(@, Crc(record[w]))]
          /\ accepted' = accepted \cup {<<current, record[w]>>}
      BY <2>2, <2>4 DEF WriteCrc, AppendTo
    <3>2. files'[current] = Append(files[current], Crc(record[w]))
      BY <1>1, <3>1
    <3>3. Final(files[current]) = Payload(record[w])
      <4>1. writer = w
        BY <2>4 DEF WriteCrc, IndInv, WriterHolds
      <4>2. QED
        BY <1>1, <4>1, Names DEF IndInv, OpenEnd
    <3>4. Final(files[current]).kind = "payload" /\ Final(files[current]).record = record[w]
      BY <3>3 DEF Payload
    <3>5. /\ Paired(files'[current]) /\ Len(files'[current]) % 2 = 1
          /\ Checked(files'[current]) = Checked(files[current]) \cup {record[w]}
      BY <1>1, <2>1, <3>2, <3>4, AppendCrc DEF WholeFile
    <3>6. {r \in Records : <<current, r>> \in accepted'}
            = {r \in Records : <<current, r>> \in accepted} \cup {record[w]}
      BY <1>1, <3>1
    <3>7. QED
      BY <2>1, <2>2, <3>5, <3>6 DEF WholeFile
  <2>5. QED
    BY <2>3, <2>4
<1>4. QED
  BY <1>1, <1>2, <1>3 DEF IntactFilesAreWhole

LEMMA WriteDistinct ==
  ASSUME IndInv, Contents, NEW w \in Recorders, WritePayload(w) \/ WriteCrc(w)
  PROVE  RecordsAreDistinct'
<1>1. /\ current \in Seconds /\ UNCHANGED <<record, written>>
      /\ files[current] \in Seq(Piece) /\ files \in [Seconds -> Seq(Piece) \cup {NoSession}]
      /\ record[w] \in 0..MaxRecords
  BY DEF WritePayload, WriteCrc, IndInv, SinkInv, TypeOK, WritersHaveASession
<1>2. /\ \A v \in Recorders : recorder'[v] # "idle" => recorder[v] # "idle"
      /\ WriteCrc(w) => recorder'[w] = "idle"
      /\ recorder[w] # "idle"
  BY DEF WritePayload, WriteCrc, Leaves, IndInv, SinkInv, TypeOK
<1>3. PICK piece \in {Payload(record[w]), Crc(record[w]), Torn(record[w])} :
        files' = [files EXCEPT ![current] = Append(@, piece)]
  BY DEF WritePayload, WriteCrc, AppendTo
<1>4. \A f \in Seconds : files[f] # NoSession => files'[f] # NoSession
  <2>1. Append(files[current], piece) \in Seq(Piece)
    BY <1>1, Pieces
  <2>2. QED
    BY <1>1, <1>3, <2>1, Names
<1>5. \A p \in accepted : p[1] \in Seconds /\ p[2] \in Records
  BY DEF IndInv, SinkInv, TypeOK
<1>6. CASE UNCHANGED accepted
  BY <1>1, <1>2, <1>4, <1>5, <1>6 DEF Contents, RecordsAreDistinct
<1>7. CASE WriteCrc(w) /\ accepted' = accepted \cup {<<current, record[w]>>}
  <2>1. \A v \in Recorders : recorder'[v] # "idle" => record'[v] # record[w]
    BY <1>1, <1>2, <1>7 DEF Contents, RecordsAreDistinct
  <2>2. record[w] <= written /\ \A p \in accepted : p[2] # record[w]
    BY <1>2 DEF Contents, RecordsAreDistinct
  <2>3. files'[current] # NoSession
    BY <1>1, <1>4, Names
  <2>4. ASSUME NEW p \in accepted'
        PROVE  /\ p[2] <= written' /\ files'[p[1]] # NoSession
               /\ \A v \in Recorders : recorder'[v] # "idle" => record'[v] # p[2]
    <3>1. CASE p \in accepted
      BY <1>1, <1>2, <1>4, <1>5, <3>1 DEF Contents, RecordsAreDistinct
    <3>2. CASE p = <<current, record[w]>>
      BY <1>1, <2>1, <2>2, <2>3, <3>2
    <3>3. QED
      BY <1>7, <2>4, <3>1, <3>2
  <2>5. ASSUME NEW p \in accepted', NEW q \in accepted', p[2] = q[2]
        PROVE  p[1] = q[1]
    BY <1>7, <2>2, <2>5 DEF Contents, RecordsAreDistinct
  <2>6. QED
    BY <1>1, <1>2, <2>4, <2>5 DEF Contents, RecordsAreDistinct
<1>8. QED
  BY <1>6, <1>7 DEF WritePayload, WriteCrc

LEMMA CrashContents ==
  ASSUME IndInv, Contents, Crash
  PROVE  Contents'
<1>1. /\ current' = NoSession /\ opened' = NoSession /\ writer' = NoSession
      /\ recorder' = [w \in Recorders |-> "idle"]
      /\ damaged' = damaged \cup ({current, opened} \cap Seconds)
      /\ UNCHANGED <<files, record, written, accepted, overwritten>>
  BY DEF Crash, disk
<1>2. ASSUME NEW f \in Seconds, (Intact(f))' PROVE (WholeFile(f))'
  <2>1. Intact(f) /\ f # current /\ f # opened
    BY <1>1, <1>2 DEF Intact
  <2>2. ~NewFile(f) /\ ~(NewFile(f))'
    BY <1>1, <2>1, Names DEF NewFile
  <2>3. QED
    BY <1>1, <1>2, <2>1, <2>2, FileUntouched DEF Contents
<1>3. RecordsAreDistinct'
  BY <1>1 DEF Contents, RecordsAreDistinct
<1>4. QED
  BY <1>1, <1>2, <1>3 DEF Contents, IntactFilesAreWhole

LEMMA OddHalves ==
  ASSUME NEW n \in Nat, n % 2 = 1
  PROVE  /\ 1..n \div 2 = {k \in 1..n : 2 * k < n}
         /\ \A k \in 1..n \div 2 : \A m \in 1..k : m \in 1..n \div 2
  OBVIOUS

(* What the reader makes of a whole file.                                     *)
LEMMA WholeFileIsRead ==
  ASSUME NEW f \in Seconds, files[f] \in Seq(Piece), Paired(files[f]), Len(files[f]) % 2 = 1
  PROVE  ReadsWithoutError(f) /\ RecordsRead(f) = Checked(files[f])
<1> DEFINE pieces == files[f]
           half == Len(pieces) \div 2
<1>1. Len(pieces) \in Nat
  OBVIOUS
<1>2. 1..half = Pairs(pieces) /\ \A k \in 1..half : \A m \in 1..k : m \in 1..half
  BY <1>1, OddHalves DEF Pairs
<1> HIDE DEF half
<1>3. \A k \in Pairs(pieces) : Complete(pieces, 2 * k)
  BY DEF Complete, Paired, Pairs
<1>4. ReadsWithoutError(f)
  BY <1>2, <1>3 DEF ReadsWithoutError, Paired, half
<1>5. {k \in 1..half : \A m \in 1..k : Complete(pieces, 2 * m)} = Pairs(pieces)
  BY <1>2, <1>3
<1>6. RecordsRead(f) = Checked(pieces)
  BY <1>5 DEF RecordsRead, Checked, Paired, half
<1>7. QED
  BY <1>4, <1>6

(* Once a file is closed, or nobody is inside its session, and no write failed    *)
(* in it, it reads as exactly the records that were accepted (storage_sink.go,   *)
(* capture_session_reader.go).                                               *)
THEOREM FilesAreWhole == Spec => []UndamagedFilesAreWhole
<1>1. Init => Contents
  BY InitContents
<1>2. IndInv /\ Contents /\ [Next]_vars => Contents'
  <2> SUFFICES ASSUME IndInv, Contents, [Next]_vars PROVE Contents'
    OBVIOUS
  <2>1. CASE OpenFile \/ WriteHeader \/ CloseSession \/ Crash
    BY <2>1, OpenContents, HeaderContents, CloseContents, CrashContents
  <2>2. ASSUME NEW w \in Recorders, WritePayload(w) \/ WriteCrc(w) PROVE Contents'
    <3>1. (switching # "header" => opened = NoSession)'
      BY <2>2 DEF WritePayload, WriteCrc, Contents
    <3>2. QED
      BY <2>2, <3>1, WriteContents, WriteDistinct DEF Contents
  <2>3. CASE \/ CallEnable \/ CallDisable \/ Tick
             \/ \E w \in Recorders : Decide(w) \/ EnterSink(w)
             \/ UNCHANGED vars
    BY <2>3, QuietContents
  <2>4. QED
    BY <2>1, <2>2, <2>3 DEF Next, Switch, Record
<1>3. IndInv /\ Contents => UndamagedFilesAreWhole
  <2> SUFFICES ASSUME IndInv, Contents, NEW f \in Seconds \ (damaged \cup overwritten),
                      files[f] # NoSession, f # opened, current = f => readLocks = {}
               PROVE  /\ ReadsWithoutError(f)
                      /\ RecordsRead(f) = {r \in Records : <<f, r>> \in accepted}
                      /\ \A g \in Seconds \ {f} : \A r \in RecordsRead(f) : <<g, r>> \notin accepted
    BY DEF UndamagedFilesAreWhole
  <2>1. WholeFile(f) /\ files[f] \in Seq(Piece)
    BY DEF Contents, IntactFilesAreWhole, Intact, NewFile, IndInv, SinkInv, TypeOK
  <2>2. current = f => writer = NoSession
    BY DEF IndInv, SinkInv, TypeOK, WritersHaveASession, WriterHolds
  <2>3. ReadsWithoutError(f) /\ RecordsRead(f) = {r \in Records : <<f, r>> \in accepted}
    BY <2>1, <2>2, WholeFileIsRead DEF WholeFile
  <2>4. \A p, q \in accepted : p[2] = q[2] => p[1] = q[1]
    BY DEF Contents, RecordsAreDistinct
  <2>5. ASSUME NEW g \in Seconds \ {f}, NEW r \in RecordsRead(f), <<g, r>> \in accepted PROVE FALSE
    BY <2>3, <2>4, <2>5
  <2>6. QED
    BY <2>3, <2>5
<1>4. QED
  BY <1>1, <1>2, <1>3, Inductive, PTL DEF Spec
=============================================================================
