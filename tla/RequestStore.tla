----------------------------- MODULE RequestStore -----------------------------
(***************************************************************************)
(* The in-memory store of recent exchanges (storage/request_store.go).  The *)
(* proxy's connection goroutines put the parts of an exchange into it, the  *)
(* Web UI reads and clears it.  Every method runs under the store's lock,   *)
(* so each is one action; a part of an exchange may arrive late, after the  *)
(* exchange was evicted or the store was cleared.                           *)
(***************************************************************************)
EXTENDS Integers, Sequences, FiniteSets

CONSTANTS
  Ids,      \* correlation ids
  Records,  \* contents of a request, response or timing record
  Absent,   \* a nil pointer, and an id without an entry
  Max       \* the size NewRequestStore is asked for

ASSUME RequestStoreAssumption ==
  /\ Max \in Int
  /\ Absent \notin Records
  /\ Absent \notin [{"request", "response", "timing"} -> Records \cup {Absent}]

Parts == {"request", "response", "timing"}

VARIABLES
  queue,   \* ids in order of insertion, oldest first
  entries  \* the map, Absent where it has no entry

vars == <<queue, entries>>

Bound == IF Max < 1 THEN 1 ELSE Max

Exchange == [Parts -> Records \cup {Absent}]

Init ==
  /\ queue = <<>>
  /\ entries = [id \in Ids |-> Absent]

Held == {id \in Ids : entries[id] # Absent}

(* The ids enqueue drops from a queue that has grown too long. *)
Surplus(q) == IF Len(q) > Bound THEN Len(q) - Bound ELSE 0

(* Mutant: an evicted id stays in the map. *)
EnqueueKeepingEntries(id, exchange) ==
  LET grown == Append(queue, id) IN
  /\ queue' = SubSeq(grown, Surplus(grown) + 1, Len(grown))
  /\ entries' = [entries EXCEPT ![id] = exchange]

Enqueue(id, exchange) ==
  LET grown   == Append(queue, id)
      evicted == {grown[i] : i \in 1..Surplus(grown)}
  IN  /\ queue' = SubSeq(grown, Surplus(grown) + 1, Len(grown))
      /\ entries' = [other \in Ids |->
                       IF other \in evicted THEN Absent
                       ELSE IF other = id THEN exchange ELSE entries[other]]

(* Mutants: a new entry has the one part only; a late part makes its        *)
(* exchange the youngest.                                                  *)
PutOnePart(part, id, record) ==
  IF id \in Held
  THEN entries' = [entries EXCEPT ![id][part] = record] /\ UNCHANGED queue
  ELSE Enqueue(id, [p \in {part} |-> record])

PutAndRenew(part, id, record) ==
  IF id \in Held
  THEN /\ entries' = [entries EXCEPT ![id][part] = record]
       /\ queue' = Append(SelectSeq(queue, LAMBDA other : other # id), id)
  ELSE Enqueue(id, [p \in Parts |-> IF p = part THEN record ELSE Absent])

(* PutRequest, PutResponse and PutTiming differ only in the field they set. *)
Put(part, id, record) ==
  IF id \in Held
  THEN /\ entries' = [entries EXCEPT ![id][part] = record]
       /\ UNCHANGED queue
  ELSE Enqueue(id, [p \in Parts |-> IF p = part THEN record ELSE Absent])

PutRequest(id, record)  == Put("request", id, record)
PutResponse(id, record) == Put("response", id, record)
PutTiming(id, record)   == Put("timing", id, record)

Clear ==
  /\ queue' = <<>>
  /\ entries' = [id \in Ids |-> Absent]

Next ==
  \/ \E id \in Ids, record \in Records :
       PutRequest(id, record) \/ PutResponse(id, record) \/ PutTiming(id, record)
  \/ Clear

Spec == Init /\ [][Next]_vars

-----------------------------------------------------------------------------
(* The shape of queue and map. *)
TypeOK ==
  /\ queue \in Seq(Ids)
  /\ entries \in [Ids -> Exchange \cup {Absent}]

(* The queue names every exchange the map holds exactly once and nothing    *)
(* else: an id queued twice would delete a live exchange when its first     *)
(* mention is evicted, an id missing from it would never be evicted.        *)
QueueMatchesEntries ==
  /\ \A id \in Ids : id \in Held <=> \E i \in DOMAIN queue : queue[i] = id
  /\ \A i, j \in DOMAIN queue : queue[i] = queue[j] => i = j

(* NewRequestStore: the store never holds more than the size it was given,  *)
(* counted as Len counts it, in the map.                                    *)
Bounded == Cardinality(Held) <= Bound

(* The store implements the exchange log: eviction is first in first out,   *)
(* a late part starts the exchange anew, and nothing else is ever dropped.  *)
Log == INSTANCE ExchangeLog WITH
  Max <- Bound,
  log <- [i \in DOMAIN queue |-> [id |-> queue[i], parts |-> entries[queue[i]]]]

ImplementsLog == Log!Spec
=============================================================================
